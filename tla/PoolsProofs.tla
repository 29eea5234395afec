----------------------------- MODULE PoolsProofs -----------------------------
(***************************************************************************)
(* Pools, for any ids, configuration and seed file.  The cascade needs the *)
(* type, which says that the pool under deletion is still there; the other *)
(* invariants follow one by one.                                           *)
(***************************************************************************)
EXTENDS Pools, TLAPS

USE PoolsAssumption

-----------------------------------------------------------------------------
(* Deleting a key of a store.                                               *)

LEMMA DeleteStore ==
  ASSUME NEW S, NEW f, f \in [DOMAIN f -> S], NEW k
  PROVE  /\ DOMAIN Delete(f, k) = DOMAIN f \ {k}
         /\ Delete(f, k) \in [DOMAIN f \ {k} -> S]
         /\ \A x \in DOMAIN f : x # k => Delete(f, k)[x] = f[x]
BY DEF Delete, Restrict

-----------------------------------------------------------------------------
(* The type.                                                                *)

LEMMA InitType == Init => TypeOK
<1> SUFFICES ASSUME Init PROVE TypeOK
  OBVIOUS
<1>1. \A S : DOMAIN Empty = {} /\ Empty \in [DOMAIN Empty -> S]
  BY DEF Empty
<1>2. deleting = None /\ phase \in Phases
  BY DEF Init, Phases
<1> QED
  BY <1>1, <1>2 DEF Init, TypeOK

\* A start puts pools, users and clients of the configuration.
LEMMA StartType == TypeOK /\ Start => TypeOK'
<1> SUFFICES ASSUME TypeOK, Start PROVE TypeOK'
  OBVIOUS
<1>1. deleting = None
  BY DEF TypeOK, Start, PutConfiguredPool, PoolsPut, PutSeedUser, UsersPut, PutConfiguredClient, ClientsPut
<1>2. ASSUME NEW p \in PoolIds, PutConfiguredPool(p) PROVE TypeOK'
  <2>1. pools' = Set(pools, p, ConfigPools[p]) /\ ConfigPools[p] \in Versions
    BY <1>2 DEF PutConfiguredPool
  <2>2. DOMAIN pools' \subseteq PoolIds /\ pools' \in [DOMAIN pools' -> Versions]
    BY <2>1 DEF Set, TypeOK
  <2> QED
    BY <1>1, <1>2, <2>2 DEF PutConfiguredPool, TypeOK
<1>3. CASE PoolsPut \/ UsersPut \/ ClientsPut
  BY <1>1, <1>3 DEF PoolsPut, UsersPut, ClientsPut, TypeOK, Phases
<1>4. ASSUME NEW u \in Seeds, PutSeedUser(u) PROVE TypeOK'
  BY <1>1, <1>4 DEF PutSeedUser, TypeOK
<1>5. ASSUME NEW c \in ClientIds, PutConfiguredClient(c) PROVE TypeOK'
  <2>1. clients' = Set(clients, c, ConfigClients[c]) /\ ConfigClients[c] \in Client
    BY <1>5 DEF PutConfiguredClient
  <2>2. DOMAIN clients' \subseteq ClientIds /\ clients' \in [DOMAIN clients' -> Client]
    BY <2>1 DEF Set, TypeOK
  <2> QED
    BY <1>1, <1>5, <2>2 DEF PutConfiguredClient, TypeOK
<1> QED
  BY <1>2, <1>3, <1>4, <1>5 DEF Start

\* The pool under deletion stays until the last write of its cascade.
LEMMA CascadeType == TypeOK /\ Cascade => TypeOK'
<1> SUFFICES ASSUME TypeOK, Cascade PROVE TypeOK'
  OBVIOUS
<1>1. ASSUME NEW p \in PoolIds, DeleteUserPool(p) PROVE TypeOK'
  BY <1>1 DEF DeleteUserPool, Serving, TypeOK
<1>2. ASSUME NEW c \in ClientIds, CascadeToClient(c) PROVE TypeOK'
  <2>1. DOMAIN clients' \subseteq ClientIds /\ clients' \in [DOMAIN clients' -> Client]
    BY <1>2, DeleteStore DEF CascadeToClient, TypeOK
  <2>2. DOMAIN saidClients' \subseteq ClientIds /\ saidClients' \in [DOMAIN saidClients' -> Versions]
    BY <1>2, DeleteStore DEF CascadeToClient, TypeOK
  <2> QED
    BY <1>2, <2>1, <2>2 DEF CascadeToClient, TypeOK
<1>3. ASSUME NEW u \in PoolIds \X Usernames, CascadeToUser(u) PROVE TypeOK'
  BY <1>3 DEF CascadeToUser, TypeOK
<1>4. CASE CascadeToPool
  <2>1. DOMAIN pools' \subseteq PoolIds /\ pools' \in [DOMAIN pools' -> Versions]
    BY <1>4, DeleteStore DEF CascadeToPool, TypeOK
  <2> QED
    BY <1>4, <2>1 DEF CascadeToPool, TypeOK
<1> QED
  BY <1>1, <1>2, <1>3, <1>4 DEF Cascade

LEMMA NextType == TypeOK /\ [Next]_vars => TypeOK'
<1> SUFFICES ASSUME TypeOK, [Next]_vars PROVE TypeOK'
  OBVIOUS
<1>1. CASE Restart
  BY <1>1 DEF Restart, TypeOK, Phases
<1>2. ASSUME NEW p \in PoolIds, NEW v \in Versions, CreateUserPool(p, v) \/ UpdateUserPool(p, v)
      PROVE  TypeOK'
  <2>1. pools' = Set(pools, p, v) /\ deleting = None
    BY <1>2 DEF CreateUserPool, UpdateUserPool, Serving
  <2>2. DOMAIN pools' \subseteq PoolIds /\ pools' \in [DOMAIN pools' -> Versions]
    BY <2>1 DEF Set, TypeOK
  <2> QED
    BY <1>2, <2>1, <2>2 DEF CreateUserPool, UpdateUserPool, TypeOK
<1>3. ASSUME NEW p \in PoolIds, NEW c \in ClientIds, NEW v \in Versions, CreateUserPoolClient(p, c, v)
      PROVE  TypeOK'
  <2>1. [userPoolId |-> p, settings |-> v] \in Client
    BY DEF Client
  <2>2. DOMAIN clients' \subseteq ClientIds /\ clients' \in [DOMAIN clients' -> Client]
    BY <1>3, <2>1 DEF Set, CreateUserPoolClient, TypeOK
  <2>3. DOMAIN saidClients' \subseteq ClientIds /\ saidClients' \in [DOMAIN saidClients' -> Versions]
    BY <1>3 DEF Set, CreateUserPoolClient, TypeOK
  <2> QED
    BY <1>3, <2>2, <2>3 DEF CreateUserPoolClient, TypeOK
<1>4. ASSUME NEW c \in ClientIds, NEW v \in Versions, UpdateUserPoolClient(c, v)
      PROVE  TypeOK'
  <2>1. [clients[c] EXCEPT !.settings = v] \in Client
    BY <1>4 DEF UpdateUserPoolClient, TypeOK, Client
  <2>2. DOMAIN clients' \subseteq ClientIds /\ clients' \in [DOMAIN clients' -> Client]
    BY <1>4, <2>1 DEF Set, UpdateUserPoolClient, TypeOK
  <2>3. DOMAIN saidClients' \subseteq ClientIds /\ saidClients' \in [DOMAIN saidClients' -> Versions]
    BY <1>4 DEF Set, UpdateUserPoolClient, TypeOK
  <2> QED
    BY <1>4, <2>2, <2>3 DEF UpdateUserPoolClient, TypeOK
<1>5. ASSUME NEW c \in ClientIds, DeleteUserPoolClient(c) PROVE TypeOK'
  <2>1. DOMAIN clients' \subseteq ClientIds /\ clients' \in [DOMAIN clients' -> Client]
    BY <1>5, DeleteStore DEF DeleteUserPoolClient, TypeOK
  <2>2. DOMAIN saidClients' \subseteq ClientIds /\ saidClients' \in [DOMAIN saidClients' -> Versions]
    BY <1>5, DeleteStore DEF DeleteUserPoolClient, TypeOK
  <2> QED
    BY <1>5, <2>1, <2>2 DEF DeleteUserPoolClient, TypeOK
<1>6. ASSUME NEW c \in ClientIds, NEW name \in Usernames, SignUp(c, name) PROVE TypeOK'
  BY <1>6 DEF SignUp, TypeOK
<1>7. ASSUME NEW p \in PoolIds, NEW name \in Usernames, AdminCreateUser(p, name) PROVE TypeOK'
  BY <1>7 DEF AdminCreateUser, TypeOK
<1>8. ASSUME NEW u \in users, DeleteUser(u) PROVE TypeOK'
  BY <1>8 DEF DeleteUser, TypeOK
<1>9. CASE UNCHANGED vars
  BY <1>9 DEF vars, TypeOK
<1> QED
  BY <1>1, <1>2, <1>3, <1>4, <1>5, <1>6, <1>7, <1>8, <1>9, StartType, CascadeType DEF Next

\* The state keeps its type; a pool under deletion is there until the end.
THEOREM TypeCorrect == Spec => []TypeOK
BY InitType, NextType, PTL DEF Spec

-----------------------------------------------------------------------------
(* Clients, users and their pools.                                          *)

\* A start that has put its pools keeps them, so that the seed users and the
\* clients it puts next find theirs.
ConfiguredPoolsThere ==
  phase \in {"users", "clients"} => DOMAIN ConfigPools \subseteq DOMAIN pools

IInv == TypeOK /\ ConfiguredPoolsThere /\ ClientsHavePools /\ UsersHavePools

\* Apart from the end of a cascade no step takes a pool away, and the end of a
\* cascade takes one that has neither client nor user.
LEMMA PoolsStay ==
  ASSUME TypeOK, [Next]_vars, NEW p \in DOMAIN pools
  PROVE  \/ p \in DOMAIN pools'
         \/ /\ ClientsOf(p) = {}
            /\ UsersOf(p) = {}
            /\ UNCHANGED <<clients, users, phase>>
            /\ phase = "running"
<1>1. CASE CascadeToPool
  BY <1>1, DeleteStore DEF CascadeToPool, TypeOK
<1>2. CASE ~CascadeToPool
  BY <1>2 DEF Next, vars, Set, Start, PutConfiguredPool, PoolsPut, PutSeedUser, UsersPut,
       PutConfiguredClient, ClientsPut, Restart, CreateUserPool, UpdateUserPool,
       CreateUserPoolClient, UpdateUserPoolClient, DeleteUserPoolClient, SignUp,
       AdminCreateUser, DeleteUser, Cascade, DeleteUserPool, CascadeToClient, CascadeToUser
<1> QED
  BY <1>1, <1>2

LEMMA NextConfigured == TypeOK /\ ConfiguredPoolsThere /\ [Next]_vars => ConfiguredPoolsThere'
<1> SUFFICES ASSUME TypeOK, ConfiguredPoolsThere, [Next]_vars,
                    phase' \in {"users", "clients"}, NEW p \in DOMAIN ConfigPools
             PROVE  p \in DOMAIN pools'
  BY DEF ConfiguredPoolsThere
<1>1. p \in DOMAIN pools
  BY DEF ConfiguredPoolsThere, TypeOK, Next, vars, Start, PutConfiguredPool, PoolsPut, PutSeedUser,
         UsersPut, PutConfiguredClient, ClientsPut, Restart, CreateUserPool, UpdateUserPool,
         CreateUserPoolClient, UpdateUserPoolClient, DeleteUserPoolClient, SignUp, Serving,
         AdminCreateUser, DeleteUser, Cascade, DeleteUserPool, CascadeToClient, CascadeToUser,
         CascadeToPool
<1> QED
  BY <1>1, PoolsStay

\* A client that a step adds or changes has its pool before the step.
LEMMA ClientsStep ==
  ASSUME IInv, [Next]_vars, NEW c \in DOMAIN clients'
  PROVE  \/ clients'[c].userPoolId \in DOMAIN pools /\ ~CascadeToPool
         \/ c \in DOMAIN clients /\ clients'[c] = clients[c]
<1>t. clients \in [DOMAIN clients -> Client] /\ deleting # None => phase = "running"
  BY DEF IInv, TypeOK
<1>1. ASSUME NEW k \in ClientIds, PutConfiguredClient(k)
      PROVE  \/ clients'[c].userPoolId \in DOMAIN pools /\ ~CascadeToPool
             \/ c \in DOMAIN clients /\ clients'[c] = clients[c]
  <2>1. ConfigClients[k].userPoolId \in DOMAIN pools
    BY <1>1 DEF PutConfiguredClient, IInv, ConfiguredPoolsThere
  <2>2. ~CascadeToPool
    BY <1>1 DEF PutConfiguredClient, CascadeToPool, IInv, TypeOK
  <2> QED
    BY <1>1, <2>1, <2>2 DEF PutConfiguredClient, Set
<1>2. ASSUME NEW p \in PoolIds, NEW k \in ClientIds, NEW v \in Versions, CreateUserPoolClient(p, k, v)
      PROVE  \/ clients'[c].userPoolId \in DOMAIN pools /\ ~CascadeToPool
             \/ c \in DOMAIN clients /\ clients'[c] = clients[c]
  BY <1>2 DEF CreateUserPoolClient, Serving, CascadeToPool, Set
<1>3. ASSUME NEW k \in ClientIds, NEW v \in Versions, UpdateUserPoolClient(k, v)
      PROVE  \/ clients'[c].userPoolId \in DOMAIN pools /\ ~CascadeToPool
             \/ c \in DOMAIN clients /\ clients'[c] = clients[c]
  <2>1. [clients[k] EXCEPT !.settings = v].userPoolId = clients[k].userPoolId
    BY <1>3, <1>t DEF UpdateUserPoolClient, Client
  <2>2. clients[k].userPoolId \in DOMAIN pools
    BY <1>3 DEF UpdateUserPoolClient, IInv, ClientsHavePools
  <2> QED
    BY <1>3, <2>1, <2>2 DEF UpdateUserPoolClient, Serving, CascadeToPool, Set
<1>4. ASSUME NEW k \in ClientIds, DeleteUserPoolClient(k) \/ CascadeToClient(k)
      PROVE  c \in DOMAIN clients /\ clients'[c] = clients[c]
  <2>1. clients' = Delete(clients, k)
    BY <1>4 DEF DeleteUserPoolClient, CascadeToClient
  <2> QED
    BY <2>1, <1>t DEF Delete, Restrict
<1>5. CASE UNCHANGED clients
  BY <1>5
<1> QED
  BY <1>1, <1>2, <1>3, <1>4, <1>5
     DEF Next, vars, Start, PutConfiguredPool, PoolsPut, PutSeedUser, UsersPut, ClientsPut, Restart,
         CreateUserPool, UpdateUserPool, SignUp, AdminCreateUser, DeleteUser, Cascade,
         DeleteUserPool, CascadeToUser, CascadeToPool

LEMMA NextClients == IInv /\ [Next]_vars => ClientsHavePools'
<1> SUFFICES ASSUME IInv, [Next]_vars, NEW c \in DOMAIN clients'
             PROVE  clients'[c].userPoolId \in DOMAIN pools'
  BY DEF ClientsHavePools
<1>1. CASE c \in DOMAIN clients /\ clients'[c] = clients[c]
  <2>1. clients[c].userPoolId \in DOMAIN pools /\ c \in ClientsOf(clients[c].userPoolId)
    BY <1>1 DEF IInv, ClientsHavePools, ClientsOf
  <2> QED
    BY <1>1, <2>1, PoolsStay DEF IInv
<1>2. CASE clients'[c].userPoolId \in DOMAIN pools /\ ~CascadeToPool
  <2>1. DOMAIN pools \subseteq DOMAIN pools'
    BY <1>2 DEF Next, vars, Set, Start, PutConfiguredPool, PoolsPut, PutSeedUser, UsersPut,
         PutConfiguredClient, ClientsPut, Restart, CreateUserPool, UpdateUserPool,
         CreateUserPoolClient, UpdateUserPoolClient, DeleteUserPoolClient, SignUp,
         AdminCreateUser, DeleteUser, Cascade, DeleteUserPool, CascadeToClient, CascadeToUser
  <2> QED
    BY <1>2, <2>1
<1> QED
  BY <1>1, <1>2, ClientsStep

\* A user that a step adds has its pool before the step, or is a stray.
LEMMA UsersStep ==
  ASSUME IInv, [Next]_vars, NEW u \in users' \ users
  PROVE  u[1] \in DOMAIN pools \/ u \in Strays
<1>1. ASSUME NEW s \in Seeds, PutSeedUser(s) PROVE u[1] \in DOMAIN pools \/ u \in Strays
  BY <1>1 DEF PutSeedUser, IInv, ConfiguredPoolsThere, Strays
<1>2. ASSUME NEW c \in ClientIds, NEW name \in Usernames, SignUp(c, name) PROVE u[1] \in DOMAIN pools
  BY <1>2 DEF SignUp
<1>3. ASSUME NEW p \in PoolIds, NEW name \in Usernames, AdminCreateUser(p, name)
      PROVE  u[1] \in DOMAIN pools
  BY <1>3 DEF AdminCreateUser
<1> QED
  BY <1>1, <1>2, <1>3
     DEF Next, vars, Start, PutConfiguredPool, PoolsPut, UsersPut, PutConfiguredClient, ClientsPut,
         Restart, CreateUserPool, UpdateUserPool, CreateUserPoolClient, UpdateUserPoolClient,
         DeleteUserPoolClient, DeleteUser, Cascade, DeleteUserPool, CascadeToClient, CascadeToUser,
         CascadeToPool

LEMMA NextUsers == IInv /\ [Next]_vars => UsersHavePools'
<1> SUFFICES ASSUME IInv, [Next]_vars, NEW u \in users' \ Strays
             PROVE  u[1] \in DOMAIN pools'
  BY DEF UsersHavePools, Strays
<1>1. CASE u \in users
  <2>1. u[1] \in DOMAIN pools /\ u \in UsersOf(u[1])
    BY <1>1 DEF IInv, UsersHavePools, UsersOf
  <2> QED
    BY <2>1, PoolsStay DEF IInv
<1>2. CASE u \notin users
  BY <1>2, UsersStep, PoolsStay DEF IInv
<1> QED
  BY <1>1, <1>2

LEMMA InitInv == Init => IInv
<1> SUFFICES ASSUME Init PROVE IInv
  OBVIOUS
<1>1. ConfiguredPoolsThere /\ ClientsHavePools /\ UsersHavePools
  BY DEF Init, Empty, ConfiguredPoolsThere, ClientsHavePools, UsersHavePools
<1> QED
  BY <1>1, InitType DEF IInv

\* Wherever cascades, starts and the process are cut, no client is left without
\* a pool, and no user except seed users of pools that are not configured.
THEOREM PoolsStand == Spec => []NothingDangles
<1>1. IInv /\ [Next]_vars => IInv'
  BY NextType, NextConfigured, NextClients, NextUsers DEF IInv
<1>2. IInv => NothingDangles
  BY DEF IInv, NothingDangles
<1> QED
  BY InitInv, <1>1, <1>2, PTL DEF Spec

-----------------------------------------------------------------------------
(* The settings of clients.                                                 *)

LEMMA NextSettings == TypeOK /\ ClientSettingsSurvive /\ [Next]_vars => ClientSettingsSurvive'
<1> SUFFICES ASSUME TypeOK, ClientSettingsSurvive, [Next]_vars, NEW c \in DOMAIN saidClients'
             PROVE  c \in DOMAIN clients' /\ clients'[c].settings = saidClients'[c]
  BY DEF ClientSettingsSurvive
<1>t. clients \in [DOMAIN clients -> Client] /\ saidClients \in [DOMAIN saidClients -> Versions]
  BY DEF TypeOK
<1>1. ASSUME NEW k \in ClientIds, PutConfiguredClient(k)
      PROVE  c \in DOMAIN clients' /\ clients'[c].settings = saidClients'[c]
  <2>1. c \in DOMAIN clients /\ c # k
    BY <1>1 DEF PutConfiguredClient, ClientSettingsSurvive
  <2> QED
    BY <1>1, <2>1 DEF PutConfiguredClient, Set, ClientSettingsSurvive
<1>2. ASSUME NEW p \in PoolIds, NEW k \in ClientIds, NEW v \in Versions, CreateUserPoolClient(p, k, v)
      PROVE  c \in DOMAIN clients' /\ clients'[c].settings = saidClients'[c]
  BY <1>2, <1>t DEF CreateUserPoolClient, Set, ClientSettingsSurvive
<1>3. ASSUME NEW k \in ClientIds, NEW v \in Versions, UpdateUserPoolClient(k, v)
      PROVE  c \in DOMAIN clients' /\ clients'[c].settings = saidClients'[c]
  <2>1. [clients[k] EXCEPT !.settings = v].settings = v
    BY <1>3, <1>t DEF UpdateUserPoolClient, Client
  <2> QED
    BY <1>3, <2>1 DEF UpdateUserPoolClient, Set, ClientSettingsSurvive
<1>4. ASSUME NEW k \in ClientIds, DeleteUserPoolClient(k) \/ CascadeToClient(k)
      PROVE  c \in DOMAIN clients' /\ clients'[c].settings = saidClients'[c]
  <2>1. clients' = Delete(clients, k) /\ saidClients' = Delete(saidClients, k)
    BY <1>4 DEF DeleteUserPoolClient, CascadeToClient
  <2> QED
    BY <2>1, <1>t DEF Delete, Restrict, ClientSettingsSurvive
<1>5. CASE UNCHANGED <<clients, saidClients>>
  BY <1>5 DEF ClientSettingsSurvive
<1> QED
  BY <1>1, <1>2, <1>3, <1>4, <1>5
     DEF Next, vars, Start, PutConfiguredPool, PoolsPut, PutSeedUser, UsersPut, ClientsPut, Restart,
         CreateUserPool, UpdateUserPool, SignUp, AdminCreateUser, DeleteUser, Cascade,
         DeleteUserPool, CascadeToUser, CascadeToPool

\* What a call made of a client is there until the client is deleted, whatever
\* the configuration file says at each start.
THEOREM SettingsSurvive == Spec => []ClientSettingsSurvive
<1>1. Init => ClientSettingsSurvive
  BY DEF Init, Empty, ClientSettingsSurvive
<1> QED
  BY <1>1, NextSettings, TypeCorrect, PTL DEF Spec
=============================================================================
