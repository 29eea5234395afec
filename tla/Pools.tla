-------------------------------- MODULE Pools --------------------------------
(***************************************************************************)
(* Pools, their clients and their users, and what the configuration file   *)
(* does to them at every start.  DeleteUserPool is a cascade of writes to  *)
(* three files; the process may die between any two.  So is a start.       *)
(*                                                                         *)
(* Of the settings of a pool or client only a version is kept: what the    *)
(* configuration says, or what a call made of it.  Groups, tokens and      *)
(* sessions of a pool, which its deletion does not touch, are left out,    *)
(* and so are registrations that wait for a trigger.                       *)
(***************************************************************************)
EXTENDS DataStore

CONSTANTS
  PoolIds,
  ClientIds,
  Usernames,
  Versions,         \* of settings
  ConfigPools,      \* configured pool -> settings
  ConfigClients,    \* configured client -> pool and settings
  Seeds             \* <<pool, username>> of the seed file, for any pools

Client == [userPoolId : PoolIds, settings : Versions]

ASSUME PoolsAssumption ==
  /\ DOMAIN ConfigPools \subseteq PoolIds
  /\ ConfigPools \in [DOMAIN ConfigPools -> Versions]
  /\ DOMAIN ConfigClients \subseteq ClientIds
  /\ ConfigClients \in [DOMAIN ConfigClients -> Client]
  /\ \A c \in DOMAIN ConfigClients : ConfigClients[c].userPoolId \in DOMAIN ConfigPools
  /\ Seeds \subseteq PoolIds \X Usernames

VARIABLES
  pools,            \* pools.json: id -> settings
  clients,          \* clients.json: id -> client
  users,            \* the keys of users.json
  phase,            \* "running", or the part of the start that is under way
  deleting,         \* the pool whose cascade is under way, or None
  saidClients       \* client -> what the last call made of it (history)

None == "none"

vars == <<pools, clients, users, phase, deleting, saidClients>>

Phases == {"pools", "users", "clients", "running"}

TypeOK ==
  /\ DOMAIN pools \subseteq PoolIds
  /\ pools \in [DOMAIN pools -> Versions]
  /\ DOMAIN clients \subseteq ClientIds
  /\ clients \in [DOMAIN clients -> Client]
  /\ users \subseteq PoolIds \X Usernames
  /\ phase \in Phases
  /\ deleting \in PoolIds \cup {None}
  /\ deleting # None => phase = "running" /\ deleting \in DOMAIN pools
  /\ DOMAIN saidClients \subseteq ClientIds
  /\ saidClients \in [DOMAIN saidClients -> Versions]

ClientsOf(p) == {c \in DOMAIN clients : clients[c].userPoolId = p}

UsersOf(p) == {u \in users : u[1] = p}

\* No other handler runs during a start or a cascade.
Serving == phase = "running" /\ deleting = None

-----------------------------------------------------------------------------
(* The start.                                                               *)

Init ==
  /\ pools = Empty
  /\ clients = Empty
  /\ users = {}
  /\ phase = "pools"
  /\ deleting = None
  /\ saidClients = Empty

\* A pool of the configuration is written at every start.
PutConfiguredPool(p) ==
  /\ phase = "pools"
  /\ p \in DOMAIN ConfigPools
  /\ pools' = Set(pools, p, ConfigPools[p])
  /\ UNCHANGED <<clients, users, phase, deleting, saidClients>>

PoolsPut ==
  /\ phase = "pools"
  /\ DOMAIN ConfigPools \subseteq DOMAIN pools
  /\ \A p \in DOMAIN ConfigPools : pools[p] = ConfigPools[p]
  /\ phase' = "users"
  /\ UNCHANGED <<pools, clients, users, deleting, saidClients>>

\* A seed user only where there is none; nobody looks for its pool.
PutSeedUser(u) ==
  /\ phase = "users"
  /\ u \in Seeds \ users
  /\ users' = users \cup {u}
  /\ UNCHANGED <<pools, clients, phase, deleting, saidClients>>

UsersPut ==
  /\ phase = "users"
  /\ Seeds \subseteq users
  /\ phase' = "clients"
  /\ UNCHANGED <<pools, clients, users, deleting, saidClients>>

\* Mutant: clients are treated as pools are.
PutAnyConfiguredClient(c) ==
  /\ phase = "clients"
  /\ c \in DOMAIN ConfigClients
  /\ clients' = Set(clients, c, ConfigClients[c])
  /\ UNCHANGED <<pools, users, phase, deleting, saidClients>>

\* A client of the configuration only where there is none.
PutConfiguredClient(c) ==
  /\ phase = "clients"
  /\ c \in DOMAIN ConfigClients \ DOMAIN clients
  /\ clients' = Set(clients, c, ConfigClients[c])
  /\ UNCHANGED <<pools, users, phase, deleting, saidClients>>

ClientsPut ==
  /\ phase = "clients"
  /\ DOMAIN ConfigClients \subseteq DOMAIN clients
  /\ phase' = "running"
  /\ UNCHANGED <<pools, clients, users, deleting, saidClients>>

\* Mutant: the start resumes the cascade that was under way.
RestartResuming ==
  /\ phase' = "pools"
  /\ UNCHANGED <<pools, clients, users, deleting, saidClients>>

\* A stop or a crash, at any time; what was answered stays answered.
Restart ==
  /\ phase' = "pools"
  /\ deleting' = None
  /\ UNCHANGED <<pools, clients, users, saidClients>>

-----------------------------------------------------------------------------
(* The calls.                                                               *)

\* A random id.
CreateUserPool(p, v) ==
  /\ Serving
  /\ p \notin DOMAIN pools \cup DOMAIN ConfigPools
  /\ pools' = Set(pools, p, v)
  /\ UNCHANGED <<clients, users, phase, deleting, saidClients>>

\* UpdateUserPool, SetUserPoolMfaConfig and AddCustomAttributes.
UpdateUserPool(p, v) ==
  /\ Serving
  /\ p \in DOMAIN pools
  /\ pools' = Set(pools, p, v)
  /\ UNCHANGED <<clients, users, phase, deleting, saidClients>>

CreateUserPoolClient(p, c, v) ==
  /\ Serving
  /\ p \in DOMAIN pools
  /\ c \notin DOMAIN clients \cup DOMAIN ConfigClients
  /\ clients' = Set(clients, c, [userPoolId |-> p, settings |-> v])
  /\ saidClients' = Set(saidClients, c, v)
  /\ UNCHANGED <<pools, users, phase, deleting>>

UpdateUserPoolClient(c, v) ==
  /\ Serving
  /\ c \in DOMAIN clients
  /\ clients' = Set(clients, c, [clients[c] EXCEPT !.settings = v])
  /\ saidClients' = Set(saidClients, c, v)
  /\ UNCHANGED <<pools, users, phase, deleting>>

DeleteUserPoolClient(c) ==
  /\ Serving
  /\ c \in DOMAIN clients
  /\ clients' = Delete(clients, c)
  /\ saidClients' = Delete(saidClients, c)
  /\ UNCHANGED <<pools, users, phase, deleting>>

\* SignUp for a client of the pool, AdminCreateUser for the pool itself.
SignUp(c, name) ==
  /\ Serving
  /\ c \in DOMAIN clients
  /\ clients[c].userPoolId \in DOMAIN pools
  /\ users' = users \cup {<<clients[c].userPoolId, name>>}
  /\ UNCHANGED <<pools, clients, phase, deleting, saidClients>>

AdminCreateUser(p, name) ==
  /\ Serving
  /\ p \in DOMAIN pools
  /\ users' = users \cup {<<p, name>>}
  /\ UNCHANGED <<pools, clients, phase, deleting, saidClients>>

DeleteUser(u) ==
  /\ Serving
  /\ u \in users
  /\ users' = users \ {u}
  /\ UNCHANGED <<pools, clients, phase, deleting, saidClients>>

-----------------------------------------------------------------------------
(* DeleteUserPool: clients, then users, then the pool.                      *)

DeleteUserPool(p) ==
  /\ Serving
  /\ p \in DOMAIN pools
  /\ deleting' = p
  /\ UNCHANGED <<pools, clients, users, phase, saidClients>>

CascadeToClient(c) ==
  /\ deleting # None
  /\ c \in ClientsOf(deleting)
  /\ clients' = Delete(clients, c)
  /\ saidClients' = Delete(saidClients, c)
  /\ UNCHANGED <<pools, users, phase, deleting>>

CascadeToUser(u) ==
  /\ deleting # None
  /\ ClientsOf(deleting) = {}
  /\ u \in UsersOf(deleting)
  /\ users' = users \ {u}
  /\ UNCHANGED <<pools, clients, phase, deleting, saidClients>>

\* Mutant: the users of the pool are left.
CascadeToPoolLeavingUsers ==
  /\ deleting # None
  /\ ClientsOf(deleting) = {}
  /\ pools' = Delete(pools, deleting)
  /\ deleting' = None
  /\ UNCHANGED <<clients, users, phase, saidClients>>

\* Mutant: the clients of the pool are left.
CascadeToPoolLeavingClients ==
  /\ deleting # None
  /\ UsersOf(deleting) = {}
  /\ pools' = Delete(pools, deleting)
  /\ deleting' = None
  /\ UNCHANGED <<clients, users, phase, saidClients>>

CascadeToPool ==
  /\ deleting # None
  /\ ClientsOf(deleting) = {}
  /\ UsersOf(deleting) = {}
  /\ pools' = Delete(pools, deleting)
  /\ deleting' = None
  /\ UNCHANGED <<clients, users, phase, saidClients>>

Start ==
  \/ \E p \in PoolIds : PutConfiguredPool(p)
  \/ PoolsPut
  \/ \E u \in Seeds : PutSeedUser(u)
  \/ UsersPut
  \/ \E c \in ClientIds : PutConfiguredClient(c)
  \/ ClientsPut

Cascade ==
  \/ \E p \in PoolIds : DeleteUserPool(p)
  \/ \E c \in ClientIds : CascadeToClient(c)
  \/ \E u \in PoolIds \X Usernames : CascadeToUser(u)
  \/ CascadeToPool

Next ==
  \/ Start
  \/ Restart
  \/ \E p \in PoolIds, v \in Versions : CreateUserPool(p, v) \/ UpdateUserPool(p, v)
  \/ \E p \in PoolIds, c \in ClientIds, v \in Versions : CreateUserPoolClient(p, c, v)
  \/ \E c \in ClientIds, v \in Versions : UpdateUserPoolClient(c, v)
  \/ \E c \in ClientIds : DeleteUserPoolClient(c)
  \/ \E c \in ClientIds, name \in Usernames : SignUp(c, name)
  \/ \E p \in PoolIds, name \in Usernames : AdminCreateUser(p, name)
  \/ \E u \in users : DeleteUser(u)
  \/ Cascade

Spec == Init /\ [][Next]_vars

-----------------------------------------------------------------------------
(* Properties.                                                              *)

\* Every client has its pool: a call that finds the client may look it up.
ClientsHavePools == \A c \in DOMAIN clients : clients[c].userPoolId \in DOMAIN pools

\* Seed users of a pool that the configuration does not name: a start puts them
\* whether their pool is there or not.
Strays == {u \in Seeds : u[1] \notin DOMAIN ConfigPools}

\* Every user but these has its pool, so a cascade that was cut can be called
\* again.
UsersHavePools == \A u \in users \ Strays : u[1] \in DOMAIN pools

\* Wherever a cascade, a start or the process is cut, no client is without its
\* pool, and no user whose pool the seed file did not make up.
NothingDangles == ClientsHavePools /\ UsersHavePools

\* What the last call made of a client's settings outlives every start, also
\* where the configuration file says otherwise (those of a pool do not).
ClientSettingsSurvive ==
  \A c \in DOMAIN saidClients :
    c \in DOMAIN clients /\ clients[c].settings = saidClients[c]
=============================================================================
