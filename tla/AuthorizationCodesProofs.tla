---------------------- MODULE AuthorizationCodesProofs ----------------------
(***************************************************************************)
(* AuthorizationCodes, for any lifetime and sweep period.  SweptInTime is  *)
(* inductive with the type; the other invariant needs the type alone.      *)
(***************************************************************************)
EXTENDS AuthorizationCodes, TLAPS

USE AuthorizationCodesAssumption

\* A code that is deleted is gone and no other one changes.
LEMMA DeleteCode ==
  ASSUME NEW S, NEW f, f \in [DOMAIN f -> S], NEW k
  PROVE  /\ DOMAIN Delete(f, k) = DOMAIN f \ {k}
         /\ Delete(f, k) \in [DOMAIN Delete(f, k) -> S]
         /\ \A x \in DOMAIN Delete(f, k) : Delete(f, k)[x] = f[x]
BY DEF Delete, Restrict

-----------------------------------------------------------------------------
(* The type.                                                                *)

\* A tick makes a code older, up to MaxAge.
LEMMA OlderCode ==
  ASSUME NEW code \in AuthCode
  PROVE  /\ Older(code) \in AuthCode
         /\ Older(code).age <= code.age + 1
BY DEF Older, AuthCode

LEMMA InitType == Init => TypeOK
<1> SUFFICES ASSUME Init PROVE TypeOK
  OBVIOUS
<1>1. DOMAIN authCodes = {} /\ authCodes \in [DOMAIN authCodes -> AuthCode]
  BY DEF Init, Empty
<1>2. up \in BOOLEAN /\ swept \in BOOLEAN
  BY DEF Init
<1>3. sinceSweep \in 0 .. SweepPeriod
  BY DEF Init
<1> QED
  BY <1>1, <1>2, <1>3 DEF Init, TypeOK

LEMMA NextType == TypeOK /\ [Next]_vars => TypeOK'
<1> SUFFICES ASSUME TypeOK, [Next]_vars PROVE TypeOK'
  OBVIOUS
<1>t. authCodes \in [DOMAIN authCodes -> AuthCode]
  BY DEF TypeOK
<1>1. ASSUME NEW c \in Codes, NEW u \in Users, NEW k \in Clients, Authorize(c, u, k)
      PROVE  TypeOK'
  <2> DEFINE v == [userId |-> u, clientId |-> k, age |-> 0]
  <2>1. v \in AuthCode
    BY DEF AuthCode
  <2>2. authCodes' = Set(authCodes, c, v)
    BY <1>1 DEF Authorize
  <2> HIDE DEF v
  <2>3. DOMAIN authCodes' = DOMAIN authCodes \cup {c} /\ authCodes' \in [DOMAIN authCodes' -> AuthCode]
    BY <1>t, <2>1, <2>2 DEF Set
  <2> QED
    BY <1>1, <2>3 DEF Authorize, TypeOK, clock
<1>2. ASSUME NEW c \in Codes, NEW k \in Clients, NEW n, NEW m, Exchange(c, k, n, m)
      PROVE  TypeOK'
  <2>1. /\ DOMAIN authCodes' \subseteq DOMAIN authCodes
        /\ authCodes' \in [DOMAIN authCodes' -> AuthCode]
    <3>1. CASE Authenticated(k, n)
      <4>1. authCodes' = Delete(authCodes, c)
        BY <1>2, <3>1 DEF Exchange
      <4>2. DOMAIN authCodes' = DOMAIN authCodes \ {c}
        BY <1>t, <4>1, DeleteCode
      <4>3. authCodes' \in [DOMAIN authCodes' -> AuthCode]
        BY <1>t, <4>1, DeleteCode
      <4> QED
        BY <4>2, <4>3
    <3>2. CASE ~Authenticated(k, n)
      BY <1>2, <1>t, <3>2 DEF Exchange
    <3> QED
      BY <3>1, <3>2
  <2> QED
    BY <1>2, <2>1 DEF Exchange, TypeOK, clock
<1>3. ASSUME NEW u \in Users, DeleteUser(u) \/ CreateUser(u)
      PROVE  TypeOK'
  BY <1>3 DEF DeleteUser, CreateUser, TypeOK, clock
<1>9. ASSUME NEW k \in Clients, DeleteUserPoolClient(k)
      PROVE  TypeOK'
  BY <1>9 DEF DeleteUserPoolClient, TypeOK, clock
<1>4. CASE Tick
  <2>1. \A c \in DOMAIN authCodes : Older(authCodes[c]) \in AuthCode
    BY <1>t, OlderCode
  <2>2. /\ DOMAIN authCodes' = DOMAIN authCodes
        /\ authCodes' \in [DOMAIN authCodes -> AuthCode]
    BY <1>4, <2>1 DEF Tick
  <2>3. sinceSweep' \in 0 .. SweepPeriod
    BY <1>4 DEF Tick, TypeOK
  <2> QED
    BY <1>4, <2>2, <2>3 DEF Tick, TypeOK
<1>5. CASE Sweep
  BY <1>5, <1>t DEF Sweep, TypeOK
<1>6. CASE Stop
  BY <1>6 DEF Stop, TypeOK
<1>7. CASE Start
  <2>1. up' \in BOOLEAN /\ swept' \in BOOLEAN
    BY <1>7 DEF Start
  <2>2. sinceSweep' \in 0 .. SweepPeriod
    BY <1>7 DEF Start
  <2> QED
    BY <1>7, <2>1, <2>2 DEF Start, TypeOK
<1>8. CASE UNCHANGED vars
  BY <1>8 DEF vars, clock, TypeOK
<1> QED
  BY <1>1, <1>2, <1>3, <1>4, <1>5, <1>6, <1>7, <1>8, <1>9 DEF Next

\* The state keeps its type, for any lifetime and any period of the sweep.
THEOREM TypeCorrect == Spec => []TypeOK
BY InitType, NextType, PTL DEF Spec

-----------------------------------------------------------------------------
(* A code is used up by the first client that authenticates and presents it. *)

\* No handler, sweep or start brings a presented code back.
LEMMA NextPresented == TypeOK /\ PresentedCodesGone /\ [Next]_vars => PresentedCodesGone'
<1> SUFFICES ASSUME TypeOK, PresentedCodesGone, [Next]_vars PROVE PresentedCodesGone'
  OBVIOUS
<1>t. authCodes \in [DOMAIN authCodes -> AuthCode]
  BY DEF TypeOK
<1>1. ASSUME NEW c \in Codes, NEW u \in Users, NEW k \in Clients, Authorize(c, u, k)
      PROVE  PresentedCodesGone'
  <2>1. DOMAIN authCodes' = DOMAIN authCodes \cup {c}
    BY <1>1 DEF Authorize, Set
  <2> QED
    BY <1>1, <2>1 DEF Authorize, PresentedCodesGone
<1>2. ASSUME NEW c \in Codes, NEW k \in Clients, NEW n, NEW m, Exchange(c, k, n, m)
      PROVE  PresentedCodesGone'
  <2>1. CASE Authenticated(k, n)
    <3>1. DOMAIN authCodes' = DOMAIN authCodes \ {c}
      BY <1>2, <1>t, <2>1, DeleteCode DEF Exchange
    <3> QED
      BY <1>2, <2>1, <3>1 DEF Exchange, PresentedCodesGone
  <2>2. CASE ~Authenticated(k, n)
    BY <1>2, <2>2 DEF Exchange, PresentedCodesGone
  <2> QED
    BY <2>1, <2>2
<1>3. ASSUME NEW u, NEW k, DeleteUser(u) \/ CreateUser(u) \/ DeleteUserPoolClient(k)
      PROVE  PresentedCodesGone'
  BY <1>3 DEF DeleteUser, CreateUser, DeleteUserPoolClient, PresentedCodesGone
<1>4. CASE Tick
  <2>1. DOMAIN authCodes' = DOMAIN authCodes
    BY <1>4 DEF Tick
  <2> QED
    BY <1>4, <2>1 DEF Tick, PresentedCodesGone
<1>5. CASE Sweep
  <2>1. DOMAIN authCodes' \subseteq DOMAIN authCodes
    BY <1>5 DEF Sweep
  <2> QED
    BY <1>5, <2>1 DEF Sweep, PresentedCodesGone
<1>6. CASE Stop \/ Start \/ UNCHANGED vars
  BY <1>6 DEF Stop, Start, vars, PresentedCodesGone
<1> QED
  BY <1>1, <1>2, <1>3, <1>4, <1>5, <1>6 DEF Next

\* A code that an authenticated client presented, with whatever outcome, is
\* never stored again.
THEOREM CodesUsedOnce == Spec => []PresentedCodesGone
<1>1. Init => PresentedCodesGone
  BY DEF Init, PresentedCodesGone
<1> QED
  BY <1>1, NextPresented, TypeCorrect, PTL DEF Spec

-----------------------------------------------------------------------------
(* The sweep.                                                               *)

\* A tick adds one to the bound and at most one to an age; a sweep leaves
\* what is at most Lifetime old; a new code has age 0.
LEMMA NextSwept == TypeOK /\ SweptInTime /\ [Next]_vars => SweptInTime'
<1> SUFFICES ASSUME TypeOK, SweptInTime, [Next]_vars, (up /\ swept)',
                    NEW x \in DOMAIN authCodes'
             PROVE  authCodes'[x].age <= Lifetime + sinceSweep'
  BY DEF SweptInTime
<1>t. /\ authCodes \in [DOMAIN authCodes -> AuthCode]
      /\ \A c \in DOMAIN authCodes : authCodes[c].age \in Nat
      /\ sinceSweep \in Nat
  BY DEF TypeOK, AuthCode
<1>1. ASSUME NEW c \in Codes, NEW u \in Users, NEW k \in Clients, Authorize(c, u, k)
      PROVE  authCodes'[x].age <= Lifetime + sinceSweep'
  <2> DEFINE v == [userId |-> u, clientId |-> k, age |-> 0]
  <2>1. authCodes' = Set(authCodes, c, v) /\ UNCHANGED clock
    BY <1>1 DEF Authorize
  <2>2. CASE x = c
    <3>1. authCodes'[x] = v
      BY <2>1, <2>2 DEF Set
    <3> QED
      BY <2>1, <3>1, <1>t DEF clock
  <2>3. CASE x # c
    <3>1. x \in DOMAIN authCodes /\ authCodes'[x] = authCodes[x]
      BY <2>1, <2>3 DEF Set
    <3> QED
      BY <2>1, <3>1 DEF clock, SweptInTime
  <2> QED
    BY <2>2, <2>3
<1>2. ASSUME NEW c \in Codes, NEW k \in Clients, NEW n, NEW m, Exchange(c, k, n, m)
      PROVE  authCodes'[x].age <= Lifetime + sinceSweep'
  <2>1. x \in DOMAIN authCodes /\ authCodes'[x] = authCodes[x]
    <3>1. CASE Authenticated(k, n)
      BY <1>2, <1>t, <3>1 DEF Exchange, Delete, Restrict
    <3>2. CASE ~Authenticated(k, n)
      BY <1>2, <3>2 DEF Exchange
    <3> QED
      BY <3>1, <3>2
  <2> QED
    BY <1>2, <2>1 DEF Exchange, clock, SweptInTime
<1>3. ASSUME NEW u, NEW k, DeleteUser(u) \/ CreateUser(u) \/ DeleteUserPoolClient(k)
      PROVE  authCodes'[x].age <= Lifetime + sinceSweep'
  BY <1>3 DEF DeleteUser, CreateUser, DeleteUserPoolClient, clock, SweptInTime
<1>4. CASE Tick
  <2>1. /\ x \in DOMAIN authCodes
        /\ authCodes'[x] = Older(authCodes[x])
        /\ sinceSweep' = sinceSweep + 1
        /\ up /\ swept
    BY <1>4 DEF Tick
  <2>2. authCodes'[x].age <= authCodes[x].age + 1 /\ authCodes'[x].age \in Nat
    BY <2>1, <1>t, OlderCode DEF AuthCode
  <2>3. authCodes[x].age <= Lifetime + sinceSweep
    BY <2>1 DEF SweptInTime
  <2> QED
    BY <2>1, <2>2, <2>3, <1>t
<1>5. CASE Sweep
  BY <1>5, <1>t DEF Sweep, Expired
<1>6. CASE Stop \/ Start
  BY <1>6 DEF Stop, Start
<1>7. CASE UNCHANGED vars
  BY <1>7 DEF vars, clock, SweptInTime
<1> QED
  BY <1>1, <1>2, <1>3, <1>4, <1>5, <1>6, <1>7 DEF Next

\* However long the server was down, from its first sweep on it keeps no code
\* longer than the lifetime and the time since the last sweep.
THEOREM SweepKeepsBound == Spec => []SweptInTime
<1>1. Init => SweptInTime
  BY DEF Init, SweptInTime
<1> QED
  BY <1>1, NextSwept, TypeCorrect, PTL DEF Spec
=============================================================================
