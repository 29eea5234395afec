-------------------------- MODULE AuthorizationCodes --------------------------
(***************************************************************************)
(* The life of an OIDC authorization code: issued by the login page, used  *)
(* up by the first client that authenticates itself at the token endpoint  *)
(* and presents it, and otherwise swept by the timer of TokenStore, across *)
(* stops and starts of the server.                                         *)
(*                                                                         *)
(* Time passes in ticks.  The timer is punctual: a tick does not overtake  *)
(* a sweep that is due.  What the exchange issues is in RefreshTokens.     *)
(***************************************************************************)
EXTENDS DataStore, Integers

CONSTANTS
  Codes,            \* 32 random bytes: never drawn twice
  Users,
  Clients,          \* the configured ones, which a start puts back
  Lifetime,         \* 120 s in ticks
  SweepPeriod,      \* 60 s in ticks
  MaxAge            \* ages are counted up to here

ASSUME AuthorizationCodesAssumption ==
  /\ Lifetime \in Nat
  /\ SweepPeriod \in Nat \ {0}
  /\ MaxAge \in Nat
  /\ MaxAge > Lifetime + SweepPeriod

\* What the exchange looks at; `matches' below stands for redirect URI and PKCE.
AuthCode == [userId : Users, clientId : Clients, age : 0 .. MaxAge]

VARIABLES
  authCodes,        \* auth-codes.json
  users,            \* the accounts there are
  clients,          \* clients.json
  up,               \* the server runs
  sinceSweep,       \* ticks since the timer started or last fired
  swept,            \* the timer has fired since the start (history)
  presented         \* codes that an authenticated client has presented (history)

clock == <<up, sinceSweep, swept>>
vars == <<authCodes, users, clients, clock, presented>>

TypeOK ==
  /\ DOMAIN authCodes \subseteq Codes
  /\ authCodes \in [DOMAIN authCodes -> AuthCode]
  /\ users \subseteq Users
  /\ clients \subseteq Clients
  /\ up \in BOOLEAN
  /\ sinceSweep \in 0 .. SweepPeriod
  /\ swept \in BOOLEAN
  /\ presented \subseteq Codes

Init ==
  /\ authCodes = Empty
  /\ users = Users
  /\ clients = Clients
  /\ up = TRUE
  /\ sinceSweep = 0
  /\ swept = FALSE
  /\ presented = {}

-----------------------------------------------------------------------------
(* The endpoints.                                                           *)

\* A code is new: neither stored nor ever presented.
Authorize(code, user, client) ==
  /\ up
  /\ code \notin DOMAIN authCodes \cup presented
  /\ client \in clients
  /\ user \in users
  /\ authCodes' = Set(authCodes, code, [userId |-> user, clientId |-> client, age |-> 0])
  /\ UNCHANGED <<users, clients, clock, presented>>

\* The client exists, and has no secret or `knows' it.
Authenticated(client, knows) == client \in clients /\ knows

Deserves(code, client, matches) ==
  /\ matches
  /\ authCodes[code].clientId = client
  /\ authCodes[code].userId \in users

\* Mutant: the code is deleted once it has earned its tokens.
ExchangeKeepingRefused(code, client, knows, matches) ==
  /\ up
  /\ code \in DOMAIN authCodes
  /\ authCodes' = IF Authenticated(client, knows) /\ Deserves(code, client, matches)
                    THEN Delete(authCodes, code) ELSE authCodes
  /\ presented' = IF Authenticated(client, knows) THEN presented \cup {code} ELSE presented
  /\ UNCHANGED <<users, clients, clock>>

\* A client that is unknown or has the wrong secret is turned away and the code
\* stays.  From any other, consumeAuthCode takes the code before it is compared
\* with the request, and its age is never looked at.
Exchange(code, client, knows, matches) ==
  /\ up
  /\ code \in DOMAIN authCodes
  /\ authCodes' = IF Authenticated(client, knows) THEN Delete(authCodes, code) ELSE authCodes
  /\ presented' = IF Authenticated(client, knows) THEN presented \cup {code} ELSE presented
  /\ UNCHANGED <<users, clients, clock>>

\* Accounts come and go; nobody looks at their codes.
DeleteUser(user) ==
  /\ up
  /\ user \in users
  /\ users' = users \ {user}
  /\ UNCHANGED <<authCodes, clients, clock, presented>>

CreateUser(user) ==
  /\ up
  /\ user \notin users
  /\ users' = users \cup {user}
  /\ UNCHANGED <<authCodes, clients, clock, presented>>

DeleteUserPoolClient(client) ==
  /\ up
  /\ client \in clients
  /\ clients' = clients \ {client}
  /\ UNCHANGED <<authCodes, users, clock, presented>>

-----------------------------------------------------------------------------
(* The timer, and the server under it.                                      *)

Older(code) == [code EXCEPT !.age = IF @ < MaxAge THEN @ + 1 ELSE @]

\* Mutant: a tick overtakes a sweep that is due.
TickPastSweep ==
  /\ authCodes' = [c \in DOMAIN authCodes |-> Older(authCodes[c])]
  /\ sinceSweep' = IF up THEN sinceSweep + 1 ELSE sinceSweep
  /\ UNCHANGED <<users, clients, up, swept, presented>>

Tick ==
  /\ up => sinceSweep < SweepPeriod
  /\ authCodes' = [c \in DOMAIN authCodes |-> Older(authCodes[c])]
  /\ sinceSweep' = IF up THEN sinceSweep + 1 ELSE sinceSweep
  /\ UNCHANGED <<users, clients, up, swept, presented>>

Expired(code) == authCodes[code].age > Lifetime

\* Mutant: setTimeout where setInterval is meant.
SweepOnce ==
  /\ up
  /\ sinceSweep = SweepPeriod
  /\ authCodes' = IF swept THEN authCodes
                   ELSE [c \in {x \in DOMAIN authCodes : ~Expired(x)} |-> authCodes[c]]
  /\ sinceSweep' = 0
  /\ swept' = TRUE
  /\ UNCHANGED <<users, clients, up, presented>>

\* Mutant: the sweep stops at the first code that is still good.
SweepOldest ==
  /\ up
  /\ sinceSweep = SweepPeriod
  /\ authCodes' = [c \in {x \in DOMAIN authCodes :
                            \E y \in DOMAIN authCodes : ~Expired(y)} |-> authCodes[c]]
  /\ sinceSweep' = 0
  /\ swept' = TRUE
  /\ UNCHANGED <<users, clients, up, presented>>

Sweep ==
  /\ up
  /\ sinceSweep = SweepPeriod
  /\ authCodes' = [c \in {x \in DOMAIN authCodes : ~Expired(x)} |-> authCodes[c]]
  /\ sinceSweep' = 0
  /\ swept' = TRUE
  /\ UNCHANGED <<users, clients, up, presented>>

Stop ==
  /\ up
  /\ up' = FALSE
  /\ UNCHANGED <<authCodes, users, clients, sinceSweep, swept, presented>>

\* The files are read back, configured clients that are missing are added, and
\* the timer starts anew.
Start ==
  /\ ~up
  /\ up' = TRUE
  /\ sinceSweep' = 0
  /\ swept' = FALSE
  /\ clients' = Clients
  /\ UNCHANGED <<authCodes, users, presented>>

Next ==
  \/ \E c \in Codes, u \in Users, k \in Clients : Authorize(c, u, k)
  \/ \E c \in Codes, k \in Clients, knows, matches \in BOOLEAN : Exchange(c, k, knows, matches)
  \/ \E u \in Users : DeleteUser(u) \/ CreateUser(u)
  \/ \E k \in Clients : DeleteUserPoolClient(k)
  \/ Tick
  \/ Sweep
  \/ Stop
  \/ Start

Spec == Init /\ [][Next]_vars

\* Time passes and the timer fires; nobody has to call, stop or start the server.
FairSpec == Spec /\ WF_vars(Tick) /\ WF_vars(Sweep)

-----------------------------------------------------------------------------
(* Properties.                                                              *)

\* A code that was presented once by a client that authenticated itself, be it the
\* wrong client and with whatever outcome, is gone: what was read off a redirect
\* and tried with the wrong verifier does not work afterwards, nor after a
\* restart.  (A presentation that fails to authenticate leaves the code.)
PresentedCodesGone == presented \cap DOMAIN authCodes = {}

\* Once the timer has fired since the start, no code is kept longer than its
\* lifetime and the time since the last sweep, whatever the stops before it.
SweptInTime ==
  up /\ swept => \A c \in DOMAIN authCodes : authCodes[c].age <= Lifetime + sinceSweep

\* A server that in the end stays up forgets every code.
CodesEnd == <>[]up => \A c \in Codes : c \in DOMAIN authCodes ~> c \notin DOMAIN authCodes
=============================================================================
