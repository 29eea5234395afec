---------------------------- MODULE AccessTokens ----------------------------
(***************************************************************************)
(* For whom an access token speaks.  The token is a signed list of claims  *)
(* and no store has it: the pool is found again by the client, the account *)
(* by the claims, each time it is presented.                               *)
(*                                                                         *)
(* Of the claims those are kept that are looked at, of the attributes      *)
(* `sub'.  A pool that is deleted is one without clients and users.  Sign- *)
(* outs, revocations and passwords change nothing here; usernames are      *)
(* compared as they are (letter case is in Accounts); an account that a    *)
(* registration overwrites (there too) counts as the same account.  The    *)
(* tokens of the grant client_credentials, which have no user and whose    *)
(* `sub' is the client, are left out.                                      *)
(***************************************************************************)
EXTENDS DataStore

CONSTANTS
  Pools,
  FirstPool,        \* config.pools[0]
  ChosenNames,      \* pools where usernames are chosen, by callers or for seed
                    \* users of the configuration: the others only draw UUIDs
  Names,
  Clients,
  PoolOf,           \* client -> its pool
  Tokens

None == "none"

Users == Pools \X Names

Values == Names \cup Clients \cup {None}

ASSUME AccessTokensAssumption ==
  /\ FirstPool \in Pools \cup {None}
  /\ ChosenNames \subseteq Pools
  /\ PoolOf \in [Clients -> Pools]
  /\ Names \cap Clients = {}
  /\ None \notin Names \cup Clients \cup Pools

\* The attribute `sub': in a pool that draws UUIDs the username itself, in
\* another a UUID of its own (None), until it is changed.
Account == [sub : Names \cup {None}, enabled : BOOLEAN]

\* `owner' is whom it was generated for, `alive' says that this account has
\* not been deleted since (history).
AccessToken ==
  [claims : [{"sub", "username", "client_id"} -> Values], owner : Users, alive : BOOLEAN]

VARIABLES
  users,            \* users.json
  clients,          \* clients.json
  tokens            \* access tokens that have not expired: no store

vars == <<users, clients, tokens>>

TypeOK ==
  /\ DOMAIN users \subseteq Users
  /\ users \in [DOMAIN users -> Account]
  /\ clients \subseteq Clients
  /\ DOMAIN tokens \subseteq Tokens
  /\ tokens \in [DOMAIN tokens -> AccessToken]

Init ==
  /\ users = Empty
  /\ clients = {}
  /\ tokens = Empty

-----------------------------------------------------------------------------
(* The claims.                                                              *)

BuildAccessTokenClaims(name, c) ==
  [claim \in {"sub", "username", "client_id"} |-> IF claim = "client_id" THEN c ELSE name]

\* Mutant: RESERVED_CLAIMS without "sub".
NothingReserved == {}

ReservedClaims == {"sub"}

\* What a preTokenGenerationV2 trigger may answer: claims with another value or
\* none.
Overrides ==
  UNION {[claims -> Values] : claims \in SUBSET {"sub", "username", "client_id"}}

\* Mutant: a claim is suppressed whatever it is.
SuppressAny(claims, overrides) ==
  [claim \in DOMAIN claims \ {x \in {"sub"} \cap DOMAIN overrides : overrides[x] = None} |->
     IF claim \in DOMAIN overrides \ ReservedClaims THEN overrides[claim] ELSE claims[claim]]

ApplyOverrides(claims, overrides) ==
  [claim \in DOMAIN claims |->
     IF claim \in DOMAIN overrides \ ReservedClaims THEN overrides[claim] ELSE claims[claim]]

\* Every flow of the SDK and every grant of a user: the password, a code, a
\* refresh token.  An account that is deleted while the trigger runs is as one
\* that is deleted afterwards.
GenerateTokens(t, u, c, overrides) ==
  /\ t \notin DOMAIN tokens
  /\ u \in DOMAIN users
  /\ c \in clients
  /\ PoolOf[c] = u[1]
  /\ tokens' =
       Set(tokens, t, [claims |-> ApplyOverrides(BuildAccessTokenClaims(u[2], c), overrides),
                       owner |-> u, alive |-> TRUE])
  /\ UNCHANGED <<users, clients>>

Expire(t) ==
  /\ t \in DOMAIN tokens
  /\ tokens' = Delete(tokens, t)
  /\ UNCHANGED <<users, clients>>

-----------------------------------------------------------------------------
(* Whom a token speaks for.                                                 *)

PoolFor(claims) ==
  IF claims["client_id"] \in clients THEN PoolOf[claims["client_id"]] ELSE FirstPool

GetUser(p, name) == {<<p, name>>} \cap DOMAIN users

\* The first of them in the Map; here any of them.
GetUserBySub(p, sub) == {u \in DOMAIN users : u[1] = p /\ users[u].sub = sub}

\* a ?? b
OrElse(a, b) == IF a # {} THEN a ELSE b

\* Mutant: the attribute is looked at before the username.
FindBySubFirst(claims) ==
  OrElse(GetUserBySub(PoolFor(claims), claims["sub"]), GetUser(PoolFor(claims), claims["sub"]))

\* createUserInfoHandler stops here.
FindBySub(claims) ==
  OrElse(GetUser(PoolFor(claims), claims["sub"]), GetUserBySub(PoolFor(claims), claims["sub"]))

\* resolveUserFromAccessToken, up to `enabled'.
FindUser(claims) ==
  OrElse(FindBySub(claims), GetUser(PoolFor(claims), claims["username"]))

ResolveUser(t) == {u \in FindUser(tokens[t].claims) : users[u].enabled}

UserInfo(t) == FindBySub(tokens[t].claims)

-----------------------------------------------------------------------------
(* Accounts and clients come and go.                                        *)

\* AdminCreateUser takes `sub' from the attributes it is given, if it is there.
CreateUser(u, given) ==
  /\ u \notin DOMAIN users
  /\ \E sub \in given \cup {IF u[1] \in ChosenNames THEN None ELSE u[2]} :
       users' = Set(users, u, [sub |-> sub, enabled |-> TRUE])
  /\ UNCHANGED <<clients, tokens>>

SignUp(u) == CreateUser(u, {})

AdminCreateUser(u) == CreateUser(u, Names)

ChangeSub(u, sub) ==
  /\ users' = Set(users, u, [users[u] EXCEPT !.sub = sub])
  /\ UNCHANGED <<clients, tokens>>

\* A new value, or none: DeleteUserAttributes.
AdminUpdateUserAttributes(u, sub) == u \in DOMAIN users /\ ChangeSub(u, sub)

UpdateUserAttributes(t, sub) ==
  t \in DOMAIN tokens /\ \E u \in ResolveUser(t) : ChangeSub(u, sub)

SetEnabled(u, enabled) ==
  /\ u \in DOMAIN users
  /\ users' = Set(users, u, [users[u] EXCEPT !.enabled = enabled])
  /\ UNCHANGED <<clients, tokens>>

\* Access tokens are not invalidated; the rest is in RefreshTokens.
Remove(gone) ==
  /\ users' = [u \in DOMAIN users \ gone |-> users[u]]
  /\ tokens' = [t \in DOMAIN tokens |->
                  IF tokens[t].owner \in gone THEN [tokens[t] EXCEPT !.alive = FALSE] ELSE tokens[t]]

AdminDeleteUser(u) == u \in DOMAIN users /\ Remove({u}) /\ UNCHANGED clients

DeleteUser(t) ==
  t \in DOMAIN tokens /\ \E u \in ResolveUser(t) : Remove({u}) /\ UNCHANGED clients

\* By a call, or by a start if it is configured.
CreateUserPoolClient(c) ==
  /\ c \notin clients
  /\ clients' = clients \cup {c}
  /\ UNCHANGED <<users, tokens>>

DeleteUserPoolClient(c) ==
  /\ c \in clients
  /\ clients' = clients \ {c}
  /\ UNCHANGED <<users, tokens>>

DeleteUserPool(p) ==
  /\ Remove({u \in DOMAIN users : u[1] = p})
  /\ clients' = {c \in clients : PoolOf[c] # p}

ByToken(t) ==
  \/ \E u \in Users, c \in Clients, overrides \in Overrides : GenerateTokens(t, u, c, overrides)
  \/ Expire(t)
  \/ \E sub \in Names \cup {None} : UpdateUserAttributes(t, sub)
  \/ DeleteUser(t)

ByAdministrator(u) ==
  \/ SignUp(u)
  \/ AdminCreateUser(u)
  \/ \E sub \in Names \cup {None} : AdminUpdateUserAttributes(u, sub)
  \/ \E enabled \in BOOLEAN : SetEnabled(u, enabled)
  \/ AdminDeleteUser(u)

Next ==
  \/ \E t \in Tokens : ByToken(t)
  \/ \E u \in Users : ByAdministrator(u)
  \/ \E c \in Clients : CreateUserPoolClient(c) \/ DeleteUserPoolClient(c)
  \/ \E p \in Pools : DeleteUserPool(p)

Spec == Init /\ [][Next]_vars

-----------------------------------------------------------------------------
(* Properties.                                                              *)

\* The token names a client there is, of its owner's pool: no trigger has
\* renamed the client, and nobody deleted it.
ClientStands(t) ==
  /\ tokens[t].claims["client_id"] \in clients
  /\ PoolOf[tokens[t].claims["client_id"]] = tokens[t].owner[1]

\* As long as its owner is there and its client stands, a token speaks for the
\* owner at both endpoints, and for nobody over the SDK while the owner is
\* disabled: whatever `sub' other accounts give themselves, whatever a trigger
\* makes of the claims.
OwnerAnswers ==
  \A t \in DOMAIN tokens :
    tokens[t].alive /\ ClientStands(t) =>
      LET owner == tokens[t].owner
      IN  /\ owner \in DOMAIN users
          /\ UserInfo(t) = {owner}
          /\ ResolveUser(t) = {u \in {owner} : users[u].enabled}
=============================================================================
