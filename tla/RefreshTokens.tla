--------------------------- MODULE RefreshTokens ---------------------------
(***************************************************************************)
(* The life of refresh tokens across every handler that issues, uses or    *)
(* invalidates one: the SDK sign-in flows, the OIDC grants, the revocation *)
(* calls and the account operations that sign a user out.                  *)
(*                                                                         *)
(* The server is one Node process: a handler runs without interruption     *)
(* except where it awaits a Lambda trigger.  InitiateAuth is therefore cut *)
(* at its triggers (userMigration, preAuthentication, preTokenGeneration,  *)
(* postAuthentication), and every other handler is one action.  What a     *)
(* handler read before a trigger it still uses after it.                   *)
(*                                                                         *)
(* A user is one key `poolId:username' of the users store.  Passwords,     *)
(* codes and PKCE are inputs: the actions are the calls that present good  *)
(* ones, a call that presents a bad one changes nothing modelled here.     *)
(* A client is there while its pool is: one that is deleted earlier, or    *)
(* that no start makes again, only takes calls away.                       *)
(***************************************************************************)
EXTENDS TokenStore

CONSTANTS
  Pools, Names,       \* a key of `Users' is a pool and a name
  Lower,              \* toLowerCase on names
  PoolOf,             \* the pool of each client
  ConfigPools,        \* the pools of the configuration, made again at a start
  Sessions,           \* challenge sessions
  Requests,           \* InitiateAuth calls that may be in flight at once
  Triggers,           \* the Lambda triggers configured, for every pool
  MfaConfiguration,   \* pool.mfaConfiguration
  UsernamesReusable,  \* FALSE where the server draws the internal usernames (UUIDs),
                      \* TRUE where callers name them
  MigrationNamesSub,  \* where they are drawn: userMigration may answer a `sub' of
                      \* its own, which is then the internal username
  Seeds               \* the users of the seed file, of whatever pool

TriggerNames ==
  {"userMigration", "preAuthentication", "preTokenGeneration", "postAuthentication"}

ASSUME RefreshTokensAssumption ==
  /\ Triggers \subseteq TriggerNames
  /\ MfaConfiguration \in {"OFF", "OPTIONAL", "ON"}
  /\ UsernamesReusable \in BOOLEAN
  /\ MigrationNamesSub \in BOOLEAN
  /\ Users \subseteq [pool : Pools, name : Names]
  /\ Seeds \subseteq Users
  /\ ConfigPools \subseteq Pools
  /\ PoolOf \in [Clients -> Pools]

VARIABLES
  pools,          \* pools.json: the pools there are
  leftBehind,     \* tokens that were usable when their pool was deleted (history)
  users,          \* users.json: username -> account
  created,        \* every username that was ever created (history)
  refreshTokens,  \* refresh-tokens.json: token -> entry
  revokedTokens,  \* revoked-tokens.json
  issued,         \* token -> user of every token ever created (history)
  sessions,       \* sessions.json: session -> challenge waiting for its answer
  signIns,        \* USER_PASSWORD_AUTH calls waiting for a trigger
  refreshes,      \* REFRESH_TOKEN_AUTH calls waiting for a trigger: call -> token
  minted          \* the refresh token the last step minted an access token from

poolVars == <<pools, leftBehind>>
accountVars == <<users, created>>
storeVars == <<refreshTokens, revokedTokens, issued>>
callVars == <<signIns, refreshes>>
vars == <<poolVars, accountVars, storeVars, sessions, callVars, minted>>

Statuses == {"UNCONFIRMED", "CONFIRMED", "FORCE_CHANGE_PASSWORD", "RESET_REQUIRED"}

Account == [enabled : BOOLEAN, status : Statuses, refreshTokens : SUBSET Tokens]

Session == [user : Users, challenge : {"NEW_PASSWORD_REQUIRED", "MFA"}]

SignInCall == [user : Users, client : Clients, waitingFor : TriggerNames]

PoolsOK == pools \subseteq Pools /\ leftBehind \subseteq Tokens

AccountsOK ==
  /\ DOMAIN users \subseteq created
  /\ created \subseteq Users
  /\ users \in [DOMAIN users -> Account]

StoresOK ==
  /\ DOMAIN refreshTokens \subseteq Tokens
  /\ refreshTokens \in [DOMAIN refreshTokens -> RefreshTokenEntry]
  /\ revokedTokens \subseteq Tokens
  /\ DOMAIN issued \subseteq Tokens
  /\ issued \in [DOMAIN issued -> Users]

SessionsOK ==
  /\ DOMAIN sessions \subseteq Sessions
  /\ sessions \in [DOMAIN sessions -> Session]

CallsOK ==
  /\ DOMAIN signIns \subseteq Requests
  /\ signIns \in [DOMAIN signIns -> SignInCall]
  /\ DOMAIN refreshes \subseteq Requests
  /\ refreshes \in [DOMAIN refreshes -> Tokens]

TypeOK ==
  /\ PoolsOK
  /\ AccountsOK
  /\ StoresOK
  /\ SessionsOK
  /\ CallsOK
  /\ minted \subseteq Tokens

-----------------------------------------------------------------------------
(* Helpers: the methods of the user store, and the two ways tokens change. *)

\* Mutant: createUser without its default `refreshTokens ?? []'.
NewAccountWithoutList(status) == [enabled |-> TRUE, status |-> status]

NewAccount(status) == [enabled |-> TRUE, status |-> status, refreshTokens |-> {}]

\* initFromConfig adds the seed users that are absent, so a seed user that was
\* deleted is back after a restart.  `CONFIRMED' is the default status.
Seeded(accounts) ==
  [u \in DOMAIN accounts \cup Seeds |->
     IF u \in DOMAIN accounts THEN accounts[u] ELSE NewAccount("CONFIRMED")]

\* The pools that are not configured were created over the API before.
Init ==
  /\ pools = Pools
  /\ leftBehind = {}
  /\ users = Seeded(Empty)
  /\ created = Seeds
  /\ refreshTokens = Empty
  /\ revokedTokens = {}
  /\ issued = Empty
  /\ sessions = Empty
  /\ signIns = Empty
  /\ refreshes = Empty
  /\ minted = {}

\* createUser sets the key whatever was there.
CreateUser(u, status) ==
  /\ users' = Set(users, u, NewAccount(status))
  /\ created' = created \cup {u}

UpdateUser(u, account) ==
  /\ users' = Set(users, u, account)
  /\ UNCHANGED created

\* Mutant: the loop of getUser comes first, and compares names and not pools.
GetUserOfAnyPool(accounts, u) ==
  {w \in DOMAIN accounts : Lower[w.name] = Lower[u.name]}

\* Whom getUser may return: the user of that very key; without one, and where
\* letter case does not matter, one whose name differs in it alone.  The code
\* takes the first in the order of the Map, here it is any.
GetUser(accounts, u) ==
  IF u \in DOMAIN accounts
    THEN {u}
    ELSE {w \in DOMAIN accounts :
            u.pool \in pools /\ w.pool = u.pool /\ Lower[w.name] = Lower[u.name]}

\* What an update of the user that getUser returns may make of the accounts.
\* UpdateUserPool may switch usernameCaseSensitive on and off, so the fallback
\* may find nobody though there is a twin.
AfterUpdate(accounts, u, Updated(_)) ==
  {Set(accounts, w, Updated(accounts[w])) : w \in GetUser(accounts, u)}
  \cup {a \in {accounts} : u \notin DOMAIN accounts}

\* recordRefreshTokenForUser looks the user up again, and does nothing without
\* one.  After an await this may be a twin of the user who signed in.
RecordRefreshToken(accounts, u, t) ==
  AfterUpdate(accounts, u, LAMBDA a : [a EXCEPT !.refreshTokens = @ \cup {t}])

\* Mutant: token identifiers that are only unique among the entries present.
IssueReusingIdentifiers(t, u, c, from) ==
  /\ t \notin DOMAIN refreshTokens
  /\ issued' = Set(issued, t, u)
  /\ refreshTokens' = CreateRefreshToken(refreshTokens, t, u, c, from)
  /\ UNCHANGED revokedTokens

\* createRefreshToken for user u, answered to client c.
Issue(t, u, c, from) ==
  /\ t \notin DOMAIN issued
  /\ issued' = Set(issued, t, u)
  /\ refreshTokens' = CreateRefreshToken(refreshTokens, t, u, c, from)
  /\ UNCHANGED revokedTokens

Revoke(T) ==
  /\ refreshTokens' = RevokeAll(refreshTokens, T)
  /\ revokedTokens' = revokedTokens \cup Revocable(refreshTokens, T)
  /\ UNCHANGED issued

UsableTokens ==
  {t \in DOMAIN refreshTokens : ~refreshTokens[t].revoked /\ ~refreshTokens[t].expired}

\* The client and its pool are there.
Serves(c, u) == PoolOf[c] = u.pool /\ u.pool \in pools

IsFree(r) == r \notin DOMAIN signIns /\ r \notin DOMAIN refreshes

-----------------------------------------------------------------------------
(* InitiateAuth, USER_PASSWORD_AUTH.                                        *)

Await(r, u, c, trigger) ==
  signIns' = Set(signIns, r, [user |-> u, client |-> c, waitingFor |-> trigger])

\* Mutant: the token is recorded after postAuthentication, by a call that may
\* by then be gone.
IssueForSignInRecordingLate(accounts, r, u, c) ==
  \E t \in Tokens :
    /\ Issue(t, u, c, "InitiateAuth")
    /\ users' = accounts
    /\ IF "postAuthentication" \in Triggers
         THEN Await(r, u, c, "postAuthentication")
         ELSE signIns' = Delete(signIns, r)

\* Tokens are created and recorded; the answer waits for postAuthentication.
IssueForSignIn(accounts, r, u, c) ==
  \E t \in Tokens :
    /\ Issue(t, u, c, "InitiateAuth")
    /\ users' \in RecordRefreshToken(accounts, u, t)
    /\ IF "postAuthentication" \in Triggers
         THEN Await(r, u, c, "postAuthentication")
         ELSE signIns' = Delete(signIns, r)

AfterPreAuthentication(accounts, r, u, c) ==
  \/ /\ "preTokenGeneration" \in Triggers
     /\ Await(r, u, c, "preTokenGeneration")
     /\ users' = accounts
     /\ UNCHANGED storeVars
  \/ /\ "preTokenGeneration" \notin Triggers
     /\ IssueForSignIn(accounts, r, u, c)

AfterPassword(accounts, r, u, c) ==
  \/ /\ "preAuthentication" \in Triggers
     /\ Await(r, u, c, "preAuthentication")
     /\ users' = accounts
     /\ UNCHANGED storeVars
  \/ /\ "preAuthentication" \notin Triggers
     /\ AfterPreAuthentication(accounts, r, u, c)

MaySignIn(u) ==
  /\ u \in DOMAIN users
  /\ users[u].enabled
  /\ users[u].status # "UNCONFIRMED"

SignIn(r, u, c) ==
  /\ IsFree(r)
  /\ Serves(c, u)
  /\ MaySignIn(u)
  /\ AfterPassword(users, r, u, c)
  /\ minted' = {}
  /\ UNCHANGED <<created, sessions, refreshes>>

\* The user has an MFA method (the preference is not modelled): the answer
\* is a challenge, no token.
SignInWithMfa(u, s) ==
  /\ MfaConfiguration # "OFF"
  /\ u.pool \in pools
  /\ MaySignIn(u)
  /\ s \notin DOMAIN sessions
  /\ sessions' = Set(sessions, s, [user |-> u, challenge |-> "MFA"])
  /\ minted' = {}
  /\ UNCHANGED <<accountVars, storeVars, callVars>>

\* No such user: the migration trigger is asked for one.
SignInUnknown(r, u, c) ==
  /\ IsFree(r)
  /\ Serves(c, u)
  /\ u \notin DOMAIN users
  /\ "userMigration" \in Triggers
  /\ Await(r, u, c, "userMigration")
  /\ minted' = {}
  /\ UNCHANGED <<accountVars, storeVars, sessions, refreshes>>

WaitsFor(r, trigger) == r \in DOMAIN signIns /\ signIns[r].waitingFor = trigger

\* The key of the migrated account: the name that was asked for, or a `sub',
\* drawn by the server or given by the trigger; nobody looks whether that one
\* is taken, nor whether the pool is still there.
MigratedKeys(u) ==
  IF UsernamesReusable
    THEN {u}
    ELSE {v \in Users : v.pool = u.pool /\ (v \notin created \/ MigrationNamesSub)}

\* The migrated account is created under v, and signed in at once: it has no
\* MFA method, is enabled and has the password just given.
UserMigrationReplies(r, v, status) ==
  /\ WaitsFor(r, "userMigration")
  /\ v \in MigratedKeys(signIns[r].user)
  /\ status \in {"CONFIRMED", "RESET_REQUIRED"}
  /\ created' = created \cup {v}
  /\ AfterPassword(Set(users, v, NewAccount(status)), r, v, signIns[r].client)
  /\ minted' = {}
  /\ UNCHANGED <<sessions, refreshes>>

PreAuthenticationReplies(r) ==
  /\ WaitsFor(r, "preAuthentication")
  /\ AfterPreAuthentication(users, r, signIns[r].user, signIns[r].client)
  /\ minted' = {}
  /\ UNCHANGED <<created, sessions, refreshes>>

PreTokenGenerationReplies(r) ==
  /\ WaitsFor(r, "preTokenGeneration")
  /\ IssueForSignIn(users, r, signIns[r].user, signIns[r].client)
  /\ minted' = {}
  /\ UNCHANGED <<created, sessions, refreshes>>

\* A failing trigger fails the call; postAuthentication only ends it.
SignInEnds(r) ==
  /\ r \in DOMAIN signIns
  /\ signIns' = Delete(signIns, r)
  /\ minted' = {}
  /\ UNCHANGED <<accountVars, storeVars, sessions, refreshes>>

-----------------------------------------------------------------------------
(* AdminInitiateAuth and RespondToAuthChallenge: no trigger, so one step.   *)

AdminSignIn(u, c, t) ==
  /\ Serves(c, u)
  /\ MaySignIn(u)
  /\ users[u].status # "FORCE_CHANGE_PASSWORD"
  /\ Issue(t, u, c, "AdminInitiateAuth")
  /\ users' \in RecordRefreshToken(users, u, t)
  /\ minted' = {}
  /\ UNCHANGED <<created, sessions, callVars>>

AdminSignInNewPassword(u, s) ==
  /\ u.pool \in pools
  /\ MaySignIn(u)
  /\ users[u].status = "FORCE_CHANGE_PASSWORD"
  /\ s \notin DOMAIN sessions
  /\ sessions' = Set(sessions, s, [user |-> u, challenge |-> "NEW_PASSWORD_REQUIRED"])
  /\ minted' = {}
  /\ UNCHANGED <<accountVars, storeVars, callVars>>

\* The right answer.  The session keeps a name: the account is looked up in the
\* pool of the client that answers, which need not be the session's, and
\* neither its `enabled' nor its status is looked at.
PassChallenge(s, c, t, u) ==
  /\ s \in DOMAIN sessions
  /\ PoolOf[c] \in pools
  /\ u \in GetUser(users, [pool |-> PoolOf[c], name |-> sessions[s].user.name])
  /\ LET account == IF sessions[s].challenge = "NEW_PASSWORD_REQUIRED"
                      THEN [users[u] EXCEPT !.status = "CONFIRMED"]
                      ELSE users[u]
     IN  /\ Issue(t, u, c, "RespondToAuthChallenge")
         /\ users' \in RecordRefreshToken(Set(users, u, account), u, t)
  /\ sessions' = Delete(sessions, s)
  /\ minted' = {}
  /\ UNCHANGED <<created, callVars>>

\* A wrong answer, a user who is gone, or the session's five minutes are over.
LoseSession(s) ==
  /\ s \in DOMAIN sessions
  /\ sessions' = Delete(sessions, s)
  /\ minted' = {}
  /\ UNCHANGED <<accountVars, storeVars, callVars>>

-----------------------------------------------------------------------------
(* The OIDC token endpoint.  The password grant and the code grant find the *)
(* user and look at nothing else; the token is not recorded with the user.  *)

OidcSignIn(u, c, t) ==
  /\ Serves(c, u)
  /\ u \in DOMAIN users
  /\ Issue(t, u, c, "OidcToken")
  /\ minted' = {}
  /\ UNCHANGED <<accountVars, sessions, callVars>>

-----------------------------------------------------------------------------
(* Presenting a refresh token.                                              *)

\* Mutant: the entry is read from the store and not through getRefreshToken.
SdkMayRefreshAnyEntry(t, c) ==
  /\ t \in DOMAIN refreshTokens
  /\ refreshTokens[t].client = c
  /\ PoolOf[c] \in pools
  /\ \E w \in GetUser(users, refreshTokens[t].user) : users[w].enabled

\* InitiateAuth and AdminInitiateAuth, REFRESH_TOKEN_AUTH.
SdkMayRefresh(t, c) ==
  /\ Usable(refreshTokens, t)
  /\ refreshTokens[t].client = c
  /\ PoolOf[c] \in pools
  /\ \E w \in GetUser(users, refreshTokens[t].user) : users[w].enabled

Refresh(r, t, c) ==
  /\ IsFree(r)
  /\ SdkMayRefresh(t, c)
  /\ \/ /\ "preTokenGeneration" \in Triggers
        /\ refreshes' = Set(refreshes, r, t)
        /\ minted' = {}
     \/ /\ "preTokenGeneration" \notin Triggers
        /\ minted' = {t}
        /\ UNCHANGED refreshes
  /\ UNCHANGED <<accountVars, storeVars, sessions, signIns>>

RefreshReplies(r) ==
  /\ r \in DOMAIN refreshes
  /\ minted' = {refreshes[r]}
  /\ refreshes' = Delete(refreshes, r)
  /\ UNCHANGED <<accountVars, storeVars, sessions, signIns>>

RefreshFails(r) ==
  /\ r \in DOMAIN refreshes
  /\ minted' = {}
  /\ refreshes' = Delete(refreshes, r)
  /\ UNCHANGED <<accountVars, storeVars, sessions, signIns>>

AdminRefresh(t, c) ==
  /\ SdkMayRefresh(t, c)
  /\ minted' = {t}
  /\ UNCHANGED <<accountVars, storeVars, sessions, callVars>>

\* The refresh_token grant looks the user up and does not look at `enabled'.
OidcRefresh(t, c) ==
  /\ Usable(refreshTokens, t)
  /\ refreshTokens[t].client = c
  /\ PoolOf[c] \in pools
  /\ GetUser(users, refreshTokens[t].user) # {}
  /\ minted' = {t}
  /\ UNCHANGED <<accountVars, storeVars, sessions, callVars>>

\* Any call that reads an expired token, RevokeToken included, drops its entry.
PresentExpired(t) ==
  /\ FoundExpired(refreshTokens, t)
  /\ refreshTokens' = GetRefreshToken(refreshTokens, t)
  /\ minted' = {}
  /\ UNCHANGED <<accountVars, revokedTokens, issued, sessions, callVars>>

-----------------------------------------------------------------------------
(* Invalidation.                                                            *)

\* The clock passes expiresAt.
Expire(t) ==
  /\ t \in DOMAIN refreshTokens
  /\ refreshTokens' = [refreshTokens EXCEPT ![t].expired = TRUE]
  /\ minted' = {}
  /\ UNCHANGED <<accountVars, revokedTokens, issued, sessions, callVars>>

\* What becomes of the accounts when t is taken off the list of its user.
Forget(u, t) == AfterUpdate(users, u, LAMBDA a : [a EXCEPT !.refreshTokens = @ \ {t}])

\* The SDK's RevokeToken.
RevokeToken(t) ==
  /\ Usable(refreshTokens, t)
  /\ Revoke({t})
  /\ users' \in Forget(refreshTokens[t].user, t)
  /\ minted' = {}
  /\ UNCHANGED <<created, sessions, callVars>>

\* POST /oauth2/revoke: the user's own list is left as it is.
OidcRevoke(t) ==
  /\ Revoke({t})
  /\ minted' = {}
  /\ UNCHANGED <<accountVars, sessions, callVars>>

\* clearRefreshTokensForUser, then revoke what it returned and what a scan of
\* the token store finds.
SignedOut(u) == [users[u] EXCEPT !.refreshTokens = {}]

RevokeAllOf(u) == Revoke(users[u].refreshTokens \cup TokensOf(refreshTokens, u))

IsThere(u) == u \in DOMAIN users /\ u.pool \in pools

GlobalSignOut(u) ==
  /\ IsThere(u)
  /\ users[u].enabled
  /\ RevokeAllOf(u)
  /\ UpdateUser(u, SignedOut(u))
  /\ minted' = {}
  /\ UNCHANGED <<sessions, callVars>>

AdminUserGlobalSignOut(u) ==
  /\ IsThere(u)
  /\ RevokeAllOf(u)
  /\ UpdateUser(u, SignedOut(u))
  /\ minted' = {}
  /\ UNCHANGED <<sessions, callVars>>

AdminDisableUser(u) ==
  /\ IsThere(u)
  /\ RevokeAllOf(u)
  /\ UpdateUser(u, [SignedOut(u) EXCEPT !.enabled = FALSE])
  /\ minted' = {}
  /\ UNCHANGED <<sessions, callVars>>

AdminDeleteUser(u) ==
  /\ IsThere(u)
  /\ RevokeAllOf(u)
  /\ users' = Delete(users, u)
  /\ minted' = {}
  /\ UNCHANGED <<created, sessions, callVars>>

\* Mutant: DeleteUser walks the user's own list and does not scan the store.
DeleteUserByList(u) ==
  /\ IsThere(u)
  /\ users[u].enabled
  /\ Revoke(users[u].refreshTokens)
  /\ users' = Delete(users, u)
  /\ minted' = {}
  /\ UNCHANGED <<created, sessions, callVars>>

\* DeleteUser, by an enabled user: the scan only, the list goes with the user.
DeleteUser(u) ==
  /\ IsThere(u)
  /\ users[u].enabled
  /\ Revoke(TokensOf(refreshTokens, u))
  /\ users' = Delete(users, u)
  /\ minted' = {}
  /\ UNCHANGED <<created, sessions, callVars>>

-----------------------------------------------------------------------------
(* Accounts, as far as the handlers above depend on them.                   *)

\* Mutant: a registration that does not look for an existing account.
IsUnusedUUID(u) == UsernamesReusable \/ u \notin created

IsNewUsername(u) == u \notin DOMAIN users /\ (UsernamesReusable \/ u \notin created)

AdminCreateUser(u) ==
  /\ u.pool \in pools
  /\ IsNewUsername(u)
  /\ CreateUser(u, "FORCE_CHANGE_PASSWORD")
  /\ minted' = {}
  /\ UNCHANGED <<storeVars, sessions, callVars>>

\* SignUp in a pool without a preSignUp trigger.
SignUp(u) ==
  /\ u.pool \in pools
  /\ IsNewUsername(u)
  /\ CreateUser(u, "UNCONFIRMED")
  /\ minted' = {}
  /\ UNCHANGED <<storeVars, sessions, callVars>>

AdminEnableUser(u) ==
  /\ IsThere(u)
  /\ UpdateUser(u, [users[u] EXCEPT !.enabled = TRUE])
  /\ minted' = {}
  /\ UNCHANGED <<storeVars, sessions, callVars>>

\* The confirmation, password and reset calls: from any status to one of three.
ChangeStatus(u, status) ==
  /\ IsThere(u)
  /\ status # "UNCONFIRMED"
  /\ UpdateUser(u, [users[u] EXCEPT !.status = status])
  /\ minted' = {}
  /\ UNCHANGED <<storeVars, sessions, callVars>>

\* The pool goes with its clients and its accounts.  Their tokens stay as they
\* are, and so do the sessions and the calls in flight.
DeleteUserPool(p) ==
  /\ p \in pools
  /\ pools' = pools \ {p}
  /\ users' = Restrict(users, {u \in DOMAIN users : u.pool # p})
  /\ leftBehind' = leftBehind \cup {t \in UsableTokens : refreshTokens[t].user.pool = p}
  /\ minted' = {}
  /\ UNCHANGED <<created, storeVars, sessions, callVars>>

\* The process stops and starts again: the stores are read back from their
\* files, the pools of the configuration and the seed users are added, the
\* calls in flight are gone.
Restart ==
  /\ pools' = pools \cup ConfigPools
  /\ UNCHANGED leftBehind
  /\ users' = Seeded(users)
  /\ created' = created \cup Seeds
  /\ signIns' = Empty
  /\ refreshes' = Empty
  /\ minted' = {}
  /\ UNCHANGED <<storeVars, sessions>>

-----------------------------------------------------------------------------
TriggerReplies(r) ==
  /\ \/ \E v \in Users, status \in Statuses : UserMigrationReplies(r, v, status)
     \/ PreAuthenticationReplies(r)
     \/ PreTokenGenerationReplies(r)
     \/ SignInEnds(r)
     \/ RefreshReplies(r)
     \/ RefreshFails(r)
  /\ UNCHANGED poolVars

SignInStep ==
  \/ \E r \in Requests, u \in Users, c \in Clients : SignIn(r, u, c) \/ SignInUnknown(r, u, c)
  \/ \E u \in Users, s \in Sessions : SignInWithMfa(u, s) \/ AdminSignInNewPassword(u, s)
  \/ \E u \in Users, c \in Clients, t \in Tokens :
       \/ AdminSignIn(u, c, t)
       \/ \E s \in Sessions : PassChallenge(s, c, t, u)
       \/ OidcSignIn(u, c, t)
  \/ \E s \in Sessions : LoseSession(s)

TokenStep ==
  \/ \E r \in Requests, t \in Tokens, c \in Clients : Refresh(r, t, c)
  \/ \E t \in Tokens, c \in Clients : AdminRefresh(t, c) \/ OidcRefresh(t, c)
  \/ \E t \in Tokens : PresentExpired(t) \/ Expire(t) \/ RevokeToken(t) \/ OidcRevoke(t)

AccountStep ==
  \E u \in Users :
    \/ GlobalSignOut(u)
    \/ AdminUserGlobalSignOut(u)
    \/ AdminDisableUser(u)
    \/ AdminEnableUser(u)
    \/ AdminDeleteUser(u)
    \/ DeleteUser(u)
    \/ AdminCreateUser(u)
    \/ SignUp(u)
    \/ \E status \in Statuses : ChangeStatus(u, status)

Next ==
  \/ \E r \in Requests : TriggerReplies(r)
  \/ (SignInStep \/ TokenStep \/ AccountStep) /\ UNCHANGED poolVars
  \/ \E p \in Pools : DeleteUserPool(p)
  \/ Restart

Spec == Init /\ [][Next]_vars

\* A trigger call ends: fetch gives up on a silent endpoint, a Lambda function
\* runs for 15 minutes at most, and an error is an answer too.
FairSpec == Spec /\ \A r \in Requests : WF_vars(TriggerReplies(r))

-----------------------------------------------------------------------------
(* Safety.                                                                  *)

\* Two files say that a token is revoked, the entry and revoked-tokens.json,
\* and they agree: revoking writes both, and the entry of a revoked token is
\* never dropped, not even when it expires.
RevocationRecorded ==
  revokedTokens = {t \in DOMAIN refreshTokens : refreshTokens[t].revoked}

\* An entry names the user its token was issued to: no handler moves a token.
EntriesIssued ==
  \A t \in DOMAIN refreshTokens :
    t \in DOMAIN issued /\ issued[t] = refreshTokens[t].user

\* The same user, or one whose name differs in letter case alone.
Alike(u, w) == u.pool = w.pool /\ Lower[u.name] = Lower[w.name]

\* The list a user carries names only tokens that were issued to that user, or
\* to one in the same pool whose name differs in letter case alone, so a
\* sign-out that walks the list cannot revoke anybody else's token, even after
\* the username was deleted and taken again while a sign-in waited.
TokenListSound ==
  \A u \in DOMAIN users : \A t \in users[u].refreshTokens :
    t \in DOMAIN issued /\ Alike(issued[t], u)

\* The list misses no usable token that an SDK call issued to an existing user,
\* but for those a deleted pool left behind: whatever the order of sign-ins,
\* revocations, deletions and restarts.  (The OIDC grants never record theirs,
\* which is why every sign-out also scans the token store.)
TokenListComplete ==
  \A t \in UsableTokens \ leftBehind :
    /\ refreshTokens[t].origin \in SdkOrigins
    /\ refreshTokens[t].user \in DOMAIN users
    => t \in users[refreshTokens[t].user].refreshTokens

\* Deleting a user leaves no usable token behind, whichever handler issued it,
\* so whoever takes the username next starts without one.  Deleting the user's
\* pool does, and nothing else: the next start may bring the pool and the user
\* back, and the tokens with them.
NoOrphanTokens ==
  \A t \in UsableTokens \ leftBehind : refreshTokens[t].user \in DOMAIN users

\* A usable token that came from one of the two flows that check the account
\* belongs to an account that would still pass those checks: disabling or
\* deleting the user and registering the name again cannot leave one over, only
\* the deletion of the pool can.
GuardedTokensStayGuarded ==
  \A t \in UsableTokens \ leftBehind :
    refreshTokens[t].origin \in {"InitiateAuth", "AdminInitiateAuth"}
    => MaySignIn(refreshTokens[t].user)

\* The handlers implement the ledger: tokens are issued once, die alone or with
\* all of their user's, never come back, and are minted from only while usable
\* or by a call accepted while they were.
Ledger == INSTANCE TokenLedger
            WITH owner <- issued, usable <- UsableTokens, accepted <- refreshes

ImplementsLedger == Ledger!Spec

(* Liveness.                                                                *)

\* A revocation takes effect in the end: once a token is no longer usable, a
\* time comes after which no refresh call holds it.
RevocationTakesEffect ==
  \A t \in Tokens :
    t \in DOMAIN issued \ UsableTokens
    ~> [](\A r \in DOMAIN refreshes : refreshes[r] # t)
=============================================================================
