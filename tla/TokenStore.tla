----------------------------- MODULE TokenStore ----------------------------
(***************************************************************************)
(* The methods of src/data/token-store.ts that work on refresh tokens, as  *)
(* operators on the contents of the two stores they use: refreshTokens     *)
(* (token -> entry) and revokedTokens (a set of tokens).                   *)
(*                                                                         *)
(* An entry keeps what the handlers read: the key of its user (userPoolId  *)
(* and userId, one value here), its client, and whether it was revoked.    *)
(* expiresAt is abstracted to `expired', which becomes TRUE once the clock *)
(* has passed it.  `origin' names the handler that issued the token; the   *)
(* code does not store it, the properties need it.                         *)
(***************************************************************************)
EXTENDS DataStore

CONSTANTS Users, Clients, Tokens

\* The calls that create a refresh token, the grants of the token endpoint last.
SdkOrigins == {"InitiateAuth", "AdminInitiateAuth", "RespondToAuthChallenge"}
Origins == SdkOrigins \cup {"OidcToken"}

RefreshTokenEntry ==
  [user : Users, client : Clients, revoked : BOOLEAN, expired : BOOLEAN, origin : Origins]

\* createRefreshToken: 64 random bytes, so never a token seen before.
CreateRefreshToken(store, t, u, c, from) ==
  Set(store, t, [user |-> u, client |-> c, revoked |-> FALSE, expired |-> FALSE, origin |-> from])

\* getRefreshToken(t) returns an entry.
Usable(store, t) ==
  /\ t \in DOMAIN store
  /\ ~store[t].revoked
  /\ ~store[t].expired

\* Mutant: getRefreshToken looks at expiresAt before `revoked'.
FoundExpiredFirst(store, t) == t \in DOMAIN store /\ store[t].expired

\* getRefreshToken deletes an entry it finds expired; it looks at `revoked' first.
FoundExpired(store, t) ==
  /\ t \in DOMAIN store
  /\ ~store[t].revoked
  /\ store[t].expired

GetRefreshToken(store, t) == IF FoundExpired(store, t) THEN Delete(store, t) ELSE store

\* The tokens whose entry names the user, revoked or not.
TokensOf(store, u) == {t \in DOMAIN store : store[t].user = u}

\* revokeRefreshToken for every token of T: entries are marked, never removed.
RevokeAll(store, T) ==
  [t \in DOMAIN store |-> [store[t] EXCEPT !.revoked = store[t].revoked \/ t \in T]]

\* What the same calls add to revokedTokens: a token without an entry is ignored.
Revocable(store, T) == T \cap DOMAIN store
=============================================================================
