---------------------------- MODULE TokenLedger ----------------------------
(***************************************************************************)
(* What the server promises about refresh tokens, with no store, account   *)
(* or handler in sight.  A token is issued once, to one user; it is usable *)
(* until it is invalidated, alone or with every other token of its user;   *)
(* and an access token is minted from it only while it is usable or for a  *)
(* refresh call that was accepted while it was usable.                     *)
(***************************************************************************)
CONSTANTS
  Users, Tokens, Requests,
  Alike(_, _)     \* the server may take one user for the other

VARIABLES
  owner,      \* the user of each token issued so far
  usable,     \* the tokens a refresh call may present
  accepted,   \* the token of each refresh call accepted and not yet answered
  minted      \* the token the last step minted an access token from, if any

vars == <<owner, usable, accepted, minted>>

LedgerTypeOK ==
  /\ DOMAIN owner \subseteq Tokens
  /\ owner \in [DOMAIN owner -> Users]
  /\ usable \subseteq DOMAIN owner
  /\ DOMAIN accepted \subseteq Requests
  /\ accepted \in [DOMAIN accepted -> DOMAIN owner]
  /\ minted \subseteq DOMAIN owner

TokensOf(u) == {t \in DOMAIN owner : owner[t] = u}

Init ==
  /\ owner = [t \in {} |-> {}]
  /\ usable = {}
  /\ accepted = [r \in {} |-> {}]
  /\ minted = {}

Issue(t, u) ==
  /\ t \notin DOMAIN owner
  /\ owner' = [x \in DOMAIN owner \cup {t} |-> IF x = t THEN u ELSE owner[x]]
  /\ usable' = usable \cup {t}
  /\ minted' = {}
  /\ UNCHANGED accepted

\* One token is revoked or expires.
Invalidate(t) ==
  /\ t \in DOMAIN owner
  /\ usable' = usable \ {t}
  /\ minted' = {}
  /\ UNCHANGED <<owner, accepted>>

\* All or nothing: a sign-out leaves its user no usable token, and touches no
\* token of another user but of one it may be taken for.
SignOut(u) ==
  /\ usable' \subseteq usable \ TokensOf(u)
  /\ \A t \in usable \ usable' : Alike(owner[t], u)
  /\ minted' = {}
  /\ UNCHANGED <<owner, accepted>>

Accept(r, t) ==
  /\ r \notin DOMAIN accepted
  /\ t \in usable
  /\ accepted' = [x \in DOMAIN accepted \cup {r} |-> IF x = r THEN t ELSE accepted[x]]
  /\ minted' = {}
  /\ UNCHANGED <<owner, usable>>

Mint(t) ==
  /\ t \in usable
  /\ minted' = {t}
  /\ UNCHANGED <<owner, usable, accepted>>

\* The answers of accepted calls, and their loss when the server stops.
Close(R) == accepted' = [r \in DOMAIN accepted \ R |-> accepted[r]]

MintAccepted(r) ==
  /\ r \in DOMAIN accepted
  /\ minted' = {accepted[r]}
  /\ Close({r})
  /\ UNCHANGED <<owner, usable>>

Abandon(R) ==
  /\ minted' = {}
  /\ Close(R)
  /\ UNCHANGED <<owner, usable>>

Next ==
  \/ \E t \in Tokens, u \in Users : Issue(t, u)
  \/ \E t \in Tokens : Invalidate(t) \/ Mint(t)
  \/ \E u \in Users : SignOut(u)
  \/ \E r \in Requests, t \in Tokens : Accept(r, t)
  \/ \E r \in Requests : MintAccepted(r)
  \/ \E R \in SUBSET Requests : Abandon(R)

Spec == Init /\ [][Next]_vars
=============================================================================
