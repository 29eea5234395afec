------------------------- MODULE AccessTokensProofs -------------------------
(***************************************************************************)
(* AccessTokens, for any pools, usernames, clients and triggers.           *)
(***************************************************************************)
EXTENDS AccessTokens, TLAPS

USE AccessTokensAssumption

\* The owner of a token has its account as long as it is not deleted.
OwnersKnown ==
  \A t \in DOMAIN tokens : tokens[t].alive => tokens[t].owner \in DOMAIN users

\* No trigger touches the claim `sub'.
SubNamesOwner ==
  \A t \in DOMAIN tokens : tokens[t].claims["sub"] = tokens[t].owner[2]

Inv == TypeOK /\ OwnersKnown /\ SubNamesOwner

-----------------------------------------------------------------------------
(* Types.                                                                   *)

ClaimNames == {"sub", "username", "client_id"}

LEMMA TokenFields ==
  ASSUME TypeOK, NEW t \in DOMAIN tokens
  PROVE  /\ tokens[t] \in AccessToken
         /\ tokens[t].claims \in [ClaimNames -> Values]
         /\ tokens[t].owner \in Users
         /\ tokens[t].alive \in BOOLEAN
BY DEF TypeOK, AccessToken, ClaimNames

\* What a trigger answers leaves claims that are claims, and the `sub' they had.
LEMMA OverriddenClaims ==
  ASSUME NEW name \in Names, NEW c \in Clients, NEW overrides \in Overrides
  PROVE  LET claims == ApplyOverrides(BuildAccessTokenClaims(name, c), overrides)
         IN  claims \in [ClaimNames -> Values] /\ claims["sub"] = name
<1> DEFINE built == BuildAccessTokenClaims(name, c)
<1>1. built \in [ClaimNames -> Values] /\ built["sub"] = name
  BY DEF BuildAccessTokenClaims, ClaimNames, Values
<1>2. \A claim \in DOMAIN overrides : overrides[claim] \in Values
  <2>1. PICK claims \in SUBSET {"sub", "username", "client_id"} : overrides \in [claims -> Values]
    BY DEF Overrides
  <2> QED
    BY <2>1
<1> HIDE DEF built
<1>3. ApplyOverrides(built, overrides) \in [ClaimNames -> Values]
  BY <1>1, <1>2 DEF ApplyOverrides
<1>4. ApplyOverrides(built, overrides)["sub"] = name
  BY <1>1 DEF ApplyOverrides, ReservedClaims, ClaimNames
<1> QED
  BY <1>3, <1>4 DEF built

\* Access to a store that is written to.
LEMMA SetStore ==
  ASSUME NEW store, NEW k, NEW v
  PROVE  /\ DOMAIN Set(store, k, v) = DOMAIN store \cup {k}
         /\ Set(store, k, v)[k] = v
         /\ \A x \in DOMAIN store \ {k} : Set(store, k, v)[x] = store[x]
BY DEF Set

LEMMA DeleteStore ==
  ASSUME NEW store, NEW k
  PROVE  /\ DOMAIN Delete(store, k) = DOMAIN store \ {k}
         /\ \A x \in DOMAIN store \ {k} : Delete(store, k)[x] = store[x]
BY DEF Delete, Restrict

\* A store whose values have a type is the function of that type.
LEMMA SetTyped ==
  ASSUME NEW store, NEW k, NEW T, NEW v \in T, store \in [DOMAIN store -> T]
  PROVE  Set(store, k, v) \in [DOMAIN Set(store, k, v) -> T]
BY DEF Set

LEMMA DeleteTyped ==
  ASSUME NEW store, NEW k, NEW T, store \in [DOMAIN store -> T]
  PROVE  Delete(store, k) \in [DOMAIN Delete(store, k) -> T]
BY DEF Delete, Restrict

-----------------------------------------------------------------------------
(* Each action.                                                             *)

LEMMA InitInv == Init => Inv
BY DEF Init, Inv, TypeOK, OwnersKnown, SubNamesOwner, Empty

LEMMA GenerateTokensInv ==
  ASSUME Inv, NEW t \in Tokens, NEW u \in Users, NEW c \in Clients, NEW overrides \in Overrides,
         GenerateTokens(t, u, c, overrides)
  PROVE  Inv'
<1> DEFINE claims == ApplyOverrides(BuildAccessTokenClaims(u[2], c), overrides)
           token == [claims |-> claims, owner |-> u, alive |-> TRUE]
<1>1. /\ tokens' = Set(tokens, t, token)
      /\ UNCHANGED <<users, clients>>
      /\ u \in DOMAIN users
  BY DEF GenerateTokens
<1>2. u[2] \in Names
  BY DEF Users
<1>3. claims \in [ClaimNames -> Values] /\ claims["sub"] = u[2]
  BY <1>2, OverriddenClaims
<1> HIDE DEF claims
<1>4. token \in AccessToken
  BY <1>3 DEF AccessToken, ClaimNames
<1>5. /\ token.claims["sub"] = token.owner[2]
      /\ token.owner = u
      /\ token.alive
  BY <1>3
<1> HIDE DEF token
<1>6. TypeOK'
  <2>1. DOMAIN tokens' \subseteq Tokens
    BY <1>1 DEF Inv, TypeOK, Set
  <2>2. tokens' \in [DOMAIN tokens' -> AccessToken]
    <3>1. tokens \in [DOMAIN tokens -> AccessToken]
      BY DEF Inv, TypeOK
    <3>2. Set(tokens, t, token) \in [DOMAIN Set(tokens, t, token) -> AccessToken]
      BY <1>4, <3>1, SetTyped
    <3> QED
      BY <1>1, <3>2
  <2>3. users' = users /\ clients' = clients
    BY <1>1
  <2> QED
    BY <2>1, <2>2, <2>3 DEF Inv, TypeOK
<1>7. ASSUME NEW x \in DOMAIN tokens'
      PROVE  tokens'[x] = token \/ (x \in DOMAIN tokens /\ tokens'[x] = tokens[x])
  BY <1>1 DEF Set
<1>8. OwnersKnown'
  <2> SUFFICES ASSUME NEW x \in DOMAIN tokens'
               PROVE  tokens'[x].alive => tokens'[x].owner \in DOMAIN users'
    BY DEF OwnersKnown
  <2>1. users' = users
    BY <1>1
  <2>2. CASE tokens'[x] = token
    BY <1>1, <1>5, <2>1, <2>2
  <2>3. CASE x \in DOMAIN tokens /\ tokens'[x] = tokens[x]
    BY <2>1, <2>3 DEF Inv, OwnersKnown
  <2> QED
    BY <1>7, <2>2, <2>3
<1>9. SubNamesOwner'
  BY <1>5, <1>7 DEF Inv, SubNamesOwner
<1> QED
  BY <1>6, <1>8, <1>9 DEF Inv

LEMMA ExpireInv ==
  ASSUME Inv, NEW t \in Tokens, Expire(t)
  PROVE  Inv'
<1>1. /\ tokens' = Delete(tokens, t)
      /\ UNCHANGED <<users, clients>>
  BY DEF Expire
<1>2. TypeOK'
  <2>1. tokens \in [DOMAIN tokens -> AccessToken]
    BY DEF Inv, TypeOK
  <2>2. tokens' \in [DOMAIN tokens' -> AccessToken]
    BY <1>1, <2>1, DeleteTyped
  <2>3. DOMAIN tokens' \subseteq Tokens
    BY <1>1, DeleteStore DEF Inv, TypeOK
  <2> QED
    BY <1>1, <2>2, <2>3 DEF Inv, TypeOK
<1>3. ASSUME NEW x \in DOMAIN tokens'
      PROVE  x \in DOMAIN tokens /\ tokens'[x] = tokens[x]
  BY <1>1, DeleteStore
<1>4. OwnersKnown' /\ SubNamesOwner'
  BY <1>1, <1>3 DEF Inv, OwnersKnown, SubNamesOwner
<1> QED
  BY <1>2, <1>4 DEF Inv

\* Accounts that change, or come.
LEMMA SetUserInv ==
  ASSUME Inv, NEW u \in Users, NEW account \in Account,
         users' = Set(users, u, account),
         UNCHANGED <<clients, tokens>>
  PROVE  Inv'
<1>1. DOMAIN users' = DOMAIN users \cup {u}
  BY SetStore
<1>2. TypeOK'
  <2>1. users \in [DOMAIN users -> Account]
    BY DEF Inv, TypeOK
  <2>2. users' \in [DOMAIN users' -> Account]
    BY <2>1, SetTyped
  <2> QED
    BY <1>1, <2>2 DEF Inv, TypeOK
<1>3. OwnersKnown'
  BY <1>1 DEF Inv, OwnersKnown
<1>4. SubNamesOwner'
  BY <1>1 DEF Inv, SubNamesOwner
<1> QED
  BY <1>2, <1>3, <1>4 DEF Inv

LEMMA CreateUserInv ==
  ASSUME Inv, NEW u \in Users, NEW given \in SUBSET Names, CreateUser(u, given)
  PROVE  Inv'
<1>1. PICK sub \in given \cup {IF u[1] \in ChosenNames THEN None ELSE u[2]} :
        users' = Set(users, u, [sub |-> sub, enabled |-> TRUE])
  BY DEF CreateUser
<1>2. [sub |-> sub, enabled |-> TRUE] \in Account
  BY DEF Account, Users
<1> QED
  BY <1>1, <1>2, SetUserInv DEF CreateUser

LEMMA ChangedUserInv ==
  ASSUME Inv, NEW u \in DOMAIN users, NEW account \in Account,
         users' = Set(users, u, account),
         UNCHANGED <<clients, tokens>>
  PROVE  Inv'
<1>1. u \in Users
  BY DEF Inv, TypeOK
<1> QED
  BY <1>1, SetUserInv

LEMMA ChangeSubInv ==
  ASSUME Inv, NEW u \in DOMAIN users, NEW sub \in Names \cup {None}, ChangeSub(u, sub)
  PROVE  Inv'
<1>1. [users[u] EXCEPT !.sub = sub] \in Account
  BY DEF Inv, TypeOK, Account
<1> QED
  BY <1>1, ChangedUserInv DEF ChangeSub

LEMMA SetEnabledInv ==
  ASSUME Inv, NEW u \in Users, NEW enabled \in BOOLEAN, SetEnabled(u, enabled)
  PROVE  Inv'
<1>1. [users[u] EXCEPT !.enabled = enabled] \in Account
  BY DEF Inv, TypeOK, Account, SetEnabled
<1> QED
  BY <1>1, ChangedUserInv DEF SetEnabled

\* Accounts that go mark their tokens.
LEMMA RemoveInv ==
  ASSUME Inv, NEW gone, Remove(gone), clients' \subseteq clients
  PROVE  Inv'
<1>1. /\ DOMAIN users' = DOMAIN users \ gone
      /\ \A u \in DOMAIN users' : users'[u] = users[u]
      /\ users' \in [DOMAIN users' -> Account]
  BY DEF Inv, TypeOK, Remove
<1>2. DOMAIN tokens' = DOMAIN tokens
  BY DEF Remove
<1>3. ASSUME NEW t \in DOMAIN tokens
      PROVE  /\ tokens'[t] \in AccessToken
             /\ tokens'[t].claims = tokens[t].claims
             /\ tokens'[t].owner = tokens[t].owner
             /\ tokens[t].owner \in gone => ~tokens'[t].alive
             /\ tokens[t].owner \notin gone => tokens'[t].alive = tokens[t].alive
  <2>1. tokens[t] \in AccessToken
    BY TokenFields DEF Inv
  <2>2. tokens'[t] = IF tokens[t].owner \in gone THEN [tokens[t] EXCEPT !.alive = FALSE] ELSE tokens[t]
    BY DEF Remove
  <2> QED
    BY <2>1, <2>2 DEF AccessToken
<1>4. tokens' \in [DOMAIN tokens' -> AccessToken]
  BY <1>2, <1>3 DEF Remove
<1>5. TypeOK'
  BY <1>1, <1>2, <1>4 DEF Inv, TypeOK, Remove
<1>6. OwnersKnown'
  BY <1>1, <1>2, <1>3 DEF Inv, OwnersKnown, Remove
<1>7. SubNamesOwner'
  BY <1>1, <1>2, <1>3 DEF Inv, SubNamesOwner, Remove
<1> QED
  BY <1>5, <1>6, <1>7 DEF Inv

LEMMA ClientsInv ==
  ASSUME Inv, clients' \subseteq Clients, UNCHANGED <<users, tokens>>
  PROVE  Inv'
BY DEF Inv, TypeOK, OwnersKnown, SubNamesOwner

-----------------------------------------------------------------------------
(* The steps together.                                                      *)

LEMMA ResolvedAreUsers == \A t : ResolveUser(t) \subseteq DOMAIN users
BY DEF ResolveUser, FindUser, FindBySub, OrElse, GetUser, GetUserBySub

LEMMA NextInv == Inv /\ [Next]_vars => Inv'
<1> SUFFICES ASSUME Inv, [Next]_vars PROVE Inv'
  OBVIOUS
<1>1. CASE UNCHANGED vars
  BY <1>1 DEF vars, Inv, TypeOK, OwnersKnown, SubNamesOwner
<1>2. ASSUME NEW t \in Tokens, ByToken(t) PROVE Inv'
  <2>1. CASE \E u \in Users, c \in Clients, overrides \in Overrides : GenerateTokens(t, u, c, overrides)
    BY <2>1, GenerateTokensInv
  <2>2. CASE Expire(t)
    BY <2>2, ExpireInv
  <2>3. CASE \E sub \in Names \cup {None} : UpdateUserAttributes(t, sub)
    BY <2>3, ChangeSubInv, ResolvedAreUsers DEF UpdateUserAttributes
  <2>4. CASE DeleteUser(t)
    BY <2>4, RemoveInv DEF DeleteUser
  <2> QED
    BY <1>2, <2>1, <2>2, <2>3, <2>4 DEF ByToken
<1>3. ASSUME NEW u \in Users, ByAdministrator(u) PROVE Inv'
  <2>1. CASE SignUp(u)
    BY <2>1, CreateUserInv DEF SignUp
  <2>2. CASE AdminCreateUser(u)
    BY <2>2, CreateUserInv DEF AdminCreateUser
  <2>3. CASE \E sub \in Names \cup {None} : AdminUpdateUserAttributes(u, sub)
    BY <2>3, ChangeSubInv DEF AdminUpdateUserAttributes
  <2>4. CASE \E enabled \in BOOLEAN : SetEnabled(u, enabled)
    BY <2>4, SetEnabledInv
  <2>5. CASE AdminDeleteUser(u)
    BY <2>5, RemoveInv DEF AdminDeleteUser
  <2> QED
    BY <1>3, <2>1, <2>2, <2>3, <2>4, <2>5 DEF ByAdministrator
<1>4. ASSUME NEW c \in Clients, CreateUserPoolClient(c) \/ DeleteUserPoolClient(c) PROVE Inv'
  BY <1>4, ClientsInv DEF CreateUserPoolClient, DeleteUserPoolClient, Inv, TypeOK
<1>5. ASSUME NEW p \in Pools, DeleteUserPool(p) PROVE Inv'
  BY <1>5, RemoveInv DEF DeleteUserPool
<1> QED
  BY <1>1, <1>2, <1>3, <1>4, <1>5 DEF Next

LEMMA InvHolds == Spec => []Inv
BY InitInv, NextInv, PTL DEF Spec

\* Types hold, whatever the triggers answer.
THEOREM TypeCorrect == Spec => []TypeOK
<1>1. Inv => TypeOK
  BY DEF Inv
<1> QED
  BY <1>1, InvHolds, PTL

-----------------------------------------------------------------------------
(* Whom the tokens speak for.                                               *)

\* A token whose client stands is looked up in its owner's pool.
LEMMA PoolOfOwner ==
  ASSUME NEW t \in DOMAIN tokens, ClientStands(t)
  PROVE  PoolFor(tokens[t].claims) = tokens[t].owner[1]
BY DEF ClientStands, PoolFor

\* As long as its client stands a token speaks for its owner, and for nobody
\* else, at GetUser and the rest of the SDK and at userinfo.
THEOREM OwnersAnswer == Spec => []OwnerAnswers
<1>1. ASSUME Inv, NEW t \in DOMAIN tokens, tokens[t].alive, ClientStands(t)
      PROVE  /\ tokens[t].owner \in DOMAIN users
             /\ UserInfo(t) = {tokens[t].owner}
             /\ ResolveUser(t) = {u \in {tokens[t].owner} : users[u].enabled}
  <2> DEFINE owner == tokens[t].owner
  <2>1. owner \in DOMAIN users
    BY <1>1 DEF Inv, OwnersKnown
  <2>2. owner = <<owner[1], owner[2]>>
    BY <1>1, TokenFields DEF Inv, Users
  <2>3. /\ PoolFor(tokens[t].claims) = owner[1]
        /\ tokens[t].claims["sub"] = owner[2]
    BY <1>1, PoolOfOwner DEF Inv, SubNamesOwner
  <2>4. GetUser(PoolFor(tokens[t].claims), tokens[t].claims["sub"]) = {owner}
    BY <2>1, <2>2, <2>3 DEF GetUser
  <2>5. FindBySub(tokens[t].claims) = {owner}
    BY <2>4 DEF FindBySub, OrElse
  <2>6. FindUser(tokens[t].claims) = {owner}
    BY <2>5 DEF FindUser, OrElse
  <2> QED
    BY <2>1, <2>5, <2>6 DEF UserInfo, ResolveUser
<1>2. Inv => OwnerAnswers
  BY <1>1 DEF OwnerAnswers
<1> QED
  BY <1>2, InvHolds, PTL
=============================================================================
