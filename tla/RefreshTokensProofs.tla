------------------------ MODULE RefreshTokensProofs ------------------------
(***************************************************************************)
(* What RefreshTokens guarantees for every number of users, clients,       *)
(* tokens, sessions and calls, and every choice of triggers.               *)
(***************************************************************************)
EXTENDS RefreshTokens, TLAPS

-----------------------------------------------------------------------------
(* Type correctness, by the parts of the state a step may touch.            *)

\* Issuing a token keeps the token stores well-typed.
LEMMA IssueStores ==
  ASSUME StoresOK, NEW t \in Tokens, NEW u \in Users, NEW c \in Clients,
         NEW from \in Origins, Issue(t, u, c, from)
  PROVE  StoresOK'
<1> DEFINE entry == [user |-> u, client |-> c, revoked |-> FALSE, expired |-> FALSE, origin |-> from]
<1>1. entry \in RefreshTokenEntry
  BY DEF RefreshTokenEntry
<1>2. refreshTokens' = Set(refreshTokens, t, entry) /\ issued' = Set(issued, t, u)
      /\ UNCHANGED revokedTokens
  BY DEF Issue, CreateRefreshToken
<1>3. DOMAIN refreshTokens' = DOMAIN refreshTokens \cup {t}
      /\ refreshTokens' \in [DOMAIN refreshTokens' -> RefreshTokenEntry]
  <2> HIDE DEF entry
  <2> QED BY <1>1, <1>2 DEF StoresOK, Set
<1>4. DOMAIN issued' = DOMAIN issued \cup {t} /\ issued' \in [DOMAIN issued' -> Users]
  BY <1>2 DEF StoresOK, Set
<1>5. QED
  BY <1>2, <1>3, <1>4 DEF StoresOK

\* So does revoking any set of tokens.
LEMMA RevokeStores ==
  ASSUME StoresOK, NEW T, Revoke(T)
  PROVE  StoresOK'
<1>1. \A t \in DOMAIN refreshTokens :
        [refreshTokens[t] EXCEPT !.revoked = refreshTokens[t].revoked \/ t \in T] \in RefreshTokenEntry
  BY DEF StoresOK, RefreshTokenEntry
<1>2. QED
  BY <1>1 DEF StoresOK, Revoke, RevokeAll, Revocable

\* Whom the store finds: the very user, or one whose name is alike.
LEMMA FoundUsers ==
  ASSUME NEW accounts, NEW u
  PROVE  /\ u \in DOMAIN accounts => GetUser(accounts, u) = {u}
         /\ \A w \in GetUser(accounts, u) : w \in DOMAIN accounts /\ Alike(u, w)
  BY DEF GetUser, Alike

\* Recording a token adds it to one list, or to none where nobody is found.
LEMMA RecordOne ==
  ASSUME NEW accounts, NEW u, NEW t, NEW after \in RecordRefreshToken(accounts, u, t)
  PROVE  \/ after = accounts /\ u \notin DOMAIN accounts
         \/ \E w \in GetUser(accounts, u) :
              after = Set(accounts, w, [accounts[w] EXCEPT !.refreshTokens = @ \cup {t}])
  BY DEF RecordRefreshToken, AfterUpdate

\* Forgetting takes it off one list, or off none.
LEMMA ForgetOne ==
  ASSUME NEW u, NEW t, NEW after \in Forget(u, t)
  PROVE  \/ after = users
         \/ \E w \in GetUser(users, u) :
              after = Set(users, w, [users[w] EXCEPT !.refreshTokens = @ \ {t}])
  BY DEF Forget, AfterUpdate

\* Recording a token keeps the accounts and their type.
LEMMA RecordAccounts ==
  ASSUME NEW accounts, accounts \in [DOMAIN accounts -> Account], NEW u, NEW t \in Tokens,
         NEW after \in RecordRefreshToken(accounts, u, t)
  PROVE  DOMAIN after = DOMAIN accounts /\ after \in [DOMAIN accounts -> Account]
<1>1. ASSUME NEW w \in DOMAIN accounts
      PROVE  [accounts[w] EXCEPT !.refreshTokens = @ \cup {t}] \in Account
  BY DEF Account
<1>2. CASE after = accounts
  BY <1>2
<1>3. ASSUME NEW w \in GetUser(accounts, u),
             after = Set(accounts, w, [accounts[w] EXCEPT !.refreshTokens = @ \cup {t}])
      PROVE  DOMAIN after = DOMAIN accounts /\ after \in [DOMAIN accounts -> Account]
  <2>1. w \in DOMAIN accounts
    BY FoundUsers
  <2>2. QED
    BY <1>1, <1>3, <2>1 DEF Set
<1>4. QED
  BY <1>2, <1>3, RecordOne

\* So does taking one off a list.
LEMMA ForgetAccounts ==
  ASSUME users \in [DOMAIN users -> Account], NEW u, NEW t, NEW after \in Forget(u, t)
  PROVE  DOMAIN after = DOMAIN users /\ after \in [DOMAIN users -> Account]
<1>1. ASSUME NEW w \in DOMAIN users
      PROVE  [users[w] EXCEPT !.refreshTokens = @ \ {t}] \in Account
  BY DEF Account
<1>2. CASE after = users
  BY <1>2
<1>3. ASSUME NEW w \in GetUser(users, u),
             after = Set(users, w, [users[w] EXCEPT !.refreshTokens = @ \ {t}])
      PROVE  DOMAIN after = DOMAIN users /\ after \in [DOMAIN users -> Account]
  <2>1. w \in DOMAIN users
    BY FoundUsers
  <2>2. QED
    BY <1>1, <1>3, <2>1 DEF Set
<1>4. QED
  BY <1>2, <1>3, ForgetOne

\* updateUser of an existing user.
LEMMA UpdateAccounts ==
  ASSUME AccountsOK, NEW u \in DOMAIN users, NEW a \in Account, UpdateUser(u, a)
  PROVE  AccountsOK'
  BY DEF AccountsOK, UpdateUser, Set

\* createUser, whether or not the key was there.
LEMMA CreateAccounts ==
  ASSUME AccountsOK, NEW u \in Users, NEW status \in Statuses, CreateUser(u, status)
  PROVE  AccountsOK'
<1>1. NewAccount(status) \in Account
  BY DEF NewAccount, Account
<1>2. QED
  BY <1>1 DEF AccountsOK, CreateUser, Set

\* The seed users, added to what is there.
LEMMA SeedAccounts ==
  ASSUME NEW accounts, DOMAIN accounts \subseteq Users, accounts \in [DOMAIN accounts -> Account]
  PROVE  /\ DOMAIN Seeded(accounts) = DOMAIN accounts \cup Seeds
         /\ Seeded(accounts) \in [DOMAIN accounts \cup Seeds -> Account]
<1>1. NewAccount("CONFIRMED") \in Account
  BY DEF NewAccount, Account, Statuses
<1>2. QED
  BY <1>1 DEF Seeded

\* deleteUser.
LEMMA DeleteAccounts ==
  ASSUME AccountsOK, NEW u, users' = Delete(users, u), UNCHANGED created
  PROVE  AccountsOK'
  BY DEF AccountsOK, Delete, Restrict

\* A sign-in call that waits for its next trigger, or is over.
LEMMA AwaitCalls ==
  ASSUME CallsOK, NEW r \in Requests, NEW u \in Users, NEW c \in Clients,
         NEW trigger \in TriggerNames, Await(r, u, c, trigger), UNCHANGED refreshes
  PROVE  CallsOK'
<1>1. [user |-> u, client |-> c, waitingFor |-> trigger] \in SignInCall
  BY DEF SignInCall
<1>2. QED
  BY <1>1 DEF CallsOK, Await, Set

LEMMA EndCalls ==
  ASSUME CallsOK, NEW r, signIns' = Delete(signIns, r), UNCHANGED refreshes
  PROVE  CallsOK'
  BY DEF CallsOK, Delete, Restrict

\* The stages of a sign-in, from the accounts the handler goes on with.
LEMMA IssueForSignInTypes ==
  ASSUME StoresOK, CallsOK, NEW accounts, DOMAIN accounts \subseteq Users,
         accounts \in [DOMAIN accounts -> Account],
         NEW r \in Requests, NEW u \in Users, NEW c \in Clients,
         IssueForSignIn(accounts, r, u, c), UNCHANGED refreshes
  PROVE  /\ StoresOK' /\ CallsOK'
         /\ DOMAIN users' = DOMAIN accounts
         /\ users' \in [DOMAIN accounts -> Account]
<1>1. PICK t \in Tokens :
        /\ Issue(t, u, c, "InitiateAuth")
        /\ users' \in RecordRefreshToken(accounts, u, t)
        /\ IF "postAuthentication" \in Triggers
             THEN Await(r, u, c, "postAuthentication")
             ELSE signIns' = Delete(signIns, r)
  BY DEF IssueForSignIn
<1>2. StoresOK'
  BY <1>1, IssueStores DEF Origins, SdkOrigins
<1>3. DOMAIN users' = DOMAIN accounts /\ users' \in [DOMAIN accounts -> Account]
  BY <1>1, RecordAccounts
<1>4. CallsOK'
  BY <1>1, AwaitCalls, EndCalls DEF TriggerNames
<1>5. QED
  BY <1>2, <1>3, <1>4

LEMMA AfterPasswordTypes ==
  ASSUME StoresOK, CallsOK, NEW accounts, DOMAIN accounts \subseteq Users,
         accounts \in [DOMAIN accounts -> Account],
         NEW r \in Requests, NEW u \in Users, NEW c \in Clients,
         AfterPassword(accounts, r, u, c) \/ AfterPreAuthentication(accounts, r, u, c),
         UNCHANGED refreshes
  PROVE  /\ StoresOK' /\ CallsOK'
         /\ DOMAIN users' = DOMAIN accounts
         /\ users' \in [DOMAIN accounts -> Account]
<1>1. CASE UNCHANGED storeVars /\ users' = accounts /\ \E trigger \in TriggerNames : Await(r, u, c, trigger)
  BY <1>1, AwaitCalls DEF StoresOK, storeVars
<1>2. CASE IssueForSignIn(accounts, r, u, c)
  BY <1>2, IssueForSignInTypes
<1>3. QED
  BY <1>1, <1>2 DEF AfterPassword, AfterPreAuthentication, TriggerNames

\* The part of the state that the handlers of accounts and tokens change.
HandlersOK == AccountsOK /\ StoresOK /\ SessionsOK /\ CallsOK /\ minted \subseteq Tokens

\* The pools keep their type, and what they left behind is not forgotten.
LEMMA PoolsStep ==
  ASSUME PoolsOK, StoresOK, [Next]_vars
  PROVE  PoolsOK' /\ leftBehind \subseteq leftBehind'
<1>1. CASE UNCHANGED poolVars
  BY <1>1 DEF PoolsOK, poolVars
<1>2. ASSUME NEW p \in Pools, DeleteUserPool(p)
      PROVE  PoolsOK' /\ leftBehind \subseteq leftBehind'
  BY <1>2 DEF DeleteUserPool, PoolsOK, StoresOK, UsableTokens
<1>3. CASE Restart
  BY <1>3, RefreshTokensAssumption DEF Restart, PoolsOK
<1>4. QED
  BY <1>1, <1>2, <1>3 DEF Next, TriggerReplies, vars

\* No step takes the state out of its type.  One case per handler; the parts a
\* handler leaves alone follow from its UNCHANGED.
LEMMA TypeStep == TypeOK /\ [Next]_vars => TypeOK'
<1> SUFFICES ASSUME TypeOK, [Next]_vars PROVE HandlersOK'
  BY PoolsStep DEF TypeOK, HandlersOK
<1> USE DEF TypeOK, HandlersOK
<1> DEFINE SameAccounts == UNCHANGED accountVars
           SameStores == UNCHANGED storeVars
           SameSessions == UNCHANGED sessions
           SameCalls == UNCHANGED callVars
<1>1. SameAccounts => AccountsOK'
  BY DEF AccountsOK, accountVars
<1>2. SameStores => StoresOK'
  BY DEF StoresOK, storeVars
<1>3. SameSessions => SessionsOK'
  BY DEF SessionsOK
<1>4. SameCalls => CallsOK'
  BY DEF CallsOK, callVars
<1>5. \A u \in DOMAIN users : users[u] \in Account /\ u \in Users
  BY DEF AccountsOK
<1>6. DOMAIN users \subseteq Users
  BY DEF AccountsOK
<1> USE <1>1, <1>2, <1>3, <1>4
<1>10. ASSUME NEW r \in Requests, NEW u \in Users, NEW c \in Clients, SignIn(r, u, c)
       PROVE  HandlersOK'
  <2>1. StoresOK' /\ CallsOK' /\ DOMAIN users' = DOMAIN users /\ users' \in [DOMAIN users -> Account]
    BY <1>10, <1>6, AfterPasswordTypes DEF SignIn, AccountsOK
  <2>2. QED
    BY <2>1, <1>10 DEF SignIn, AccountsOK
<1>11. ASSUME NEW r \in Requests, NEW u \in Users, NEW c \in Clients, SignInUnknown(r, u, c)
       PROVE  HandlersOK'
  BY <1>11, AwaitCalls DEF SignInUnknown, TriggerNames
<1>12. ASSUME NEW u \in Users, NEW s \in Sessions,
              SignInWithMfa(u, s) \/ AdminSignInNewPassword(u, s)
       PROVE  HandlersOK'
  <2>1. SessionsOK'
    BY <1>12 DEF SignInWithMfa, AdminSignInNewPassword, SessionsOK, Session, Set
  <2>2. QED
    BY <2>1, <1>12 DEF SignInWithMfa, AdminSignInNewPassword
<1>13. ASSUME NEW u \in Users, NEW c \in Clients, NEW t \in Tokens, AdminSignIn(u, c, t)
       PROVE  HandlersOK'
  <2>1. StoresOK'
    BY <1>13, IssueStores DEF AdminSignIn, Origins, SdkOrigins
  <2>2. DOMAIN users' = DOMAIN users /\ users' \in [DOMAIN users -> Account]
    BY <1>13, <1>6, RecordAccounts DEF AdminSignIn, AccountsOK
  <2>3. QED
    BY <1>13, <2>1, <2>2 DEF AdminSignIn, AccountsOK
<1>14. ASSUME NEW u \in Users, NEW s \in Sessions, NEW c \in Clients, NEW t \in Tokens,
              PassChallenge(s, c, t, u)
       PROVE  HandlersOK'
  <2> DEFINE account == IF sessions[s].challenge = "NEW_PASSWORD_REQUIRED"
                          THEN [users[u] EXCEPT !.status = "CONFIRMED"]
                          ELSE users[u]
  <2>1. u \in DOMAIN users /\ account \in Account
    BY <1>14, <1>5, FoundUsers DEF PassChallenge, Account, Statuses
  <2>2. Issue(t, u, c, "RespondToAuthChallenge")
        /\ users' \in RecordRefreshToken(Set(users, u, account), u, t)
    BY <1>14 DEF PassChallenge
  <2> HIDE DEF account
  <2>3. StoresOK'
    BY <2>1, <2>2, IssueStores DEF Origins, SdkOrigins
  <2>4. DOMAIN Set(users, u, account) = DOMAIN users
        /\ Set(users, u, account) \in [DOMAIN users -> Account]
    BY <2>1 DEF Set, AccountsOK
  <2>5. DOMAIN users' = DOMAIN users /\ users' \in [DOMAIN users -> Account]
    BY <1>6, <2>2, <2>4, RecordAccounts
  <2>6. SessionsOK'
    BY <1>14 DEF PassChallenge, SessionsOK, Delete, Restrict
  <2>7. QED
    BY <1>14, <2>3, <2>5, <2>6 DEF PassChallenge, AccountsOK
<1>15. ASSUME NEW s \in Sessions, LoseSession(s)
       PROVE  HandlersOK'
  BY <1>15 DEF LoseSession, SessionsOK, Delete, Restrict
<1>16. ASSUME NEW u \in Users, NEW c \in Clients, NEW t \in Tokens, OidcSignIn(u, c, t)
       PROVE  HandlersOK'
  BY <1>16, IssueStores DEF OidcSignIn, Origins
<1>20. ASSUME NEW r \in Requests, NEW t \in Tokens, NEW c \in Clients, Refresh(r, t, c)
       PROVE  HandlersOK'
  <2>1. CallsOK' /\ minted' \subseteq Tokens
    BY <1>20 DEF Refresh, CallsOK, Set
  <2>2. QED
    BY <1>20, <2>1 DEF Refresh
<1>21. ASSUME NEW r \in Requests, RefreshReplies(r) \/ RefreshFails(r)
       PROVE  HandlersOK'
  <2>1. CallsOK' /\ minted' \subseteq Tokens
    BY <1>21 DEF RefreshReplies, RefreshFails, CallsOK, Delete, Restrict
  <2>2. QED
    BY <1>21, <2>1 DEF RefreshReplies, RefreshFails
<1>22. ASSUME NEW t \in Tokens, NEW c \in Clients, AdminRefresh(t, c) \/ OidcRefresh(t, c)
       PROVE  HandlersOK'
  BY <1>22 DEF AdminRefresh, OidcRefresh
<1>23. ASSUME NEW t \in Tokens, PresentExpired(t) \/ Expire(t)
       PROVE  HandlersOK'
  <2>1. StoresOK'
    BY <1>23 DEF PresentExpired, GetRefreshToken, Expire, StoresOK, RefreshTokenEntry, Delete, Restrict
  <2>2. QED
    BY <1>23, <2>1 DEF PresentExpired, Expire
<1>24. ASSUME NEW t \in Tokens, RevokeToken(t)
       PROVE  HandlersOK'
  <2>1. StoresOK'
    BY <1>24, RevokeStores DEF RevokeToken
  <2>2. DOMAIN users' = DOMAIN users /\ users' \in [DOMAIN users -> Account]
    BY <1>24, ForgetAccounts DEF RevokeToken, AccountsOK
  <2>3. QED
    BY <1>24, <2>1, <2>2 DEF RevokeToken, AccountsOK
<1>25. ASSUME NEW t \in Tokens, OidcRevoke(t)
       PROVE  HandlersOK'
  BY <1>25, RevokeStores DEF OidcRevoke
<1>30. ASSUME NEW u \in Users,
              GlobalSignOut(u) \/ AdminUserGlobalSignOut(u) \/ AdminDisableUser(u)
       PROVE  HandlersOK'
  <2>1. u \in DOMAIN users /\ RevokeAllOf(u)
    BY <1>30 DEF GlobalSignOut, AdminUserGlobalSignOut, AdminDisableUser, IsThere
  <2>2. SignedOut(u) \in Account /\ [SignedOut(u) EXCEPT !.enabled = FALSE] \in Account
    BY <2>1, <1>5 DEF SignedOut, Account
  <2>3. StoresOK'
    BY <2>1, RevokeStores DEF RevokeAllOf
  <2>4. AccountsOK'
    BY <1>30, <2>1, <2>2, UpdateAccounts DEF GlobalSignOut, AdminUserGlobalSignOut, AdminDisableUser
  <2>5. QED
    BY <1>30, <2>3, <2>4 DEF GlobalSignOut, AdminUserGlobalSignOut, AdminDisableUser
<1>31. ASSUME NEW u \in Users, AdminDeleteUser(u) \/ DeleteUser(u)
       PROVE  HandlersOK'
  <2>1. StoresOK'
    BY <1>31, RevokeStores DEF AdminDeleteUser, DeleteUser, RevokeAllOf
  <2>2. AccountsOK'
    BY <1>31, DeleteAccounts DEF AdminDeleteUser, DeleteUser
  <2>3. QED
    BY <1>31, <2>1, <2>2 DEF AdminDeleteUser, DeleteUser
<1>32. ASSUME NEW u \in Users, AdminCreateUser(u) \/ SignUp(u)
       PROVE  HandlersOK'
  <2>1. AccountsOK'
    BY <1>32, CreateAccounts DEF AdminCreateUser, SignUp, Statuses
  <2>2. QED
    BY <1>32, <2>1 DEF AdminCreateUser, SignUp
<1>33. ASSUME NEW u \in Users, NEW status \in Statuses, AdminEnableUser(u) \/ ChangeStatus(u, status)
       PROVE  HandlersOK'
  <2>1. u \in DOMAIN users
    BY <1>33 DEF AdminEnableUser, ChangeStatus, IsThere
  <2>2. [users[u] EXCEPT !.enabled = TRUE] \in Account /\ [users[u] EXCEPT !.status = status] \in Account
    BY <2>1, <1>5 DEF Account
  <2>3. AccountsOK'
    BY <1>33, <2>1, <2>2, UpdateAccounts DEF AdminEnableUser, ChangeStatus
  <2>4. QED
    BY <1>33, <2>3 DEF AdminEnableUser, ChangeStatus
<1>40. ASSUME NEW r \in Requests, NEW v \in Users, NEW status \in Statuses,
              UserMigrationReplies(r, v, status)
       PROVE  HandlersOK'
  <2> DEFINE accounts == Set(users, v, NewAccount(status))
  <2>1. r \in DOMAIN signIns /\ signIns[r].client \in Clients
    BY <1>40 DEF UserMigrationReplies, WaitsFor, CallsOK, SignInCall
  <2>2. DOMAIN accounts = DOMAIN users \cup {v} /\ accounts \in [DOMAIN accounts -> Account]
    BY DEF Set, NewAccount, Account, AccountsOK
  <2>3. AfterPassword(accounts, r, v, signIns[r].client) /\ UNCHANGED refreshes
        /\ UNCHANGED sessions /\ minted' = {} /\ created' = created \cup {v}
    BY <1>40 DEF UserMigrationReplies
  <2> HIDE DEF accounts
  <2>4. StoresOK' /\ CallsOK' /\ DOMAIN users' = DOMAIN accounts /\ users' \in [DOMAIN accounts -> Account]
    BY <1>6, <2>1, <2>2, <2>3, AfterPasswordTypes
  <2>5. QED
    BY <2>2, <2>3, <2>4 DEF AccountsOK
<1>41. ASSUME NEW r \in Requests, PreAuthenticationReplies(r) \/ PreTokenGenerationReplies(r)
       PROVE  HandlersOK'
  <2>1. r \in DOMAIN signIns /\ signIns[r].user \in Users /\ signIns[r].client \in Clients
    BY <1>41 DEF PreAuthenticationReplies, PreTokenGenerationReplies, WaitsFor, CallsOK, SignInCall
  <2>2. StoresOK' /\ CallsOK' /\ DOMAIN users' = DOMAIN users /\ users' \in [DOMAIN users -> Account]
    BY <1>41, <1>6, <2>1, AfterPasswordTypes, IssueForSignInTypes
       DEF PreAuthenticationReplies, PreTokenGenerationReplies, AccountsOK
  <2>3. QED
    BY <1>41, <2>2 DEF PreAuthenticationReplies, PreTokenGenerationReplies, AccountsOK
<1>42. ASSUME NEW r \in Requests, SignInEnds(r)
       PROVE  HandlersOK'
  BY <1>42, EndCalls DEF SignInEnds
<1>43. CASE Restart
  <2>1. DOMAIN users' = DOMAIN users \cup Seeds /\ users' \in [DOMAIN users' -> Account]
    BY <1>6, <1>43, SeedAccounts DEF Restart, AccountsOK
  <2>2. AccountsOK'
    BY <1>43, <2>1, RefreshTokensAssumption DEF Restart, AccountsOK
  <2>3. QED
    BY <1>43, <2>2 DEF Restart, CallsOK, Empty
<1>44. ASSUME NEW p \in Pools, DeleteUserPool(p)
       PROVE  HandlersOK'
  BY <1>44 DEF DeleteUserPool, AccountsOK, Restrict
<1>45. CASE UNCHANGED vars
  BY <1>45 DEF vars
<1>50. QED
  <2> HIDE DEF TypeOK, HandlersOK
  <2>1. CASE SignInStep
    BY <2>1, <1>10, <1>11, <1>12, <1>13, <1>14, <1>15, <1>16 DEF SignInStep
  <2>2. CASE TokenStep
    BY <2>2, <1>20, <1>22, <1>23, <1>24, <1>25 DEF TokenStep
  <2>3. CASE AccountStep
    BY <2>3, <1>30, <1>31, <1>32, <1>33 DEF AccountStep, Statuses
  <2>4. ASSUME NEW r \in Requests, TriggerReplies(r) PROVE HandlersOK'
    BY <2>4, <1>21, <1>40, <1>41, <1>42 DEF TriggerReplies
  <2>5. QED
    BY <2>1, <2>2, <2>3, <2>4, <1>43, <1>44, <1>45 DEF Next

\* Type correctness.
THEOREM TypeCorrect == Spec => []TypeOK
<1>1. ASSUME Init PROVE TypeOK
  <2>1. DOMAIN users = Seeds /\ users \in [Seeds -> Account]
    <3>1. DOMAIN Empty = {} /\ Empty \in [DOMAIN Empty -> Account]
      BY DEF Empty
    <3>2. DOMAIN Seeded(Empty) = Seeds /\ Seeded(Empty) \in [DOMAIN Seeded(Empty) -> Account]
      BY <3>1, SeedAccounts
    <3>3. QED
      BY <1>1, <3>2 DEF Init
  <2>2. AccountsOK
    BY <1>1, <2>1, RefreshTokensAssumption DEF Init, AccountsOK
  <2>3. QED
    BY <1>1, <2>2 DEF Init, TypeOK, PoolsOK, StoresOK, SessionsOK, CallsOK, Empty
<1>2. QED
  BY <1>1, TypeStep, PTL DEF Spec

-----------------------------------------------------------------------------
(* The token stores and the users' lists.                                   *)

\* Every handler changes the token stores in one of four ways, or not at all.
LEMMA StoreSteps ==
  ASSUME TypeOK, [Next]_vars
  PROVE  \/ UNCHANGED storeVars
         \/ \E t \in Tokens, u \in Users, c \in Clients, from \in Origins : Issue(t, u, c, from)
         \/ \E T \in SUBSET Tokens : Revoke(T)
         \/ \E t \in Tokens : PresentExpired(t) \/ Expire(t)
<1> DEFINE Issues == \E t \in Tokens, u \in Users, c \in Clients, from \in Origins : Issue(t, u, c, from)
           Revokes == \E T \in SUBSET Tokens : Revoke(T)
           Other == \E t \in Tokens : PresentExpired(t) \/ Expire(t)
<1>1. ASSUME NEW accounts, NEW r, NEW u \in Users, NEW c \in Clients,
             AfterPassword(accounts, r, u, c) \/ AfterPreAuthentication(accounts, r, u, c)
             \/ IssueForSignIn(accounts, r, u, c)
      PROVE  UNCHANGED storeVars \/ Issues
  <2>1. "InitiateAuth" \in Origins
    BY DEF Origins, SdkOrigins
  <2>2. QED
    BY <1>1, <2>1 DEF AfterPassword, AfterPreAuthentication, IssueForSignIn
<1>2. \A r \in DOMAIN signIns : signIns[r].user \in Users /\ signIns[r].client \in Clients
  BY DEF TypeOK, CallsOK, SignInCall
<1>3. \A u \in DOMAIN users : users[u].refreshTokens \subseteq Tokens
  BY DEF TypeOK, AccountsOK, Account
<1>4. \A u : TokensOf(refreshTokens, u) \subseteq Tokens
  BY DEF TypeOK, StoresOK, TokensOf
<1>5. CASE SignInStep
  <2>1. ASSUME NEW r \in Requests, NEW u \in Users, NEW c \in Clients, SignIn(r, u, c)
        PROVE  UNCHANGED storeVars \/ Issues
    BY <2>1, <1>1 DEF SignIn
  <2>2. ASSUME NEW u \in Users, NEW c \in Clients, NEW t \in Tokens, AdminSignIn(u, c, t)
        PROVE  Issues
    BY <2>2 DEF AdminSignIn, Origins, SdkOrigins
  <2>3. ASSUME NEW u \in Users, NEW s \in Sessions, NEW c \in Clients, NEW t \in Tokens,
               PassChallenge(s, c, t, u)
        PROVE  Issues
    BY <2>3 DEF PassChallenge, Origins, SdkOrigins
  <2>4. ASSUME NEW u \in Users, NEW c \in Clients, NEW t \in Tokens, OidcSignIn(u, c, t)
        PROVE  Issues
    BY <2>4 DEF OidcSignIn, Origins
  <2>5. QED
    BY <1>5, <2>1, <2>2, <2>3, <2>4
       DEF SignInStep, SignInUnknown, SignInWithMfa, AdminSignInNewPassword, LoseSession
<1>6. CASE TokenStep
  <2>1. ASSUME NEW t \in Tokens, RevokeToken(t) \/ OidcRevoke(t)
        PROVE  Revokes
    BY <2>1 DEF RevokeToken, OidcRevoke
  <2>2. QED
    BY <1>6, <2>1 DEF TokenStep, Refresh, AdminRefresh, OidcRefresh
<1>7. CASE AccountStep
  <2>1. ASSUME NEW u \in DOMAIN users, RevokeAllOf(u)
        PROVE  Revokes
    BY <2>1, <1>3, <1>4 DEF RevokeAllOf
  <2>2. ASSUME NEW u \in Users, DeleteUser(u)
        PROVE  Revokes
    BY <2>2, <1>4 DEF DeleteUser
  <2>3. QED
    BY <1>7, <2>1, <2>2
       DEF AccountStep, GlobalSignOut, AdminUserGlobalSignOut, AdminDisableUser, AdminDeleteUser,
           AdminCreateUser, SignUp, AdminEnableUser, ChangeStatus, IsThere
<1>8. ASSUME NEW r \in Requests, TriggerReplies(r)
      PROVE  UNCHANGED storeVars \/ Issues
  <2>1. ASSUME NEW v \in Users, NEW status \in Statuses, UserMigrationReplies(r, v, status)
        PROVE  UNCHANGED storeVars \/ Issues
    BY <2>1, <1>1, <1>2 DEF UserMigrationReplies, WaitsFor
  <2>2. CASE PreAuthenticationReplies(r) \/ PreTokenGenerationReplies(r)
    BY <2>2, <1>1, <1>2 DEF PreAuthenticationReplies, PreTokenGenerationReplies, WaitsFor
  <2>3. QED
    BY <1>8, <2>1, <2>2 DEF TriggerReplies, SignInEnds, RefreshReplies, RefreshFails
<1>9. CASE Restart \/ UNCHANGED vars \/ \E p \in Pools : DeleteUserPool(p)
  BY <1>9 DEF Restart, DeleteUserPool, vars
<1>10. QED
  BY <1>5, <1>6, <1>7, <1>8, <1>9 DEF Next

\* The history only grows.
LEMMA IssuedGrows ==
  ASSUME TypeOK, [Next]_vars
  PROVE  \A t \in DOMAIN issued : t \in DOMAIN issued' /\ issued'[t] = issued[t]
  BY StoreSteps DEF storeVars, Issue, Set, Revoke, PresentExpired, Expire

\* Entries keep naming the user they were issued to.
LEMMA EntriesIssuedStep == TypeOK /\ EntriesIssued /\ [Next]_vars => EntriesIssued'
<1> SUFFICES ASSUME TypeOK, EntriesIssued, [Next]_vars PROVE EntriesIssued'
  OBVIOUS
<1>1. CASE UNCHANGED storeVars
  BY <1>1 DEF storeVars, EntriesIssued
<1>2. ASSUME NEW t \in Tokens, NEW u \in Users, NEW c \in Clients, NEW from \in Origins,
             Issue(t, u, c, from)
      PROVE  EntriesIssued'
  BY <1>2 DEF Issue, CreateRefreshToken, Set, EntriesIssued
<1>3. ASSUME NEW T \in SUBSET Tokens, Revoke(T)
      PROVE  EntriesIssued'
  BY <1>3 DEF Revoke, RevokeAll, EntriesIssued, TypeOK, StoresOK, RefreshTokenEntry
<1>4. ASSUME NEW t \in Tokens, PresentExpired(t) \/ Expire(t)
      PROVE  EntriesIssued'
  BY <1>4 DEF PresentExpired, GetRefreshToken, Delete, Restrict, Expire, EntriesIssued,
              TypeOK, StoresOK, RefreshTokenEntry
<1>5. QED
  BY <1>1, <1>2, <1>3, <1>4, StoreSteps

\* The two records of a revocation agree.  A new token is in neither, because
\* what revoked-tokens.json names has an entry, hence was issued before.
LEMMA RevocationRecordedStep ==
  TypeOK /\ EntriesIssued /\ RevocationRecorded /\ [Next]_vars => RevocationRecorded'
<1> SUFFICES ASSUME TypeOK, EntriesIssued, RevocationRecorded, [Next]_vars
             PROVE  RevocationRecorded'
  OBVIOUS
<1>1. CASE UNCHANGED storeVars
  BY <1>1 DEF storeVars, RevocationRecorded
<1>2. ASSUME NEW t \in Tokens, NEW u \in Users, NEW c \in Clients, NEW from \in Origins,
             Issue(t, u, c, from)
      PROVE  RevocationRecorded'
  BY <1>2 DEF Issue, CreateRefreshToken, Set, EntriesIssued, RevocationRecorded
<1>3. ASSUME NEW T \in SUBSET Tokens, Revoke(T)
      PROVE  RevocationRecorded'
  BY <1>3 DEF Revoke, RevokeAll, Revocable, RevocationRecorded, TypeOK, StoresOK, RefreshTokenEntry
<1>4. ASSUME NEW t \in Tokens, PresentExpired(t) \/ Expire(t)
      PROVE  RevocationRecorded'
  BY <1>4 DEF PresentExpired, GetRefreshToken, FoundExpired, Delete, Restrict, Expire,
              RevocationRecorded, TypeOK, StoresOK, RefreshTokenEntry
<1>5. QED
  BY <1>1, <1>2, <1>3, <1>4, StoreSteps

\* The entries say to whom a token was issued, and the two records of a
\* revocation agree.
THEOREM RevocationsRecorded == Spec => [](EntriesIssued /\ RevocationRecorded)
<1>1. Init => EntriesIssued /\ RevocationRecorded
  BY DEF Init, EntriesIssued, RevocationRecorded, Empty
<1>2. QED
  BY <1>1, TypeCorrect, EntriesIssuedStep, RevocationRecordedStep, PTL DEF Spec

-----------------------------------------------------------------------------
(* Whose tokens a user's list names.                                        *)

\* The tokens in the list of u, in either state of a step.
Listed(accounts, u) == IF u \in DOMAIN accounts THEN accounts[u].refreshTokens ELSE {}

\* Recording a token adds it to one list, of the user or of one who is alike.
LEMMA RecordListed ==
  ASSUME NEW accounts, accounts \in [DOMAIN accounts -> Account], NEW u, NEW t \in Tokens,
         NEW after \in RecordRefreshToken(accounts, u, t)
  PROVE  \A v : Listed(after, v) \subseteq Listed(accounts, v) \cup {x \in {t} : Alike(u, v)}
<1>1. ASSUME NEW w \in GetUser(accounts, u),
             after = Set(accounts, w, [accounts[w] EXCEPT !.refreshTokens = @ \cup {t}])
      PROVE  \A v : Listed(after, v) \subseteq Listed(accounts, v) \cup {x \in {t} : Alike(u, v)}
  <2>1. w \in DOMAIN accounts /\ Alike(u, w)
    BY FoundUsers
  <2>2. QED
    BY <1>1, <2>1 DEF Listed, Set, Account
<1>2. QED
  BY <1>1, RecordOne DEF Listed

\* A sign-in lists at most the token it issues, with its user.
LEMMA IssueForSignInListed ==
  ASSUME TypeOK, NEW accounts, accounts \in [DOMAIN accounts -> Account],
         NEW r, NEW u \in Users, NEW c \in Clients,
         \/ AfterPassword(accounts, r, u, c)
         \/ AfterPreAuthentication(accounts, r, u, c)
         \/ IssueForSignIn(accounts, r, u, c)
  PROVE  \A v : \A t \in Listed(users', v) :
           t \in Listed(accounts, v) \/ (t \in DOMAIN issued' /\ Alike(issued'[t], v))
<1>1. CASE users' = accounts
  BY <1>1
<1>2. CASE IssueForSignIn(accounts, r, u, c)
  <2>1. PICK t \in Tokens :
          Issue(t, u, c, "InitiateAuth") /\ users' \in RecordRefreshToken(accounts, u, t)
    BY <1>2 DEF IssueForSignIn
  <2>2. t \in DOMAIN issued' /\ issued'[t] = u
    BY <2>1 DEF Issue, Set
  <2>3. QED
    BY <2>1, <2>2, RecordListed
<1>3. QED
  BY <1>1, <1>2 DEF AfterPassword, AfterPreAuthentication

\* A list only gains tokens that the same step issues to its user or to one alike.
LEMMA ListStep ==
  ASSUME TypeOK, [Next]_vars
  PROVE  \A v : \A t \in Listed(users', v) :
           t \in Listed(users, v) \/ (t \in DOMAIN issued' /\ Alike(issued'[t], v))
<1> DEFINE Good == \A v : \A t \in Listed(users', v) :
                     t \in Listed(users, v) \/ (t \in DOMAIN issued' /\ Alike(issued'[t], v))
           Shrinks == \A v : Listed(users', v) \subseteq Listed(users, v)
<1>1. UNCHANGED users => Good
  OBVIOUS
<1>2. Shrinks => Good
  OBVIOUS
<1>3. users \in [DOMAIN users -> Account]
  BY DEF TypeOK, AccountsOK
<1>4. ASSUME NEW u, NEW t \in Tokens, NEW c, NEW from, Issue(t, u, c, from),
             users' \in RecordRefreshToken(users, u, t)
      PROVE  Good
  <2>1. t \in DOMAIN issued' /\ issued'[t] = u
    BY <1>4 DEF Issue, Set
  <2>2. QED
    BY <1>3, <1>4, <2>1, RecordListed
<1>5. \A r \in DOMAIN signIns : signIns[r].user \in Users /\ signIns[r].client \in Clients
  BY DEF TypeOK, CallsOK, SignInCall
<1>6. ASSUME NEW u \in DOMAIN users, NEW a, a.refreshTokens \subseteq users[u].refreshTokens,
             users' = Set(users, u, a)
      PROVE  Shrinks
  BY <1>6 DEF Listed, Set
<1> SUFFICES Good
  OBVIOUS
<1> HIDE DEF Good, Shrinks
<1>10. ASSUME NEW r \in Requests, NEW u \in Users, NEW c \in Clients, SignIn(r, u, c)
       PROVE  Good
  BY <1>10, <1>3, IssueForSignInListed DEF SignIn, Good
<1>11. ASSUME NEW u \in Users, NEW c \in Clients, NEW t \in Tokens, AdminSignIn(u, c, t)
       PROVE  Good
  BY <1>11, <1>4 DEF AdminSignIn
<1>12. ASSUME NEW u \in Users, NEW s \in Sessions, NEW c \in Clients, NEW t \in Tokens,
              PassChallenge(s, c, t, u)
       PROVE  Good
  <2> DEFINE account == IF sessions[s].challenge = "NEW_PASSWORD_REQUIRED"
                          THEN [users[u] EXCEPT !.status = "CONFIRMED"]
                          ELSE users[u]
             accounts == Set(users, u, account)
  <2>1. u \in DOMAIN users /\ account \in Account
        /\ account.refreshTokens = users[u].refreshTokens
    BY <1>12, <1>3, FoundUsers DEF PassChallenge, Account, Statuses
  <2>2. Issue(t, u, c, "RespondToAuthChallenge") /\ users' \in RecordRefreshToken(accounts, u, t)
    BY <1>12 DEF PassChallenge
  <2> HIDE DEF account
  <2>3. accounts \in [DOMAIN accounts -> Account]
        /\ \A v : Listed(accounts, v) = Listed(users, v)
    BY <2>1, <1>3 DEF Set, Listed
  <2>4. t \in DOMAIN issued' /\ issued'[t] = u
    BY <2>2 DEF Issue, Set
  <2> HIDE DEF accounts
  <2>5. QED
    BY <2>2, <2>3, <2>4, RecordListed DEF Good
<1>13. ASSUME NEW t \in Tokens, RevokeToken(t)
       PROVE  Good
  <2>1. users' \in Forget(refreshTokens[t].user, t)
    BY <1>13 DEF RevokeToken
  <2>2. ASSUME NEW w \in DOMAIN users, users' = Set(users, w, [users[w] EXCEPT !.refreshTokens = @ \ {t}])
        PROVE  Shrinks
    <3>1. [users[w] EXCEPT !.refreshTokens = @ \ {t}].refreshTokens \subseteq users[w].refreshTokens
      BY <1>3 DEF Account
    <3>2. QED
      BY <2>2, <3>1, <1>6
  <2>3. QED
    <3>1. CASE users' = users
      BY <3>1, <1>1
    <3>2. ASSUME NEW w \in GetUser(users, refreshTokens[t].user),
                 users' = Set(users, w, [users[w] EXCEPT !.refreshTokens = @ \ {t}])
          PROVE  Good
      <4>1. w \in DOMAIN users
        BY FoundUsers
      <4>2. QED
        BY <3>2, <4>1, <2>2, <1>2
    <3>3. QED
      BY <2>1, <3>1, <3>2, ForgetOne
<1>14. ASSUME NEW u \in Users,
              \/ GlobalSignOut(u) \/ AdminUserGlobalSignOut(u) \/ AdminDisableUser(u)
              \/ AdminDeleteUser(u) \/ DeleteUser(u) \/ AdminEnableUser(u)
              \/ AdminCreateUser(u) \/ SignUp(u)
              \/ \E status \in Statuses : ChangeStatus(u, status)
       PROVE  Good
  <2>1. CASE GlobalSignOut(u) \/ AdminUserGlobalSignOut(u) \/ AdminDisableUser(u)
    <3>1. u \in DOMAIN users
          /\ \/ users' = Set(users, u, SignedOut(u))
             \/ users' = Set(users, u, [SignedOut(u) EXCEPT !.enabled = FALSE])
      BY <2>1 DEF GlobalSignOut, AdminUserGlobalSignOut, AdminDisableUser, UpdateUser, IsThere
    <3>2. SignedOut(u).refreshTokens = {}
          /\ [SignedOut(u) EXCEPT !.enabled = FALSE].refreshTokens = {}
      BY <3>1, <1>3 DEF SignedOut, Account
    <3>3. QED
      BY <3>1, <3>2, <1>6, <1>2
  <2>2. CASE AdminDeleteUser(u) \/ DeleteUser(u)
    BY <2>2, <1>2 DEF AdminDeleteUser, DeleteUser, Delete, Restrict, Listed, Shrinks
  <2>3. CASE AdminCreateUser(u) \/ SignUp(u)
    BY <2>3, <1>2 DEF AdminCreateUser, SignUp, CreateUser, NewAccount, Set, Listed, Shrinks
  <2>4. CASE AdminEnableUser(u) \/ \E status \in Statuses : ChangeStatus(u, status)
    <3>1. PICK status \in Statuses : u \in DOMAIN users
          /\ \/ users' = Set(users, u, [users[u] EXCEPT !.enabled = TRUE])
             \/ users' = Set(users, u, [users[u] EXCEPT !.status = status])
      BY <2>4 DEF AdminEnableUser, ChangeStatus, UpdateUser, Statuses, IsThere
    <3>2. /\ [users[u] EXCEPT !.enabled = TRUE].refreshTokens = users[u].refreshTokens
          /\ [users[u] EXCEPT !.status = status].refreshTokens = users[u].refreshTokens
      BY <3>1, <1>3 DEF Account
    <3>3. QED
      BY <3>1, <3>2, <1>6, <1>2
  <2>5. QED
    BY <1>14, <2>1, <2>2, <2>3, <2>4
<1>15. ASSUME NEW r \in Requests, NEW v \in Users, NEW status \in Statuses,
              UserMigrationReplies(r, v, status)
       PROVE  Good
  <2> DEFINE accounts == Set(users, v, NewAccount(status))
  <2>1. r \in DOMAIN signIns /\ AfterPassword(accounts, r, v, signIns[r].client)
    BY <1>15 DEF UserMigrationReplies, WaitsFor
  <2>2. accounts \in [DOMAIN accounts -> Account]
        /\ \A w : Listed(accounts, w) \subseteq Listed(users, w)
    BY <1>3 DEF Set, NewAccount, Account, Listed
  <2> HIDE DEF accounts
  <2>3. QED
    BY <2>1, <2>2, <1>5, IssueForSignInListed DEF Good
<1>16. ASSUME NEW r \in Requests, PreAuthenticationReplies(r) \/ PreTokenGenerationReplies(r)
       PROVE  Good
  BY <1>16, <1>3, <1>5, IssueForSignInListed
     DEF PreAuthenticationReplies, PreTokenGenerationReplies, WaitsFor, Good
<1>20. CASE SignInStep
  BY <1>20, <1>1, <1>10, <1>11, <1>12
     DEF SignInStep, SignInUnknown, SignInWithMfa, AdminSignInNewPassword, LoseSession,
         OidcSignIn, accountVars
<1>21. CASE TokenStep
  BY <1>21, <1>1, <1>13
     DEF TokenStep, Refresh, AdminRefresh, OidcRefresh, PresentExpired, Expire, OidcRevoke,
         accountVars
<1>22. CASE AccountStep
  BY <1>22, <1>14 DEF AccountStep
<1>23. ASSUME NEW r \in Requests, TriggerReplies(r)
       PROVE  Good
  BY <1>23, <1>1, <1>15, <1>16
     DEF TriggerReplies, SignInEnds, RefreshReplies, RefreshFails, accountVars
<1>24. CASE UNCHANGED vars
  BY <1>24, <1>1 DEF vars, accountVars
<1>25. CASE Restart
  BY <1>25, <1>2 DEF Restart, Seeded, NewAccount, Listed, Shrinks
<1>26. ASSUME NEW p \in Pools, DeleteUserPool(p)
       PROVE  Good
  BY <1>26, <1>2 DEF DeleteUserPool, Restrict, Listed, Shrinks
<1>30. QED
  BY <1>20, <1>21, <1>22, <1>23, <1>24, <1>25, <1>26 DEF Next

LEMMA TokenListSoundStep == TypeOK /\ TokenListSound /\ [Next]_vars => TokenListSound'
<1> SUFFICES ASSUME TypeOK, TokenListSound, [Next]_vars,
                    NEW u \in DOMAIN users', NEW t \in users'[u].refreshTokens
             PROVE  t \in DOMAIN issued' /\ Alike(issued'[t], u)
  BY DEF TokenListSound
<1>1. t \in Listed(users', u)
  BY DEF Listed
<1>2. t \in Listed(users, u) \/ (t \in DOMAIN issued' /\ Alike(issued'[t], u))
  BY <1>1, ListStep
<1>3. CASE t \in Listed(users, u)
  BY <1>3, IssuedGrows DEF Listed, TokenListSound
<1>4. QED
  BY <1>2, <1>3

\* A sign-out that walks a user's list meets only tokens of that user, or of one
\* whose name differs in letter case alone.
THEOREM ListsSound == Spec => []TokenListSound
<1>1. Init => TokenListSound
  BY DEF Init, TokenListSound, Seeded, NewAccount, Empty
<1>2. QED
  BY <1>1, TypeCorrect, TokenListSoundStep, PTL DEF Spec

-----------------------------------------------------------------------------
(* The handlers implement the ledger.                                       *)

\* The four ways the stores change, seen through UsableTokens.
LEMMA UsableAfterIssue ==
  ASSUME EntriesIssued, NEW t, NEW u, NEW c, NEW from, Issue(t, u, c, from)
  PROVE  UsableTokens' = UsableTokens \cup {t}
  BY DEF UsableTokens, EntriesIssued, Issue, CreateRefreshToken, Set

LEMMA UsableAfterRevoke ==
  ASSUME StoresOK, NEW T, Revoke(T)
  PROVE  UsableTokens' = UsableTokens \ T
  BY DEF UsableTokens, StoresOK, RefreshTokenEntry, Revoke, RevokeAll

LEMMA UsableAfterExpire ==
  ASSUME StoresOK, NEW t, Expire(t)
  PROVE  UsableTokens' = UsableTokens \ {t}
  BY DEF UsableTokens, StoresOK, RefreshTokenEntry, Expire

LEMMA UsableAfterPresentExpired ==
  ASSUME NEW t, PresentExpired(t)
  PROVE  UsableTokens' = UsableTokens
  BY DEF UsableTokens, PresentExpired, GetRefreshToken, FoundExpired, Delete, Restrict

\* Any step that only changes what the ledger does not show.
LEMMA QuietStep ==
  ASSUME CallsOK, UNCHANGED storeVars, UNCHANGED refreshes, minted' = {}
  PROVE  Ledger!Next
<1>1. UNCHANGED <<issued, UsableTokens>>
  BY DEF storeVars, UsableTokens
<1>2. refreshes' = [r \in DOMAIN refreshes \ {} |-> refreshes[r]]
  BY DEF CallsOK
<1>3. Ledger!Abandon({})
  BY <1>1, <1>2 DEF Ledger!Abandon, Ledger!Close
<1>4. QED
  BY <1>3 DEF Ledger!Next

LEMMA IssueStep ==
  ASSUME EntriesIssued, NEW t \in Tokens, NEW u \in Users, NEW c, NEW from, Issue(t, u, c, from),
         UNCHANGED refreshes, minted' = {}
  PROVE  Ledger!Next
<1>1. Ledger!Issue(t, u)
  BY UsableAfterIssue DEF Ledger!Issue, Issue, Set
<1>2. QED
  BY <1>1 DEF Ledger!Next

\* One token at a time: expiry and the revocation calls.  Revoking a token
\* that has no entry changes nothing.
LEMMA InvalidateStep ==
  ASSUME CallsOK, EntriesIssued, NEW t \in Tokens, UsableTokens' = UsableTokens \ {t},
         UNCHANGED <<issued, refreshes>>, minted' = {}
  PROVE  Ledger!Next
<1>1. CASE t \in DOMAIN issued
  <2>1. Ledger!Invalidate(t)
    BY <1>1 DEF Ledger!Invalidate
  <2>2. QED
    BY <2>1 DEF Ledger!Next
<1>2. CASE t \notin DOMAIN issued
  <2>1. UsableTokens' = UsableTokens
    BY <1>2 DEF UsableTokens, EntriesIssued
  <2>2. refreshes' = [r \in DOMAIN refreshes \ {} |-> refreshes[r]]
    BY DEF CallsOK
  <2>3. Ledger!Abandon({})
    BY <2>1, <2>2 DEF Ledger!Abandon, Ledger!Close
  <2>4. QED
    BY <2>3 DEF Ledger!Next
<1>3. QED
  BY <1>1, <1>2

\* A sign-out, by the list and the scan or by the scan alone: both reach every
\* usable token of the user, and the list none but of one who is alike.
LEMMA SignOutStep ==
  ASSUME StoresOK, EntriesIssued, TokenListSound, NEW u \in Users, u \in DOMAIN users,
         RevokeAllOf(u) \/ Revoke(TokensOf(refreshTokens, u)), UNCHANGED refreshes, minted' = {}
  PROVE  Ledger!Next
<1> DEFINE scanned == TokensOf(refreshTokens, u)
<1>1. \A t \in UsableTokens : t \in scanned <=> issued[t] = u
  BY DEF TokensOf, UsableTokens, EntriesIssued
<1>2. \A t \in users[u].refreshTokens : Alike(issued[t], u)
  BY DEF TokenListSound
<1>3. UsableTokens \subseteq DOMAIN issued
  BY DEF UsableTokens, EntriesIssued
<1>4. PICK T : Revoke(T) /\ T \in {scanned, users[u].refreshTokens \cup scanned}
  BY DEF RevokeAllOf
<1>5. UsableTokens' = UsableTokens \ T
  BY <1>4, UsableAfterRevoke
<1> HIDE DEF scanned
<1>6. UsableTokens' \subseteq UsableTokens \ Ledger!TokensOf(u)
  BY <1>1, <1>3, <1>4, <1>5 DEF Ledger!TokensOf
<1>7. \A t \in UsableTokens \ UsableTokens' : Alike(issued[t], u)
  BY <1>1, <1>2, <1>4, <1>5 DEF Alike
<1>8. Ledger!SignOut(u)
  BY <1>4, <1>6, <1>7 DEF Ledger!SignOut, Revoke
<1>9. QED
  BY <1>8 DEF Ledger!Next

\* Accepting a usable token, for now or for later.
LEMMA AcceptStep ==
  ASSUME NEW r \in Requests, NEW t \in Tokens, NEW c \in Clients, Refresh(r, t, c)
  PROVE  Ledger!Next
<1>1. t \in UsableTokens /\ UNCHANGED <<issued, UsableTokens>>
  BY DEF Refresh, SdkMayRefresh, Usable, UsableTokens, storeVars
<1>2. Ledger!Accept(r, t) \/ Ledger!Mint(t)
  BY <1>1 DEF Refresh, IsFree, Set, Ledger!Accept, Ledger!Mint
<1>3. QED
  BY <1>2 DEF Ledger!Next

LEMMA MintStep ==
  ASSUME NEW t \in Tokens, NEW c \in Clients, AdminRefresh(t, c) \/ OidcRefresh(t, c)
  PROVE  Ledger!Next
<1>1. t \in UsableTokens /\ UNCHANGED <<issued, UsableTokens, refreshes>> /\ minted' = {t}
  BY DEF AdminRefresh, OidcRefresh, SdkMayRefresh, Usable, UsableTokens, storeVars, callVars
<1>2. QED
  BY <1>1 DEF Ledger!Mint, Ledger!Next

LEMMA AnswerStep ==
  ASSUME NEW r \in Requests, RefreshReplies(r) \/ RefreshFails(r)
  PROVE  Ledger!Next
<1>1. UNCHANGED <<issued, UsableTokens>>
  BY DEF RefreshReplies, RefreshFails, UsableTokens, storeVars
<1>2. refreshes' = [x \in DOMAIN refreshes \ {r} |-> refreshes[x]]
  BY DEF RefreshReplies, RefreshFails, Delete, Restrict
<1>3. Ledger!MintAccepted(r) \/ Ledger!Abandon({r})
  BY <1>1, <1>2 DEF RefreshReplies, RefreshFails, Ledger!MintAccepted, Ledger!Abandon, Ledger!Close
<1>4. QED
  BY <1>3 DEF Ledger!Next

\* The stages of a sign-in: it waits, or it issues.
LEMMA SignInStages ==
  ASSUME CallsOK, EntriesIssued, NEW accounts, NEW r, NEW u \in Users, NEW c \in Clients,
         \/ AfterPassword(accounts, r, u, c)
         \/ AfterPreAuthentication(accounts, r, u, c)
         \/ IssueForSignIn(accounts, r, u, c),
         UNCHANGED refreshes, minted' = {}
  PROVE  Ledger!Next
<1>1. CASE UNCHANGED storeVars
  BY <1>1, QuietStep
<1>2. CASE IssueForSignIn(accounts, r, u, c)
  BY <1>2, IssueStep DEF IssueForSignIn
<1>3. QED
  BY <1>1, <1>2 DEF AfterPassword, AfterPreAuthentication

LEMMA LedgerStep ==
  TypeOK /\ EntriesIssued /\ TokenListSound /\ [Next]_vars => [Ledger!Next]_(Ledger!vars)
<1> SUFFICES ASSUME TypeOK, EntriesIssued, TokenListSound, [Next]_vars
             PROVE  [Ledger!Next]_(Ledger!vars)
  OBVIOUS
<1>1. CASE UNCHANGED vars
  BY <1>1 DEF vars, storeVars, callVars, UsableTokens, Ledger!vars
<1> SUFFICES ASSUME Next PROVE Ledger!Next
  BY <1>1
<1>2. CallsOK /\ StoresOK
  BY DEF TypeOK
<1>3. \A r \in DOMAIN signIns : signIns[r].user \in Users /\ signIns[r].client \in Clients
  BY <1>2 DEF CallsOK, SignInCall
<1>4. CASE SignInStep
  <2>1. ASSUME NEW r \in Requests, NEW u \in Users, NEW c \in Clients, SignIn(r, u, c)
        PROVE  Ledger!Next
    BY <2>1, <1>2, SignInStages DEF SignIn
  <2>2. ASSUME NEW u \in Users, NEW c \in Clients, NEW t \in Tokens, AdminSignIn(u, c, t)
        PROVE  Ledger!Next
    BY <2>2, IssueStep DEF AdminSignIn, callVars
  <2>3. ASSUME NEW u \in Users, NEW s \in Sessions, NEW c \in Clients, NEW t \in Tokens,
               PassChallenge(s, c, t, u)
        PROVE  Ledger!Next
    BY <2>3, IssueStep DEF PassChallenge, callVars
  <2>4. ASSUME NEW u \in Users, NEW c \in Clients, NEW t \in Tokens, OidcSignIn(u, c, t)
        PROVE  Ledger!Next
    BY <2>4, IssueStep DEF OidcSignIn, callVars
  <2>5. QED
    BY <1>4, <1>2, <2>1, <2>2, <2>3, <2>4, QuietStep
       DEF SignInStep, SignInUnknown, SignInWithMfa, AdminSignInNewPassword, LoseSession, callVars
<1>5. CASE TokenStep
  <2>1. ASSUME NEW t \in Tokens, PresentExpired(t) \/ Expire(t) \/ RevokeToken(t) \/ OidcRevoke(t)
        PROVE  Ledger!Next
    <3>1. UNCHANGED <<issued, refreshes>> /\ minted' = {}
      BY <2>1 DEF PresentExpired, Expire, RevokeToken, OidcRevoke, Revoke, callVars
    <3>2. CASE PresentExpired(t)
      <4>1. t \notin UsableTokens /\ UsableTokens' = UsableTokens
        BY <3>2, UsableAfterPresentExpired DEF PresentExpired, FoundExpired, UsableTokens
      <4>2. QED
        BY <3>1, <4>1, <1>2, InvalidateStep
    <3>3. CASE Expire(t)
      BY <3>1, <3>3, <1>2, UsableAfterExpire, InvalidateStep
    <3>4. CASE RevokeToken(t) \/ OidcRevoke(t)
      <4>1. Revoke({t})
        BY <3>4 DEF RevokeToken, OidcRevoke
      <4>2. QED
        BY <3>1, <4>1, <1>2, UsableAfterRevoke, InvalidateStep
    <3>5. QED
      BY <2>1, <3>2, <3>3, <3>4
  <2>2. QED
    BY <1>5, <2>1, AcceptStep, MintStep DEF TokenStep
<1>6. CASE AccountStep
  <2>1. ASSUME NEW u \in Users,
               \/ GlobalSignOut(u) \/ AdminUserGlobalSignOut(u) \/ AdminDisableUser(u)
               \/ AdminDeleteUser(u) \/ DeleteUser(u)
        PROVE  Ledger!Next
    BY <2>1, <1>2, SignOutStep
       DEF GlobalSignOut, AdminUserGlobalSignOut, AdminDisableUser, AdminDeleteUser, DeleteUser,
           IsThere, callVars
  <2>2. ASSUME NEW u \in Users, NEW status \in Statuses,
               AdminEnableUser(u) \/ AdminCreateUser(u) \/ SignUp(u) \/ ChangeStatus(u, status)
        PROVE  Ledger!Next
    BY <2>2, <1>2, QuietStep DEF AdminEnableUser, AdminCreateUser, SignUp, ChangeStatus, callVars
  <2>3. QED
    BY <1>6, <2>1, <2>2 DEF AccountStep, Statuses
<1>7. ASSUME NEW r \in Requests, TriggerReplies(r)
      PROVE  Ledger!Next
  <2>1. ASSUME NEW v \in Users, NEW status \in Statuses, UserMigrationReplies(r, v, status)
        PROVE  Ledger!Next
    BY <2>1, <1>2, <1>3, SignInStages DEF UserMigrationReplies, WaitsFor
  <2>2. CASE PreAuthenticationReplies(r) \/ PreTokenGenerationReplies(r)
    BY <2>2, <1>2, <1>3, SignInStages DEF PreAuthenticationReplies, PreTokenGenerationReplies, WaitsFor
  <2>3. CASE SignInEnds(r)
    BY <2>3, <1>2, QuietStep DEF SignInEnds
  <2>4. QED
    BY <1>7, <2>1, <2>2, <2>3, AnswerStep DEF TriggerReplies
<1>8. CASE Restart
  <2>1. UNCHANGED <<issued, UsableTokens>> /\ minted' = {}
    BY <1>8 DEF Restart, storeVars, UsableTokens
  <2>2. refreshes' = [r \in DOMAIN refreshes \ Requests |-> refreshes[r]]
    BY <1>8, <1>2 DEF Restart, Empty, CallsOK
  <2>3. Ledger!Abandon(Requests)
    BY <2>1, <2>2 DEF Ledger!Abandon, Ledger!Close
  <2>4. QED
    BY <2>3 DEF Ledger!Next
<1>9. ASSUME NEW p \in Pools, DeleteUserPool(p)
      PROVE  Ledger!Next
  BY <1>9, <1>2, QuietStep DEF DeleteUserPool, callVars
<1>10. QED
  BY <1>4, <1>5, <1>6, <1>7, <1>8, <1>9 DEF Next

\* Refinement: whatever the numbers of everything and whichever triggers the
\* pool has, the handlers keep the ledger's promises.
THEOREM HandlersImplementLedger == Spec => ImplementsLedger
<1>1. Init => Ledger!Init
  BY DEF Init, Ledger!Init, UsableTokens, Empty
<1>2. QED
  BY <1>1, LedgerStep, TypeCorrect, RevocationsRecorded, ListsSound, PTL
     DEF Spec, ImplementsLedger, Ledger!Spec
-----------------------------------------------------------------------------
(* Tokens and the accounts they belong to.                                  *)

\* No trigger is awaited between the look at the account and the token.
TokensAtOnce == "preAuthentication" \notin Triggers /\ "preTokenGeneration" \notin Triggers

\* The name of a new account is one that a migration trigger may choose.
MigrationsName == "userMigration" \in Triggers /\ (UsernamesReusable \/ MigrationNamesSub)

\* No account is created under the name of one that may have left a token: the
\* pool has no trigger to wait for while the account goes, or names are drawn
\* and no seed user comes back; and no migration names an account.
NamesLeaveNothing ==
  /\ ~MigrationsName
  /\ TokensAtOnce \/ (~UsernamesReusable /\ Seeds = {})

\* A token that the step which read its account issued.
IssuedAtOnce(t) == refreshTokens[t].origin = "InitiateAuth" => TokensAtOnce

Guarded == {"InitiateAuth", "AdminInitiateAuth"}

\* Calls wait for the triggers there are, and for an account that was there.
CallsKnown ==
  \A r \in DOMAIN signIns :
    /\ signIns[r].waitingFor \in Triggers
    /\ signIns[r].waitingFor # "userMigration" => signIns[r].user \in created

\* A usable token that no deleted pool left behind names an account that was
\* there; one that was issued at once, by whatever call, an account that is
\* there, and one that passes the checks of the call that issued it.
UsersKnown ==
  \A t \in UsableTokens \ leftBehind :
    /\ refreshTokens[t].user \in created
    /\ IssuedAtOnce(t) =>
         /\ refreshTokens[t].user \in DOMAIN users
         /\ refreshTokens[t].origin \in Guarded => MaySignIn(refreshTokens[t].user)

\* What a step does to the account w.
Kept(w) ==
  /\ w \in DOMAIN users /\ w \in DOMAIN users'
  /\ MaySignIn(w) => MaySignIn(w)'
  /\ users[w].refreshTokens \cap UsableTokens' \subseteq users'[w].refreshTokens

Cleared(w) == \A t \in UsableTokens' \ leftBehind' : refreshTokens'[t].user # w

Fresh(w) == w \notin DOMAIN users /\ (UsernamesReusable \/ w \notin created \/ w \in Seeds)

Overwritten(w) == MigrationsName /\ MaySignIn(w)'

AccountFates ==
  \A w \in DOMAIN users \cup DOMAIN users' : Kept(w) \/ Cleared(w) \/ Fresh(w) \/ Overwritten(w)

\* What it does to the usable tokens: it leaves some, or issues one.
Remains(t) ==
  /\ t \in UsableTokens
  /\ refreshTokens'[t].user = refreshTokens[t].user
  /\ refreshTokens'[t].origin = refreshTokens[t].origin

Arrives(t, u, from) ==
  /\ refreshTokens'[t].user = u
  /\ refreshTokens'[t].origin = from
  /\ u \in created'
  /\ (from = "InitiateAuth" => TokensAtOnce) =>
       u \in DOMAIN users' /\ (from \in Guarded => MaySignIn(u)')
  /\ from \in SdkOrigins /\ u \in DOMAIN users' => t \in users'[u].refreshTokens

TokenFates == \A t \in UsableTokens' : Remains(t) \/ \E u, from : Arrives(t, u, from)

-----------------------------------------------------------------------------
\* A step that issues nothing leaves some of the usable tokens.
LEMMA QuietRemain ==
  ASSUME UNCHANGED storeVars
  PROVE  \A t \in UsableTokens' : Remains(t)
  BY DEF storeVars, UsableTokens, Remains

LEMMA RevokeRemain ==
  ASSUME StoresOK, NEW T, Revoke(T)
  PROVE  \A t \in UsableTokens' : Remains(t) /\ t \notin T
  BY DEF UsableTokens, StoresOK, RefreshTokenEntry, Revoke, RevokeAll, Remains

LEMMA ExpireRemain ==
  ASSUME StoresOK, NEW t, PresentExpired(t) \/ Expire(t)
  PROVE  \A x \in UsableTokens' : Remains(x)
  BY DEF UsableTokens, StoresOK, RefreshTokenEntry, Expire, PresentExpired, GetRefreshToken,
         FoundExpired, Delete, Restrict, Remains

\* One that issues t leaves the others.
LEMMA IssueRemain ==
  ASSUME EntriesIssued, NEW t, NEW u, NEW c, NEW from, Issue(t, u, c, from)
  PROVE  \A x \in UsableTokens' :
           \/ Remains(x)
           \/ x = t /\ refreshTokens'[x].user = u /\ refreshTokens'[x].origin = from
  BY DEF UsableTokens, EntriesIssued, Issue, CreateRefreshToken, Set, Remains

\* Recording a token changes one list, by adding to it: its user's, where there
\* is one.
LEMMA RecordKeeps ==
  ASSUME NEW accounts, accounts \in [DOMAIN accounts -> Account], NEW u, NEW t \in Tokens,
         NEW after \in RecordRefreshToken(accounts, u, t)
  PROVE  /\ DOMAIN after = DOMAIN accounts
         /\ \A w \in DOMAIN accounts :
              /\ after[w].enabled = accounts[w].enabled
              /\ after[w].status = accounts[w].status
              /\ accounts[w].refreshTokens \subseteq after[w].refreshTokens
              /\ w = u => t \in after[w].refreshTokens
<1>1. CASE after = accounts /\ u \notin DOMAIN accounts
  BY <1>1
<1>2. ASSUME NEW v \in GetUser(accounts, u),
             after = Set(accounts, v, [accounts[v] EXCEPT !.refreshTokens = @ \cup {t}])
      PROVE  /\ DOMAIN after = DOMAIN accounts
             /\ \A w \in DOMAIN accounts :
                  /\ after[w].enabled = accounts[w].enabled
                  /\ after[w].status = accounts[w].status
                  /\ accounts[w].refreshTokens \subseteq after[w].refreshTokens
                  /\ w = u => t \in after[w].refreshTokens
  <2>1. v \in DOMAIN accounts /\ (u \in DOMAIN accounts => v = u)
    BY FoundUsers
  <2>2. QED
    BY <1>2, <2>1 DEF Set, Account
<1>3. QED
  BY <1>1, <1>2, RecordOne

\* The stages of a sign-in, from the accounts the handler goes on with.
LEMMA SignInFates ==
  ASSUME EntriesIssued, NEW accounts, accounts \in [DOMAIN accounts -> Account],
         NEW r, NEW u, NEW c, u \in created',
         TokensAtOnce =>
           u \in DOMAIN accounts /\ accounts[u].enabled /\ accounts[u].status # "UNCONFIRMED",
         \/ AfterPassword(accounts, r, u, c)
         \/ AfterPreAuthentication(accounts, r, u, c)
         \/ IssueForSignIn(accounts, r, u, c)
  PROVE  /\ TokenFates
         /\ DOMAIN users' = DOMAIN accounts
         /\ \A w \in DOMAIN accounts :
              /\ users'[w].enabled = accounts[w].enabled
              /\ users'[w].status = accounts[w].status
              /\ accounts[w].refreshTokens \subseteq users'[w].refreshTokens
<1>1. CASE UNCHANGED storeVars /\ users' = accounts
  BY <1>1, QuietRemain DEF TokenFates
<1>2. CASE IssueForSignIn(accounts, r, u, c)
  <2>1. PICK t \in Tokens :
          Issue(t, u, c, "InitiateAuth") /\ users' \in RecordRefreshToken(accounts, u, t)
    BY <1>2 DEF IssueForSignIn
  <2>2. /\ DOMAIN users' = DOMAIN accounts
        /\ \A w \in DOMAIN accounts :
             /\ users'[w].enabled = accounts[w].enabled
             /\ users'[w].status = accounts[w].status
             /\ accounts[w].refreshTokens \subseteq users'[w].refreshTokens
             /\ w = u => t \in users'[w].refreshTokens
    BY <2>1, RecordKeeps
  <2>3. ASSUME NEW x \in UsableTokens', ~Remains(x)
        PROVE  Arrives(x, u, "InitiateAuth")
    <3>1. x = t /\ refreshTokens'[x].user = u /\ refreshTokens'[x].origin = "InitiateAuth"
      BY <2>1, <2>3, IssueRemain
    <3>2. QED
      BY <2>2, <3>1 DEF Arrives, MaySignIn
  <2>4. QED
    BY <2>2, <2>3 DEF TokenFates
<1>3. QED
  BY <1>1, <1>2 DEF AfterPassword, AfterPreAuthentication

\* Whoever waits has read an account that was there or asked for one.
LEMMA CallsKnownStep == TypeOK /\ CallsKnown /\ [Next]_vars => CallsKnown'
<1> SUFFICES ASSUME TypeOK, CallsKnown, [Next]_vars PROVE CallsKnown'
  OBVIOUS
<1>1. DOMAIN users \subseteq created
  BY DEF TypeOK, AccountsOK
<1>2. ASSUME created \subseteq created', UNCHANGED signIns \/ \E r : signIns' = Delete(signIns, r)
      PROVE  CallsKnown'
  BY <1>2 DEF CallsKnown, Delete, Restrict
<1>3. ASSUME NEW r, NEW u, NEW c, NEW trigger \in Triggers, Await(r, u, c, trigger),
             created \subseteq created', trigger # "userMigration" => u \in created'
      PROVE  CallsKnown'
  BY <1>3 DEF CallsKnown, Await, Set
<1>4. ASSUME NEW accounts, NEW r, NEW u, NEW c, created \subseteq created', u \in created',
             \/ AfterPassword(accounts, r, u, c)
             \/ AfterPreAuthentication(accounts, r, u, c)
             \/ IssueForSignIn(accounts, r, u, c)
      PROVE  CallsKnown'
  <2>1. CASE \E trigger \in Triggers : Await(r, u, c, trigger)
    BY <2>1, <1>4, <1>3
  <2>2. CASE signIns' = Delete(signIns, r)
    BY <2>2, <1>4, <1>2
  <2>3. QED
    BY <1>4, <2>1, <2>2 DEF AfterPassword, AfterPreAuthentication, IssueForSignIn
<1>5. CASE SignInStep
  <2>1. ASSUME NEW r \in Requests, NEW u \in Users, NEW c \in Clients,
               SignIn(r, u, c) \/ SignInUnknown(r, u, c)
        PROVE  CallsKnown'
    BY <2>1, <1>1, <1>3, <1>4 DEF SignIn, MaySignIn, SignInUnknown, accountVars
  <2>2. QED
    BY <1>5, <2>1, <1>2
       DEF SignInStep, SignInWithMfa, AdminSignInNewPassword, AdminSignIn, PassChallenge,
           LoseSession, OidcSignIn, accountVars, callVars
<1>6. CASE TokenStep
  BY <1>6, <1>2
     DEF TokenStep, Refresh, AdminRefresh, OidcRefresh, PresentExpired, Expire, RevokeToken,
         OidcRevoke, accountVars, callVars
<1>7. CASE AccountStep
  BY <1>7, <1>2
     DEF AccountStep, GlobalSignOut, AdminUserGlobalSignOut, AdminDisableUser, AdminEnableUser,
         AdminDeleteUser, DeleteUser, AdminCreateUser, SignUp, ChangeStatus, CreateUser,
         UpdateUser, callVars
<1>8. ASSUME NEW r \in Requests, TriggerReplies(r)
      PROVE  CallsKnown'
  <2>1. ASSUME NEW v \in Users, NEW status \in Statuses, UserMigrationReplies(r, v, status)
        PROVE  CallsKnown'
    BY <2>1, <1>4 DEF UserMigrationReplies
  <2>2. CASE PreAuthenticationReplies(r) \/ PreTokenGenerationReplies(r)
    <3>1. created' = created /\ signIns[r].user \in created
      BY <2>2 DEF PreAuthenticationReplies, PreTokenGenerationReplies, WaitsFor, CallsKnown
    <3>2. QED
      BY <2>2, <3>1, <1>4 DEF PreAuthenticationReplies, PreTokenGenerationReplies
  <2>3. QED
    BY <1>8, <2>1, <2>2, <1>2
       DEF TriggerReplies, SignInEnds, RefreshReplies, RefreshFails, accountVars
<1>9. CASE Restart
  BY <1>9 DEF Restart, CallsKnown, Empty
<1>10. CASE UNCHANGED vars \/ \E p \in Pools : DeleteUserPool(p)
  BY <1>10, <1>2 DEF DeleteUserPool, vars, accountVars, callVars
<1>11. QED
  BY <1>5, <1>6, <1>7, <1>8, <1>9, <1>10 DEF Next

\* The record of the names there were only grows.
LEMMA CreatedGrows == [Next]_vars => created \subseteq created'
  BY DEF Next, vars, accountVars, SignInStep, SignIn, SignInUnknown, SignInWithMfa,
         AdminSignInNewPassword, AdminSignIn, PassChallenge, LoseSession, OidcSignIn,
         TokenStep, Refresh, AdminRefresh, OidcRefresh, PresentExpired, Expire, RevokeToken,
         OidcRevoke, AccountStep, GlobalSignOut, AdminUserGlobalSignOut, AdminDisableUser,
         AdminEnableUser, AdminDeleteUser, DeleteUser, AdminCreateUser, SignUp, ChangeStatus,
         CreateUser, UpdateUser, TriggerReplies, UserMigrationReplies, PreAuthenticationReplies,
         PreTokenGenerationReplies, SignInEnds, RefreshReplies, RefreshFails, Restart, DeleteUserPool

\* What a step does to the accounts and to the usable tokens.  One case per
\* handler: whoever loses an account, the right to sign in or the list of its
\* tokens has lost the tokens, or was not there, or is overwritten by a migration.
LEMMA Fates ==
  ASSUME TypeOK, EntriesIssued, CallsKnown, [Next]_vars
  PROVE  AccountFates /\ TokenFates
<1>1. /\ users \in [DOMAIN users -> Account]
      /\ DOMAIN users \subseteq created
      /\ StoresOK
  BY DEF TypeOK, AccountsOK
<1>2. ASSUME UNCHANGED users
      PROVE  AccountFates
  BY <1>2 DEF AccountFates, Kept, MaySignIn
<1>3. ASSUME NEW u \in DOMAIN users, NEW a, users' = Set(users, u, a), Kept(u)
      PROVE  AccountFates
  BY <1>3 DEF AccountFates, Kept, MaySignIn, Set
<1>4. ASSUME UNCHANGED accountVars, UNCHANGED storeVars
      PROVE  AccountFates /\ TokenFates
  BY <1>4, <1>2, QuietRemain DEF TokenFates, accountVars
<1>5. ASSUME NEW u \in DOMAIN users, NEW c, NEW t \in Tokens, NEW from,
             NEW a \in Account, from # "InitiateAuth",
             from \in Guarded => MaySignIn(u),
             Issue(t, u, c, from), UNCHANGED created,
             a.enabled = users[u].enabled, a.refreshTokens = users[u].refreshTokens,
             users[u].status # "UNCONFIRMED" => a.status # "UNCONFIRMED",
             users' \in RecordRefreshToken(Set(users, u, a), u, t)
      PROVE  AccountFates /\ TokenFates
  <2> DEFINE accounts == Set(users, u, a)
  <2>1. /\ DOMAIN accounts = DOMAIN users
        /\ accounts \in [DOMAIN accounts -> Account]
        /\ accounts[u] = a
        /\ \A w \in DOMAIN users \ {u} : accounts[w] = users[w]
    BY <1>1 DEF Set
  <2> HIDE DEF accounts
  <2>2. /\ DOMAIN users' = DOMAIN accounts
        /\ \A w \in DOMAIN accounts :
             /\ users'[w].enabled = accounts[w].enabled
             /\ users'[w].status = accounts[w].status
             /\ accounts[w].refreshTokens \subseteq users'[w].refreshTokens
             /\ w = u => t \in users'[w].refreshTokens
    BY <1>5, <2>1, RecordKeeps DEF accounts
  <2>3. AccountFates
    BY <1>5, <2>1, <2>2 DEF AccountFates, Kept, MaySignIn
  <2>4. ASSUME NEW x \in UsableTokens', ~Remains(x)
        PROVE  Arrives(x, u, from)
    <3>1. x = t /\ refreshTokens'[x].user = u /\ refreshTokens'[x].origin = from
      BY <1>5, <2>4, IssueRemain
    <3>2. MaySignIn(u) => MaySignIn(u)'
      BY <1>5, <2>1, <2>2 DEF MaySignIn
    <3>3. u \in created' /\ u \in DOMAIN users' /\ t \in users'[u].refreshTokens
      BY <1>1, <1>5, <2>1, <2>2
    <3>4. QED
      BY <1>5, <3>1, <3>2, <3>3 DEF Arrives
  <2>5. QED
    BY <2>3, <2>4 DEF TokenFates
<1>10. CASE SignInStep
  <2>1. ASSUME NEW r \in Requests, NEW u \in Users, NEW c \in Clients, SignIn(r, u, c)
        PROVE  AccountFates /\ TokenFates
    <3>1. u \in DOMAIN users /\ u \in created' /\ users[u].enabled
          /\ users[u].status # "UNCONFIRMED" /\ AfterPassword(users, r, u, c)
      BY <2>1, <1>1 DEF SignIn, MaySignIn
    <3>2. QED
      BY <3>1, <1>1, SignInFates DEF AccountFates, Kept, MaySignIn
  <2>2. ASSUME NEW u \in Users, NEW c \in Clients, NEW t \in Tokens, AdminSignIn(u, c, t)
        PROVE  AccountFates /\ TokenFates
    <3>1. u \in DOMAIN users /\ users[u] \in Account /\ MaySignIn(u)
      BY <2>2, <1>1 DEF AdminSignIn, MaySignIn
    <3>2. Set(users, u, users[u]) = users
      BY <3>1, <1>1 DEF Set
    <3>3. QED
      BY <2>2, <3>1, <3>2, <1>5 DEF AdminSignIn
  <2>3. ASSUME NEW u \in Users, NEW s \in Sessions, NEW c \in Clients, NEW t \in Tokens,
               PassChallenge(s, c, t, u)
        PROVE  AccountFates /\ TokenFates
    <3> DEFINE account == IF sessions[s].challenge = "NEW_PASSWORD_REQUIRED"
                            THEN [users[u] EXCEPT !.status = "CONFIRMED"]
                            ELSE users[u]
    <3>1. /\ u \in DOMAIN users /\ account \in Account
          /\ account.enabled = users[u].enabled
          /\ account.refreshTokens = users[u].refreshTokens
          /\ users[u].status # "UNCONFIRMED" => account.status # "UNCONFIRMED"
      BY <2>3, <1>1, FoundUsers DEF PassChallenge, Account, Statuses
    <3>2. Issue(t, u, c, "RespondToAuthChallenge") /\ UNCHANGED created
          /\ users' \in RecordRefreshToken(Set(users, u, account), u, t)
      BY <2>3 DEF PassChallenge
    <3> HIDE DEF account
    <3>3. QED
      BY <3>1, <3>2, <1>5 DEF Guarded
  <2>4. ASSUME NEW u \in Users, NEW c \in Clients, NEW t \in Tokens, OidcSignIn(u, c, t)
        PROVE  AccountFates /\ TokenFates
    <3>1. AccountFates
      BY <2>4, <1>2 DEF OidcSignIn, accountVars
    <3>2. ASSUME NEW x \in UsableTokens', ~Remains(x)
          PROVE  Arrives(x, u, "OidcToken")
      <4>1. x = t /\ refreshTokens'[x].user = u /\ refreshTokens'[x].origin = "OidcToken"
        BY <2>4, <3>2, IssueRemain DEF OidcSignIn
      <4>2. "OidcToken" \notin Guarded /\ "OidcToken" \notin SdkOrigins
        BY DEF Guarded, SdkOrigins
      <4>3. u \in created' /\ u \in DOMAIN users'
        BY <2>4, <1>1 DEF OidcSignIn, accountVars
      <4>4. QED
        BY <4>1, <4>2, <4>3 DEF Arrives
    <3>3. QED
      BY <3>1, <3>2 DEF TokenFates
  <2>5. QED
    BY <1>10, <2>1, <2>2, <2>3, <2>4, <1>4
       DEF SignInStep, SignInUnknown, SignInWithMfa, AdminSignInNewPassword, LoseSession
<1>11. CASE TokenStep
  <2>1. ASSUME NEW t \in Tokens, PresentExpired(t) \/ Expire(t)
        PROVE  AccountFates /\ TokenFates
    BY <2>1, <1>1, <1>2, ExpireRemain DEF PresentExpired, Expire, accountVars, TokenFates
  <2>2. ASSUME NEW t \in Tokens, OidcRevoke(t)
        PROVE  AccountFates /\ TokenFates
    BY <2>2, <1>1, <1>2, RevokeRemain DEF OidcRevoke, accountVars, TokenFates
  <2>3. ASSUME NEW t \in Tokens, RevokeToken(t)
        PROVE  AccountFates /\ TokenFates
    <3>1. TokenFates /\ t \notin UsableTokens'
      BY <2>3, <1>1, RevokeRemain DEF RevokeToken, TokenFates
    <3>2. CASE UNCHANGED users
      BY <3>1, <3>2, <1>2
    <3>3. ASSUME NEW u \in DOMAIN users,
                 users' = Set(users, u, [users[u] EXCEPT !.refreshTokens = @ \ {t}])
          PROVE  AccountFates /\ TokenFates
      <4> DEFINE a == [users[u] EXCEPT !.refreshTokens = @ \ {t}]
      <4>1. users' = Set(users, u, a)
        BY <3>3
      <4>2. a.enabled = users[u].enabled /\ a.status = users[u].status
            /\ a.refreshTokens = users[u].refreshTokens \ {t}
        BY <3>3, <1>1 DEF Account
      <4> HIDE DEF a
      <4>3. u \in DOMAIN users' /\ users'[u] = a
        BY <4>1 DEF Set
      <4>4. Kept(u)
        BY <4>2, <4>3, <3>1, <3>3 DEF Kept, MaySignIn
      <4>5. QED
        BY <4>1, <4>4, <3>1, <3>3, <1>3
    <3>4. users' \in Forget(refreshTokens[t].user, t)
      BY <2>3 DEF RevokeToken
    <3>5. QED
      <4>1. ASSUME NEW u \in GetUser(users, refreshTokens[t].user),
                   users' = Set(users, u, [users[u] EXCEPT !.refreshTokens = @ \ {t}])
            PROVE  AccountFates /\ TokenFates
        <5>1. u \in DOMAIN users
          BY FoundUsers
        <5>2. QED
          BY <4>1, <5>1, <3>3
      <4>2. QED
        BY <3>2, <3>4, <4>1, ForgetOne
  <2>4. QED
    BY <1>11, <2>1, <2>2, <2>3, <1>4 DEF TokenStep, Refresh, AdminRefresh, OidcRefresh
<1>12. CASE AccountStep
  <2>1. ASSUME NEW u \in DOMAIN users,
               RevokeAllOf(u) \/ Revoke(TokensOf(refreshTokens, u)),
               \/ users' = Delete(users, u)
               \/ UpdateUser(u, SignedOut(u))
               \/ UpdateUser(u, [SignedOut(u) EXCEPT !.enabled = FALSE])
        PROVE  AccountFates /\ TokenFates
    <3>1. PICK T : Revoke(T) /\ TokensOf(refreshTokens, u) \subseteq T
      BY <2>1 DEF RevokeAllOf
    <3>2. TokenFates /\ Cleared(u)
      BY <3>1, <1>1, RevokeRemain DEF TokenFates, Cleared, Remains, TokensOf, UsableTokens
    <3>3. \A w \in DOMAIN users \ {u} : w \in DOMAIN users' /\ users'[w] = users[w]
      BY <2>1 DEF Delete, Restrict, UpdateUser, Set
    <3>4. DOMAIN users' \subseteq DOMAIN users
      BY <2>1 DEF Delete, Restrict, UpdateUser, Set
    <3>5. QED
      BY <3>2, <3>3, <3>4 DEF AccountFates, Kept, MaySignIn
  <2>2. ASSUME NEW u \in Users, AdminCreateUser(u) \/ SignUp(u)
        PROVE  AccountFates /\ TokenFates
    <3>1. Fresh(u) /\ UNCHANGED storeVars
      BY <2>2 DEF AdminCreateUser, SignUp, IsNewUsername, Fresh
    <3>2. \A w \in DOMAIN users : w \in DOMAIN users' /\ users'[w] = users[w]
      BY <2>2 DEF AdminCreateUser, SignUp, IsNewUsername, CreateUser, Set
    <3>3. DOMAIN users' = DOMAIN users \cup {u}
      BY <2>2 DEF AdminCreateUser, SignUp, CreateUser, Set
    <3>4. QED
      BY <3>1, <3>2, <3>3, QuietRemain DEF AccountFates, Kept, MaySignIn, TokenFates
  <2>3. ASSUME NEW u \in Users, NEW status \in Statuses, AdminEnableUser(u) \/ ChangeStatus(u, status)
        PROVE  AccountFates /\ TokenFates
    <3>1. u \in DOMAIN users /\ UNCHANGED storeVars
      BY <2>3 DEF AdminEnableUser, ChangeStatus, IsThere
    <3>2. PICK a : /\ users' = Set(users, u, a)
                   /\ a \in {[users[u] EXCEPT !.enabled = TRUE], [users[u] EXCEPT !.status = status]}
                   /\ a.status # "UNCONFIRMED" \/ a.status = users[u].status
      BY <2>3, <3>1, <1>1 DEF AdminEnableUser, ChangeStatus, UpdateUser, Account
    <3>3. /\ a.enabled \/ a.enabled = users[u].enabled
          /\ a.refreshTokens = users[u].refreshTokens
      BY <3>1, <3>2, <1>1 DEF Account
    <3>4. u \in DOMAIN users' /\ users'[u] = a
      BY <3>2 DEF Set
    <3>5. Kept(u)
      BY <3>1, <3>2, <3>3, <3>4 DEF Kept, MaySignIn
    <3>6. QED
      BY <3>1, <3>2, <3>5, <1>3, QuietRemain DEF TokenFates
  <2>4. QED
    BY <1>12, <2>1, <2>2, <2>3
       DEF AccountStep, GlobalSignOut, AdminUserGlobalSignOut, AdminDisableUser, AdminDeleteUser,
           DeleteUser, IsThere, Statuses
<1>13. ASSUME NEW r \in Requests, TriggerReplies(r)
       PROVE  AccountFates /\ TokenFates
  <2>1. ASSUME NEW v \in Users, NEW status \in Statuses, UserMigrationReplies(r, v, status)
        PROVE  AccountFates /\ TokenFates
    <3> DEFINE accounts == Set(users, v, NewAccount(status))
    <3>1. /\ DOMAIN accounts = DOMAIN users \cup {v}
          /\ accounts \in [DOMAIN accounts -> Account]
          /\ accounts[v].enabled /\ accounts[v].status = status
          /\ \A w \in DOMAIN users \ {v} : accounts[w] = users[w]
      BY <1>1 DEF Set, NewAccount, Account
    <3>2. /\ "userMigration" \in Triggers
          /\ MigrationsName \/ v \notin created
          /\ v \in created'
          /\ status # "UNCONFIRMED"
          /\ AfterPassword(accounts, r, v, signIns[r].client)
      BY <2>1 DEF UserMigrationReplies, MigratedKeys, MigrationsName, WaitsFor, CallsKnown
    <3> HIDE DEF accounts
    <3>3. /\ TokenFates
          /\ DOMAIN users' = DOMAIN accounts
          /\ \A w \in DOMAIN accounts :
               /\ users'[w].enabled = accounts[w].enabled
               /\ users'[w].status = accounts[w].status
               /\ accounts[w].refreshTokens \subseteq users'[w].refreshTokens
      BY <3>1, <3>2, SignInFates
    <3>4. Fresh(v) \/ Overwritten(v)
      BY <1>1, <3>1, <3>2, <3>3 DEF Fresh, Overwritten, MaySignIn
    <3>5. \A w \in DOMAIN users \ {v} : Kept(w)
      BY <3>1, <3>3 DEF Kept, MaySignIn
    <3>6. QED
      BY <3>1, <3>3, <3>4, <3>5 DEF AccountFates
  <2>2. CASE PreAuthenticationReplies(r) \/ PreTokenGenerationReplies(r)
    <3>1. /\ signIns[r].user \in created'
          /\ ~TokensAtOnce
          /\ \/ AfterPreAuthentication(users, r, signIns[r].user, signIns[r].client)
             \/ IssueForSignIn(users, r, signIns[r].user, signIns[r].client)
      BY <2>2 DEF PreAuthenticationReplies, PreTokenGenerationReplies, WaitsFor, CallsKnown,
                  TokensAtOnce
    <3>2. QED
      BY <3>1, <1>1, SignInFates DEF AccountFates, Kept, MaySignIn
  <2>3. QED
    BY <1>13, <2>1, <2>2, <1>4 DEF TriggerReplies, SignInEnds, RefreshReplies, RefreshFails
<1>14. CASE Restart
  <2>1. /\ DOMAIN users' = DOMAIN users \cup Seeds
        /\ \A w \in DOMAIN users : users'[w] = users[w]
    BY <1>14 DEF Restart, Seeded
  <2>2. \A w \in DOMAIN users : Kept(w)
    BY <2>1 DEF Kept, MaySignIn
  <2>3. \A w \in DOMAIN users' \ DOMAIN users : Fresh(w)
    BY <2>1 DEF Fresh
  <2>4. QED
    BY <1>14, <2>2, <2>3, QuietRemain DEF Restart, AccountFates, TokenFates
<1>15. ASSUME NEW p \in Pools, DeleteUserPool(p)
       PROVE  AccountFates /\ TokenFates
  <2>1. /\ DOMAIN users' = {w \in DOMAIN users : w.pool # p}
        /\ \A w \in DOMAIN users' : users'[w] = users[w]
        /\ UNCHANGED storeVars
    BY <1>15 DEF DeleteUserPool, Restrict
  <2>2. UsableTokens' = UsableTokens /\ UNCHANGED refreshTokens
    BY <2>1 DEF storeVars, UsableTokens
  <2>3. \A w \in DOMAIN users \ DOMAIN users' : Cleared(w)
    BY <1>15, <2>1, <2>2 DEF DeleteUserPool, Cleared
  <2>4. \A w \in DOMAIN users' : Kept(w)
    BY <2>1 DEF Kept, MaySignIn
  <2>5. QED
    BY <2>1, <2>3, <2>4, QuietRemain DEF AccountFates, TokenFates
<1>16. CASE UNCHANGED vars
  BY <1>16, <1>4 DEF vars
<1>17. QED
  BY <1>10, <1>11, <1>12, <1>13, <1>14, <1>15, <1>16 DEF Next

-----------------------------------------------------------------------------
\* What is known of the usable tokens' users stays known: whoever is cleared has
\* none, and nobody who has any is fresh.
LEMMA UsersKnownStep ==
  TypeOK /\ EntriesIssued /\ CallsKnown /\ UsersKnown /\ [Next]_vars => UsersKnown'
<1> SUFFICES ASSUME TypeOK, EntriesIssued, CallsKnown, UsersKnown, [Next]_vars,
                    NEW t \in UsableTokens' \ leftBehind'
             PROVE  /\ refreshTokens'[t].user \in created'
                    /\ IssuedAtOnce(t)' =>
                         /\ refreshTokens'[t].user \in DOMAIN users'
                         /\ refreshTokens'[t].origin \in Guarded => MaySignIn(refreshTokens[t].user)'
  BY DEF UsersKnown
<1> PICK w : w = refreshTokens'[t].user
  OBVIOUS
<1>1. AccountFates /\ TokenFates
  BY Fates
<1>2. created \subseteq created' /\ leftBehind \subseteq leftBehind'
  BY CreatedGrows, PoolsStep DEF TypeOK
<1>3. CASE Remains(t)
  <2>1. /\ w \in created
        /\ IssuedAtOnce(t)' =>
             w \in DOMAIN users /\ (refreshTokens'[t].origin \in Guarded => MaySignIn(w))
    BY <1>2, <1>3 DEF Remains, UsersKnown, IssuedAtOnce
  <2>2. IssuedAtOnce(t)' => Kept(w) \/ Overwritten(w)
    BY <1>1, <2>1 DEF AccountFates, Cleared, Fresh
  <2>3. QED
    BY <1>2, <2>1, <2>2 DEF Kept, Overwritten, MaySignIn
<1>4. ASSUME NEW u, NEW from, Arrives(t, u, from)
      PROVE  /\ w \in created'
             /\ IssuedAtOnce(t)' =>
                  w \in DOMAIN users' /\ (refreshTokens'[t].origin \in Guarded => MaySignIn(w)')
  BY <1>4 DEF Arrives, IssuedAtOnce
<1>5. QED
  BY <1>1, <1>3, <1>4 DEF TokenFates, MaySignIn

\* The invariants of this part, together.
UsersInv == TypeOK /\ EntriesIssued /\ CallsKnown /\ UsersKnown

LEMMA UsersInvInit == Init => CallsKnown /\ UsersKnown
  BY DEF Init, CallsKnown, UsersKnown, UsableTokens, Empty

\* Calls wait for accounts that were there, and usable tokens belong to such,
\* but for those that a deleted pool left behind.
THEOREM TokensHaveUsers == Spec => []UsersInv
  BY UsersInvInit, CallsKnownStep, UsersKnownStep, TypeCorrect, RevocationsRecorded, PTL
     DEF Spec, UsersInv

\* A token without an account is one of a deleted pool, or of a sign-in that
\* waited for a trigger.
THEOREM OrphansAwaitedTriggers ==
  Spec => [](\A t \in UsableTokens \ leftBehind :
               refreshTokens[t].origin # "InitiateAuth" => refreshTokens[t].user \in DOMAIN users)
<1>1. UsersInv => \A t \in UsableTokens \ leftBehind :
        refreshTokens[t].origin # "InitiateAuth" => refreshTokens[t].user \in DOMAIN users
  BY DEF UsersInv, UsersKnown, IssuedAtOnce
<1>2. QED
  BY <1>1, TokensHaveUsers, PTL

\* So where no sign-in waits between the account and the token, only deleting a
\* whole pool leaves a usable token without an account, for any number of
\* everything and any other trigger.
THEOREM NobodyOrphaned == TokensAtOnce => (Spec => []NoOrphanTokens)
<1> SUFFICES ASSUME TokensAtOnce PROVE Spec => []NoOrphanTokens
  OBVIOUS
<1>1. UsersInv => NoOrphanTokens
  BY DEF UsersInv, UsersKnown, IssuedAtOnce, NoOrphanTokens
<1>2. QED
  BY <1>1, TokensHaveUsers, PTL

\* And a token of the flows that check the account belongs to one that passes.
THEOREM GuardsHold == TokensAtOnce => (Spec => []GuardedTokensStayGuarded)
<1> SUFFICES ASSUME TokensAtOnce PROVE Spec => []GuardedTokensStayGuarded
  OBVIOUS
<1>1. UsersInv => GuardedTokensStayGuarded
  BY DEF UsersInv, UsersKnown, IssuedAtOnce, GuardedTokensStayGuarded, Guarded
<1>2. QED
  BY <1>1, TokensHaveUsers, PTL

-----------------------------------------------------------------------------
\* Where names leave nothing, a list misses no token: a new account is fresh and
\* no usable token has its name.
LEMMA TokenListCompleteStep ==
  NamesLeaveNothing /\ UsersInv /\ TokenListComplete /\ [Next]_vars => TokenListComplete'
<1> SUFFICES ASSUME NamesLeaveNothing, UsersInv, TokenListComplete, [Next]_vars,
                    NEW t \in UsableTokens' \ leftBehind', NEW w, w = refreshTokens'[t].user,
                    refreshTokens'[t].origin \in SdkOrigins, w \in DOMAIN users'
             PROVE  t \in users'[w].refreshTokens
  BY DEF TokenListComplete
<1>1. AccountFates /\ TokenFates /\ leftBehind \subseteq leftBehind'
  BY Fates, PoolsStep DEF UsersInv, TypeOK
<1>2. CASE Remains(t)
  <2>1. t \in UsableTokens \ leftBehind /\ w = refreshTokens[t].user /\ w \in created
        /\ (TokensAtOnce => w \in DOMAIN users)
    BY <1>1, <1>2 DEF Remains, UsersInv, UsersKnown, IssuedAtOnce
  <2>2. ~Fresh(w) /\ ~Overwritten(w) /\ ~Cleared(w)
    BY <2>1 DEF NamesLeaveNothing, Fresh, Overwritten, Cleared
  <2>3. Kept(w)
    BY <1>1, <2>2 DEF AccountFates
  <2>4. QED
    BY <1>2, <2>1, <2>3 DEF Kept, Remains, TokenListComplete
<1>3. CASE \E u, from : Arrives(t, u, from)
  BY <1>3 DEF Arrives
<1>4. QED
  BY <1>1, <1>2, <1>3 DEF TokenFates

\* A user's list names every usable token that an SDK call issued to the user, but
\* for those that a deleted pool left behind.
THEOREM ListsComplete == NamesLeaveNothing => (Spec => []TokenListComplete)
<1> SUFFICES ASSUME NamesLeaveNothing PROVE Spec => []TokenListComplete
  OBVIOUS
<1>1. Init => TokenListComplete
  BY DEF Init, TokenListComplete, UsableTokens, Empty
<1>2. UsersInv /\ TokenListComplete /\ [Next]_vars => TokenListComplete'
  BY TokenListCompleteStep
<1>3. QED
  BY <1>1, <1>2, TokensHaveUsers, PTL DEF Spec
=============================================================================
