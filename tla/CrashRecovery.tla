---------------------------- MODULE CrashRecovery ----------------------------
(***************************************************************************)
(* The files when the process is killed: those behind the refresh tokens,  *)
(* the users and the groups.  A handler makes its writes one after the     *)
(* other, each to one key of one file.  No other handler runs between      *)
(* them, but the process may die between any two, or in the middle of one: *)
(* that file is then torn, and the next start finds its store empty.       *)
(*                                                                         *)
(* A membership is written twice: into the members of the group, which the *)
(* listing calls answer from, and into the groups of the user, which become*)
(* the claim `cognito:groups'.                                             *)
(*                                                                         *)
(* Left out: the triggers and sessions, which are in RefreshTokens; the    *)
(* files of the pools and clients, so a handler never fails because its    *)
(* pool is gone; whether an account is enabled, so a disabled one can sign *)
(* in; the handlers that write an account or a group with the tokens and   *)
(* members it has.                                                         *)
(***************************************************************************)
EXTENDS DataStore

CONSTANTS
  Users,
  Tokens,           \* random: each is issued once
  GroupNames,
  Seeds,            \* the seed file: user -> groups, which need not exist
  UserPools,        \* the users of each pool
  Torn              \* the files a crash may tear

Files == {"refresh-tokens.json", "revoked-tokens.json", "users.json", "groups.json"}

ASSUME CrashRecoveryAssumption ==
  /\ DOMAIN Seeds \subseteq Users
  /\ Seeds \in [DOMAIN Seeds -> SUBSET GroupNames]
  /\ UserPools \subseteq SUBSET Users
  /\ Torn \subseteq Files

Entry == [userId : Users, revoked : BOOLEAN]
Account == [tokens : SUBSET Tokens, groups : SUBSET GroupNames]
Pairs == Users \X GroupNames

\* A write sets or deletes one key of one store.
Put(file, k, v) == [op |-> "set", file |-> file, key |-> k, value |-> v]
Drop(file, k) == [op |-> "delete", file |-> file, key |-> k]

PutEntry(t, u, revoked) ==
  Put("refresh-tokens.json", t, [userId |-> u, revoked |-> revoked])
PutRevoked(t) == Put("revoked-tokens.json", t, [token |-> t])
PutUser(u, tokens, groups) ==
  Put("users.json", u, [tokens |-> tokens, groups |-> groups])
PutGroup(g, members) == Put("groups.json", g, members)

VARIABLES
  mem,              \* file -> the Map in memory
  disk,             \* file -> what the next start would read
  todo,             \* what the running handler still has to write: see Steps
  call,             \* what the running handler will have done
  owner,            \* issued token -> user (history)
  answered,         \* tokens a client received, until their file is torn (history)
  threatened,       \* tokens a call was started against (history)
  expired,          \* those of them that a call found expired (history)
  abandoned,        \* tokens that a deleted pool left behind (history)
  dead,             \* tokens whose revocation or expiry was answered (history)
  added,            \* memberships whose addition was answered (history)
  removed,          \* memberships whose removal was answered (history)
  lost              \* files that a crash has torn (history)

history ==
  <<owner, answered, threatened, expired, abandoned, dead, added, removed, lost>>
vars == <<mem, disk, todo, call, history>>

\* What a call does to tokens and memberships, for the history.
Effects ==
  [issues : SUBSET Tokens, kills : SUBSET Tokens, expires : SUBSET Tokens,
   abandons : SUBSET Tokens, adds : SUBSET Pairs, removes : SUBSET Pairs, running : BOOLEAN]

Idle ==
  [issues |-> {}, kills |-> {}, expires |-> {}, abandons |-> {},
   adds |-> {}, removes |-> {}, running |-> FALSE]

Nothing == [now |-> {}, listed |-> {}, found |-> {}, pool |-> {}, last |-> {}]

Entries == mem["refresh-tokens.json"]
RevokedTokens == DOMAIN mem["revoked-tokens.json"]
Accounts == mem["users.json"]
Groups == mem["groups.json"]

Map(store, keys, values) ==
  /\ DOMAIN store \subseteq keys
  /\ store \in [DOMAIN store -> values]

StoreOK(stores) ==
  /\ DOMAIN stores = Files
  /\ Map(stores["refresh-tokens.json"], Tokens, Entry)
  /\ Map(stores["revoked-tokens.json"], Tokens, [token : Tokens])
  /\ Map(stores["users.json"], Users, Account)
  /\ Map(stores["groups.json"], GroupNames, SUBSET Users)

TypeOK ==
  /\ StoreOK(mem)
  /\ StoreOK(disk)
  /\ call \in Effects
  /\ DOMAIN todo = DOMAIN Nothing
  /\ todo.listed \cup todo.found \subseteq Tokens
  /\ todo.pool \subseteq Users
  /\ todo # Nothing => call.running
  /\ Map(owner, Tokens, Users)
  /\ answered \cup threatened \cup expired \cup abandoned \cup dead \subseteq DOMAIN owner
  /\ added \cup removed \subseteq Pairs
  /\ lost \subseteq Torn

Usable == {t \in DOMAIN Entries : ~Entries[t].revoked}

TokensOf(u) == {t \in DOMAIN Entries : Entries[t].userId = u}

IssuedTo(u) == {t \in DOMAIN owner : owner[t] = u}

\* The two copies of a membership.
Listed(u, g) == g \in DOMAIN Groups /\ u \in Groups[g]
Carried(u, g) == u \in DOMAIN Accounts /\ g \in Accounts[u].groups

-----------------------------------------------------------------------------
(* Writing.                                                                 *)

\* Mutant: the history is written first.
RevocationHistoryFirst(t) ==
  <<PutRevoked(t), PutEntry(t, Entries[t].userId, TRUE)>>

\* revokeRefreshToken of a token that has an entry.
Revocation(t) == <<PutEntry(t, Entries[t].userId, TRUE), PutRevoked(t)>>

Step(w, left) == [write |-> w, left |-> left]

\* The next write of the running handler and what is left after it: first the
\* write that comes now, if any; then the loop over the tokens of a user's list,
\* in any order; then the loop over the tokens the store has; then the loop over
\* the users of a pool; then the last.
Steps ==
  IF todo.now # {} THEN
    {Step(w, [todo EXCEPT !.now = @ \ {w}]) : w \in todo.now}
  ELSE IF todo.listed # {} THEN
    {Step(Revocation(t)[1],
          [todo EXCEPT !.now = {Revocation(t)[2]}, !.listed = @ \ {t}]) : t \in todo.listed}
  ELSE IF todo.found # {} THEN
    {Step(Revocation(t)[1],
          [todo EXCEPT !.now = {Revocation(t)[2]}, !.found = @ \ {t}]) : t \in todo.found}
  ELSE IF todo.pool # {} THEN
    {Step(Drop("users.json", u), [todo EXCEPT !.pool = @ \ {u}]) : u \in todo.pool}
  ELSE
    {Step(w, [todo EXCEPT !.last = @ \ {w}]) : w \in todo.last}

Applied(store, w) ==
  IF w.op = "set" THEN Set(store, w.key, w.value) ELSE Delete(store, w.key)

\* Mutant: the file is left to be written by a later write to its store.
WriteLate ==
  /\ \E s \in Steps :
       /\ mem' = [mem EXCEPT ![s.write.file] = Applied(@, s.write)]
       /\ disk' = [disk EXCEPT ![s.write.file] = mem[s.write.file]]
       /\ todo' = s.left
  /\ UNCHANGED <<call, history>>

\* set and delete: the Map changes, then the whole of it is written.
Write ==
  /\ \E s \in Steps :
       /\ mem' = [mem EXCEPT ![s.write.file] = Applied(@, s.write)]
       /\ disk' = [disk EXCEPT ![s.write.file] = Applied(mem[s.write.file], s.write)]
       /\ todo' = s.left
  /\ UNCHANGED <<call, history>>

-----------------------------------------------------------------------------
(* The handlers.                                                            *)

\* A handler starts: it has these writes to make and will have done this.
Starts(writes, effects) ==
  /\ ~call.running
  /\ todo' = writes
  /\ call' = [effects EXCEPT !.running = TRUE]
  /\ threatened' = threatened \cup effects.kills
  /\ expired' = expired \cup effects.expires
  /\ abandoned' = abandoned \cup effects.abandons
  /\ UNCHANGED <<mem, disk, answered, dead, lost>>

PromisesTo(u) == {pair \in Pairs : pair[1] = u}

\* The memberships the seed file gives.
Seeded == {pair \in Pairs : pair[1] \in DOMAIN Seeds /\ pair[2] \in Seeds[pair[1]]}

\* createUser of any handler that registers.  What waited for preSignUp or
\* userMigration does not look again: the account that took the name meanwhile
\* is overwritten, with its list and its groups.
CreateUser(u) ==
  /\ Starts([Nothing EXCEPT !.now = {PutUser(u, {}, {})}], Idle)
  /\ added' = added \ PromisesTo(u)
  /\ UNCHANGED <<owner, removed>>

\* Mutant: the list is written before the token.
SignInRecordingFirst(u, t) ==
  /\ u \in DOMAIN Accounts
  /\ t \notin DOMAIN owner
  /\ Starts([Nothing EXCEPT
               !.now = {PutUser(u, Accounts[u].tokens \cup {t}, Accounts[u].groups)},
               !.last = {PutEntry(t, u, FALSE)}],
            [Idle EXCEPT !.issues = {t}])
  /\ owner' = Set(owner, t, u)
  /\ UNCHANGED <<added, removed>>

\* A sign-in over the SDK records the token in the user's list.
SignIn(u, t) ==
  /\ u \in DOMAIN Accounts
  /\ t \notin DOMAIN owner
  /\ Starts([Nothing EXCEPT
               !.now = {PutEntry(t, u, FALSE)},
               !.last = {PutUser(u, Accounts[u].tokens \cup {t}, Accounts[u].groups)}],
            [Idle EXCEPT !.issues = {t}])
  /\ owner' = Set(owner, t, u)
  /\ UNCHANGED <<added, removed>>

\* A grant of the token endpoint records it nowhere else.
OidcSignIn(u, t) ==
  /\ u \in DOMAIN Accounts
  /\ t \notin DOMAIN owner
  /\ Starts([Nothing EXCEPT !.now = {PutEntry(t, u, FALSE)}],
            [Idle EXCEPT !.issues = {t}])
  /\ owner' = Set(owner, t, u)
  /\ UNCHANGED <<added, removed>>

\* Mutant: the handler relies on the list alone.
SignOutWritesByList(u, last) ==
  [Nothing EXCEPT !.now    = {PutUser(u, {}, Accounts[u].groups)},
                  !.listed = Accounts[u].tokens \cap DOMAIN Entries,
                  !.last   = last]

\* The user's list is cleared, its tokens are revoked, those that have no entry
\* without a write, then all the store has.
SignOutWrites(u, last) ==
  [Nothing EXCEPT !.now    = {PutUser(u, {}, Accounts[u].groups)},
                  !.listed = Accounts[u].tokens \cap DOMAIN Entries,
                  !.found  = TokensOf(u),
                  !.last   = last]

\* GlobalSignOut and AdminUserGlobalSignOut.
GlobalSignOut(u) ==
  /\ u \in DOMAIN Accounts
  /\ Starts(SignOutWrites(u, {}), [Idle EXCEPT !.kills = IssuedTo(u)])
  /\ UNCHANGED <<owner, added, removed>>

\* Last the account is written again, disabled.
AdminDisableUser(u) ==
  /\ u \in DOMAIN Accounts
  /\ Starts(SignOutWrites(u, {PutUser(u, {}, Accounts[u].groups)}),
            [Idle EXCEPT !.kills = IssuedTo(u)])
  /\ UNCHANGED <<owner, added, removed>>

\* A deleted user is promised nothing but that it comes back without groups,
\* if not with those of the seed file.
Deletes(u, writes) ==
  /\ u \in DOMAIN Accounts
  /\ Starts(writes, [Idle EXCEPT !.kills = IssuedTo(u)])
  /\ added' = added \ PromisesTo(u)
  /\ removed' = removed \ (PromisesTo(u) \cap Seeded)
  /\ UNCHANGED owner

AdminDeleteUser(u) == Deletes(u, SignOutWrites(u, {Drop("users.json", u)}))

\* Mutant: the account goes first.
DeleteUserFirst(u) ==
  Deletes(u, [Nothing EXCEPT !.now = {Drop("users.json", u)}, !.found = TokensOf(u)])

DeleteUser(u) ==
  Deletes(u, [Nothing EXCEPT !.found = TokensOf(u), !.last = {Drop("users.json", u)}])

\* The users of the pool go, one after the other.  Their tokens stay, and so do
\* the groups that list them.
DeleteUserPool(pool) ==
  LET users == pool \cap DOMAIN Accounts
      promises == UNION {PromisesTo(u) : u \in users}
  IN  /\ Starts([Nothing EXCEPT !.pool = users],
                [Idle EXCEPT !.abandons = UNION {TokensOf(u) : u \in users}])
      /\ added' = added \ promises
      /\ removed' = removed \ (promises \cap Seeded)
      /\ UNCHANGED owner

\* getRefreshToken of a token that is too old: whatever the caller wanted, the
\* entry goes and no list is touched.
Expire(t) ==
  /\ t \in Usable
  /\ Starts([Nothing EXCEPT !.now = {Drop("refresh-tokens.json", t)}],
            [Idle EXCEPT !.kills = {t}, !.expires = {t}])
  /\ UNCHANGED <<owner, added, removed>>

\* The SDK revokes a usable token and takes it off its user's list.
RevokeToken(t) ==
  /\ t \in DOMAIN owner
  /\ LET u == Entries[t].userId
         forget == IF u \in DOMAIN Accounts
                     THEN {PutUser(u, Accounts[u].tokens \ {t}, Accounts[u].groups)} ELSE {}
     IN  Starts(IF t \in Usable
                  THEN [Nothing EXCEPT !.found = {t}, !.last = forget] ELSE Nothing,
                [Idle EXCEPT !.kills = {t}])
  /\ UNCHANGED <<owner, added, removed>>

\* The revocation endpoint of OIDC looks at nothing.
OidcRevoke(t) ==
  /\ t \in DOMAIN owner
  /\ Starts([Nothing EXCEPT !.found = {t} \cap DOMAIN Entries], [Idle EXCEPT !.kills = {t}])
  /\ UNCHANGED <<owner, added, removed>>

CreateGroup(g) ==
  /\ g \notin DOMAIN Groups
  /\ Starts([Nothing EXCEPT !.now = {PutGroup(g, {})}], Idle)
  /\ UNCHANGED <<owner, added, removed>>

\* The groups of the users stay as they are.
DeleteGroup(g) ==
  /\ g \in DOMAIN Groups
  /\ Starts([Nothing EXCEPT !.now = {Drop("groups.json", g)}], Idle)
  /\ added' = {pair \in added : pair[2] # g}
  /\ UNCHANGED <<owner, removed>>

\* Both handlers look at either copy and write the one that is to change.
MembershipWrites(u, g, members, groups) ==
  [Nothing EXCEPT
     !.now  = IF members = Groups[g] THEN {} ELSE {PutGroup(g, members)},
     !.last = IF groups = Accounts[u].groups THEN {}
              ELSE {PutUser(u, Accounts[u].tokens, groups)}]

\* Mutant: who is a member already needs no second write.
AdminAddUserToGroupOnce(u, g) ==
  /\ u \in DOMAIN Accounts
  /\ g \in DOMAIN Groups
  /\ Starts(IF u \in Groups[g] THEN Nothing
            ELSE MembershipWrites(u, g, Groups[g] \cup {u}, Accounts[u].groups \cup {g}),
            [Idle EXCEPT !.adds = {<<u, g>>}])
  /\ removed' = removed \ {<<u, g>>}
  /\ UNCHANGED <<owner, added>>

AdminAddUserToGroup(u, g) ==
  /\ u \in DOMAIN Accounts
  /\ g \in DOMAIN Groups
  /\ Starts(MembershipWrites(u, g, Groups[g] \cup {u}, Accounts[u].groups \cup {g}),
            [Idle EXCEPT !.adds = {<<u, g>>}])
  /\ removed' = removed \ {<<u, g>>}
  /\ UNCHANGED <<owner, added>>

\* Mutant: who is no member needs no removal.
AdminRemoveUserFromGroupOnce(u, g) ==
  /\ u \in DOMAIN Accounts
  /\ g \in DOMAIN Groups
  /\ Starts(IF u \notin Groups[g] THEN Nothing
            ELSE MembershipWrites(u, g, Groups[g] \ {u}, Accounts[u].groups \ {g}),
            [Idle EXCEPT !.removes = {<<u, g>>}])
  /\ added' = added \ {<<u, g>>}
  /\ UNCHANGED <<owner, removed>>

AdminRemoveUserFromGroup(u, g) ==
  /\ u \in DOMAIN Accounts
  /\ g \in DOMAIN Groups
  /\ Starts(MembershipWrites(u, g, Groups[g] \ {u}, Accounts[u].groups \ {g}),
            [Idle EXCEPT !.removes = {<<u, g>>}])
  /\ added' = added \ {<<u, g>>}
  /\ UNCHANGED <<owner, removed>>

-----------------------------------------------------------------------------
(* Answering, dying.                                                        *)

\* Mutant: the answer does not wait for the last write.
AnswerEarly ==
  /\ call.running
  /\ todo.now = {}
  /\ answered' = answered \cup call.issues
  /\ dead' = dead \cup call.kills
  /\ added' = added \cup call.adds
  /\ removed' = removed \cup call.removes
  /\ call' = Idle
  /\ UNCHANGED <<mem, disk, todo, owner, threatened, expired, abandoned, lost>>

Answer ==
  /\ call.running
  /\ todo = Nothing
  /\ answered' = answered \cup call.issues
  /\ dead' = dead \cup call.kills
  /\ added' = added \cup call.adds
  /\ removed' = removed \cup call.removes
  /\ call' = Idle
  /\ UNCHANGED <<mem, disk, todo, owner, threatened, expired, abandoned, lost>>

\* load, and the seed users that are not there.
Loaded(files) ==
  [files EXCEPT !["users.json"] =
     [u \in DOMAIN @ \cup DOMAIN Seeds |->
        IF u \in DOMAIN @ THEN @[u] ELSE [tokens |-> {}, groups |-> Seeds[u]]]]

Restarts(files) ==
  /\ mem' = Loaded(files)
  /\ disk' = Loaded(files)
  /\ todo' = Nothing
  /\ call' = Idle
  /\ UNCHANGED <<owner, threatened, expired, abandoned, dead>>

\* Between two writes, or between two calls.
Crash ==
  /\ Restarts(disk)
  /\ UNCHANGED <<answered, added, removed, lost>>

\* In the middle of a write.  What the file held is promised no more; without
\* the users, the seed file gives its memberships anew.
CrashTearing ==
  \E s \in Steps :
    LET file == s.write.file
    IN  /\ file \in Torn
        /\ Restarts([disk EXCEPT ![file] = Empty])
        /\ lost' = lost \cup {file}
        /\ answered' = IF file = "refresh-tokens.json" THEN {} ELSE answered
        /\ added' = IF file \in {"users.json", "groups.json"} THEN {} ELSE added
        /\ removed' = IF file = "users.json" THEN removed \ Seeded ELSE removed

Init ==
  /\ mem = Loaded([file \in Files |-> Empty])
  /\ disk = Loaded([file \in Files |-> Empty])
  /\ todo = Nothing
  /\ call = Idle
  /\ owner = Empty
  /\ answered = {}
  /\ threatened = {}
  /\ expired = {}
  /\ abandoned = {}
  /\ dead = {}
  /\ added = {}
  /\ removed = {}
  /\ lost = {}

Next ==
  \/ \E u \in Users : CreateUser(u)
  \/ \E u \in Users, t \in Tokens : SignIn(u, t) \/ OidcSignIn(u, t)
  \/ \E u \in Users :
       GlobalSignOut(u) \/ AdminDisableUser(u) \/ AdminDeleteUser(u) \/ DeleteUser(u)
  \/ \E pool \in UserPools : DeleteUserPool(pool)
  \/ \E t \in Tokens : Expire(t) \/ RevokeToken(t) \/ OidcRevoke(t)
  \/ \E g \in GroupNames : CreateGroup(g) \/ DeleteGroup(g)
  \/ \E u \in Users, g \in GroupNames :
       AdminAddUserToGroup(u, g) \/ AdminRemoveUserFromGroup(u, g)
  \/ Write
  \/ Answer
  \/ Crash
  \/ CrashTearing

Spec == Init /\ [][Next]_vars

-----------------------------------------------------------------------------
(* Properties.                                                              *)

\* Once a revocation, a sign-out, a disabling or a deletion was answered, its
\* tokens stay dead through every crash, also one that had left a token out of
\* its user's list and also one that tears a file; so does a token that a client
\* was told has expired.
DeadTokensStayDead == dead \cap Usable = {}

\* A token whose client received it is usable, after every crash that leaves the
\* file of the tokens whole, until a call is started against it or finds it
\* expired.
AnsweredTokensSurvive == answered \ threatened \subseteq Usable

\* As long as users.json is whole, only the deletion of a pool leaves usable
\* tokens without an account.  At every point of the deletion of a user the
\* tokens are dead before the name is free, even where the user's list was cut
\* short, and tokens issued to who takes the name of a user of a deleted pool
\* keep to the rule again.
NoOrphanTokens ==
  "users.json" \notin lost =>
    \A t \in Usable : Entries[t].userId \in DOMAIN Accounts \/ t \in abandoned

\* As long as the tokens are whole a user's list names only tokens there are,
\* and tokens that went because they had expired.
ListsNameTokens ==
  "refresh-tokens.json" \notin lost =>
    \A u \in DOMAIN Accounts : Accounts[u].tokens \subseteq DOMAIN Entries \cup expired

\* What is recorded as revoked is never usable, wherever the process died.
HistoryOfTheDead == RevokedTokens \cap Usable = {}

\* A token that a call was started against never comes back to life, also where
\* that call, or one after it, died half-way: what others have seen of it by then
\* is in the files.
NoRevival == [][threatened \cap Usable' \subseteq Usable]_vars

\* Once an addition was answered the user is listed and carries the claim,
\* until that user, that group or that membership is removed, a registration
\* overwrites the account or one of the two files is torn: also when an earlier
\* attempt died half-way, or the group was deleted and made again while the user
\* still carried it.
AddedAreIn == \A pair \in added : Listed(pair[1], pair[2]) /\ Carried(pair[1], pair[2])

\* Once a removal was answered the user is neither listed nor carries the
\* claim, whatever group, account or attempt comes after, until the user is
\* added again or comes back from the seed file.
RemovedAreOut == \A pair \in removed : ~Listed(pair[1], pair[2]) /\ ~Carried(pair[1], pair[2])
=============================================================================
