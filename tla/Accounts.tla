------------------------------ MODULE Accounts ------------------------------
(***************************************************************************)
(* Registration, confirmation, password reset and aliases in one pool: who *)
(* an e-mail address or username stands for, and which codes an account    *)
(* honours.                                                                *)
(*                                                                         *)
(* Two handlers await a trigger between their checks and createUser:       *)
(* SignUp (preSignUp) and the migration of InitiateAuth (userMigration).   *)
(* postConfirmation changes nothing and is left out, as are passwords,     *)
(* `enabled' and the attributes but `email': the `sub' of an account is    *)
(* its username where the server draws the usernames, and elsewhere nobody *)
(* here reads it.                                                          *)
(***************************************************************************)
EXTENDS DataStore

CONSTANTS
  Usernames,        \* the names callers and triggers choose
  Subs,             \* the UUIDs the server draws
  Emails,           \* e-mail addresses, in lower case
  Codes,            \* confirmation codes: two draws never give the same one
  Calls,            \* calls that may wait for a trigger at once
  Twin,             \* toLowerCase on usernames: name -> its lower-case form, which
                    \* may be one of the UUIDs
  Configurations    \* what the configuration may make of the pool

None == "none"

Keys == Usernames \cup Subs

\* What a caller may give as Username.
Handles == Keys \cup Emails

\* usernameAttributes contains "email", usernameCaseSensitive, the triggers,
\* whether userMigration may answer a `sub' of its own, and the seed file as far
\* as it is used: username -> email.
Configuration ==
  [emailUsernames : BOOLEAN, caseSensitive : BOOLEAN,
   triggers : SUBSET {"preSignUp", "userMigration"}, namesSubs : BOOLEAN,
   seeds : UNION {[names -> Emails] : names \in SUBSET Usernames}]

ASSUME AccountsAssumption ==
  /\ Configurations \subseteq Configuration
  /\ Usernames \cap Subs = {}
  /\ Keys \cap Emails = {}
  /\ None \notin Handles \cup Codes
  /\ Twin \in [Usernames -> Keys]

Statuses == {"UNCONFIRMED", "CONFIRMED", "FORCE_CHANGE_PASSWORD", "RESET_REQUIRED"}

\* `named': its username is the `sub' that a migration trigger answered.  `made'
\* tells an account from the one that it was written over (history).
Account ==
  [email : Handles \cup {None}, status : Statuses, code : Codes \cup {None},
   named : BOOLEAN, made : {0, 1}]

\* What a waiting call read and drew before its trigger was called.
SignUpCall == [kind : {"SignUp"}, key : Keys, email : Emails \cup {None}]
MigrationCall == [kind : {"Migration"}, handle : Handles]

VARIABLES
  pool,           \* its configuration, which no handler changes
  users,          \* users.json: internal username -> account
  older,          \* <<u, v>>: the Map `users' iterates over u before v
  calls,          \* handlers waiting for preSignUp or userMigration
  spent           \* codes that were accepted (history)

vars == <<pool, users, older, calls, spent>>

\* Insertion order: each account once, and among any of them one that is first.
IsOrderOf(keys, before) ==
  /\ before \subseteq keys \X keys
  /\ \A u, v \in keys : <<u, v>> \in before => <<v, u>> \notin before
  /\ \A u, v, w \in keys : <<u, v>> \in before /\ <<v, w>> \in before => <<u, w>> \in before
  /\ \A some \in SUBSET keys :
       some # {} => \E u \in some : \A v \in some \ {u} : <<u, v>> \in before

TypeOK ==
  /\ pool \in Configuration
  /\ DOMAIN users \subseteq Keys
  /\ users \in [DOMAIN users -> Account]
  /\ IsOrderOf(DOMAIN users, older)
  /\ DOMAIN calls \subseteq Calls
  /\ calls \in [DOMAIN calls -> SignUpCall \cup MigrationCall]
  /\ spent \subseteq Codes

EmailUsernames == pool.emailUsernames
CaseSensitive == pool.caseSensitive
Triggers == pool.triggers
Seeds == pool.seeds

-----------------------------------------------------------------------------
(* Finding a user.                                                          *)

\* Mutant: a later account hides an earlier one, as in an index by e-mail.
LatestOf(found) == {u \in found : \A v \in found \ {u} : <<v, u>> \in older}

\* Array.find over the values of the Map: the oldest, if any.
OldestOf(found) == {u \in found : \A v \in found \ {u} : <<u, v>> \in older}

WithEmail(e) == {u \in DOMAIN users : users[u].email = e}

LowerCase(k) == IF k \in Usernames THEN Twin[k] ELSE k

\* Mutant: no look at the spelling in lower case.
GetUserExactly(k) == {k} \cap (DOMAIN users)

GetUser(k) ==
  IF k \in DOMAIN users \/ CaseSensitive
    THEN {k} \cap (DOMAIN users)
    ELSE OldestOf({u \in DOMAIN users : LowerCase(u) = LowerCase(k)})

GetUserByUsername(h) ==
  IF EmailUsernames /\ h \in Emails /\ WithEmail(h) # {}
    THEN OldestOf(WithEmail(h))
    ELSE GetUser(h)

-----------------------------------------------------------------------------
(* Changing a user.                                                         *)

Without(u) == {pair \in older : pair[1] # u /\ pair[2] # u}

\* Mutant: every update appends the key.
UpdateUserAppending(u, account) ==
  /\ users' = Set(users, u, account)
  /\ older' = older \cup ((DOMAIN users) \X {u})

\* updateUser keeps the key's place in the Map.
UpdateUser(u, account) ==
  /\ users' = Set(users, u, account)
  /\ UNCHANGED older

Made(accounts, k) == IF k \in DOMAIN accounts THEN 1 - accounts[k].made ELSE 0

NewAccount(k, e, status, c) ==
  [email |-> e, status |-> status, code |-> c, named |-> FALSE, made |-> Made(users, k)]

\* createUser: a key that is present is overwritten, and keeps its place.
CreateUser(k, account) ==
  /\ users' = Set(users, k, account)
  /\ older' = IF k \in DOMAIN users THEN older ELSE older \cup ((DOMAIN users) \X {k})

LiveCodes == {users[u].code : u \in DOMAIN users}

FreshCodes == Codes \ (spent \cup LiveCodes)

\* uuidv4: neither an account nor a waiting call has it, in any spelling.
FreshSubs ==
  Subs \ ({LowerCase(u) : u \in DOMAIN users}
          \cup {calls[r].key : r \in {x \in DOMAIN calls : calls[x].kind = "SignUp"}})

InternalUsername(name, sub) == IF EmailUsernames THEN sub ELSE name

-----------------------------------------------------------------------------
(* Registration.                                                            *)

MayRegister(k, e) ==
  /\ e = None \/ WithEmail(e) = {}
  /\ GetUser(k) = {}

\* In a pool of e-mail usernames the address is required.
EmailGiven == IF EmailUsernames THEN Emails ELSE Emails \cup {None}

SignUpCreates(k, e, autoConfirm) ==
  \/ /\ autoConfirm
     /\ CreateUser(k, NewAccount(k, e, "CONFIRMED", None))
  \/ /\ ~autoConfirm
     /\ \E c \in FreshCodes : CreateUser(k, NewAccount(k, e, "UNCONFIRMED", c))

SignUp(name, e, sub) ==
  /\ MayRegister(InternalUsername(name, sub), e)
  /\ "preSignUp" \notin Triggers
  /\ SignUpCreates(InternalUsername(name, sub), e, FALSE)
  /\ UNCHANGED <<calls, spent>>

SignUpCallsTrigger(r, name, e, sub) ==
  /\ MayRegister(InternalUsername(name, sub), e)
  /\ "preSignUp" \in Triggers
  /\ r \notin DOMAIN calls
  /\ calls' = Set(calls, r, [kind |-> "SignUp", key |-> InternalUsername(name, sub), email |-> e])
  /\ UNCHANGED <<users, older, spent>>

\* The checks are not repeated.
PreSignUpReplies(r, autoConfirm) ==
  /\ r \in DOMAIN calls
  /\ calls[r].kind = "SignUp"
  /\ SignUpCreates(calls[r].key, calls[r].email, autoConfirm)
  /\ calls' = Delete(calls, r)
  /\ UNCHANGED spent

TriggerFails(r) ==
  /\ r \in DOMAIN calls
  /\ calls' = Delete(calls, r)
  /\ UNCHANGED <<users, older, spent>>

AdminCreateUser(name, e, sub) ==
  LET k == InternalUsername(name, sub)
  IN  /\ MayRegister(k, e)
      /\ CreateUser(k, NewAccount(k, e, "FORCE_CHANGE_PASSWORD", None))
      /\ UNCHANGED <<calls, spent>>

\* Where addresses are no aliases, one that is given is a name like any other.
HandlesGiven == IF EmailUsernames THEN Handles ELSE Keys

\* InitiateAuth for a name nobody has.
SignInUnknown(r, h) ==
  /\ "userMigration" \in Triggers
  /\ GetUserByUsername(h) = {}
  /\ r \notin DOMAIN calls
  /\ calls' = Set(calls, r, [kind |-> "Migration", handle |-> h])
  /\ UNCHANGED <<users, older, spent>>

MigratedAccount(k, e, status) ==
  [NewAccount(k, e, status, None) EXCEPT !.named = EmailUsernames /\ pool.namesSubs]

\* The trigger returns attributes: with its own e-mail address or without, in
\* which case the name that was asked for is the address too; and with its own
\* `sub', in any spelling and taken or not, or without, and then one is drawn.
\* Nothing is checked any more.
UserMigrationReplies(r, e, sub, status) ==
  LET k == InternalUsername(calls[r].handle, sub)
  IN  /\ r \in DOMAIN calls
      /\ calls[r].kind = "Migration"
      /\ e \in Emails \cup {LowerCase(calls[r].handle)}
      /\ sub \in FreshSubs \/ pool.namesSubs
      /\ status \in {"CONFIRMED", "RESET_REQUIRED"}
      /\ CreateUser(k, MigratedAccount(k, e, status))
      /\ calls' = Delete(calls, r)
      /\ UNCHANGED spent

-----------------------------------------------------------------------------
(* Confirmation and password reset.                                         *)

Honours(u, c) == c # None /\ users[u].code = c

\* Mutant: the code stays with the account.
ConfirmForgotPasswordKeepingCode(h, c) ==
  \E u \in GetUserByUsername(h) :
    /\ Honours(u, c)
    /\ UpdateUser(u, [users[u] EXCEPT !.status = "CONFIRMED"])
    /\ spent' = spent \cup {c}
    /\ UNCHANGED calls

\* The two calls accept the same code, whatever it was sent for and whatever
\* the status is.
AcceptCode(h, c) ==
  \E u \in GetUserByUsername(h) :
    /\ Honours(u, c)
    /\ UpdateUser(u, [users[u] EXCEPT !.status = "CONFIRMED", !.code = None])
    /\ spent' = spent \cup {c}
    /\ UNCHANGED calls

ConfirmSignUp(h, c) == AcceptCode(h, c)

ConfirmForgotPassword(h, c) == AcceptCode(h, c)

ResendConfirmationCode(h) ==
  \E u \in GetUserByUsername(h), c \in FreshCodes :
    /\ UpdateUser(u, [users[u] EXCEPT !.code = c])
    /\ UNCHANGED <<calls, spent>>

\* Whatever the status was.
ForgotPassword(h) ==
  \E u \in GetUserByUsername(h), c \in FreshCodes :
    /\ UpdateUser(u, [users[u] EXCEPT !.status = "RESET_REQUIRED", !.code = c])
    /\ UNCHANGED <<calls, spent>>

AdminResetUserPassword(h) ==
  \E u \in GetUserByUsername(h), c \in FreshCodes :
    /\ UpdateUser(u, [users[u] EXCEPT !.status = "RESET_REQUIRED", !.code = c])
    /\ UNCHANGED <<calls, spent>>

AdminConfirmSignUp(h) ==
  \E u \in GetUserByUsername(h) :
    /\ UpdateUser(u, [users[u] EXCEPT !.status = "CONFIRMED", !.code = None])
    /\ UNCHANGED <<calls, spent>>

AdminSetUserPassword(h, permanent) ==
  \E u \in GetUserByUsername(h) :
    /\ UpdateUser(u, [users[u] EXCEPT
                        !.status = IF permanent THEN "CONFIRMED" ELSE "FORCE_CHANGE_PASSWORD"])
    /\ UNCHANGED <<calls, spent>>

-----------------------------------------------------------------------------
(* Attributes, deletion, restart.                                           *)

\* (Admin)UpdateUserAttributes with a new address, which nobody checks.
UpdateEmail(u, e) ==
  /\ u \in DOMAIN users
  /\ UpdateUser(u, [users[u] EXCEPT !.email = e])
  /\ UNCHANGED <<calls, spent>>

DeleteUser(u) ==
  /\ u \in DOMAIN users
  /\ users' = Delete(users, u)
  /\ older' = Without(u)
  /\ UNCHANGED <<calls, spent>>

\* Mutant: the seed file is written over the accounts.
SeededOver(accounts) ==
  [u \in DOMAIN accounts \cup DOMAIN Seeds |->
     IF u \in DOMAIN Seeds
       THEN [email |-> Seeds[u], status |-> "CONFIRMED", code |-> None, named |-> FALSE,
             made |-> Made(accounts, u)]
       ELSE accounts[u]]

\* initFromConfig adds the seed users whose very key is absent.
Seeded(accounts) ==
  [u \in DOMAIN accounts \cup DOMAIN Seeds |->
     IF u \in DOMAIN accounts
       THEN accounts[u]
       ELSE [email |-> Seeds[u], status |-> "CONFIRMED", code |-> None, named |-> FALSE,
             made |-> 0]]

\* The seed users that are added come last, in the order of the seed file.
SeededOrder(accounts, before) ==
  LET added == DOMAIN Seeds \ DOMAIN accounts
  IN  {before \cup ((DOMAIN accounts) \X added) \cup file :
         file \in {pairs \in SUBSET (added \X added) : IsOrderOf(added, pairs)}}

Init ==
  /\ pool \in Configurations
  /\ users = Seeded(Empty)
  /\ older \in SeededOrder(Empty, {})
  /\ calls = Empty
  /\ spent = {}

Restart ==
  /\ users' = Seeded(users)
  /\ older' \in SeededOrder(users, older)
  /\ calls' = Empty
  /\ UNCHANGED spent

\* The username is not used in a pool of e-mail usernames.
NamesGiven == IF EmailUsernames THEN {None} ELSE Usernames

Register ==
  \/ \E sub \in FreshSubs, name \in NamesGiven, e \in EmailGiven :
       \/ SignUp(name, e, sub)
       \/ AdminCreateUser(name, e, sub)
       \/ \E r \in Calls : SignUpCallsTrigger(r, name, e, sub)
  \/ \E r \in Calls, e \in Handles, sub \in Keys, status \in Statuses :
       UserMigrationReplies(r, e, sub, status)

Confirm ==
  \E h \in Handles :
    \/ \E c \in Codes : ConfirmSignUp(h, c) \/ ConfirmForgotPassword(h, c)
    \/ ResendConfirmationCode(h)
    \/ ForgotPassword(h)
    \/ AdminResetUserPassword(h)
    \/ AdminConfirmSignUp(h)
    \/ \E permanent \in BOOLEAN : AdminSetUserPassword(h, permanent)

Next ==
  /\ \/ Register
     \/ \E r \in Calls, autoConfirm \in BOOLEAN : PreSignUpReplies(r, autoConfirm)
     \/ \E r \in Calls : TriggerFails(r)
     \/ \E r \in Calls, h \in HandlesGiven : SignInUnknown(r, h)
     \/ Confirm
     \/ \E u \in Keys, e \in Emails : UpdateEmail(u, e)
     \/ \E u \in Keys : DeleteUser(u)
     \/ Restart
  /\ UNCHANGED pool

Spec == Init /\ [][Next]_vars

-----------------------------------------------------------------------------
(* Properties.                                                              *)

\* A code that was accepted once is honoured by no account again, though one
\* field serves registration, its repetition and two kinds of reset.
SpentCodesDead == \A u \in DOMAIN users : users[u].code \notin spent

\* In a pool of e-mail usernames an address stands for one account until that
\* account is deleted or given another address, or an older account is given
\* this one: no registration, migration, reset or restart takes it over, even
\* where several accounts have the address.
AliasKept ==
  [][\A e \in Emails : \A u \in GetUserByUsername(e) :
       \/ u \notin DOMAIN users'
       \/ users'[u].email # e
       \/ u \in GetUserByUsername(e)'
       \/ \E v \in GetUserByUsername(e)' : v \in DOMAIN users /\ users[v].email # e]_vars

\* Where letter case does not matter, no account has a username that differs in
\* it alone from that of an older one, but for a seed user: a start looks for
\* its very name, and so may put it beside an account in another spelling; and
\* but for a name that a migration trigger chose.
NoTwins ==
  ~CaseSensitive /\ (Triggers = {} \/ EmailUsernames) =>
    \A u, v \in DOMAIN users :
      <<v, u>> \in older /\ LowerCase(u) = LowerCase(v)
      => u \in DOMAIN Seeds \/ users[u].named \/ users[v].named

Replaced(u) ==
  /\ u \in DOMAIN users
  /\ u \in DOMAIN users'
  /\ users'[u].made # users[u].made

\* An account stays the same until it is deleted: no registration, seed file or
\* migration is written over it, whatever triggers the pool has.
AccountsKept == [][\A u \in DOMAIN users : ~Replaced(u)]_vars

\* Where no handler waits, or where the server draws the usernames, an account is
\* only written over under a username that a migration trigger chose: by that
\* migration, or by a sign-up that had drawn the same name before.
AccountsNotReplaced ==
  [][Triggers = {} \/ EmailUsernames =>
       \A u \in DOMAIN users : Replaced(u) => users[u].named \/ users'[u].named]_vars
=============================================================================
