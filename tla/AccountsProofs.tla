--------------------------- MODULE AccountsProofs ---------------------------
(***************************************************************************)
(* Theorems about Accounts: codes are spent once, accounts are not         *)
(* replaced, names stay apart and an address is not handed over, for any   *)
(* names, addresses, waiting calls and configuration of the pool.          *)
(***************************************************************************)
EXTENDS Accounts, TLAPS

USE AccountsAssumption

\* A code is with one account.
CodesNotShared ==
  \A u, v \in DOMAIN users : users[u].code = users[v].code => u = v \/ users[u].code = None

SignUps == {r \in DOMAIN calls : calls[r].kind = "SignUp"}

\* A name the server drew, which no account has in any spelling, but for those
\* whose name a migration trigger chose.
Drawn(k) == k \in Subs /\ \A v \in DOMAIN users : LowerCase(v) = k => users[v].named

\* Where the server draws the usernames, two waiting sign-ups have two names.
NamesReserved ==
  EmailUsernames =>
    \A r \in SignUps :
      /\ Drawn(calls[r].key)
      /\ \A q \in SignUps : calls[q].key = calls[r].key => q = r

\* Elsewhere a migration that waits was asked for a username.
NamesAsked ==
  ~EmailUsernames =>
    \A r \in DOMAIN calls : calls[r].kind = "Migration" => calls[r].handle \in Keys

NobodyWaits == Triggers = {} => DOMAIN calls = {}

CodesInv == SpentCodesDead /\ CodesNotShared

NamesInv == NamesReserved /\ NamesAsked /\ NobodyWaits

Inv == TypeOK /\ CodesInv /\ NamesInv /\ NoTwins

-----------------------------------------------------------------------------
(* What a step does to the accounts and their order.                       *)

\* The account stays the one it is; its code stays, goes or is a new one.
Updates(u, a) ==
  /\ u \in DOMAIN users
  /\ a \in Account
  /\ a.named = users[u].named /\ a.made = users[u].made
  /\ UpdateUser(u, a)
  /\ \/ a.code \in FreshCodes \cup {None, users[u].code} /\ UNCHANGED spent
     \/ a.code = None /\ users[u].code \in Codes /\ spent' = spent \cup {users[u].code}

Registers(k, a) ==
  /\ k \in Keys
  /\ a \in Account
  /\ EmailUsernames => a.named \/ Drawn(k)
  /\ Triggers = {} => GetUser(k) = {}
  /\ a.code \in FreshCodes \cup {None}
  /\ CreateUser(k, a)
  /\ UNCHANGED spent

Removes(u) ==
  /\ u \in DOMAIN users
  /\ users' = Delete(users, u)
  /\ older' = Without(u)
  /\ UNCHANGED spent

Restarts ==
  /\ users' = Seeded(users)
  /\ older' \in SeededOrder(users, older)
  /\ UNCHANGED spent

AccountsStep ==
  /\ \/ \E u, a : Updates(u, a)
     \/ \E k, a : Registers(k, a)
     \/ \E u : Removes(u)
     \/ Restarts
     \/ UNCHANGED <<users, older, spent>>
  /\ UNCHANGED pool

-----------------------------------------------------------------------------
(* Types, stores and orders.                                                *)

LEMMA PoolFields ==
  ASSUME pool \in Configuration
  PROVE  /\ EmailUsernames \in BOOLEAN /\ CaseSensitive \in BOOLEAN
         /\ DOMAIN Seeds \subseteq Usernames
         /\ \A u \in DOMAIN Seeds : Seeds[u] \in Emails
<1>1. Seeds \in UNION {[names -> Emails] : names \in SUBSET Usernames}
  BY DEF Configuration, Seeds
<1>2. PICK names \in SUBSET Usernames : Seeds \in [names -> Emails]
  BY <1>1
<1> QED
  BY <1>2 DEF Configuration, EmailUsernames, CaseSensitive

\* The pool stays, and what is asked of it.
LEMMA PoolKept ==
  ASSUME UNCHANGED pool
  PROVE  /\ EmailUsernames' = EmailUsernames /\ CaseSensitive' = CaseSensitive
         /\ Triggers' = Triggers /\ Seeds' = Seeds
BY DEF EmailUsernames, CaseSensitive, Triggers, Seeds

LEMMA AccountFields ==
  ASSUME TypeOK, NEW u \in DOMAIN users
  PROVE  /\ users[u] \in Account
         /\ users[u].email \in Handles \cup {None}
         /\ users[u].status \in Statuses
         /\ users[u].code \in Codes \cup {None}
         /\ users[u].named \in BOOLEAN
         /\ users[u].made \in {0, 1}
BY DEF TypeOK, Account

LEMMA CallFields ==
  ASSUME TypeOK, NEW r \in SignUps
  PROVE  calls[r].key \in Keys /\ calls[r].email \in Emails \cup {None}
BY DEF TypeOK, SignUps, SignUpCall, MigrationCall

LEMMA SetStore ==
  ASSUME NEW store, NEW k, NEW v
  PROVE  /\ DOMAIN Set(store, k, v) = DOMAIN store \cup {k}
         /\ Set(store, k, v)[k] = v
         /\ \A x \in DOMAIN store \ {k} : Set(store, k, v)[x] = store[x]
BY DEF Set

LEMMA DeleteStore ==
  ASSUME NEW store, NEW k
  PROVE  /\ DOMAIN Delete(store, k) = DOMAIN store \ {k}
         /\ \A x \in DOMAIN store \ {k} : Delete(store, k)[x] = store[x]
BY DEF Delete, Restrict

LEMMA SetTyped ==
  ASSUME NEW store, NEW k, NEW T, NEW v \in T, store \in [DOMAIN store -> T]
  PROVE  Set(store, k, v) \in [DOMAIN Set(store, k, v) -> T]
BY DEF Set

LEMMA DeleteTyped ==
  ASSUME NEW store, NEW k, NEW T, store \in [DOMAIN store -> T]
  PROVE  Delete(store, k) \in [DOMAIN Delete(store, k) -> T]
BY DEF Delete, Restrict

LEMMA FirstOfSome ==
  ASSUME NEW keys, NEW before, IsOrderOf(keys, before), NEW some \in SUBSET keys, some # {}
  PROVE  \E u \in some : \A v \in some \ {u} : <<u, v>> \in before
BY DEF IsOrderOf

\* Keys that are put after all the others, in an order of their own.
LEMMA OrderJoined ==
  ASSUME NEW A, NEW B, NEW r, NEW s, A \cap B = {}, IsOrderOf(A, r), IsOrderOf(B, s)
  PROVE  IsOrderOf(A \cup B, r \cup (A \X B) \cup s)
<1> DEFINE joined == r \cup (A \X B) \cup s
<1>1. r \subseteq A \X A /\ s \subseteq B \X B
  BY DEF IsOrderOf
<1>2. \A u, v \in A \cup B :
        <<u, v>> \in joined <=>
          \/ u \in A /\ v \in A /\ <<u, v>> \in r
          \/ u \in A /\ v \in B
          \/ u \in B /\ v \in B /\ <<u, v>> \in s
  BY <1>1
<1>3. joined \subseteq (A \cup B) \X (A \cup B)
  BY <1>1
<1> HIDE DEF joined
<1>4. \A u, v \in A \cup B : <<u, v>> \in joined => <<v, u>> \notin joined
  BY <1>2 DEF IsOrderOf
<1>5. \A u, v, w \in A \cup B :
        <<u, v>> \in joined /\ <<v, w>> \in joined => <<u, w>> \in joined
  BY <1>2 DEF IsOrderOf
<1>6. ASSUME NEW some \in SUBSET (A \cup B), some # {}
      PROVE  \E u \in some : \A v \in some \ {u} : <<u, v>> \in joined
  <2>1. CASE some \cap A # {}
    <3>1. PICK ours \in SUBSET A : ours = some \cap A
      OBVIOUS
    <3>2. PICK u \in ours : \A v \in ours \ {u} : <<u, v>> \in r
      BY <2>1, <3>1, FirstOfSome
    <3>3. \A v \in some \ {u} : <<u, v>> \in joined
      BY <1>2, <3>1, <3>2
    <3> QED
      BY <3>1, <3>2, <3>3
  <2>2. CASE some \cap A = {}
    <3>1. some \in SUBSET B
      BY <2>2
    <3>2. PICK u \in some : \A v \in some \ {u} : <<u, v>> \in s
      BY <1>6, <3>1, FirstOfSome
    <3>3. \A v \in some \ {u} : <<u, v>> \in joined
      BY <1>2, <3>1, <3>2
    <3> QED
      BY <3>2, <3>3
  <2> QED
    BY <2>1, <2>2
<1> QED
  BY <1>3, <1>4, <1>5, <1>6 DEF IsOrderOf, joined

LEMMA OrderOfOne ==
  ASSUME NEW k
  PROVE  IsOrderOf({k}, {}) /\ IsOrderOf({}, {})
<1>1. \A some \in SUBSET {k} : some # {} => \E u \in some : \A v \in some \ {u} : <<u, v>> \in {}
  OBVIOUS
<1> QED
  BY <1>1 DEF IsOrderOf

LEMMA OrderWithout ==
  ASSUME NEW A, NEW u, IsOrderOf(A, older)
  PROVE  IsOrderOf(A \ {u}, Without(u))
<1>1. \A v, w \in A \ {u} : <<v, w>> \in Without(u) <=> <<v, w>> \in older
  BY DEF Without
<1>2. Without(u) \subseteq (A \ {u}) \X (A \ {u})
  BY DEF Without, IsOrderOf
<1>3. \A some \in SUBSET (A \ {u}) :
        some # {} => \E v \in some : \A w \in some \ {v} : <<v, w>> \in Without(u)
  <2> SUFFICES ASSUME NEW some \in SUBSET (A \ {u}), some # {}
               PROVE  \E v \in some : \A w \in some \ {v} : <<v, w>> \in Without(u)
    OBVIOUS
  <2>1. PICK v \in some : \A w \in some \ {v} : <<v, w>> \in older
    BY DEF IsOrderOf
  <2> QED
    BY <1>1, <2>1
<1> QED
  BY <1>1, <1>2, <1>3 DEF IsOrderOf

\* Array.find finds an account if there is one, and never a later one.
LEMMA OldestFound ==
  ASSUME TypeOK, NEW found \in SUBSET DOMAIN users
  PROVE  /\ OldestOf(found) \subseteq found
         /\ found # {} => OldestOf(found) # {}
<1>1. OldestOf(found) \subseteq found
  BY DEF OldestOf
<1>2. found # {} => \E u \in found : \A v \in found \ {u} : <<u, v>> \in older
  BY DEF TypeOK, IsOrderOf
<1> QED
  BY <1>1, <1>2 DEF OldestOf

LEMMA FoundAreUsers == \A h : GetUserByUsername(h) \subseteq DOMAIN users
BY DEF GetUserByUsername, GetUser, OldestOf, WithEmail

-----------------------------------------------------------------------------
(* Which step each action is.                                               *)

LEMMA FreshSubsKnown ==
  ASSUME NEW sub \in FreshSubs
  PROVE  sub \in Subs /\ Drawn(sub) /\ \A r \in SignUps : calls[r].key # sub
<1>1. sub \in Subs
  BY DEF FreshSubs
<1>2. \A v \in DOMAIN users : LowerCase(v) # sub
  BY DEF FreshSubs
<1>3. \A r \in SignUps : calls[r].key # sub
  BY DEF FreshSubs, SignUps
<1> QED
  BY <1>1, <1>2, <1>3 DEF Drawn

\* The name a registration asked for or drew, and the one it may use.
LEMMA InternalUsernames ==
  ASSUME NEW name, NEW sub \in FreshSubs, ~EmailUsernames => name \in Keys
  PROVE  /\ InternalUsername(name, sub) \in Keys
         /\ EmailUsernames => InternalUsername(name, sub) = sub /\ Drawn(sub)
BY FreshSubsKnown DEF InternalUsername, Keys

LEMMA NewAccounts ==
  ASSUME TypeOK, NEW k, NEW e \in Handles \cup {None}, NEW status \in Statuses,
         NEW c \in Codes \cup {None}
  PROVE  /\ NewAccount(k, e, status, c) \in Account
         /\ NewAccount(k, e, status, c).code = c
<1>1. Made(users, k) \in {0, 1}
  <2>1. k \in DOMAIN users => users[k].made \in {0, 1}
    BY AccountFields
  <2> QED
    BY <2>1 DEF Made
<1> QED
  BY <1>1 DEF NewAccount, Account

LEMMA SignUpCreatesRegisters ==
  ASSUME TypeOK, NEW k \in Keys, NEW e \in Emails \cup {None},
         NEW autoConfirm, SignUpCreates(k, e, autoConfirm), UNCHANGED spent,
         EmailUsernames => Drawn(k),
         Triggers = {} => GetUser(k) = {}
  PROVE  \E a : Registers(k, a)
<1>0. /\ e \in Handles \cup {None} /\ None \notin Codes
      /\ {"CONFIRMED", "UNCONFIRMED"} \subseteq Statuses
  BY DEF Handles, Statuses
<1>1. CASE autoConfirm
  <2>1. PICK a : a = NewAccount(k, e, "CONFIRMED", None)
    OBVIOUS
  <2>2. CreateUser(k, a)
    BY <1>1, <2>1 DEF SignUpCreates
  <2>3. a \in Account /\ a.code = None
    BY <1>0, <2>1, NewAccounts
  <2>4. Registers(k, a)
    BY <2>2, <2>3 DEF Registers
  <2> QED
    BY <2>4
<1>2. CASE ~autoConfirm
  <2>1. PICK c \in FreshCodes : CreateUser(k, NewAccount(k, e, "UNCONFIRMED", c))
    BY <1>2 DEF SignUpCreates
  <2>2. PICK a : a = NewAccount(k, e, "UNCONFIRMED", c)
    OBVIOUS
  <2>3. c \in Codes
    BY DEF FreshCodes
  <2>4. a \in Account /\ a.code = c
    BY <1>0, <2>2, <2>3, NewAccounts
  <2>5. Registers(k, a)
    BY <2>1, <2>2, <2>4 DEF Registers
  <2> QED
    BY <2>5
<1> QED
  BY <1>1, <1>2

\* A name the registrations of Next give.
LEMMA NamesAreKeys == \A name \in NamesGiven : ~EmailUsernames => name \in Keys
BY DEF NamesGiven, Keys

LEMMA EmailsTyped == EmailGiven \subseteq Emails \cup {None}
BY DEF EmailGiven

LEMMA SignUpStep ==
  ASSUME Inv, NEW name \in NamesGiven, NEW e \in EmailGiven, NEW sub \in FreshSubs,
         SignUp(name, e, sub)
  PROVE  \E k, a : Registers(k, a)
<1> DEFINE k == InternalUsername(name, sub)
<1>1. k \in Keys /\ (EmailUsernames => Drawn(k))
  BY InternalUsernames, NamesAreKeys
<1>2. SignUpCreates(k, e, FALSE) /\ UNCHANGED spent /\ GetUser(k) = {}
  BY DEF SignUp, MayRegister
<1>3. e \in Emails \cup {None} /\ TypeOK
  BY EmailsTyped DEF Inv
<1> HIDE DEF k
<1>4. \E a : Registers(k, a)
  BY <1>1, <1>2, <1>3, SignUpCreatesRegisters
<1> QED
  BY <1>4

LEMMA AdminCreateUserStep ==
  ASSUME Inv, NEW name \in NamesGiven, NEW e \in EmailGiven, NEW sub \in FreshSubs,
         AdminCreateUser(name, e, sub)
  PROVE  \E k, a : Registers(k, a)
<1> DEFINE k == InternalUsername(name, sub)
<1>0. PICK a : a = NewAccount(k, e, "FORCE_CHANGE_PASSWORD", None)
  OBVIOUS
<1>1. k \in Keys /\ (EmailUsernames => Drawn(k))
  BY InternalUsernames, NamesAreKeys
<1>2. CreateUser(k, a) /\ UNCHANGED spent /\ GetUser(k) = {}
  BY <1>0 DEF AdminCreateUser, MayRegister
<1>3. a \in Account /\ a.code = None
  <2>1. e \in Handles \cup {None} /\ "FORCE_CHANGE_PASSWORD" \in Statuses /\ TypeOK
    BY EmailsTyped DEF Inv, Statuses, Handles
  <2> QED
    BY <1>0, <2>1, NewAccounts
<1> HIDE DEF k
<1>4. Registers(k, a)
  BY <1>1, <1>2, <1>3 DEF Registers
<1> QED
  BY <1>4

LEMMA PreSignUpRepliesStep ==
  ASSUME Inv, NEW r \in Calls, NEW autoConfirm \in BOOLEAN, PreSignUpReplies(r, autoConfirm)
  PROVE  \E k, a : Registers(k, a)
<1>1. r \in SignUps /\ SignUpCreates(calls[r].key, calls[r].email, autoConfirm)
        /\ UNCHANGED spent
  BY DEF PreSignUpReplies, SignUps
<1>2. calls[r].key \in Keys /\ calls[r].email \in Emails \cup {None}
  BY <1>1, CallFields DEF Inv
<1>3. EmailUsernames => Drawn(calls[r].key)
  BY <1>1 DEF Inv, NamesInv, NamesReserved
<1>4. Triggers # {}
  BY <1>1 DEF Inv, NamesInv, NobodyWaits, SignUps
<1>5. \E a : Registers(calls[r].key, a)
  BY <1>1, <1>2, <1>3, <1>4, SignUpCreatesRegisters DEF Inv
<1> QED
  BY <1>5

LEMMA MigratedAccounts ==
  ASSUME Inv, NEW k, NEW e \in Handles, NEW status \in Statuses
  PROVE  /\ MigratedAccount(k, e, status) \in Account
         /\ MigratedAccount(k, e, status).code = None
         /\ MigratedAccount(k, e, status).named = (EmailUsernames /\ pool.namesSubs)
<1>1. NewAccount(k, e, status, None) \in Account /\ NewAccount(k, e, status, None).code = None
  BY NewAccounts DEF Inv
<1>2. EmailUsernames \in BOOLEAN /\ pool.namesSubs \in BOOLEAN
  BY DEF Inv, TypeOK, Configuration, EmailUsernames
<1> QED
  BY <1>1, <1>2 DEF MigratedAccount, Account

LEMMA UserMigrationRepliesStep ==
  ASSUME Inv, NEW r \in Calls, NEW e \in Handles, NEW sub \in Keys, NEW status \in Statuses,
         UserMigrationReplies(r, e, sub, status)
  PROVE  \E k, a : Registers(k, a)
<1> DEFINE k == InternalUsername(calls[r].handle, sub)
<1>0. PICK a : a = MigratedAccount(k, e, status)
  OBVIOUS
<1>1. r \in DOMAIN calls /\ calls[r].kind = "Migration" /\ CreateUser(k, a) /\ UNCHANGED spent
  BY <1>0 DEF UserMigrationReplies
<1>2. ~EmailUsernames => calls[r].handle \in Keys
  BY <1>1 DEF Inv, TypeOK, NamesInv, NamesAsked
<1>4. Triggers # {}
  BY <1>1 DEF Inv, NamesInv, NobodyWaits
<1>5. a \in Account /\ a.code = None /\ a.named = (EmailUsernames /\ pool.namesSubs)
  BY <1>0, MigratedAccounts
<1>3. k \in Keys /\ (EmailUsernames => a.named \/ Drawn(k))
  <2>1. k \in Keys
    BY <1>2 DEF InternalUsername
  <2>2. CASE pool.namesSubs
    BY <1>5, <2>1, <2>2
  <2>3. CASE ~pool.namesSubs
    <3>1. sub \in FreshSubs
      BY <2>3 DEF UserMigrationReplies
    <3> QED
      BY <1>2, <2>1, <3>1, InternalUsernames
  <2> QED
    BY <2>2, <2>3
<1> HIDE DEF k
<1>6. Registers(k, a)
  BY <1>1, <1>3, <1>4, <1>5 DEF Registers
<1> QED
  BY <1>6

LEMMA RegisterStep ==
  ASSUME Inv, Register
  PROVE  (\E k, a : Registers(k, a)) \/ UNCHANGED <<users, older, spent>>
<1>1. ASSUME NEW sub \in FreshSubs, NEW name \in NamesGiven, NEW e \in EmailGiven, NEW r \in Calls,
             SignUpCallsTrigger(r, name, e, sub)
      PROVE  UNCHANGED <<users, older, spent>>
  BY <1>1 DEF SignUpCallsTrigger
<1> QED
  BY <1>1, SignUpStep, AdminCreateUserStep, UserMigrationRepliesStep DEF Register

\* The calls that change an account found by a handle.
LEMMA AcceptCodeStep ==
  ASSUME Inv, NEW h \in Handles, NEW c \in Codes, AcceptCode(h, c)
  PROVE  \E u, a : Updates(u, a)
<1>1. PICK u \in GetUserByUsername(h) :
        /\ Honours(u, c)
        /\ UpdateUser(u, [users[u] EXCEPT !.status = "CONFIRMED", !.code = None])
        /\ spent' = spent \cup {c}
  BY DEF AcceptCode
<1> DEFINE a == [users[u] EXCEPT !.status = "CONFIRMED", !.code = None]
<1>2. u \in DOMAIN users
  BY FoundAreUsers
<1>3. a \in Account /\ a.named = users[u].named /\ a.made = users[u].made /\ a.code = None
  BY <1>2, AccountFields DEF Inv, Account, Statuses
<1> HIDE DEF a
<1>4. Updates(u, a)
  BY <1>1, <1>2, <1>3 DEF Updates, Honours, a
<1> QED
  BY <1>4

LEMMA NewCodeStep ==
  ASSUME Inv, NEW h \in Handles,
         ResendConfirmationCode(h) \/ ForgotPassword(h) \/ AdminResetUserPassword(h)
  PROVE  \E u, a : Updates(u, a)
<1>1. PICK u \in GetUserByUsername(h), c \in FreshCodes, status \in Statuses :
        /\ UpdateUser(u, [users[u] EXCEPT !.status = status, !.code = c])
        /\ UNCHANGED spent
  <2>1. CASE ResendConfirmationCode(h)
    <3>1. PICK u \in GetUserByUsername(h), c \in FreshCodes :
            UpdateUser(u, [users[u] EXCEPT !.code = c]) /\ UNCHANGED spent
      BY <2>1 DEF ResendConfirmationCode
    <3>2. u \in DOMAIN users
      BY FoundAreUsers
    <3>3. users[u].status \in Statuses
      BY <3>2, AccountFields DEF Inv
    <3>4. [users[u] EXCEPT !.code = c] = [users[u] EXCEPT !.status = users[u].status, !.code = c]
      BY <3>2, AccountFields DEF Inv, Account
    <3> QED
      BY <3>1, <3>3, <3>4
  <2>2. CASE ForgotPassword(h) \/ AdminResetUserPassword(h)
    <3>1. "RESET_REQUIRED" \in Statuses
      BY DEF Statuses
    <3> QED
      BY <2>2, <3>1 DEF ForgotPassword, AdminResetUserPassword
  <2> QED
    BY <2>1, <2>2
<1> DEFINE a == [users[u] EXCEPT !.status = status, !.code = c]
<1>2. u \in DOMAIN users
  BY FoundAreUsers
<1>3. a \in Account /\ a.named = users[u].named /\ a.made = users[u].made /\ a.code = c
  BY <1>2, AccountFields DEF Inv, Account, FreshCodes
<1> HIDE DEF a
<1>4. Updates(u, a)
  BY <1>1, <1>2, <1>3 DEF Updates, a
<1> QED
  BY <1>4

LEMMA AdminSetsStep ==
  ASSUME Inv, NEW h \in Handles, NEW permanent \in BOOLEAN,
         AdminConfirmSignUp(h) \/ AdminSetUserPassword(h, permanent)
  PROVE  \E u, a : Updates(u, a)
<1>1. CASE AdminConfirmSignUp(h)
  <2>1. PICK u \in GetUserByUsername(h) :
          /\ UpdateUser(u, [users[u] EXCEPT !.status = "CONFIRMED", !.code = None])
          /\ UNCHANGED spent
    BY <1>1 DEF AdminConfirmSignUp
  <2> DEFINE a == [users[u] EXCEPT !.status = "CONFIRMED", !.code = None]
  <2>2. u \in DOMAIN users
    BY FoundAreUsers
  <2>3. a \in Account /\ a.named = users[u].named /\ a.made = users[u].made /\ a.code = None
    BY <2>2, AccountFields DEF Inv, Account, Statuses
  <2> HIDE DEF a
  <2>4. Updates(u, a)
    BY <2>1, <2>2, <2>3 DEF Updates, a
  <2> QED
    BY <2>4
<1>2. CASE AdminSetUserPassword(h, permanent)
  <2> DEFINE status == IF permanent THEN "CONFIRMED" ELSE "FORCE_CHANGE_PASSWORD"
  <2>1. PICK u \in GetUserByUsername(h) :
          UpdateUser(u, [users[u] EXCEPT !.status = status]) /\ UNCHANGED spent
    BY <1>2 DEF AdminSetUserPassword
  <2>2. status \in Statuses
    BY DEF Statuses
  <2> HIDE DEF status
  <2> DEFINE a == [users[u] EXCEPT !.status = status]
  <2>3. u \in DOMAIN users
    BY FoundAreUsers
  <2>4. a \in Account /\ a.named = users[u].named /\ a.made = users[u].made /\ a.code = users[u].code
    BY <2>2, <2>3, AccountFields DEF Inv, Account
  <2> HIDE DEF a
  <2>5. Updates(u, a)
    BY <2>1, <2>3, <2>4 DEF Updates, a
  <2> QED
    BY <2>5
<1> QED
  BY <1>1, <1>2

LEMMA UpdateEmailStep ==
  ASSUME Inv, NEW u \in Keys, NEW e \in Emails, UpdateEmail(u, e)
  PROVE  \E x, a : Updates(x, a)
<1> DEFINE a == [users[u] EXCEPT !.email = e]
<1>1. u \in DOMAIN users /\ UpdateUser(u, a) /\ UNCHANGED spent
  BY DEF UpdateEmail
<1>2. a \in Account /\ a.named = users[u].named /\ a.made = users[u].made /\ a.code = users[u].code
  BY <1>1, AccountFields DEF Inv, Account, Handles
<1> HIDE DEF a
<1>3. Updates(u, a)
  BY <1>1, <1>2 DEF Updates
<1> QED
  BY <1>3

\* Every handler changes the accounts in one of these ways, or not at all.
LEMMA NextAccountsStep ==
  ASSUME Inv, [Next]_vars
  PROVE  AccountsStep
<1>0. UNCHANGED pool
  BY DEF Next, vars
<1>1. CASE Register
  BY <1>0, <1>1, RegisterStep DEF AccountsStep
<1>2. ASSUME NEW r \in Calls, NEW autoConfirm \in BOOLEAN, PreSignUpReplies(r, autoConfirm)
      PROVE  AccountsStep
  BY <1>0, <1>2, PreSignUpRepliesStep DEF AccountsStep
<1>3. ASSUME NEW r \in Calls, TriggerFails(r)
      PROVE  AccountsStep
  BY <1>0, <1>3 DEF AccountsStep, TriggerFails
<1>4. ASSUME NEW r \in Calls, NEW h \in HandlesGiven, SignInUnknown(r, h)
      PROVE  AccountsStep
  BY <1>0, <1>4 DEF AccountsStep, SignInUnknown
<1>5. CASE Confirm
  <2>1. \E u, a : Updates(u, a)
    BY <1>5, AcceptCodeStep, NewCodeStep, AdminSetsStep DEF Confirm, ConfirmSignUp, ConfirmForgotPassword
  <2> QED
    BY <1>0, <2>1 DEF AccountsStep
<1>6. ASSUME NEW u \in Keys, NEW e \in Emails, UpdateEmail(u, e)
      PROVE  AccountsStep
  BY <1>0, <1>6, UpdateEmailStep DEF AccountsStep
<1>7. ASSUME NEW u \in Keys, DeleteUser(u)
      PROVE  AccountsStep
  BY <1>0, <1>7 DEF AccountsStep, DeleteUser, Removes
<1>8. CASE Restart
  BY <1>0, <1>8 DEF AccountsStep, Restart, Restarts
<1>9. CASE UNCHANGED vars
  BY <1>0, <1>9 DEF AccountsStep, vars
<1> QED
  BY <1>1, <1>2, <1>3, <1>4, <1>5, <1>6, <1>7, <1>8, <1>9 DEF Next

-----------------------------------------------------------------------------
(* What each kind of step preserves of the accounts.                       *)

AccountsTyped ==
  /\ pool \in Configuration
  /\ DOMAIN users \subseteq Keys
  /\ users \in [DOMAIN users -> Account]
  /\ IsOrderOf(DOMAIN users, older)
  /\ spent \subseteq Codes

CallsTyped ==
  /\ DOMAIN calls \subseteq Calls
  /\ calls \in [DOMAIN calls -> SignUpCall \cup MigrationCall]

LEMMA TypeParts == TypeOK <=> AccountsTyped /\ CallsTyped
BY DEF TypeOK, AccountsTyped, CallsTyped

LEMMA AfterUpdate ==
  ASSUME Inv, NEW u, NEW a, Updates(u, a)
  PROVE  /\ u \in DOMAIN users /\ DOMAIN users' = DOMAIN users /\ older' = older
         /\ users'[u] = a
         /\ \A v \in DOMAIN users \ {u} : users'[v] = users[v]
<1>1. users' = Set(users, u, a) /\ older' = older /\ u \in DOMAIN users
  BY DEF Updates, UpdateUser
<1>2. DOMAIN users' = DOMAIN users \cup {u}
  BY <1>1 DEF Set
<1>3. users'[u] = a /\ \A v \in DOMAIN users \ {u} : users'[v] = users[v]
  BY <1>1 DEF Set
<1> QED
  BY <1>1, <1>2, <1>3

LEMMA AfterRegistration ==
  ASSUME Inv, NEW k, NEW a, Registers(k, a)
  PROVE  /\ DOMAIN users' = DOMAIN users \cup {k}
         /\ users'[k] = a
         /\ \A v \in DOMAIN users \ {k} : users'[v] = users[v]
         /\ k \in DOMAIN users => older' = older
         /\ k \notin DOMAIN users => older' = older \cup ((DOMAIN users) \X {k})
<1>1. users' = Set(users, k, a)
  BY DEF Registers, CreateUser
<1>2. DOMAIN users' = DOMAIN users \cup {k}
  BY <1>1 DEF Set
<1>3. users'[k] = a /\ \A v \in DOMAIN users \ {k} : users'[v] = users[v]
  BY <1>1 DEF Set
<1>4. older' = IF k \in DOMAIN users THEN older ELSE older \cup ((DOMAIN users) \X {k})
  BY DEF Registers, CreateUser
<1> QED
  BY <1>2, <1>3, <1>4

LEMMA AfterRemoval ==
  ASSUME Inv, NEW u, Removes(u)
  PROVE  /\ DOMAIN users' = DOMAIN users \ {u}
         /\ \A v \in DOMAIN users \ {u} : users'[v] = users[v]
BY DeleteStore DEF Removes

\* The seed users that are added are those whose name is free.
LEMMA AfterRestart ==
  ASSUME Inv, Restarts
  PROVE  /\ DOMAIN users' = DOMAIN users \cup DOMAIN Seeds
         /\ \A v \in DOMAIN users : users'[v] = users[v]
         /\ \A v \in DOMAIN Seeds \ DOMAIN users :
              users'[v] = [email |-> Seeds[v], status |-> "CONFIRMED", code |-> None,
                           named |-> FALSE, made |-> 0]
BY DEF Restarts, Seeded

LEMMA SeedIsAccount ==
  ASSUME pool \in Configuration, NEW v \in DOMAIN Seeds
  PROVE  [email |-> Seeds[v], status |-> "CONFIRMED", code |-> None, named |-> FALSE, made |-> 0]
           \in Account
BY PoolFields DEF Account, Statuses, Handles, Keys

LEMMA SeedsAppended ==
  ASSUME NEW accounts, NEW before, IsOrderOf(DOMAIN accounts, before),
         NEW after \in SeededOrder(accounts, before)
  PROVE  IsOrderOf(DOMAIN accounts \cup DOMAIN Seeds, after)
<1> DEFINE added == DOMAIN Seeds \ DOMAIN accounts
<1>1. PICK file \in {pairs \in SUBSET (added \X added) : IsOrderOf(added, pairs)} :
        after = before \cup ((DOMAIN accounts) \X added) \cup file
  BY DEF SeededOrder
<1>2. IsOrderOf(added, file) /\ DOMAIN accounts \cap added = {}
  BY <1>1
<1>3. DOMAIN accounts \cup added = DOMAIN accounts \cup DOMAIN Seeds
  OBVIOUS
<1>4. IsOrderOf(DOMAIN accounts \cup added, after)
  BY <1>1, <1>2, OrderJoined
<1> QED
  BY <1>3, <1>4

LEMMA AccountsTypedKept ==
  ASSUME Inv, AccountsStep
  PROVE  AccountsTyped'
<1>0. AccountsTyped /\ UNCHANGED pool
  BY TypeParts DEF Inv, AccountsStep
<1>1. ASSUME NEW u, NEW a, Updates(u, a)
      PROVE  AccountsTyped'
  <2>1. users' = Set(users, u, a) /\ a \in Account /\ older' = older /\ spent' \subseteq Codes
    BY <1>0, <1>1 DEF Updates, UpdateUser, AccountsTyped
  <2>2. users' \in [DOMAIN users' -> Account]
    BY <1>0, <2>1, SetTyped DEF AccountsTyped
  <2>3. DOMAIN users' = DOMAIN users
    BY <1>1, AfterUpdate
  <2> QED
    BY <1>0, <2>1, <2>2, <2>3 DEF AccountsTyped
<1>2. ASSUME NEW k, NEW a, Registers(k, a)
      PROVE  AccountsTyped'
  <2>1. users' = Set(users, k, a) /\ a \in Account /\ k \in Keys /\ spent' = spent
    BY <1>2 DEF Registers, CreateUser
  <2>2. users' \in [DOMAIN users' -> Account]
    BY <1>0, <2>1, SetTyped DEF AccountsTyped
  <2>3. DOMAIN users' = DOMAIN users \cup {k}
    BY <1>2, AfterRegistration
  <2>4. CASE k \in DOMAIN users
    <3>1. DOMAIN users' = DOMAIN users /\ older' = older
      BY <1>2, <2>3, <2>4, AfterRegistration
    <3> QED
      BY <1>0, <2>1, <2>2, <3>1 DEF AccountsTyped
  <2>5. CASE k \notin DOMAIN users
    <3>1. older' = older \cup ((DOMAIN users) \X {k}) \cup {}
      BY <1>2, <2>5, AfterRegistration
    <3>2. DOMAIN users \cap {k} = {}
      BY <2>5
    <3>3. IsOrderOf(DOMAIN users, older) /\ IsOrderOf({k}, {})
      BY <1>0, OrderOfOne DEF AccountsTyped
    <3>4. IsOrderOf(DOMAIN users \cup {k}, older \cup ((DOMAIN users) \X {k}) \cup {})
      BY <3>2, <3>3, OrderJoined
    <3>5. IsOrderOf(DOMAIN users', older')
      BY <2>3, <3>1, <3>4
    <3> QED
      BY <1>0, <2>1, <2>2, <2>3, <3>5 DEF AccountsTyped
  <2> QED
    BY <2>4, <2>5
<1>3. ASSUME NEW u, Removes(u)
      PROVE  AccountsTyped'
  <2>1. users' = Delete(users, u) /\ older' = Without(u) /\ spent' = spent
    BY <1>3 DEF Removes
  <2>2. users' \in [DOMAIN users' -> Account]
    BY <1>0, <2>1, DeleteTyped DEF AccountsTyped
  <2>3. DOMAIN users' = DOMAIN users \ {u}
    BY <1>3, AfterRemoval
  <2>4. IsOrderOf(DOMAIN users', older')
    BY <1>0, <2>1, <2>3, OrderWithout DEF AccountsTyped
  <2> QED
    BY <1>0, <2>1, <2>2, <2>3, <2>4 DEF AccountsTyped
<1>4. CASE Restarts
  <2>1. DOMAIN users' = DOMAIN users \cup DOMAIN Seeds /\ spent' = spent
    BY <1>4, AfterRestart DEF Restarts
  <2>2. \A v \in DOMAIN users' : users'[v] \in Account
    BY <1>0, <1>4, <2>1, AfterRestart, SeedIsAccount DEF AccountsTyped
  <2>3. users' \in [DOMAIN users' -> Account]
    BY <1>4, <2>2 DEF Restarts, Seeded
  <2>4. IsOrderOf(DOMAIN users', older')
    BY <1>0, <1>4, <2>1, SeedsAppended DEF Restarts, AccountsTyped
  <2>5. DOMAIN Seeds \subseteq Keys
    BY <1>0, PoolFields DEF AccountsTyped, Keys
  <2> QED
    BY <1>0, <2>1, <2>3, <2>4, <2>5 DEF AccountsTyped
<1>5. CASE UNCHANGED <<users, older, spent>>
  BY <1>0, <1>5 DEF AccountsTyped
<1> QED
  BY <1>1, <1>2, <1>3, <1>4, <1>5 DEF AccountsStep

\* A new code is with nobody and has not been accepted.
LEMMA FreshCodesKnown ==
  ASSUME NEW c \in FreshCodes
  PROVE  c \in Codes /\ c \notin spent /\ c # None /\ \A v \in DOMAIN users : users[v].code # c
BY DEF FreshCodes, LiveCodes

\* How codes move: no account gets a code that another has or that was
\* accepted, and the code that is accepted goes.
LEMMA CodesInvKept ==
  ASSUME Inv, AccountsStep
  PROVE  CodesInv'
<1>0. None \notin Codes /\ spent \subseteq Codes
  BY DEF Inv, TypeOK
<1>1. ASSUME NEW u, NEW a, Updates(u, a)
      PROVE  CodesInv'
  <2>1. CASE a.code \in FreshCodes \cup {None, users[u].code} /\ UNCHANGED spent
    BY <1>0, <1>1, <2>1, AfterUpdate, FreshCodesKnown DEF CodesInv, Inv, SpentCodesDead, CodesNotShared
  <2>2. CASE a.code = None /\ users[u].code \in Codes /\ spent' = spent \cup {users[u].code}
    BY <1>0, <1>1, <2>2, AfterUpdate DEF CodesInv, Inv, SpentCodesDead, CodesNotShared
  <2> QED
    BY <1>1, <2>1, <2>2 DEF Updates
<1>2. ASSUME NEW k, NEW a, Registers(k, a)
      PROVE  CodesInv'
  <2>1. a.code \in FreshCodes \cup {None} /\ spent' = spent
    BY <1>2 DEF Registers
  <2>2. \A v \in DOMAIN users' :
          \/ v \in DOMAIN users /\ users'[v] = users[v]
          \/ v = k /\ users'[v].code = a.code
    BY <1>2, AfterRegistration
  <2>3. \A v \in DOMAIN users' : users'[v].code \notin spent
    BY <1>0, <2>1, <2>2, FreshCodesKnown DEF CodesInv, Inv, SpentCodesDead
  <2>4. \A v, w \in DOMAIN users' :
          users'[v].code = users'[w].code => v = w \/ users'[v].code = None
    BY <1>0, <2>1, <2>2, FreshCodesKnown DEF CodesInv, Inv, CodesNotShared
  <2> QED
    BY <2>1, <2>3, <2>4 DEF CodesInv, SpentCodesDead, CodesNotShared
<1>3. ASSUME NEW u, Removes(u)
      PROVE  CodesInv'
  <2>1. \A v \in DOMAIN users' : v \in DOMAIN users /\ users'[v] = users[v]
    BY <1>3, AfterRemoval
  <2>2. spent' = spent
    BY <1>3 DEF Removes
  <2> QED
    BY <2>1, <2>2 DEF CodesInv, Inv, SpentCodesDead, CodesNotShared
<1>4. CASE Restarts
  <2>1. \A v \in DOMAIN users' :
          \/ v \in DOMAIN users /\ users'[v] = users[v]
          \/ users'[v].code = None
    BY <1>4, AfterRestart
  <2>2. spent' = spent
    BY <1>4 DEF Restarts
  <2> QED
    BY <1>0, <2>1, <2>2 DEF CodesInv, Inv, SpentCodesDead, CodesNotShared
<1>5. CASE UNCHANGED <<users, older, spent>>
  BY <1>5 DEF CodesInv, Inv, SpentCodesDead, CodesNotShared
<1> QED
  BY <1>1, <1>2, <1>3, <1>4, <1>5 DEF AccountsStep

\* The accounts there were keep their order, and new ones come after them.
LEMMA OrderKept ==
  ASSUME Inv, AccountsStep
  PROVE  /\ \A v, w \in DOMAIN users : <<v, w>> \in older' => <<v, w>> \in older
         /\ \A v \in DOMAIN users, w \in DOMAIN users' \ DOMAIN users : <<w, v>> \notin older'
<1>0. older \subseteq (DOMAIN users) \X (DOMAIN users)
  BY DEF Inv, TypeOK, IsOrderOf
<1>1. ASSUME NEW u, NEW a, Updates(u, a)
      PROVE  older' = older
  BY <1>1, AfterUpdate
<1>2. ASSUME NEW k, NEW a, Registers(k, a)
      PROVE  older' = older \/ (k \notin DOMAIN users /\ older' = older \cup ((DOMAIN users) \X {k}))
  BY <1>2, AfterRegistration
<1>3. ASSUME NEW u, Removes(u)
      PROVE  older' \subseteq older
  BY <1>3 DEF Removes, Without
<1>4. ASSUME Restarts
      PROVE  \E file \in SUBSET ((DOMAIN Seeds \ DOMAIN users) \X (DOMAIN Seeds \ DOMAIN users)) :
               older' = older \cup ((DOMAIN users) \X (DOMAIN Seeds \ DOMAIN users)) \cup file
  <2> DEFINE added == DOMAIN Seeds \ DOMAIN users
  <2>1. PICK file \in {pairs \in SUBSET (added \X added) : IsOrderOf(added, pairs)} :
          older' = older \cup ((DOMAIN users) \X added) \cup file
    BY <1>4 DEF Restarts, SeededOrder
  <2> QED
    BY <2>1
<1>5. CASE older' \subseteq older
  BY <1>0, <1>5
<1>6. ASSUME NEW k, k \notin DOMAIN users, older' = older \cup ((DOMAIN users) \X {k})
      PROVE  /\ \A v, w \in DOMAIN users : <<v, w>> \in older' => <<v, w>> \in older
             /\ \A v \in DOMAIN users, w \in DOMAIN users' \ DOMAIN users : <<w, v>> \notin older'
  BY <1>0, <1>6
<1>7. CASE Restarts
  BY <1>0, <1>4, <1>7
<1> QED
  BY <1>1, <1>2, <1>3, <1>5, <1>6, <1>7 DEF AccountsStep

\* Where nobody waits, or names are drawn, a registration takes a name that no
\* account has, in no spelling, unless a migration trigger chose one of the two.
LEMMA NewNamesFree ==
  ASSUME Inv, Triggers = {} \/ EmailUsernames, NEW k, NEW a, Registers(k, a), ~a.named,
         NEW v \in DOMAIN users, ~users[v].named
  PROVE  v # k /\ (CaseSensitive \/ LowerCase(v) # LowerCase(k))
<1>1. CASE EmailUsernames
  <2>1. Drawn(k)
    BY <1>1 DEF Registers
  <2>2. LowerCase(k) = k
    BY <2>1 DEF Drawn, LowerCase
  <2> QED
    BY <2>1, <2>2 DEF Drawn
<1>2. CASE Triggers = {}
  <2>1. GetUser(k) = {}
    BY <1>2 DEF Registers
  <2>2. k \notin DOMAIN users
    BY <2>1 DEF GetUser
  <2>3. ASSUME ~CaseSensitive
        PROVE  LowerCase(v) # LowerCase(k)
    <3> DEFINE alike == {u \in DOMAIN users : LowerCase(u) = LowerCase(k)}
    <3>1. OldestOf(alike) = {}
      BY <2>1, <2>2, <2>3 DEF GetUser
    <3>2. alike \in SUBSET DOMAIN users /\ TypeOK
      BY DEF Inv
    <3> HIDE DEF alike
    <3>3. alike = {}
      BY <3>1, <3>2, OldestFound
    <3> QED
      BY <3>3 DEF alike
  <2> QED
    BY <2>2, <2>3
<1> QED
  BY <1>1, <1>2

LEMMA NoTwinsKept ==
  ASSUME Inv, AccountsStep, AccountsTyped'
  PROVE  NoTwins'
<1>0. EmailUsernames' = EmailUsernames /\ CaseSensitive' = CaseSensitive
        /\ Triggers' = Triggers /\ Seeds' = Seeds
  BY PoolKept DEF AccountsStep
<1> SUFFICES ASSUME ~CaseSensitive, Triggers = {} \/ EmailUsernames,
                    NEW u \in DOMAIN users', NEW v \in DOMAIN users',
                    <<v, u>> \in older', LowerCase(u) = LowerCase(v),
                    u \notin DOMAIN Seeds, ~users'[u].named, ~users'[v].named
             PROVE  FALSE
  BY <1>0 DEF NoTwins, LowerCase
<1>1. u # v
  BY DEF AccountsTyped, IsOrderOf
\* Two accounts that stayed as they are were twins before.
<1>2. ASSUME u \in DOMAIN users, v \in DOMAIN users,
             users[u].named = users'[u].named, users[v].named = users'[v].named
      PROVE  FALSE
  <2>1. <<v, u>> \in older
    BY <1>2, OrderKept
  <2> QED
    BY <1>2, <2>1 DEF Inv, NoTwins
<1>3. ASSUME u \in DOMAIN users, v \notin DOMAIN users
      PROVE  FALSE
  BY <1>3, OrderKept
<1>4. ASSUME NEW k, NEW a, Registers(k, a)
      PROVE  FALSE
  <2>1. DOMAIN users' = DOMAIN users \cup {k} /\ users'[k] = a
          /\ \A w \in DOMAIN users \ {k} : users'[w] = users[w]
    BY <1>4, AfterRegistration
  <2>2. CASE u # k /\ v # k
    BY <1>2, <2>1, <2>2
  <2>3. CASE u = k
    <3>1. v \in DOMAIN users /\ ~users[v].named /\ ~a.named
      BY <1>1, <2>1, <2>3
    <3> QED
      BY <1>4, <2>3, <3>1, NewNamesFree
  <2>4. CASE v = k
    <3>1. u \in DOMAIN users /\ ~users[u].named /\ ~a.named
      BY <1>1, <2>1, <2>4
    <3> QED
      BY <1>4, <2>4, <3>1, NewNamesFree
  <2> QED
    BY <2>2, <2>3, <2>4
<1>5. CASE Restarts
  <2>1. u \in DOMAIN users
    BY <1>5, AfterRestart
  <2>2. v \in DOMAIN users
    BY <1>3, <2>1
  <2> QED
    BY <1>2, <1>5, <2>1, <2>2, AfterRestart
<1>6. ASSUME NEW x, NEW a, Updates(x, a)
      PROVE  FALSE
  <2>1. \A w \in DOMAIN users : users'[w].named = users[w].named
    BY <1>6, AfterUpdate DEF Updates
  <2> QED
    BY <1>2, <1>6, <2>1, AfterUpdate
<1>7. ASSUME NEW x, Removes(x)
      PROVE  FALSE
  BY <1>2, <1>7, AfterRemoval
<1>8. CASE UNCHANGED <<users, older, spent>>
  BY <1>2, <1>8
<1> QED
  BY <1>4, <1>5, <1>6, <1>7, <1>8 DEF AccountsStep

-----------------------------------------------------------------------------
(* The waiting calls.                                                       *)

CallsInv == CallsTyped /\ NamesReserved /\ NamesAsked /\ NobodyWaits

CallsShrink == DOMAIN calls' \subseteq DOMAIN calls /\ \A r \in DOMAIN calls' : calls'[r] = calls[r]

LEMMA CallsInvShrunk ==
  ASSUME Inv, UNCHANGED pool, CallsShrink, calls' \in [DOMAIN calls' -> SignUpCall \cup MigrationCall],
         EmailUsernames =>
           \A r \in SignUps', v \in DOMAIN users' : LowerCase(v) = calls[r].key => users'[v].named
  PROVE  CallsInv'
<1>1. EmailUsernames' = EmailUsernames /\ Triggers' = Triggers
  BY PoolKept
<1>2. SignUps' \subseteq SignUps /\ \A r \in SignUps' : calls'[r] = calls[r]
  BY DEF SignUps, CallsShrink
<1>3. CallsTyped'
  BY DEF Inv, TypeOK, CallsTyped, CallsShrink
<1>4. NamesReserved'
  <2>1. \A r \in SignUps' : calls[r].key = calls'[r].key
    BY <1>2
  <2>2. EmailUsernames =>
          \A r \in SignUps' :
            /\ calls'[r].key \in Subs
            /\ \A v \in DOMAIN users' : LowerCase(v) = calls'[r].key => users'[v].named
    BY <1>2, <2>1 DEF Inv, NamesInv, NamesReserved, Drawn
  <2>3. EmailUsernames =>
          \A r, q \in SignUps' : calls'[q].key = calls'[r].key => q = r
    BY <1>2 DEF Inv, NamesInv, NamesReserved
  <2> QED
    BY <1>1, <2>2, <2>3 DEF NamesReserved, Drawn, LowerCase
<1>5. NamesAsked' /\ NobodyWaits'
  BY <1>1 DEF Inv, NamesInv, NamesAsked, NobodyWaits, CallsShrink
<1> QED
  BY <1>3, <1>4, <1>5 DEF CallsInv

LEMMA NoCallsShrunk ==
  ASSUME Inv, UNCHANGED calls
  PROVE  CallsShrink /\ calls' \in [DOMAIN calls' -> SignUpCall \cup MigrationCall]
BY DEF CallsShrink, Inv, TypeOK

LEMMA CallDeleted ==
  ASSUME Inv, NEW r, calls' = Delete(calls, r)
  PROVE  /\ CallsShrink /\ calls' \in [DOMAIN calls' -> SignUpCall \cup MigrationCall]
         /\ r \notin DOMAIN calls'
<1>1. calls \in [DOMAIN calls -> SignUpCall \cup MigrationCall]
  BY DEF Inv, TypeOK
<1>2. calls' = [x \in DOMAIN calls \ {r} |-> calls[x]]
  BY DEF Delete, Restrict
<1> QED
  BY <1>1, <1>2 DEF CallsShrink

LEMMA SignUpWaits ==
  ASSUME Inv, UNCHANGED pool, NEW r \in Calls, NEW name \in NamesGiven, NEW e \in EmailGiven,
         NEW sub \in FreshSubs, SignUpCallsTrigger(r, name, e, sub)
  PROVE  CallsInv'
<1> DEFINE k == InternalUsername(name, sub)
           call == [kind |-> "SignUp", key |-> k, email |-> e]
<1>1. EmailUsernames' = EmailUsernames /\ Triggers' = Triggers
  BY PoolKept
<1>2. k \in Keys /\ (EmailUsernames => k = sub /\ Drawn(k))
  BY InternalUsernames, NamesAreKeys
<1>3. call \in SignUpCall /\ call.kind = "SignUp" /\ call.key = k
  BY <1>2, EmailsTyped DEF SignUpCall
<1>4. calls' = Set(calls, r, call) /\ users' = users /\ r \notin DOMAIN calls /\ "preSignUp" \in Triggers
  BY DEF SignUpCallsTrigger
<1> HIDE DEF call, k
<1>5. DOMAIN calls' = DOMAIN calls \cup {r} /\ calls'[r] = call
        /\ \A q \in DOMAIN calls : calls'[q] = calls[q]
  BY <1>4 DEF Set
<1>6. CallsTyped'
  <2>1. calls' \in [DOMAIN calls' -> SignUpCall \cup MigrationCall]
    BY <1>3, <1>4, SetTyped DEF Inv, TypeOK
  <2> QED
    BY <1>5, <2>1 DEF Inv, TypeOK, CallsTyped
<1>7. NamesReserved'
  <2>1. SignUps' = SignUps \cup {r} /\ r \notin SignUps
    BY <1>3, <1>4, <1>5 DEF SignUps
  <2>2. \A q \in SignUps : calls'[q] = calls[q]
    BY <1>5 DEF SignUps
  <2>3. EmailUsernames => \A q \in SignUps : calls[q].key # k
    BY <1>2, FreshSubsKnown
  <2>4. EmailUsernames =>
          \A q \in SignUps' :
            /\ calls'[q].key \in Subs
            /\ \A v \in DOMAIN users : LowerCase(v) = calls'[q].key => users[v].named
    BY <1>2, <1>3, <1>5, <2>1, <2>2 DEF Inv, NamesInv, NamesReserved, Drawn
  <2>5. EmailUsernames =>
          \A p, q \in SignUps' : calls'[q].key = calls'[p].key => q = p
    BY <1>3, <1>5, <2>1, <2>2, <2>3 DEF Inv, NamesInv, NamesReserved
  <2> QED
    BY <1>1, <1>4, <2>4, <2>5 DEF NamesReserved, Drawn, LowerCase
<1>8. NamesAsked'
  BY <1>1, <1>3, <1>5 DEF Inv, NamesInv, NamesAsked
<1>9. NobodyWaits'
  BY <1>1, <1>4 DEF NobodyWaits
<1> QED
  BY <1>6, <1>7, <1>8, <1>9 DEF CallsInv

LEMMA MigrationWaits ==
  ASSUME Inv, UNCHANGED pool, NEW r \in Calls, NEW h \in HandlesGiven, SignInUnknown(r, h)
  PROVE  CallsInv'
<1> DEFINE call == [kind |-> "Migration", handle |-> h]
<1>1. EmailUsernames' = EmailUsernames /\ Triggers' = Triggers
  BY PoolKept
<1>2. call \in MigrationCall /\ call.kind = "Migration" /\ call.handle = h
  BY DEF MigrationCall, HandlesGiven, Handles
<1>3. calls' = Set(calls, r, call) /\ users' = users /\ r \notin DOMAIN calls /\ "userMigration" \in Triggers
  BY DEF SignInUnknown
<1> HIDE DEF call
<1>4. DOMAIN calls' = DOMAIN calls \cup {r} /\ calls'[r] = call
        /\ \A q \in DOMAIN calls : calls'[q] = calls[q]
  BY <1>3 DEF Set
<1>5. CallsTyped'
  <2>1. calls' \in [DOMAIN calls' -> SignUpCall \cup MigrationCall]
    BY <1>2, <1>3, SetTyped DEF Inv, TypeOK
  <2> QED
    BY <1>4, <2>1 DEF Inv, TypeOK, CallsTyped
<1>6. NamesReserved'
  <2>1. SignUps' = SignUps
    BY <1>2, <1>3, <1>4 DEF SignUps
  <2>2. \A q \in SignUps : calls'[q] = calls[q]
    BY <1>4 DEF SignUps
  <2>3. EmailUsernames =>
          \A q \in SignUps' :
            /\ calls'[q].key \in Subs
            /\ \A v \in DOMAIN users : LowerCase(v) = calls'[q].key => users[v].named
    BY <2>1, <2>2 DEF Inv, NamesInv, NamesReserved, Drawn
  <2>4. EmailUsernames =>
          \A p, q \in SignUps' : calls'[q].key = calls'[p].key => q = p
    BY <2>1, <2>2 DEF Inv, NamesInv, NamesReserved
  <2> QED
    BY <1>1, <1>3, <2>3, <2>4 DEF NamesReserved, Drawn, LowerCase
<1>7. NamesAsked'
  BY <1>1, <1>2, <1>4 DEF Inv, NamesInv, NamesAsked, HandlesGiven
<1>8. NobodyWaits'
  BY <1>1, <1>3 DEF NobodyWaits
<1> QED
  BY <1>5, <1>6, <1>7, <1>8 DEF CallsInv

\* The account that is made has a name that no waiting sign-up drew, or that a
\* migration trigger chose.
LEMMA MadeApart ==
  ASSUME Inv, EmailUsernames, NEW k, NEW a, CreateUser(k, a), a.named \/ k \in FreshSubs,
         NEW r \in SignUps, NEW v \in DOMAIN users', LowerCase(v) = calls[r].key
  PROVE  users'[v].named
<1>1. DOMAIN users' = DOMAIN users \cup {k} /\ users'[k] = a
        /\ \A w \in DOMAIN users \ {k} : users'[w] = users[w]
  BY DEF CreateUser, Set
<1>2. CASE v = k
  <2>1. ASSUME k \in FreshSubs
        PROVE  FALSE
    <3>1. LowerCase(k) = k
      BY <2>1 DEF LowerCase, FreshSubs
    <3> QED
      BY <1>2, <2>1, <3>1, FreshSubsKnown
  <2> QED
    BY <1>1, <1>2, <2>1
<1>3. CASE v # k
  <2>1. Drawn(calls[r].key)
    BY DEF Inv, NamesInv, NamesReserved
  <2> QED
    BY <1>1, <1>3, <2>1 DEF Drawn
<1> QED
  BY <1>2, <1>3

LEMMA RegisterCalls ==
  ASSUME Inv, UNCHANGED pool, Register
  PROVE  CallsInv'
<1>1. CallsShrink => SignUps' \subseteq SignUps
  BY DEF CallsShrink, SignUps
<1>2. ASSUME NEW sub \in FreshSubs, NEW name \in NamesGiven, NEW e \in EmailGiven, SignUp(name, e, sub)
      PROVE  CallsInv'
  <2>1. PICK a : CreateUser(InternalUsername(name, sub), a)
    BY <1>2 DEF SignUp, SignUpCreates
  <2>2. UNCHANGED calls
    BY <1>2 DEF SignUp
  <2>3. EmailUsernames => InternalUsername(name, sub) = sub
    BY DEF InternalUsername
  <2> QED
    BY <1>1, <2>1, <2>2, <2>3, MadeApart, NoCallsShrunk, CallsInvShrunk
<1>3. ASSUME NEW sub \in FreshSubs, NEW name \in NamesGiven, NEW e \in EmailGiven,
             AdminCreateUser(name, e, sub)
      PROVE  CallsInv'
  <2>1. PICK a : CreateUser(InternalUsername(name, sub), a)
    BY <1>3 DEF AdminCreateUser
  <2>2. UNCHANGED calls
    BY <1>3 DEF AdminCreateUser
  <2>3. EmailUsernames => InternalUsername(name, sub) = sub
    BY DEF InternalUsername
  <2> QED
    BY <1>1, <2>1, <2>2, <2>3, MadeApart, NoCallsShrunk, CallsInvShrunk
<1>4. ASSUME NEW r \in Calls, NEW e \in Handles, NEW sub \in Keys, NEW status \in Statuses,
             UserMigrationReplies(r, e, sub, status)
      PROVE  CallsInv'
  <2>1. PICK a : a = MigratedAccount(InternalUsername(calls[r].handle, sub), e, status)
    OBVIOUS
  <2>2. CreateUser(InternalUsername(calls[r].handle, sub), a) /\ calls' = Delete(calls, r)
          /\ (sub \in FreshSubs \/ pool.namesSubs)
    BY <1>4, <2>1 DEF UserMigrationReplies
  <2>3. EmailUsernames => InternalUsername(calls[r].handle, sub) = sub
    BY DEF InternalUsername
  <2>4. EmailUsernames => a.named \/ sub \in FreshSubs
    BY <2>1, <2>2, MigratedAccounts
  <2>5. CallsShrink /\ calls' \in [DOMAIN calls' -> SignUpCall \cup MigrationCall]
    BY <2>2, CallDeleted
  <2> QED
    BY <1>1, <2>2, <2>3, <2>4, <2>5, MadeApart, CallsInvShrunk
<1> QED
  BY <1>2, <1>3, <1>4, SignUpWaits DEF Register

LEMMA PreSignUpRepliesCalls ==
  ASSUME Inv, UNCHANGED pool, NEW r \in Calls, NEW autoConfirm, PreSignUpReplies(r, autoConfirm)
  PROVE  CallsInv'
<1>1. PICK a : CreateUser(calls[r].key, a)
  BY DEF PreSignUpReplies, SignUpCreates
<1>2. calls' = Delete(calls, r) /\ r \in SignUps
  BY DEF PreSignUpReplies, SignUps
<1>3. CallsShrink /\ r \notin DOMAIN calls'
        /\ calls' \in [DOMAIN calls' -> SignUpCall \cup MigrationCall]
  BY <1>2, CallDeleted
<1>4. SignUps' \subseteq SignUps \ {r}
  BY <1>3 DEF CallsShrink, SignUps
<1>5. DOMAIN users' = DOMAIN users \cup {calls[r].key}
  BY <1>1 DEF CreateUser, Set
<1>6. ASSUME EmailUsernames, NEW q \in SignUps', NEW v \in DOMAIN users', LowerCase(v) = calls[q].key
      PROVE  users'[v].named
  <2>1. q \in SignUps /\ q # r
    BY <1>4
  <2>2. Drawn(calls[r].key) /\ Drawn(calls[q].key) /\ calls[q].key # calls[r].key
    BY <1>2, <1>6, <2>1 DEF Inv, NamesInv, NamesReserved
  <2>3. v # calls[r].key
    BY <1>6, <2>2 DEF LowerCase, Drawn
  <2>4. v \in DOMAIN users /\ users'[v] = users[v]
    BY <1>1, <1>5, <2>3 DEF CreateUser, Set
  <2> QED
    BY <1>6, <2>2, <2>4 DEF Drawn
<1> QED
  BY <1>3, <1>6, CallsInvShrunk

\* The steps that make no account and leave the calls, or end one or all.
LEMMA OtherCalls ==
  ASSUME Inv, UNCHANGED pool,
         \A v \in DOMAIN users' : v \in DOMAIN users /\ users'[v].named = users[v].named,
         UNCHANGED calls \/ \E r : calls' = Delete(calls, r)
  PROVE  CallsInv'
<1>1. CallsShrink /\ calls' \in [DOMAIN calls' -> SignUpCall \cup MigrationCall]
  BY NoCallsShrunk, CallDeleted
<1>2. EmailUsernames =>
        \A r \in SignUps', v \in DOMAIN users' : LowerCase(v) = calls[r].key => users'[v].named
  <2>1. SignUps' \subseteq SignUps
    BY <1>1 DEF CallsShrink, SignUps
  <2> QED
    BY <2>1 DEF Inv, NamesInv, NamesReserved, Drawn
<1> QED
  BY <1>1, <1>2, CallsInvShrunk

LEMMA RestartCalls ==
  ASSUME Inv, UNCHANGED pool, Restart
  PROVE  CallsInv'
<1>1. calls' = [x \in {} |-> {}]
  BY DEF Restart, Empty
<1>2. CallsShrink /\ calls' \in [DOMAIN calls' -> SignUpCall \cup MigrationCall] /\ SignUps' = {}
  BY <1>1 DEF CallsShrink, SignUps
<1> QED
  BY <1>2, CallsInvShrunk

LEMMA NextCalls ==
  ASSUME Inv, [Next]_vars
  PROVE  CallsInv'
<1>0. UNCHANGED pool
  BY DEF Next, vars
<1>1. ASSUME NEW r \in Calls, TriggerFails(r)
      PROVE  CallsInv'
  BY <1>0, <1>1, OtherCalls DEF TriggerFails
<1>2. CASE Confirm
  <2>1. \E u, a : Updates(u, a)
    BY <1>2, AcceptCodeStep, NewCodeStep, AdminSetsStep DEF Confirm, ConfirmSignUp, ConfirmForgotPassword
  <2>2. UNCHANGED calls
    BY <1>2 DEF Confirm, ConfirmSignUp, ConfirmForgotPassword, AcceptCode, ResendConfirmationCode,
      ForgotPassword, AdminResetUserPassword, AdminConfirmSignUp, AdminSetUserPassword
  <2>3. \A v \in DOMAIN users' : v \in DOMAIN users /\ users'[v].named = users[v].named
    BY <2>1, AfterUpdate DEF Updates
  <2> QED
    BY <1>0, <2>2, <2>3, OtherCalls
<1>3. ASSUME NEW u \in Keys, NEW e \in Emails, UpdateEmail(u, e)
      PROVE  CallsInv'
  <2>1. \E x, a : Updates(x, a)
    BY <1>3, UpdateEmailStep
  <2>2. UNCHANGED calls
    BY <1>3 DEF UpdateEmail
  <2>3. \A v \in DOMAIN users' : v \in DOMAIN users /\ users'[v].named = users[v].named
    BY <2>1, AfterUpdate DEF Updates
  <2> QED
    BY <1>0, <2>2, <2>3, OtherCalls
<1>4. ASSUME NEW u \in Keys, DeleteUser(u)
      PROVE  CallsInv'
  <2>1. UNCHANGED calls /\ users' = Delete(users, u)
    BY <1>4 DEF DeleteUser
  <2>2. \A v \in DOMAIN users' : v \in DOMAIN users /\ users'[v].named = users[v].named
    <3>1. Removes(u)
      BY <1>4 DEF DeleteUser, Removes
    <3> QED
      BY <3>1, AfterRemoval
  <2> QED
    BY <1>0, <2>1, <2>2, OtherCalls
<1>5. CASE UNCHANGED vars
  <2>1. users' = users /\ calls' = calls
    BY <1>5 DEF vars
  <2>2. \A v \in DOMAIN users' : v \in DOMAIN users /\ users'[v].named = users[v].named
    BY <2>1
  <2> QED
    BY <1>0, <2>1, <2>2, OtherCalls
<1> QED
  BY <1>0, <1>1, <1>2, <1>3, <1>4, <1>5, RegisterCalls, PreSignUpRepliesCalls, MigrationWaits, RestartCalls
  DEF Next

-----------------------------------------------------------------------------
(* The theorems.                                                            *)

LEMMA InitInv == Init => Inv
<1> SUFFICES ASSUME Init PROVE Inv
  OBVIOUS
<1>1. DOMAIN Empty = {}
  BY DEF Empty
<1>2. pool \in Configuration
  BY DEF Init
<1>3. DOMAIN users = DOMAIN Seeds
        /\ \A v \in DOMAIN Seeds :
             users[v] = [email |-> Seeds[v], status |-> "CONFIRMED", code |-> None,
                         named |-> FALSE, made |-> 0]
  BY <1>1 DEF Init, Seeded
<1>4. DOMAIN calls = {} /\ spent = {} /\ calls = [x \in {} |-> {}]
  BY DEF Init, Empty
<1>5. TypeOK
  <2>1. users \in [DOMAIN users -> Account]
    <3>1. \A v \in DOMAIN users : users[v] \in Account
      BY <1>2, <1>3, SeedIsAccount
    <3>2. users = [v \in DOMAIN users |-> users[v]]
      BY DEF Init, Seeded
    <3> QED
      BY <3>1, <3>2
  <2>2. IsOrderOf(DOMAIN users, older)
    <3>1. IsOrderOf(DOMAIN Empty, {})
      BY <1>1, OrderOfOne
    <3>2. older \in SeededOrder(Empty, {})
      BY DEF Init
    <3>3. IsOrderOf(DOMAIN Empty \cup DOMAIN Seeds, older)
      BY <3>1, <3>2, SeedsAppended
    <3> QED
      BY <1>1, <1>3, <3>3
  <2>3. DOMAIN users \subseteq Keys
    BY <1>2, <1>3, PoolFields DEF Keys
  <2> QED
    BY <1>2, <1>4, <2>1, <2>2, <2>3 DEF TypeOK
<1>6. CodesInv
  BY <1>3, <1>4 DEF CodesInv, SpentCodesDead, CodesNotShared
<1>7. NamesInv
  BY <1>3, <1>4 DEF NamesInv, NamesReserved, NamesAsked, NobodyWaits, SignUps
<1>8. NoTwins
  BY <1>3 DEF NoTwins
<1> QED
  BY <1>5, <1>6, <1>7, <1>8 DEF Inv

LEMMA NextInv == Inv /\ [Next]_vars => Inv'
<1> SUFFICES ASSUME Inv, [Next]_vars PROVE Inv'
  OBVIOUS
<1>1. AccountsStep
  BY NextAccountsStep
<1>2. AccountsTyped' /\ CodesInv'
  BY <1>1, AccountsTypedKept, CodesInvKept
<1>3. NoTwins'
  BY <1>1, <1>2, NoTwinsKept
<1>4. CallsInv'
  BY NextCalls
<1>5. TypeOK'
  BY <1>2, <1>4 DEF TypeOK, AccountsTyped, CallsInv, CallsTyped
<1> QED
  BY <1>2, <1>3, <1>4, <1>5 DEF Inv, NamesInv, CallsInv

LEMMA InvHolds == Spec => []Inv
BY InitInv, NextInv, PTL DEF Spec

\* The state keeps its type, and the order of the Map with it: whatever is
\* looked for by a property of the accounts, one of those that have it is first.
THEOREM TypeCorrect == Spec => []TypeOK
<1>1. Inv => TypeOK
  BY DEF Inv
<1> QED
  BY <1>1, InvHolds, PTL

\* A confirmation code is honoured once, in whatever flow it was sent.
THEOREM CodesHonouredOnce == Spec => []SpentCodesDead
<1>1. Inv => SpentCodesDead
  BY DEF Inv, CodesInv
<1> QED
  BY <1>1, InvHolds, PTL

\* Registration makes no two names that differ in letter case alone, but for those
\* that a migration trigger chose.
THEOREM NamesApart == Spec => []NoTwins
<1>1. Inv => NoTwins
  BY DEF Inv
<1> QED
  BY <1>1, InvHolds, PTL

LEMMA ReplacedStep ==
  ASSUME Inv, [Next]_vars, Triggers = {} \/ EmailUsernames, NEW x \in DOMAIN users, Replaced(x)
  PROVE  users[x].named \/ users'[x].named
<1>1. AccountsStep
  BY NextAccountsStep
<1>2. ASSUME NEW u, NEW a, Updates(u, a)
      PROVE  FALSE
  BY <1>2, AfterUpdate DEF Updates, Replaced
<1>3. ASSUME NEW k, NEW a, Registers(k, a)
      PROVE  users[x].named \/ users'[x].named
  <2>1. x = k
    BY <1>3, AfterRegistration DEF Replaced
  <2>2. users'[k] = a
    BY <1>3, AfterRegistration
  <2> QED
    BY <1>3, <2>1, <2>2, NewNamesFree
<1>4. ASSUME NEW u, Removes(u)
      PROVE  FALSE
  BY <1>4, AfterRemoval DEF Replaced
<1>5. CASE Restarts
  BY <1>5, AfterRestart DEF Replaced
<1>6. CASE UNCHANGED <<users, older, spent>>
  BY <1>6 DEF Replaced
<1> QED
  BY <1>1, <1>2, <1>3, <1>4, <1>5, <1>6 DEF AccountsStep

\* No registration, migration or seed file is written over an account where no
\* handler waits or the server draws the usernames, but where a migration trigger
\* chose the username of one of the two.
THEOREM AccountsStand == Spec => AccountsNotReplaced
<1>1. Inv /\ [Next]_vars =>
        [Triggers = {} \/ EmailUsernames =>
           \A u \in DOMAIN users : Replaced(u) => users[u].named \/ users'[u].named]_vars
  BY ReplacedStep
<1> QED
  BY <1>1, InvHolds, PTL DEF Spec, AccountsNotReplaced

\* An address is no username, so only an alias can lead to an account.
LEMMA AddressIsAlias ==
  ASSUME TypeOK, NEW e \in Emails
  PROVE  GetUserByUsername(e) = IF EmailUsernames THEN OldestOf(WithEmail(e)) ELSE {}
<1>1. e \notin DOMAIN users /\ \A x \in DOMAIN users : LowerCase(x) # LowerCase(e)
  BY DEF TypeOK, LowerCase, Keys
<1>2. GetUser(e) = {}
  BY <1>1 DEF GetUser, OldestOf
<1>3. WithEmail(e) = {} => OldestOf(WithEmail(e)) = {}
  BY DEF OldestOf
<1> QED
  BY <1>2, <1>3 DEF GetUserByUsername

LEMMA AliasStep ==
  ASSUME Inv, Inv', [Next]_vars,
         NEW e \in Emails, NEW u \in GetUserByUsername(e), u \in DOMAIN users', users'[u].email = e
  PROVE  \/ u \in GetUserByUsername(e)'
         \/ \E v \in GetUserByUsername(e)' : v \in DOMAIN users /\ users[v].email # e
<1> DEFINE having == WithEmail(e)'
<1>1. AccountsStep /\ UNCHANGED pool /\ TypeOK
  BY NextAccountsStep DEF AccountsStep, Inv
<1>2. EmailUsernames /\ u \in OldestOf(WithEmail(e))
  BY <1>1, AddressIsAlias
<1>3. u \in DOMAIN users /\ \A v \in DOMAIN users \ {u} : users[v].email = e => <<u, v>> \in older
  BY <1>2 DEF OldestOf, WithEmail
<1>4. having \in SUBSET DOMAIN users' /\ u \in having
  BY DEF WithEmail
<1>5. IsOrderOf(DOMAIN users', older') /\ IsOrderOf(DOMAIN users, older)
  BY DEF Inv, TypeOK
<1> HIDE DEF having
<1>6. PICK v \in having : \A w \in having \ {v} : <<v, w>> \in older'
  BY <1>4, <1>5, FirstOfSome
<1>7. v \in GetUserByUsername(e)'
  <2>1. EmailUsernames'
    BY <1>1, <1>2, PoolKept
  <2>2. v \in OldestOf(WithEmail(e))'
    BY <1>6 DEF OldestOf, having
  <2> QED
    BY <1>6, <2>1, <2>2 DEF GetUserByUsername, having
<1>8. CASE v = u
  BY <1>7, <1>8
<1>9. ASSUME v # u, v \notin DOMAIN users
      PROVE  FALSE
  BY <1>1, <1>3, <1>4, <1>6, <1>9, OrderKept
<1>10. ASSUME v # u, v \in DOMAIN users
       PROVE  users[v].email # e
  <2>1. <<v, u>> \in older
    BY <1>1, <1>3, <1>4, <1>6, <1>10, OrderKept
  <2>2. <<u, v>> \notin older
    BY <1>3, <1>5, <1>10, <2>1 DEF IsOrderOf
  <2> QED
    BY <1>3, <1>10, <2>2
<1> QED
  BY <1>7, <1>8, <1>9, <1>10

\* An address is not handed over by any registration, migration, reset or start,
\* even where several accounts have it.
THEOREM AliasesStay == Spec => AliasKept
<1>1. Inv /\ Inv' /\ [Next]_vars =>
        [\A e \in Emails : \A u \in GetUserByUsername(e) :
           \/ u \notin DOMAIN users'
           \/ users'[u].email # e
           \/ u \in GetUserByUsername(e)'
           \/ \E v \in GetUserByUsername(e)' : v \in DOMAIN users /\ users[v].email # e]_vars
  BY AliasStep
<1> QED
  BY <1>1, InvHolds, PTL DEF Spec, AliasKept

=============================================================================
