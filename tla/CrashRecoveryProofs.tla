------------------------- MODULE CrashRecoveryProofs -------------------------
(***************************************************************************)
(* CrashRecovery, for any users, tokens, groups, seed file and any files   *)
(* that may tear.  What is promised holds in the stores together with what *)
(* holds of every write that a handler still has to make: it names the     *)
(* tokens and the memberships it must, and the tokens a call will have     *)
(* killed are those its loops have still to come to.                       *)
(***************************************************************************)
EXTENDS CrashRecovery, TLAPS

USE CrashRecoveryAssumption

\* What calls, answered or running, hold to be in and to be out.
In == added \cup call.adds
Out == removed \cup call.removes

\* The tokens that the loops of the running handler have still to come to.
Left == todo.listed \cup todo.found

-----------------------------------------------------------------------------
(* The writes still to make.                                                *)

\* The entry of the token that the call issues, new and nowhere recorded.
FirstEntry(w) ==
  \E t \in Tokens, u \in Users :
    /\ w = PutEntry(t, u, FALSE)
    /\ t \in DOMAIN owner
    /\ owner[t] = u
    /\ u \in DOMAIN Accounts
    /\ t \notin RevokedTokens \cup dead
    /\ call.issues = {t}

\* The record of a token whose entry is revoked already.
Record(w) ==
  \E t \in Tokens :
    /\ w = PutRevoked(t)
    /\ t \in DOMAIN Entries
    /\ t \notin Usable

\* An account with tokens issued to it, that are there or about to be, and with
\* the groups that are promised.
AccountKept(w) ==
  \E u \in Users, tokens \in SUBSET Tokens, groups \in SUBSET GroupNames :
    /\ w = PutUser(u, tokens, groups)
    /\ tokens \subseteq IssuedTo(u)
    /\ "refresh-tokens.json" \notin lost => tokens \subseteq DOMAIN Entries \cup call.issues \cup expired
    /\ \A g \in GroupNames : <<u, g>> \in In => g \in groups
    /\ \A g \in GroupNames : <<u, g>> \in Out => g \notin groups

\* The deletion of an account whose tokens are dead or about to be.
AccountGone(w) ==
  \E u \in Users :
    /\ w = Drop("users.json", u)
    /\ call.issues = {}
    /\ TokensOf(u) \cap Usable \subseteq Left
    /\ In \cap PromisesTo(u) = {}
    /\ Out \cap Seeded \cap PromisesTo(u) = {}

\* The deletion of the entry of a token that the call found expired; there is
\* nothing else to write.
EntryGone(w) ==
  \E t \in Tokens :
    /\ w = Drop("refresh-tokens.json", t)
    /\ t \in expired
    /\ call.issues = {}
    /\ call.kills = {t}
    /\ Left = {}
    /\ todo.last = {}

\* A user of a pool that is deleted: its tokens are left behind, and it is
\* promised nothing.
PoolLeaves(u) ==
  /\ TokensOf(u) \cap Usable \subseteq abandoned
  /\ In \cap PromisesTo(u) = {}
  /\ Out \cap Seeded \cap PromisesTo(u) = {}

GroupKept(w) ==
  \E g \in GroupNames, members \in SUBSET Users :
    /\ w = PutGroup(g, members)
    /\ \A u \in Users : <<u, g>> \in In => u \in members
    /\ \A u \in Users : <<u, g>> \in Out => u \notin members

GroupGone(w) ==
  \E g \in GroupNames :
    /\ w = Drop("groups.json", g)
    /\ \A u \in Users : <<u, g>> \notin In

WritesKeep ==
  /\ \A w \in todo.now :
       \/ FirstEntry(w) \/ Record(w) \/ EntryGone(w)
       \/ AccountKept(w) \/ GroupKept(w) \/ GroupGone(w)
  /\ \A w \in todo.last : AccountKept(w) \/ AccountGone(w)
  /\ todo.pool # {} => todo.now = {} /\ Left = {}
  /\ \A u \in todo.pool : PoolLeaves(u)
  /\ \A v, w \in todo.now : v = w
  /\ \A v, w \in todo.last : v = w

-----------------------------------------------------------------------------
(* The stores and the running call.                                         *)

StoresAgree ==
  /\ disk = mem
  /\ \A t \in DOMAIN Entries : t \in DOMAIN owner /\ Entries[t].userId = owner[t]
  /\ \A u \in DOMAIN Accounts : Accounts[u].tokens \subseteq IssuedTo(u)
  /\ RevokedTokens \subseteq DOMAIN owner

\* A token the call issues is there or is written now; one it kills is dead, or
\* one of those left, or its entry is deleted now.
TokensKept ==
  /\ DeadTokensStayDead
  /\ AnsweredTokensSurvive
  /\ NoOrphanTokens
  /\ ListsNameTokens
  /\ HistoryOfTheDead
  /\ call.issues = {} \/ call.kills = {}
  /\ (\A w \in todo.now : w.file # "refresh-tokens.json") => call.issues \subseteq Usable
  /\ (\A w \in todo.now : w.file # "refresh-tokens.json") => call.kills \cap Usable \subseteq Left
  /\ Left \subseteq call.kills \cap DOMAIN Entries
  /\ call.kills \subseteq threatened

MarksGroup(g) == \E w \in todo.now : w.file = "groups.json" /\ w.key = g
MarksUser(u) == \E w \in todo.last : w.file = "users.json" /\ w.key = u

\* Either copy of a membership the call changes is as it should be, or is still
\* to be written; one that was taken from a seed user needs the account there.
MembershipsKept ==
  /\ AddedAreIn
  /\ RemovedAreOut
  /\ \A u \in Users, g \in GroupNames : <<u, g>> \in call.adds =>
       (Listed(u, g) \/ MarksGroup(g)) /\ (Carried(u, g) \/ MarksUser(u))
  /\ \A u \in Users, g \in GroupNames : <<u, g>> \in call.removes =>
       (~Listed(u, g) \/ MarksGroup(g)) /\ (~Carried(u, g) \/ MarksUser(u))
  /\ \A u \in Users, g \in GroupNames : <<u, g>> \in Out \cap Seeded => u \in DOMAIN Accounts

Inv == TypeOK /\ StoresAgree /\ TokensKept /\ MembershipsKept /\ WritesKeep

-----------------------------------------------------------------------------
(* What a write does to the stores.                                         *)

Makes(w) ==
  /\ mem' = [mem EXCEPT ![w.file] = Applied(@, w)]
  /\ disk' = [disk EXCEPT ![w.file] = Applied(mem[w.file], w)]

LEMMA SetMap ==
  ASSUME NEW keys, NEW values, NEW store, Map(store, keys, values),
         NEW k \in keys, NEW v \in values
  PROVE  Map(Set(store, k, v), keys, values)
BY DEF Map, Set

LEMMA DeleteMap ==
  ASSUME NEW keys, NEW values, NEW store, Map(store, keys, values), NEW k
  PROVE  Map(Delete(store, k), keys, values)
BY DEF Map, Delete, Restrict

\* A write to one file leaves the others.
LEMMA OneFile ==
  ASSUME disk = mem, DOMAIN mem = Files, NEW w, w.file \in Files, Makes(w)
  PROVE  /\ disk' = mem'
         /\ DOMAIN mem' = Files
         /\ mem'[w.file] = Applied(mem[w.file], w)
         /\ \A file \in Files \ {w.file} : mem'[file] = mem[file]
BY DEF Makes

LEMMA EntryWritten ==
  ASSUME disk = mem, StoreOK(mem),
         NEW t \in Tokens, NEW u \in Users, NEW b \in BOOLEAN, Makes(PutEntry(t, u, b))
  PROVE  /\ disk' = mem'
         /\ StoreOK(mem')
         /\ DOMAIN Entries' = DOMAIN Entries \cup {t}
         /\ Entries'[t] = [userId |-> u, revoked |-> b]
         /\ \A x \in DOMAIN Entries : x # t => Entries'[x] = Entries[x]
         /\ UNCHANGED <<RevokedTokens, Accounts, Groups>>
<1> DEFINE w == PutEntry(t, u, b)
           e == [userId |-> u, revoked |-> b]
<1>1. w.file = "refresh-tokens.json" /\ Applied(Entries, w) = Set(Entries, t, e)
  BY DEF PutEntry, Put, Applied
<1>2. e \in Entry /\ Map(Entries, Tokens, Entry)
  BY DEF Entry, StoreOK, Entries
<1>3. /\ Map(Set(Entries, t, e), Tokens, Entry)
      /\ DOMAIN Set(Entries, t, e) = DOMAIN Entries \cup {t}
      /\ Set(Entries, t, e)[t] = e
      /\ \A x \in DOMAIN Entries : x # t => Set(Entries, t, e)[x] = Entries[x]
  BY <1>2, SetMap DEF Set
<1>4. /\ disk' = mem'
      /\ DOMAIN mem' = Files
      /\ Entries' = Set(Entries, t, e)
      /\ \A file \in Files \ {"refresh-tokens.json"} : mem'[file] = mem[file]
  BY <1>1, OneFile DEF StoreOK, Files, Entries
<1>5. UNCHANGED <<RevokedTokens, Accounts, Groups>>
  BY <1>4 DEF RevokedTokens, Accounts, Groups, Files
<1>6. StoreOK(mem')
  BY <1>3, <1>4 DEF StoreOK, Files, Entries
<1> QED
  BY <1>3, <1>4, <1>5, <1>6

LEMMA EntryDropped ==
  ASSUME disk = mem, StoreOK(mem), NEW t \in Tokens, Makes(Drop("refresh-tokens.json", t))
  PROVE  /\ disk' = mem'
         /\ StoreOK(mem')
         /\ DOMAIN Entries' = DOMAIN Entries \ {t}
         /\ \A x \in DOMAIN Entries : x # t => Entries'[x] = Entries[x]
         /\ UNCHANGED <<RevokedTokens, Accounts, Groups>>
<1> DEFINE w == Drop("refresh-tokens.json", t)
<1>1. w.file = "refresh-tokens.json" /\ Applied(Entries, w) = Delete(Entries, t)
  BY DEF Drop, Applied
<1>2. Map(Entries, Tokens, Entry)
  BY DEF StoreOK, Entries
<1>3. /\ Map(Delete(Entries, t), Tokens, Entry)
      /\ DOMAIN Delete(Entries, t) = DOMAIN Entries \ {t}
      /\ \A x \in DOMAIN Entries : x # t => Delete(Entries, t)[x] = Entries[x]
  BY <1>2, DeleteMap DEF Delete, Restrict
<1>4. /\ disk' = mem'
      /\ DOMAIN mem' = Files
      /\ Entries' = Delete(Entries, t)
      /\ \A file \in Files \ {"refresh-tokens.json"} : mem'[file] = mem[file]
  BY <1>1, OneFile DEF StoreOK, Files, Entries
<1>5. UNCHANGED <<RevokedTokens, Accounts, Groups>>
  BY <1>4 DEF RevokedTokens, Accounts, Groups, Files
<1>6. StoreOK(mem')
  BY <1>3, <1>4 DEF StoreOK, Files, Entries
<1> QED
  BY <1>3, <1>4, <1>5, <1>6

LEMMA RevocationRecorded ==
  ASSUME disk = mem, StoreOK(mem), NEW t \in Tokens, Makes(PutRevoked(t))
  PROVE  /\ disk' = mem'
         /\ StoreOK(mem')
         /\ RevokedTokens' = RevokedTokens \cup {t}
         /\ UNCHANGED <<Entries, Accounts, Groups>>
<1> DEFINE w == PutRevoked(t)
           store == mem["revoked-tokens.json"]
           record == [token |-> t]
<1>1. w.file = "revoked-tokens.json" /\ Applied(store, w) = Set(store, t, record)
  BY DEF PutRevoked, Put, Applied
<1>2. record \in [token : Tokens] /\ Map(store, Tokens, [token : Tokens])
  BY DEF StoreOK
<1> HIDE DEF store, record
<1>7. Map(Set(store, t, record), Tokens, [token : Tokens])
  BY <1>2, SetMap
<1>3. /\ Map(Set(store, t, record), Tokens, [token : Tokens])
      /\ DOMAIN Set(store, t, record) = DOMAIN store \cup {t}
  BY <1>7 DEF Set
<1> USE DEF store, record
<1>4. /\ disk' = mem'
      /\ DOMAIN mem' = Files
      /\ mem'["revoked-tokens.json"] = Set(store, t, record)
      /\ \A file \in Files \ {"revoked-tokens.json"} : mem'[file] = mem[file]
  BY <1>1, OneFile DEF StoreOK, Files
<1>5. UNCHANGED <<Entries, Accounts, Groups>>
  BY <1>4 DEF Entries, Accounts, Groups, Files
<1>6. StoreOK(mem')
  BY <1>3, <1>4 DEF StoreOK, Files
<1> QED
  BY <1>3, <1>4, <1>5, <1>6 DEF RevokedTokens

LEMMA UserWritten ==
  ASSUME disk = mem, StoreOK(mem), NEW u \in Users,
         NEW tokens \in SUBSET Tokens, NEW groups \in SUBSET GroupNames,
         Makes(PutUser(u, tokens, groups))
  PROVE  /\ disk' = mem'
         /\ StoreOK(mem')
         /\ DOMAIN Accounts' = DOMAIN Accounts \cup {u}
         /\ Accounts'[u] = [tokens |-> tokens, groups |-> groups]
         /\ \A x \in DOMAIN Accounts : x # u => Accounts'[x] = Accounts[x]
         /\ UNCHANGED <<Entries, RevokedTokens, Groups>>
<1> DEFINE w == PutUser(u, tokens, groups)
           account == [tokens |-> tokens, groups |-> groups]
<1>1. w.file = "users.json" /\ Applied(Accounts, w) = Set(Accounts, u, account)
  BY DEF PutUser, Put, Applied
<1>2. account \in Account /\ Map(Accounts, Users, Account)
  BY DEF Account, StoreOK, Accounts
<1>3. /\ Map(Set(Accounts, u, account), Users, Account)
      /\ DOMAIN Set(Accounts, u, account) = DOMAIN Accounts \cup {u}
      /\ Set(Accounts, u, account)[u] = account
      /\ \A x \in DOMAIN Accounts : x # u => Set(Accounts, u, account)[x] = Accounts[x]
  BY <1>2, SetMap DEF Set
<1>4. /\ disk' = mem'
      /\ DOMAIN mem' = Files
      /\ Accounts' = Set(Accounts, u, account)
      /\ \A file \in Files \ {"users.json"} : mem'[file] = mem[file]
  BY <1>1, OneFile DEF StoreOK, Files, Accounts
<1>5. UNCHANGED <<Entries, RevokedTokens, Groups>>
  BY <1>4 DEF Entries, RevokedTokens, Groups, Files
<1>6. StoreOK(mem')
  BY <1>3, <1>4 DEF StoreOK, Files, Accounts
<1> QED
  BY <1>3, <1>4, <1>5, <1>6

LEMMA UserDropped ==
  ASSUME disk = mem, StoreOK(mem), NEW u \in Users, Makes(Drop("users.json", u))
  PROVE  /\ disk' = mem'
         /\ StoreOK(mem')
         /\ DOMAIN Accounts' = DOMAIN Accounts \ {u}
         /\ \A x \in DOMAIN Accounts : x # u => Accounts'[x] = Accounts[x]
         /\ UNCHANGED <<Entries, RevokedTokens, Groups>>
<1> DEFINE w == Drop("users.json", u)
<1>1. w.file = "users.json" /\ Applied(Accounts, w) = Delete(Accounts, u)
  BY DEF Drop, Applied
<1>2. Map(Accounts, Users, Account)
  BY DEF StoreOK, Accounts
<1>3. /\ Map(Delete(Accounts, u), Users, Account)
      /\ DOMAIN Delete(Accounts, u) = DOMAIN Accounts \ {u}
      /\ \A x \in DOMAIN Accounts : x # u => Delete(Accounts, u)[x] = Accounts[x]
  BY <1>2, DeleteMap DEF Delete, Restrict
<1>4. /\ disk' = mem'
      /\ DOMAIN mem' = Files
      /\ Accounts' = Delete(Accounts, u)
      /\ \A file \in Files \ {"users.json"} : mem'[file] = mem[file]
  BY <1>1, OneFile DEF StoreOK, Files, Accounts
<1>5. UNCHANGED <<Entries, RevokedTokens, Groups>>
  BY <1>4 DEF Entries, RevokedTokens, Groups, Files
<1>6. StoreOK(mem')
  BY <1>3, <1>4 DEF StoreOK, Files, Accounts
<1> QED
  BY <1>3, <1>4, <1>5, <1>6

LEMMA GroupWritten ==
  ASSUME disk = mem, StoreOK(mem), NEW g \in GroupNames, NEW members \in SUBSET Users,
         Makes(PutGroup(g, members))
  PROVE  /\ disk' = mem'
         /\ StoreOK(mem')
         /\ DOMAIN Groups' = DOMAIN Groups \cup {g}
         /\ Groups'[g] = members
         /\ \A x \in DOMAIN Groups : x # g => Groups'[x] = Groups[x]
         /\ UNCHANGED <<Entries, RevokedTokens, Accounts>>
<1> DEFINE w == PutGroup(g, members)
<1>1. w.file = "groups.json" /\ Applied(Groups, w) = Set(Groups, g, members)
  BY DEF PutGroup, Put, Applied
<1>2. Map(Groups, GroupNames, SUBSET Users)
  BY DEF StoreOK, Groups
<1>3. /\ Map(Set(Groups, g, members), GroupNames, SUBSET Users)
      /\ DOMAIN Set(Groups, g, members) = DOMAIN Groups \cup {g}
      /\ Set(Groups, g, members)[g] = members
      /\ \A x \in DOMAIN Groups : x # g => Set(Groups, g, members)[x] = Groups[x]
  BY <1>2, SetMap DEF Set
<1>4. /\ disk' = mem'
      /\ DOMAIN mem' = Files
      /\ Groups' = Set(Groups, g, members)
      /\ \A file \in Files \ {"groups.json"} : mem'[file] = mem[file]
  BY <1>1, OneFile DEF StoreOK, Files, Groups
<1>5. UNCHANGED <<Entries, RevokedTokens, Accounts>>
  BY <1>4 DEF Entries, RevokedTokens, Accounts, Files
<1>6. StoreOK(mem')
  BY <1>3, <1>4 DEF StoreOK, Files, Groups
<1> QED
  BY <1>3, <1>4, <1>5, <1>6

LEMMA GroupDropped ==
  ASSUME disk = mem, StoreOK(mem), NEW g \in GroupNames, Makes(Drop("groups.json", g))
  PROVE  /\ disk' = mem'
         /\ StoreOK(mem')
         /\ DOMAIN Groups' = DOMAIN Groups \ {g}
         /\ \A x \in DOMAIN Groups : x # g => Groups'[x] = Groups[x]
         /\ UNCHANGED <<Entries, RevokedTokens, Accounts>>
<1> DEFINE w == Drop("groups.json", g)
<1>1. w.file = "groups.json" /\ Applied(Groups, w) = Delete(Groups, g)
  BY DEF Drop, Applied
<1>2. Map(Groups, GroupNames, SUBSET Users)
  BY DEF StoreOK, Groups
<1>3. /\ Map(Delete(Groups, g), GroupNames, SUBSET Users)
      /\ DOMAIN Delete(Groups, g) = DOMAIN Groups \ {g}
      /\ \A x \in DOMAIN Groups : x # g => Delete(Groups, g)[x] = Groups[x]
  BY <1>2, DeleteMap DEF Delete, Restrict
<1>4. /\ disk' = mem'
      /\ DOMAIN mem' = Files
      /\ Groups' = Delete(Groups, g)
      /\ \A file \in Files \ {"groups.json"} : mem'[file] = mem[file]
  BY <1>1, OneFile DEF StoreOK, Files, Groups
<1>5. UNCHANGED <<Entries, RevokedTokens, Accounts>>
  BY <1>4 DEF Entries, RevokedTokens, Accounts, Files
<1>6. StoreOK(mem')
  BY <1>3, <1>4 DEF StoreOK, Files, Groups
<1> QED
  BY <1>3, <1>4, <1>5, <1>6

-----------------------------------------------------------------------------
(* The next write of a handler.                                             *)

MakesNow(w) ==
  /\ w \in todo.now
  /\ Makes(w)
  /\ todo.now' = {}
  /\ todo.pool' = {}
  /\ UNCHANGED <<todo.last, Left>>

MakesRevocation(t) ==
  /\ todo.now = {}
  /\ todo.pool' = {}
  /\ t \in Left
  /\ Makes(PutEntry(t, Entries[t].userId, TRUE))
  /\ todo.now' = {PutRevoked(t)}
  /\ UNCHANGED todo.last
  /\ Left' \subseteq Left
  /\ Left \ {t} \subseteq Left'

LeavesPool(u) ==
  /\ u \in todo.pool
  /\ Makes(Drop("users.json", u))
  /\ todo.now' = {}
  /\ Left' = {}
  /\ todo.pool' \subseteq todo.pool
  /\ UNCHANGED todo.last

MakesLast(w) ==
  /\ todo.now = {}
  /\ todo.pool' = {}
  /\ Left = {}
  /\ w \in todo.last
  /\ Makes(w)
  /\ todo.now' = {}
  /\ Left' = {}
  /\ todo.last' = {}

HandlerGoesOn ==
  /\ call.running
  /\ DOMAIN todo' = DOMAIN Nothing
  /\ Left' \subseteq Tokens
  /\ todo.pool' \subseteq Users
  /\ UNCHANGED <<call, history>>

LEMMA TheStep ==
  ASSUME TypeOK, WritesKeep, Write
  PROVE  /\ \/ \E w \in todo.now : MakesNow(w)
            \/ \E t \in Left : MakesRevocation(t)
            \/ \E u \in todo.pool : LeavesPool(u)
            \/ \E w \in todo.last : MakesLast(w)
         /\ HandlerGoesOn
<1>1. PICK s \in Steps : Makes(s.write) /\ todo' = s.left
  BY DEF Write, Makes
<1>2. DOMAIN todo = {"now", "listed", "found", "pool", "last"}
  BY DEF TypeOK, Nothing
<1>3. Left \subseteq Tokens /\ todo.pool \subseteq Users
  BY DEF TypeOK, Left
<1>4. UNCHANGED <<call, history>>
  BY DEF Write
<1>5. todo # Nothing => call.running
  BY DEF TypeOK
<1>6. /\ \A v, w \in todo.now : v = w
      /\ \A v, w \in todo.last : v = w
      /\ todo.pool # {} => todo.now = {} /\ Left = {}
  BY DEF WritesKeep
<1>7. CASE todo.now # {}
  <2>1. PICK w \in todo.now : s = Step(w, [todo EXCEPT !.now = @ \ {w}])
    BY <1>1, <1>7 DEF Steps
  <2>2. Makes(w) /\ todo' = [todo EXCEPT !.now = @ \ {w}]
    BY <1>1, <2>1 DEF Step
  <2>3. /\ todo.now' = {}
        /\ todo.pool' = {}
        /\ UNCHANGED <<todo.listed, todo.found, todo.last>>
        /\ DOMAIN todo' = DOMAIN todo
    BY <1>2, <1>6, <1>7, <2>2
  <2>4. UNCHANGED Left
    BY <2>3 DEF Left
  <2> QED
    BY <1>2, <1>3, <1>4, <1>5, <1>7, <2>2, <2>3, <2>4 DEF MakesNow, HandlerGoesOn, Nothing
<1>8. CASE todo.now = {} /\ todo.listed # {}
  <2>1. PICK t \in todo.listed :
          s = Step(Revocation(t)[1], [todo EXCEPT !.now = {Revocation(t)[2]}, !.listed = @ \ {t}])
    BY <1>1, <1>8 DEF Steps
  <2>2. /\ Makes(PutEntry(t, Entries[t].userId, TRUE))
        /\ todo' = [todo EXCEPT !.now = {PutRevoked(t)}, !.listed = @ \ {t}]
    BY <1>1, <2>1 DEF Step, Revocation
  <2>3. /\ todo.now' = {PutRevoked(t)}
        /\ todo.listed' = todo.listed \ {t}
        /\ UNCHANGED <<todo.found, todo.pool, todo.last>>
        /\ DOMAIN todo' = DOMAIN todo
    BY <1>2, <2>2
  <2>4. t \in Left /\ Left' \subseteq Left /\ Left \ {t} \subseteq Left'
    BY <2>1, <2>3 DEF Left
  <2>5. call.running /\ DOMAIN todo' = DOMAIN Nothing /\ todo.pool' = {}
    BY <1>2, <1>5, <1>6, <1>8, <2>3, <2>4 DEF Nothing
  <2>6. MakesRevocation(t)
    BY <1>8, <2>2, <2>3, <2>4, <2>5 DEF MakesRevocation
  <2> QED
    BY <1>3, <1>4, <2>4, <2>5, <2>6 DEF HandlerGoesOn
<1>9. CASE todo.now = {} /\ todo.listed = {} /\ todo.found # {}
  <2>1. PICK t \in todo.found :
          s = Step(Revocation(t)[1], [todo EXCEPT !.now = {Revocation(t)[2]}, !.found = @ \ {t}])
    BY <1>1, <1>9 DEF Steps
  <2>2. /\ Makes(PutEntry(t, Entries[t].userId, TRUE))
        /\ todo' = [todo EXCEPT !.now = {PutRevoked(t)}, !.found = @ \ {t}]
    BY <1>1, <2>1 DEF Step, Revocation
  <2>3. /\ todo.now' = {PutRevoked(t)}
        /\ todo.found' = todo.found \ {t}
        /\ UNCHANGED <<todo.listed, todo.pool, todo.last>>
        /\ DOMAIN todo' = DOMAIN todo
    BY <1>2, <2>2
  <2>4. t \in Left /\ Left' \subseteq Left /\ Left \ {t} \subseteq Left'
    BY <2>1, <2>3 DEF Left
  <2>5. call.running /\ DOMAIN todo' = DOMAIN Nothing /\ todo.pool' = {}
    BY <1>2, <1>5, <1>6, <1>9, <2>3, <2>4 DEF Nothing
  <2>6. MakesRevocation(t)
    BY <1>9, <2>2, <2>3, <2>4, <2>5 DEF MakesRevocation
  <2> QED
    BY <1>3, <1>4, <2>4, <2>5, <2>6 DEF HandlerGoesOn
<1>10. CASE todo.now = {} /\ todo.listed = {} /\ todo.found = {} /\ todo.pool # {}
  <2>1. PICK u \in todo.pool : s = Step(Drop("users.json", u), [todo EXCEPT !.pool = @ \ {u}])
    BY <1>1, <1>10 DEF Steps
  <2>2. Makes(Drop("users.json", u)) /\ todo' = [todo EXCEPT !.pool = @ \ {u}]
    BY <1>1, <2>1 DEF Step
  <2>3. /\ todo.pool' = todo.pool \ {u}
        /\ UNCHANGED <<todo.now, todo.listed, todo.found, todo.last>>
        /\ DOMAIN todo' = DOMAIN todo
    BY <1>2, <2>2
  <2>4. Left' = {}
    BY <1>10, <2>3 DEF Left
  <2>5. call.running /\ DOMAIN todo' = DOMAIN Nothing
    BY <1>2, <1>5, <1>10, <2>3 DEF Nothing
  <2> QED
    BY <1>3, <1>4, <1>10, <2>2, <2>3, <2>4, <2>5 DEF LeavesPool, HandlerGoesOn
<1>11. CASE todo.now = {} /\ todo.listed = {} /\ todo.found = {} /\ todo.pool = {}
  <2>1. PICK w \in todo.last : s = Step(w, [todo EXCEPT !.last = @ \ {w}])
    BY <1>1, <1>11 DEF Steps
  <2>2. Makes(w) /\ todo' = [todo EXCEPT !.last = @ \ {w}]
    BY <1>1, <2>1 DEF Step
  <2>3. /\ todo.last' = {}
        /\ UNCHANGED <<todo.now, todo.listed, todo.found, todo.pool>>
        /\ DOMAIN todo' = DOMAIN todo
    BY <1>2, <1>6, <2>2
  <2>4. Left = {} /\ Left' = {}
    BY <1>11, <2>3 DEF Left
  <2> QED
    BY <1>2, <1>4, <1>5, <1>11, <2>2, <2>3, <2>4 DEF MakesLast, HandlerGoesOn, Nothing
<1> QED
  BY <1>7, <1>8, <1>9, <1>10, <1>11

LEMMA TypeGoesOn ==
  ASSUME TypeOK, HandlerGoesOn, disk' = mem', StoreOK(mem')
  PROVE  TypeOK'
<1>1. StoreOK(disk')
  OBVIOUS
<1>2. todo.listed' \cup todo.found' \subseteq Tokens /\ todo.pool' \subseteq Users
  BY DEF HandlerGoesOn, Left
<1> QED
  BY <1>1, <1>2 DEF TypeOK, HandlerGoesOn, history

\* Who is promised what does not change, and who owns which token.
LEMMA PromisesGoOn ==
  ASSUME HandlerGoesOn
  PROVE  /\ UNCHANGED <<In, Out, call, owner, answered, threatened, expired, abandoned, dead, added, removed, lost>>
         /\ \A u : IssuedTo(u)' = IssuedTo(u)
BY DEF HandlerGoesOn, history, In, Out, IssuedTo

-----------------------------------------------------------------------------
(* What is still to be written stays as good as it was.                     *)

LEMMA AccountStaysKept ==
  ASSUME NEW w, AccountKept(w), UNCHANGED <<In, Out, owner, lost, call, expired>>,
         DOMAIN Entries \subseteq DOMAIN Entries'
  PROVE  AccountKept(w)'
<1>1. PICK u \in Users, tokens \in SUBSET Tokens, groups \in SUBSET GroupNames :
        /\ w = PutUser(u, tokens, groups)
        /\ tokens \subseteq IssuedTo(u)
        /\ "refresh-tokens.json" \notin lost => tokens \subseteq DOMAIN Entries \cup call.issues \cup expired
        /\ \A g \in GroupNames : <<u, g>> \in In => g \in groups
        /\ \A g \in GroupNames : <<u, g>> \in Out => g \notin groups
  BY DEF AccountKept
<1>2. tokens \subseteq IssuedTo(u)'
  BY <1>1 DEF IssuedTo
<1> QED
  BY <1>1, <1>2 DEF AccountKept

LEMMA AccountStaysGone ==
  ASSUME NEW w, AccountGone(w), UNCHANGED <<In, Out, call>>,
         \A t \in Usable' : t \in Usable /\ Entries'[t] = Entries[t] /\ (t \in Left => t \in Left')
  PROVE  AccountGone(w)'
<1>1. PICK u \in Users :
        /\ w = Drop("users.json", u)
        /\ call.issues = {}
        /\ TokensOf(u) \cap Usable \subseteq Left
        /\ In \cap PromisesTo(u) = {}
        /\ Out \cap Seeded \cap PromisesTo(u) = {}
  BY DEF AccountGone
<1>2. (TokensOf(u) \cap Usable)' \subseteq Left'
  BY <1>1 DEF TokensOf, Usable
<1> QED
  BY <1>1, <1>2 DEF AccountGone

-----------------------------------------------------------------------------
(* The writes, one kind after the other.                                    *)

LEMMA FirstEntryStep ==
  ASSUME Inv, NEW w, FirstEntry(w), MakesNow(w), HandlerGoesOn
  PROVE  Inv'
<1>1. PICK t \in Tokens, u \in Users :
        /\ w = PutEntry(t, u, FALSE)
        /\ t \in DOMAIN owner
        /\ owner[t] = u
        /\ u \in DOMAIN Accounts
        /\ t \notin RevokedTokens \cup dead
        /\ call.issues = {t}
  BY DEF FirstEntry
<1>2. /\ disk' = mem'
      /\ StoreOK(mem')
      /\ DOMAIN Entries' = DOMAIN Entries \cup {t}
      /\ Entries'[t] = [userId |-> u, revoked |-> FALSE]
      /\ \A x \in DOMAIN Entries : x # t => Entries'[x] = Entries[x]
      /\ UNCHANGED <<RevokedTokens, Accounts, Groups>>
  BY <1>1, EntryWritten DEF MakesNow, Inv, TypeOK, StoresAgree
<1>3. /\ UNCHANGED <<In, Out, call, owner, answered, threatened, expired, abandoned, dead, added, removed, lost>>
      /\ \A x : IssuedTo(x)' = IssuedTo(x)
  BY PromisesGoOn
<1>4. /\ todo.now' = {}
      /\ todo.pool' = {}
      /\ UNCHANGED <<todo.last, Left>>
      /\ \A v \in todo.now : v = w
  BY DEF MakesNow, Inv, WritesKeep
<1>5. w.file = "refresh-tokens.json"
  BY <1>1 DEF PutEntry, Put
<1>6. Usable' = Usable \cup {t}
  BY <1>2 DEF Usable
<1>7. TypeOK'
  BY <1>2, TypeGoesOn DEF Inv
<1>8. StoresAgree'
  BY <1>1, <1>2, <1>3 DEF Inv, StoresAgree
<1>9. TokensKept'
  <2>1. DeadTokensStayDead' /\ AnsweredTokensSurvive' /\ HistoryOfTheDead'
    BY <1>1, <1>2, <1>3, <1>6 DEF Inv, TokensKept, DeadTokensStayDead, AnsweredTokensSurvive, HistoryOfTheDead
  <2>2. NoOrphanTokens' /\ ListsNameTokens'
    BY <1>1, <1>2, <1>3, <1>6 DEF Inv, TokensKept, NoOrphanTokens, ListsNameTokens, Usable
  <2>3. call.kills = {} /\ Left = {}
    BY <1>1 DEF Inv, TokensKept
  <2> QED
    BY <1>1, <1>3, <1>4, <1>6, <2>1, <2>2, <2>3 DEF TokensKept
<1>10. MembershipsKept'
  <2>1. /\ \A g : ~MarksGroup(g)
        /\ \A x : MarksUser(x)' = MarksUser(x)
    BY <1>4, <1>5 DEF MarksGroup, MarksUser
  <2>2. \A x, g : Listed(x, g)' = Listed(x, g) /\ Carried(x, g)' = Carried(x, g)
    BY <1>2 DEF Listed, Carried
  <2> QED
    BY <1>2, <1>3, <2>1, <2>2 DEF Inv, MembershipsKept, AddedAreIn, RemovedAreOut
<1>11. WritesKeep'
  <2>1. \A v \in todo.last : AccountKept(v)
    BY <1>1 DEF Inv, WritesKeep, AccountGone
  <2>2. \A v \in todo.last : AccountKept(v)'
    BY <1>2, <1>3, <2>1, AccountStaysKept
  <2> QED
    BY <1>4, <2>2 DEF Inv, WritesKeep
<1> QED
  BY <1>7, <1>8, <1>9, <1>10, <1>11 DEF Inv

LEMMA RecordStep ==
  ASSUME Inv, NEW w, Record(w), MakesNow(w), HandlerGoesOn
  PROVE  Inv'
<1>1. PICK t \in Tokens : w = PutRevoked(t) /\ t \in DOMAIN Entries /\ t \notin Usable
  BY DEF Record
<1>2. /\ disk' = mem'
      /\ StoreOK(mem')
      /\ RevokedTokens' = RevokedTokens \cup {t}
      /\ UNCHANGED <<Entries, Accounts, Groups>>
  BY <1>1, RevocationRecorded DEF MakesNow, Inv, TypeOK, StoresAgree
<1>3. /\ UNCHANGED <<In, Out, call, owner, answered, threatened, expired, abandoned, dead, added, removed, lost>>
      /\ \A x : IssuedTo(x)' = IssuedTo(x)
  BY PromisesGoOn
<1>4. /\ todo.now' = {}
      /\ todo.pool' = {}
      /\ UNCHANGED <<todo.last, Left>>
      /\ \A v \in todo.now : v = w
  BY DEF MakesNow, Inv, WritesKeep
<1>5. w.file = "revoked-tokens.json"
  BY <1>1 DEF PutRevoked, Put
<1>6. Usable' = Usable
  BY <1>2 DEF Usable
<1>7. TypeOK'
  BY <1>2, TypeGoesOn DEF Inv
<1>8. StoresAgree'
  BY <1>1, <1>2, <1>3 DEF Inv, StoresAgree
<1>9. TokensKept'
  <2>1. DeadTokensStayDead' /\ AnsweredTokensSurvive' /\ HistoryOfTheDead'
    BY <1>1, <1>2, <1>3, <1>6 DEF Inv, TokensKept, DeadTokensStayDead, AnsweredTokensSurvive, HistoryOfTheDead
  <2>2. NoOrphanTokens' /\ ListsNameTokens'
    BY <1>2, <1>3, <1>6 DEF Inv, TokensKept, NoOrphanTokens, ListsNameTokens
  <2>3. call.issues \subseteq Usable /\ call.kills \cap Usable \subseteq Left
    BY <1>4, <1>5 DEF Inv, TokensKept
  <2> QED
    BY <1>2, <1>3, <1>4, <1>6, <2>1, <2>2, <2>3 DEF Inv, TokensKept
<1>10. MembershipsKept'
  <2>1. /\ \A g : ~MarksGroup(g)
        /\ \A x : MarksUser(x)' = MarksUser(x)
    BY <1>4, <1>5 DEF MarksGroup, MarksUser
  <2>2. \A x, g : Listed(x, g)' = Listed(x, g) /\ Carried(x, g)' = Carried(x, g)
    BY <1>2 DEF Listed, Carried
  <2> QED
    BY <1>2, <1>3, <2>1, <2>2 DEF Inv, MembershipsKept, AddedAreIn, RemovedAreOut
<1>11. WritesKeep'
  <2>1. ASSUME NEW v \in todo.last, AccountKept(v) PROVE AccountKept(v)'
    BY <1>2, <1>3, <2>1, AccountStaysKept
  <2>2. ASSUME NEW v \in todo.last, AccountGone(v) PROVE AccountGone(v)'
    BY <1>2, <1>3, <1>4, <1>6, <2>2, AccountStaysGone
  <2> QED
    BY <1>4, <2>1, <2>2 DEF Inv, WritesKeep
<1> QED
  BY <1>7, <1>8, <1>9, <1>10, <1>11 DEF Inv

LEMMA EntryGoneStep ==
  ASSUME Inv, NEW w, EntryGone(w), MakesNow(w), HandlerGoesOn
  PROVE  Inv'
<1>1. PICK t \in Tokens :
        /\ w = Drop("refresh-tokens.json", t)
        /\ t \in expired
        /\ call.issues = {}
        /\ call.kills = {t}
        /\ Left = {}
        /\ todo.last = {}
  BY DEF EntryGone
<1>2. /\ disk' = mem'
      /\ StoreOK(mem')
      /\ DOMAIN Entries' = DOMAIN Entries \ {t}
      /\ \A x \in DOMAIN Entries : x # t => Entries'[x] = Entries[x]
      /\ UNCHANGED <<RevokedTokens, Accounts, Groups>>
  BY <1>1, EntryDropped DEF MakesNow, Inv, TypeOK, StoresAgree
<1>3. /\ UNCHANGED <<In, Out, call, owner, answered, threatened, expired, abandoned, dead, added, removed, lost>>
      /\ \A x : IssuedTo(x)' = IssuedTo(x)
  BY PromisesGoOn
<1>4. /\ todo.now' = {}
      /\ todo.pool' = {}
      /\ UNCHANGED <<todo.last, Left>>
      /\ \A v \in todo.now : v = w
  BY DEF MakesNow, Inv, WritesKeep
<1>5. w.file = "refresh-tokens.json"
  BY <1>1 DEF Drop
<1>6. Usable' = Usable \ {t}
  BY <1>2 DEF Usable
<1>7. TypeOK'
  BY <1>2, TypeGoesOn DEF Inv
<1>8. StoresAgree'
  BY <1>2, <1>3 DEF Inv, StoresAgree
<1>9. TokensKept'
  <2>1. DeadTokensStayDead' /\ HistoryOfTheDead'
    BY <1>2, <1>3, <1>6 DEF Inv, TokensKept, DeadTokensStayDead, HistoryOfTheDead
  <2>2. AnsweredTokensSurvive'
    BY <1>1, <1>3, <1>6 DEF Inv, TokensKept, AnsweredTokensSurvive
  <2>3. NoOrphanTokens'
    BY <1>2, <1>3, <1>6 DEF Inv, TokensKept, NoOrphanTokens, Usable
  <2>4. ListsNameTokens'
    BY <1>1, <1>2, <1>3 DEF Inv, TokensKept, ListsNameTokens
  <2> QED
    BY <1>1, <1>3, <1>4, <1>6, <2>1, <2>2, <2>3, <2>4 DEF Inv, TokensKept
<1>10. MembershipsKept'
  <2>1. /\ \A g : ~MarksGroup(g)
        /\ \A x : MarksUser(x)' = MarksUser(x)
    BY <1>4, <1>5 DEF MarksGroup, MarksUser
  <2>2. \A x, g : Listed(x, g)' = Listed(x, g) /\ Carried(x, g)' = Carried(x, g)
    BY <1>2 DEF Listed, Carried
  <2> QED
    BY <1>2, <1>3, <2>1, <2>2 DEF Inv, MembershipsKept, AddedAreIn, RemovedAreOut
<1>11. WritesKeep'
  BY <1>1, <1>4 DEF WritesKeep
<1> QED
  BY <1>7, <1>8, <1>9, <1>10, <1>11 DEF Inv

\* The write of a membership leaves every promise but its own as it was.
GroupsHold ==
  \A u \in Users, g \in GroupNames :
    /\ <<u, g>> \in In /\ Listed(u, g) => Listed(u, g)'
    /\ <<u, g>> \in Out /\ ~Listed(u, g) => ~Listed(u, g)'

UsersHold ==
  \A u \in Users, g \in GroupNames :
    /\ <<u, g>> \in In /\ Carried(u, g) => Carried(u, g)'
    /\ <<u, g>> \in Out /\ ~Carried(u, g) => ~Carried(u, g)'

\* Writing a group changes nothing about the tokens.
LEMMA GroupStep ==
  ASSUME Inv, NEW w, GroupKept(w) \/ GroupGone(w), MakesNow(w), HandlerGoesOn
  PROVE  Inv'
<1> DEFINE key == w.key
<1>1. /\ disk' = mem'
      /\ StoreOK(mem')
      /\ UNCHANGED <<Entries, RevokedTokens, Accounts>>
      /\ w.file = "groups.json"
      /\ GroupsHold
      /\ \A u \in Users : /\ <<u, key>> \in In => Listed(u, key)'
                          /\ <<u, key>> \in Out => ~Listed(u, key)'
  <2>1. CASE GroupKept(w)
    <3>1. PICK g \in GroupNames, members \in SUBSET Users :
            /\ w = PutGroup(g, members)
            /\ \A u \in Users : <<u, g>> \in In => u \in members
            /\ \A u \in Users : <<u, g>> \in Out => u \notin members
      BY <2>1 DEF GroupKept
    <3>2. w.file = "groups.json" /\ w.key = g
      BY <3>1 DEF PutGroup, Put
    <3>3. /\ disk' = mem'
          /\ StoreOK(mem')
          /\ DOMAIN Groups' = DOMAIN Groups \cup {g}
          /\ Groups'[g] = members
          /\ \A x \in DOMAIN Groups : x # g => Groups'[x] = Groups[x]
          /\ UNCHANGED <<Entries, RevokedTokens, Accounts>>
      BY <3>1, GroupWritten DEF MakesNow, Inv, TypeOK, StoresAgree
    <3>4. \A u \in Users : Listed(u, g)' <=> u \in members
      BY <3>3 DEF Listed
    <3>5. \A u \in Users, x \in GroupNames : x # g => Listed(u, x)' = Listed(u, x)
      BY <3>3 DEF Listed
    <3> QED
      BY <3>1, <3>2, <3>3, <3>4, <3>5 DEF GroupsHold
  <2>2. CASE GroupGone(w)
    <3>1. PICK g \in GroupNames :
            w = Drop("groups.json", g) /\ \A u \in Users : <<u, g>> \notin In
      BY <2>2 DEF GroupGone
    <3>2. w.file = "groups.json" /\ w.key = g
      BY <3>1 DEF Drop
    <3>3. /\ disk' = mem'
          /\ StoreOK(mem')
          /\ DOMAIN Groups' = DOMAIN Groups \ {g}
          /\ \A x \in DOMAIN Groups : x # g => Groups'[x] = Groups[x]
          /\ UNCHANGED <<Entries, RevokedTokens, Accounts>>
      BY <3>1, GroupDropped DEF MakesNow, Inv, TypeOK, StoresAgree
    <3>4. \A u \in Users : ~Listed(u, g)'
      BY <3>3 DEF Listed
    <3>5. \A u \in Users, x \in GroupNames : x # g => Listed(u, x)' = Listed(u, x)
      BY <3>3 DEF Listed
    <3> QED
      BY <3>1, <3>2, <3>3, <3>4, <3>5 DEF GroupsHold
  <2> QED
    BY <2>1, <2>2
<1>2. /\ UNCHANGED <<In, Out, call, owner, answered, threatened, expired, abandoned, dead, added, removed, lost>>
      /\ \A x : IssuedTo(x)' = IssuedTo(x)
  BY PromisesGoOn
<1>3. /\ todo.now' = {}
      /\ todo.pool' = {}
      /\ UNCHANGED <<todo.last, Left>>
      /\ \A v \in todo.now : v = w
  BY DEF MakesNow, Inv, WritesKeep
<1>4. Usable' = Usable
  BY <1>1 DEF Usable
<1>5. TypeOK'
  BY <1>1, TypeGoesOn DEF Inv
<1>6. StoresAgree'
  BY <1>1, <1>2 DEF Inv, StoresAgree
<1>7. TokensKept'
  <2>1. DeadTokensStayDead' /\ AnsweredTokensSurvive' /\ HistoryOfTheDead'
    BY <1>1, <1>2, <1>4 DEF Inv, TokensKept, DeadTokensStayDead, AnsweredTokensSurvive, HistoryOfTheDead
  <2>2. NoOrphanTokens' /\ ListsNameTokens'
    BY <1>1, <1>2, <1>4 DEF Inv, TokensKept, NoOrphanTokens, ListsNameTokens
  <2>3. call.issues \subseteq Usable /\ call.kills \cap Usable \subseteq Left
    BY <1>1, <1>3 DEF Inv, TokensKept
  <2> QED
    BY <1>1, <1>2, <1>3, <1>4, <2>1, <2>2, <2>3 DEF Inv, TokensKept
<1>8. MembershipsKept'
  <2>1. /\ \A g : MarksGroup(g) => g = key
        /\ \A x : MarksUser(x)' = MarksUser(x)
    BY <1>1, <1>3 DEF MarksGroup, MarksUser
  <2>2. \A x, g : Carried(x, g)' = Carried(x, g)
    BY <1>1 DEF Carried
  <2>3. AddedAreIn' /\ RemovedAreOut'
    BY <1>1, <1>2, <2>2 DEF Inv, TypeOK, Pairs, MembershipsKept, AddedAreIn, RemovedAreOut, GroupsHold, In, Out
  <2>4. ASSUME NEW u \in Users, NEW g \in GroupNames, <<u, g>> \in call.adds
        PROVE  Listed(u, g)' /\ (Carried(u, g)' \/ MarksUser(u)')
    BY <1>1, <2>1, <2>2, <2>4 DEF Inv, MembershipsKept, GroupsHold, In
  <2>5. ASSUME NEW u \in Users, NEW g \in GroupNames, <<u, g>> \in call.removes
        PROVE  ~Listed(u, g)' /\ (~Carried(u, g)' \/ MarksUser(u)')
    BY <1>1, <2>1, <2>2, <2>5 DEF Inv, MembershipsKept, GroupsHold, Out
  <2> QED
    BY <1>1, <1>2, <2>3, <2>4, <2>5 DEF Inv, MembershipsKept
<1>9. WritesKeep'
  <2>1. ASSUME NEW v \in todo.last, AccountKept(v) PROVE AccountKept(v)'
    BY <1>1, <1>2, <2>1, AccountStaysKept
  <2>2. ASSUME NEW v \in todo.last, AccountGone(v) PROVE AccountGone(v)'
    BY <1>1, <1>2, <1>3, <1>4, <2>2, AccountStaysGone
  <2> QED
    BY <1>3, <2>1, <2>2 DEF Inv, WritesKeep
<1> QED
  BY <1>5, <1>6, <1>7, <1>8, <1>9 DEF Inv

\* Writing an account changes nothing about the tokens but the list.
LEMMA AccountStores ==
  ASSUME Inv, NEW w, AccountKept(w), Makes(w), HandlerGoesOn, call.issues \subseteq Usable
  PROVE  /\ w.file = "users.json"
         /\ TypeOK'
         /\ StoresAgree'
         /\ UNCHANGED <<Entries, RevokedTokens, Groups, Usable>>
         /\ DOMAIN Accounts \subseteq DOMAIN Accounts'
         /\ ListsNameTokens'
         /\ UsersHold
         /\ \A g \in GroupNames : /\ <<w.key, g>> \in In => Carried(w.key, g)'
                                  /\ <<w.key, g>> \in Out => ~Carried(w.key, g)'
<1>1. PICK u \in Users, tokens \in SUBSET Tokens, groups \in SUBSET GroupNames :
        /\ w = PutUser(u, tokens, groups)
        /\ tokens \subseteq IssuedTo(u)
        /\ "refresh-tokens.json" \notin lost => tokens \subseteq DOMAIN Entries \cup call.issues \cup expired
        /\ \A g \in GroupNames : <<u, g>> \in In => g \in groups
        /\ \A g \in GroupNames : <<u, g>> \in Out => g \notin groups
  BY DEF AccountKept
<1>2. w.file = "users.json" /\ w.key = u
  BY <1>1 DEF PutUser, Put
<1>3. /\ disk' = mem'
      /\ StoreOK(mem')
      /\ DOMAIN Accounts' = DOMAIN Accounts \cup {u}
      /\ Accounts'[u] = [tokens |-> tokens, groups |-> groups]
      /\ \A x \in DOMAIN Accounts : x # u => Accounts'[x] = Accounts[x]
      /\ UNCHANGED <<Entries, RevokedTokens, Groups>>
  BY <1>1, UserWritten DEF Inv, TypeOK, StoresAgree
<1>4. /\ UNCHANGED <<In, Out, call, owner, answered, threatened, expired, abandoned, dead, added, removed, lost>>
      /\ \A x : IssuedTo(x)' = IssuedTo(x)
  BY PromisesGoOn
<1>5. Accounts'[u].tokens = tokens /\ Accounts'[u].groups = groups
  BY <1>3
<1>6. TypeOK'
  BY <1>3, TypeGoesOn DEF Inv
<1>7. StoresAgree'
  <2>1. \A x \in DOMAIN Accounts' : Accounts'[x].tokens \subseteq IssuedTo(x)'
    BY <1>1, <1>3, <1>4, <1>5 DEF Inv, StoresAgree
  <2> QED
    BY <1>3, <1>4, <2>1 DEF Inv, StoresAgree
<1>8. UNCHANGED Usable
  BY <1>3 DEF Usable
<1>9. ListsNameTokens'
  <2>1. call.issues \subseteq DOMAIN Entries
    BY DEF Usable
  <2> QED
    BY <1>1, <1>3, <1>4, <1>5, <2>1 DEF Inv, TokensKept, ListsNameTokens
<1>10. \A g \in GroupNames : Carried(u, g)' <=> g \in groups
  BY <1>3, <1>5 DEF Carried
<1>11. \A x \in Users, g \in GroupNames : x # u => Carried(x, g)' = Carried(x, g)
  BY <1>3 DEF Carried
<1>12. UsersHold
  BY <1>1, <1>10, <1>11 DEF UsersHold
<1> QED
  BY <1>1, <1>2, <1>3, <1>6, <1>7, <1>8, <1>9, <1>10, <1>12

LEMMA AccountStep ==
  ASSUME Inv, NEW w, AccountKept(w), MakesNow(w), HandlerGoesOn
  PROVE  Inv'
<1>1. /\ todo.now' = {}
      /\ todo.pool' = {}
      /\ UNCHANGED <<todo.last, Left>>
      /\ \A v \in todo.now : v = w
  BY DEF MakesNow, Inv, WritesKeep
<1>2. w.file = "users.json"
  BY DEF AccountKept, PutUser, Put
<1>3. call.issues \subseteq Usable /\ call.kills \cap Usable \subseteq Left
  BY <1>1, <1>2 DEF Inv, TokensKept
<1>4. /\ TypeOK'
      /\ StoresAgree'
      /\ UNCHANGED <<Entries, RevokedTokens, Groups, Usable>>
      /\ DOMAIN Accounts \subseteq DOMAIN Accounts'
      /\ ListsNameTokens'
      /\ UsersHold
  BY <1>3, AccountStores DEF MakesNow
<1>5. /\ UNCHANGED <<In, Out, call, owner, answered, threatened, expired, abandoned, dead, added, removed, lost>>
      /\ \A x : IssuedTo(x)' = IssuedTo(x)
  BY PromisesGoOn
<1>6. TokensKept'
  <2>1. /\ DeadTokensStayDead' /\ AnsweredTokensSurvive' /\ HistoryOfTheDead'
        /\ NoOrphanTokens'
    BY <1>4, <1>5 DEF Inv, TokensKept, DeadTokensStayDead, AnsweredTokensSurvive, HistoryOfTheDead, NoOrphanTokens
  <2> QED
    BY <1>1, <1>3, <1>4, <1>5, <2>1 DEF Inv, TokensKept
<1>7. MembershipsKept'
  <2>1. /\ \A g : ~MarksGroup(g)
        /\ \A x : MarksUser(x)' = MarksUser(x)
    BY <1>1, <1>2 DEF MarksGroup, MarksUser
  <2>2. \A x, g : Listed(x, g)' = Listed(x, g)
    BY <1>4 DEF Listed
  <2>3. AddedAreIn' /\ RemovedAreOut'
    BY <1>4, <1>5, <2>2 DEF Inv, TypeOK, Pairs, MembershipsKept, AddedAreIn, RemovedAreOut, UsersHold, In, Out
  <2>4. ASSUME NEW u \in Users, NEW g \in GroupNames, <<u, g>> \in call.adds
        PROVE  Listed(u, g)' /\ (Carried(u, g)' \/ MarksUser(u)')
    BY <1>4, <2>1, <2>2, <2>4 DEF Inv, MembershipsKept, UsersHold, In
  <2>5. ASSUME NEW u \in Users, NEW g \in GroupNames, <<u, g>> \in call.removes
        PROVE  ~Listed(u, g)' /\ (~Carried(u, g)' \/ MarksUser(u)')
    BY <1>4, <2>1, <2>2, <2>5 DEF Inv, MembershipsKept, UsersHold, Out
  <2> QED
    BY <1>4, <1>5, <2>3, <2>4, <2>5 DEF Inv, MembershipsKept
<1>8. WritesKeep'
  <2>1. ASSUME NEW v \in todo.last, AccountKept(v) PROVE AccountKept(v)'
    BY <1>4, <1>5, <2>1, AccountStaysKept
  <2>2. ASSUME NEW v \in todo.last, AccountGone(v) PROVE AccountGone(v)'
    BY <1>1, <1>4, <1>5, <2>2, AccountStaysGone
  <2> QED
    BY <1>1, <2>1, <2>2 DEF Inv, WritesKeep
<1> QED
  BY <1>4, <1>6, <1>7, <1>8 DEF Inv

\* The loops: one token less is usable, and it is one of those that are left.
LEMMA RevocationStep ==
  ASSUME Inv, NEW t, MakesRevocation(t), HandlerGoesOn
  PROVE  Inv'
<1>1. t \in Left /\ t \in call.kills /\ t \in DOMAIN Entries /\ t \in Tokens /\ t \in threatened
  BY DEF MakesRevocation, Inv, TokensKept, TypeOK, Left
<1>2. call.issues = {}
  BY <1>1 DEF Inv, TokensKept
<1>3. PICK u : u = Entries[t].userId
  OBVIOUS
<1>4. u \in Users
  BY <1>1, <1>3 DEF Inv, TypeOK, StoreOK, Map, Entries, Entry
<1>5. /\ disk' = mem'
      /\ StoreOK(mem')
      /\ DOMAIN Entries' = DOMAIN Entries \cup {t}
      /\ Entries'[t] = [userId |-> u, revoked |-> TRUE]
      /\ \A x \in DOMAIN Entries : x # t => Entries'[x] = Entries[x]
      /\ UNCHANGED <<RevokedTokens, Accounts, Groups>>
  BY <1>1, <1>3, <1>4, EntryWritten DEF MakesRevocation, Inv, TypeOK, StoresAgree
<1>6. /\ UNCHANGED <<In, Out, call, owner, answered, threatened, expired, abandoned, dead, added, removed, lost>>
      /\ \A x : IssuedTo(x)' = IssuedTo(x)
  BY PromisesGoOn
<1>7. /\ todo.now = {}
      /\ todo.now' = {PutRevoked(t)}
      /\ todo.pool' = {}
      /\ UNCHANGED todo.last
      /\ Left' \subseteq Left
      /\ Left \ {t} \subseteq Left'
  BY DEF MakesRevocation
<1>8. DOMAIN Entries' = DOMAIN Entries /\ Entries'[t].userId = u
  <2>1. DOMAIN Entries' = DOMAIN Entries
    BY <1>1, <1>5
  <2>2. Entries'[t].userId = u
    BY <1>5
  <2> QED
    BY <2>1, <2>2
<1>9. Usable' = Usable \ {t}
  BY <1>5, <1>8 DEF Usable
<1>10. TypeOK'
  BY <1>5, TypeGoesOn DEF Inv
<1>11. StoresAgree'
  <2>1. \A x \in DOMAIN Entries' : x \in DOMAIN owner' /\ Entries'[x].userId = owner'[x]
    BY <1>1, <1>3, <1>5, <1>6, <1>8 DEF Inv, StoresAgree
  <2> QED
    BY <1>5, <1>6, <2>1 DEF Inv, StoresAgree
<1>12. TokensKept'
  <2>1. DeadTokensStayDead' /\ AnsweredTokensSurvive' /\ HistoryOfTheDead'
    BY <1>1, <1>5, <1>6, <1>9 DEF Inv, TokensKept, DeadTokensStayDead, AnsweredTokensSurvive, HistoryOfTheDead
  <2>2. NoOrphanTokens'
    BY <1>5, <1>6, <1>9 DEF Inv, TokensKept, NoOrphanTokens, Usable
  <2>3. ListsNameTokens'
    BY <1>5, <1>6, <1>8 DEF Inv, TokensKept, ListsNameTokens
  <2>4. (call.kills \cap Usable)' \subseteq Left'
    BY <1>6, <1>7, <1>9 DEF Inv, TokensKept
  <2>5. Left' \subseteq (call.kills \cap DOMAIN Entries)'
    BY <1>6, <1>7, <1>8 DEF Inv, TokensKept
  <2> QED
    BY <1>2, <1>6, <2>1, <2>2, <2>3, <2>4, <2>5 DEF Inv, TokensKept
<1>13. MembershipsKept'
  <2>1. /\ \A g : ~MarksGroup(g)
        /\ \A x : MarksUser(x)' = MarksUser(x)
    BY <1>7 DEF MarksGroup, MarksUser
  <2>2. \A x, g : Listed(x, g)' = Listed(x, g) /\ Carried(x, g)' = Carried(x, g)
    BY <1>5 DEF Listed, Carried
  <2> QED
    BY <1>5, <1>6, <2>1, <2>2 DEF Inv, MembershipsKept, AddedAreIn, RemovedAreOut
<1>14. WritesKeep'
  <2>1. ASSUME NEW v \in todo.last, AccountKept(v) PROVE AccountKept(v)'
    BY <1>6, <1>8, <2>1, AccountStaysKept
  <2>2. ASSUME NEW v \in todo.last, AccountGone(v) PROVE AccountGone(v)'
    <3>1. \A x \in Usable' : x \in Usable /\ Entries'[x] = Entries[x] /\ (x \in Left => x \in Left')
      BY <1>5, <1>7, <1>9 DEF Usable
    <3> QED
      BY <1>6, <2>2, <3>1, AccountStaysGone
  <2>3. Record(PutRevoked(t))'
    BY <1>1, <1>8, <1>9 DEF Record
  <2> QED
    BY <1>7, <2>1, <2>2, <2>3 DEF Inv, WritesKeep
<1> QED
  BY <1>10, <1>11, <1>12, <1>13, <1>14 DEF Inv

\* An account of a pool that is deleted: its tokens are known to be left behind.
LEMMA PoolStep ==
  ASSUME Inv, NEW u \in todo.pool, LeavesPool(u), HandlerGoesOn
  PROVE  Inv'
<1>1. /\ todo.now = {}
      /\ Left = {}
      /\ todo.now' = {}
      /\ Left' = {}
      /\ todo.pool' \subseteq todo.pool
      /\ UNCHANGED todo.last
      /\ \A x \in todo.pool : PoolLeaves(x)
      /\ u \in Users
  BY DEF LeavesPool, Inv, TypeOK, WritesKeep
<1>2. /\ disk' = mem'
      /\ StoreOK(mem')
      /\ DOMAIN Accounts' = DOMAIN Accounts \ {u}
      /\ \A x \in DOMAIN Accounts : x # u => Accounts'[x] = Accounts[x]
      /\ UNCHANGED <<Entries, RevokedTokens, Groups>>
  BY <1>1, UserDropped DEF LeavesPool, Inv, TypeOK, StoresAgree
<1>3. /\ UNCHANGED <<In, Out, call, owner, answered, threatened, expired, abandoned, dead, added, removed, lost>>
      /\ \A x : IssuedTo(x)' = IssuedTo(x)
  BY PromisesGoOn
<1>4. UNCHANGED Usable
  BY <1>2 DEF Usable
<1>5. /\ TokensOf(u) \cap Usable \subseteq abandoned
      /\ In \cap PromisesTo(u) = {}
      /\ Out \cap Seeded \cap PromisesTo(u) = {}
  BY <1>1 DEF PoolLeaves
<1>6. TypeOK'
  BY <1>2, TypeGoesOn DEF Inv
<1>7. StoresAgree'
  BY <1>2, <1>3 DEF Inv, StoresAgree
<1>8. TokensKept'
  <2>1. DeadTokensStayDead' /\ AnsweredTokensSurvive' /\ HistoryOfTheDead'
    BY <1>2, <1>3, <1>4 DEF Inv, TokensKept, DeadTokensStayDead, AnsweredTokensSurvive, HistoryOfTheDead
  <2>2. NoOrphanTokens'
    BY <1>2, <1>3, <1>4, <1>5 DEF Inv, TokensKept, NoOrphanTokens, TokensOf, Usable
  <2>3. ListsNameTokens'
    BY <1>2, <1>3 DEF Inv, TokensKept, ListsNameTokens
  <2>4. call.issues \subseteq Usable /\ call.kills \cap Usable \subseteq Left
    BY <1>1 DEF Inv, TokensKept
  <2> QED
    BY <1>1, <1>2, <1>3, <1>4, <2>1, <2>2, <2>3, <2>4 DEF Inv, TokensKept
<1>9. MembershipsKept'
  <2>1. /\ \A g : ~MarksGroup(g)
        /\ \A x : MarksUser(x)' = MarksUser(x)
    BY <1>1 DEF MarksGroup, MarksUser
  <2>2. \A x, g : Listed(x, g)' = Listed(x, g)
    BY <1>2 DEF Listed
  <2>3. \A g \in GroupNames : <<u, g>> \notin In /\ ~Carried(u, g)'
    BY <1>1, <1>2, <1>5 DEF PromisesTo, Pairs, Carried
  <2>4. \A x \in Users, g \in GroupNames : x # u => Carried(x, g)' = Carried(x, g)
    BY <1>2 DEF Carried
  <2>5. UsersHold
    BY <2>3, <2>4 DEF UsersHold
  <2>6. AddedAreIn' /\ RemovedAreOut'
    BY <1>3, <2>2, <2>5 DEF Inv, TypeOK, Pairs, MembershipsKept, AddedAreIn, RemovedAreOut, UsersHold, In, Out
  <2>7. ASSUME NEW x \in Users, NEW g \in GroupNames, <<x, g>> \in call.adds
        PROVE  Listed(x, g)' /\ (Carried(x, g)' \/ MarksUser(x)')
    BY <2>1, <2>2, <2>5, <2>7 DEF Inv, MembershipsKept, UsersHold, In
  <2>8. ASSUME NEW x \in Users, NEW g \in GroupNames, <<x, g>> \in call.removes
        PROVE  ~Listed(x, g)' /\ (~Carried(x, g)' \/ MarksUser(x)')
    BY <2>1, <2>2, <2>5, <2>8 DEF Inv, MembershipsKept, UsersHold, Out
  <2>9. \A x \in Users, g \in GroupNames : <<x, g>> \in Out \cap Seeded => x \in DOMAIN Accounts'
    BY <1>1, <1>2, <1>5 DEF Inv, MembershipsKept, PromisesTo, Pairs
  <2> QED
    BY <1>3, <2>6, <2>7, <2>8, <2>9 DEF MembershipsKept, Seeded
<1>10. WritesKeep'
  <2>1. ASSUME NEW v \in todo.last, AccountKept(v) PROVE AccountKept(v)'
    BY <1>2, <1>3, <2>1, AccountStaysKept
  <2>2. ASSUME NEW v \in todo.last, AccountGone(v) PROVE AccountGone(v)'
    BY <1>1, <1>2, <1>3, <1>4, <2>2, AccountStaysGone
  <2>3. ASSUME NEW x \in todo.pool' PROVE PoolLeaves(x)'
    <3>1. PoolLeaves(x)
      BY <1>1
    <3> QED
      BY <1>2, <1>3, <1>4, <3>1 DEF PoolLeaves, TokensOf, PromisesTo, Seeded
  <2> QED
    BY <1>1, <2>1, <2>2, <2>3 DEF Inv, WritesKeep
<1> QED
  BY <1>6, <1>7, <1>8, <1>9, <1>10 DEF Inv

\* The last write: nothing is left of the call.
LEMMA LastStep ==
  ASSUME Inv, NEW w, AccountKept(w) \/ AccountGone(w), MakesLast(w), HandlerGoesOn
  PROVE  Inv'
<1>1. /\ todo.now = {}
      /\ Left = {}
      /\ todo.now' = {}
      /\ Left' = {}
      /\ todo.last' = {}
      /\ todo.pool' = {}
      /\ \A v \in todo.last : v = w
  BY DEF MakesLast, Inv, WritesKeep
<1>2. call.issues \subseteq Usable /\ call.kills \cap Usable \subseteq Left
  BY <1>1 DEF Inv, TokensKept
<1>3. /\ UNCHANGED <<In, Out, call, owner, answered, threatened, expired, abandoned, dead, added, removed, lost>>
      /\ \A x : IssuedTo(x)' = IssuedTo(x)
  BY PromisesGoOn
<1>4. /\ w.file = "users.json"
      /\ TypeOK'
      /\ StoresAgree'
      /\ UNCHANGED <<Entries, RevokedTokens, Groups, Usable>>
      /\ NoOrphanTokens'
      /\ ListsNameTokens'
      /\ UsersHold
      /\ \A g \in GroupNames : /\ <<w.key, g>> \in In => Carried(w.key, g)'
                               /\ <<w.key, g>> \in Out => ~Carried(w.key, g)'
      /\ \A u \in Users, g \in GroupNames :
           <<u, g>> \in Out \cap Seeded => u \in DOMAIN Accounts'
  <2>1. CASE AccountKept(w)
    <3>1. /\ w.file = "users.json"
          /\ TypeOK'
          /\ StoresAgree'
          /\ UNCHANGED <<Entries, RevokedTokens, Groups, Usable>>
          /\ DOMAIN Accounts \subseteq DOMAIN Accounts'
          /\ ListsNameTokens'
          /\ UsersHold
          /\ \A g \in GroupNames : /\ <<w.key, g>> \in In => Carried(w.key, g)'
                                   /\ <<w.key, g>> \in Out => ~Carried(w.key, g)'
      BY <1>2, <2>1, AccountStores DEF MakesLast
    <3>2. NoOrphanTokens'
      BY <1>3, <3>1 DEF Inv, TokensKept, NoOrphanTokens
    <3>3. \A u \in Users, g \in GroupNames :
            <<u, g>> \in Out \cap Seeded => u \in DOMAIN Accounts'
      BY <3>1 DEF Inv, MembershipsKept
    <3> QED
      BY <3>1, <3>2, <3>3
  <2>2. CASE AccountGone(w)
    <3>1. PICK u \in Users :
            /\ w = Drop("users.json", u)
            /\ TokensOf(u) \cap Usable \subseteq Left
            /\ In \cap PromisesTo(u) = {}
            /\ Out \cap Seeded \cap PromisesTo(u) = {}
      BY <2>2 DEF AccountGone
    <3>2. w.file = "users.json" /\ w.key = u
      BY <3>1 DEF Drop
    <3>3. /\ disk' = mem'
          /\ StoreOK(mem')
          /\ DOMAIN Accounts' = DOMAIN Accounts \ {u}
          /\ \A x \in DOMAIN Accounts : x # u => Accounts'[x] = Accounts[x]
          /\ UNCHANGED <<Entries, RevokedTokens, Groups>>
      BY <3>1, UserDropped DEF MakesLast, Inv, TypeOK, StoresAgree
    <3>4. TypeOK'
      BY <3>3, TypeGoesOn DEF Inv
    <3>5. UNCHANGED Usable
      BY <3>3 DEF Usable
    <3>6. StoresAgree'
      BY <1>3, <3>3 DEF Inv, StoresAgree
    <3>7. NoOrphanTokens'
      BY <1>1, <1>3, <3>1, <3>3, <3>5 DEF Inv, TokensKept, NoOrphanTokens, TokensOf, Usable
    <3>8. ListsNameTokens'
      BY <1>3, <3>3 DEF Inv, TokensKept, ListsNameTokens
    <3>9. \A g \in GroupNames : <<u, g>> \notin In /\ ~Carried(u, g)'
      BY <3>1, <3>3 DEF PromisesTo, Pairs, Carried
    <3>10. \A x \in Users, g \in GroupNames : x # u => Carried(x, g)' = Carried(x, g)
      BY <3>3 DEF Carried
    <3>11. UsersHold
      BY <3>9, <3>10 DEF UsersHold
    <3>12. \A x \in Users, g \in GroupNames :
             <<x, g>> \in Out \cap Seeded => x \in DOMAIN Accounts'
      BY <3>1, <3>3 DEF Inv, MembershipsKept, PromisesTo, Pairs
    <3> QED
      BY <3>2, <3>3, <3>4, <3>5, <3>6, <3>7, <3>8, <3>9, <3>11, <3>12
  <2> QED
    BY <2>1, <2>2
<1>5. TokensKept'
  <2>1. DeadTokensStayDead' /\ AnsweredTokensSurvive' /\ HistoryOfTheDead'
    BY <1>3, <1>4 DEF Inv, TokensKept, DeadTokensStayDead, AnsweredTokensSurvive, HistoryOfTheDead
  <2> QED
    BY <1>1, <1>2, <1>3, <1>4, <2>1 DEF Inv, TokensKept
<1>6. MembershipsKept'
  <2>1. /\ \A g : ~MarksGroup(g)
        /\ \A x : MarksUser(x) => x = w.key
    BY <1>1 DEF MarksGroup, MarksUser
  <2>2. \A x, g : Listed(x, g)' = Listed(x, g)
    BY <1>4 DEF Listed
  <2>3. AddedAreIn' /\ RemovedAreOut'
    BY <1>3, <1>4, <2>2 DEF Inv, TypeOK, Pairs, MembershipsKept, AddedAreIn, RemovedAreOut, UsersHold, In, Out
  <2>4. ASSUME NEW u \in Users, NEW g \in GroupNames, <<u, g>> \in call.adds
        PROVE  Listed(u, g)' /\ Carried(u, g)'
    BY <1>4, <2>1, <2>2, <2>4 DEF Inv, MembershipsKept, UsersHold, In
  <2>5. ASSUME NEW u \in Users, NEW g \in GroupNames, <<u, g>> \in call.removes
        PROVE  ~Listed(u, g)' /\ ~Carried(u, g)'
    BY <1>4, <2>1, <2>2, <2>5 DEF Inv, MembershipsKept, UsersHold, Out
  <2> QED
    BY <1>3, <1>4, <2>3, <2>4, <2>5 DEF MembershipsKept
<1>7. WritesKeep'
  BY <1>1 DEF WritesKeep
<1> QED
  BY <1>4, <1>5, <1>6, <1>7 DEF Inv

LEMMA WriteStep == Inv /\ Write => Inv'
<1> SUFFICES ASSUME Inv, Write PROVE Inv'
  OBVIOUS
<1>1. /\ \/ \E w \in todo.now : MakesNow(w)
         \/ \E t \in Left : MakesRevocation(t)
         \/ \E u \in todo.pool : LeavesPool(u)
         \/ \E w \in todo.last : MakesLast(w)
      /\ HandlerGoesOn
  BY TheStep DEF Inv
<1>2. ASSUME NEW w \in todo.now, MakesNow(w) PROVE Inv'
  <2>1. \/ FirstEntry(w) \/ Record(w) \/ EntryGone(w)
        \/ AccountKept(w) \/ GroupKept(w) \/ GroupGone(w)
    BY DEF Inv, WritesKeep
  <2> QED
    BY <1>1, <1>2, <2>1, FirstEntryStep, RecordStep, EntryGoneStep, AccountStep, GroupStep
<1>3. ASSUME NEW t \in Left, MakesRevocation(t) PROVE Inv'
  BY <1>1, <1>3, RevocationStep
<1>4. ASSUME NEW w \in todo.last, MakesLast(w) PROVE Inv'
  <2>1. AccountKept(w) \/ AccountGone(w)
    BY DEF Inv, WritesKeep
  <2> QED
    BY <1>1, <1>4, <2>1, LastStep
<1>5. ASSUME NEW u \in todo.pool, LeavesPool(u) PROVE Inv'
  BY <1>1, <1>5, PoolStep
<1> QED
  BY <1>1, <1>2, <1>3, <1>4, <1>5

-----------------------------------------------------------------------------
(* The start of a handler.                                                  *)

\* Tokens are issued, and promises are taken back.
HistoryGrows ==
  /\ Map(owner', Tokens, Users)
  /\ \A t \in DOMAIN owner : t \in DOMAIN owner' /\ owner'[t] = owner[t]
  /\ added' \subseteq added
  /\ removed' \subseteq removed

LEMMA Started ==
  ASSUME Inv, NEW writes, NEW effects, Starts(writes, effects)
  PROVE  /\ todo' = writes
         /\ call' = [effects EXCEPT !.running = TRUE]
         /\ threatened' = threatened \cup effects.kills
         /\ expired' = expired \cup effects.expires
         /\ abandoned' = abandoned \cup effects.abandons
         /\ expired \subseteq expired'
         /\ UNCHANGED <<mem, disk, answered, dead, lost>>
         /\ UNCHANGED <<Entries, RevokedTokens, Accounts, Groups, Usable>>
         /\ \A u, g : Listed(u, g)' = Listed(u, g) /\ Carried(u, g)' = Carried(u, g)
<1>1. UNCHANGED <<Entries, RevokedTokens, Accounts, Groups>>
  BY DEF Starts, Entries, RevokedTokens, Accounts, Groups
<1> QED
  BY <1>1 DEF Starts, Usable, Listed, Carried

LEMMA StartsWell ==
  ASSUME Inv, NEW writes, NEW effects, Starts(writes, effects), HistoryGrows,
         DOMAIN writes = DOMAIN Nothing,
         effects \in Effects,
         effects.kills \cup effects.expires \cup effects.abandons \subseteq DOMAIN owner',
         effects.issues = {} \/ effects.kills = {},
         (\A w \in writes.now : w.file # "refresh-tokens.json") =>
            /\ effects.issues \subseteq Usable
            /\ effects.kills \cap Usable \subseteq writes.listed \cup writes.found,
         writes.listed \cup writes.found \subseteq effects.kills \cap DOMAIN Entries,
         writes.pool \subseteq Users,
         MembershipsKept', WritesKeep'
  PROVE  Inv'
<1>1. /\ todo' = writes
      /\ threatened' = threatened \cup effects.kills
      /\ expired' = expired \cup effects.expires
      /\ abandoned' = abandoned \cup effects.abandons
      /\ UNCHANGED <<mem, disk, answered, dead, lost>>
      /\ UNCHANGED <<Entries, RevokedTokens, Accounts, Groups, Usable>>
  BY Started
<1>2. /\ call.issues' = effects.issues
      /\ call.kills' = effects.kills
      /\ call.running'
      /\ call' \in Effects
  <2>1. call' = [effects EXCEPT !.running = TRUE]
    BY Started
  <2> QED
    BY <2>1 DEF Effects
<1>3. Left' = writes.listed \cup writes.found
  BY <1>1 DEF Left
<1>4. DOMAIN owner \subseteq DOMAIN owner' /\ \A u : IssuedTo(u) \subseteq IssuedTo(u)'
  BY DEF HistoryGrows, IssuedTo
<1>5. TypeOK'
  <2>1. StoreOK(mem') /\ StoreOK(disk')
    BY <1>1 DEF Inv, TypeOK
  <2>2. effects.kills \subseteq Tokens
    BY DEF Effects
  <2>3. todo.listed' \cup todo.found' \subseteq Tokens /\ todo.pool' \subseteq Users
    BY <1>1, <2>2
  <2>4. answered' \cup threatened' \cup expired' \cup abandoned' \cup dead' \subseteq DOMAIN owner'
    BY <1>1, <1>4 DEF Inv, TypeOK
  <2> QED
    BY <1>1, <1>2, <2>1, <2>3, <2>4 DEF Inv, TypeOK, HistoryGrows
<1>6. StoresAgree'
  BY <1>1, <1>4 DEF Inv, StoresAgree, HistoryGrows
<1>7. TokensKept'
  <2>1. /\ DeadTokensStayDead' /\ AnsweredTokensSurvive' /\ HistoryOfTheDead'
        /\ NoOrphanTokens' /\ ListsNameTokens'
    BY <1>1 DEF Inv, TokensKept, DeadTokensStayDead, AnsweredTokensSurvive, HistoryOfTheDead,
                NoOrphanTokens, ListsNameTokens
  <2> QED
    BY <1>1, <1>2, <1>3, <2>1 DEF TokensKept
<1> QED
  BY <1>5, <1>6, <1>7 DEF Inv

\* A call about tokens leaves the memberships.
LEMMA MembershipsAsTheyWere ==
  ASSUME Inv, NEW writes, NEW effects, Starts(writes, effects), HistoryGrows,
         DOMAIN effects = DOMAIN Idle, effects.adds = {}, effects.removes = {}
  PROVE  /\ MembershipsKept'
         /\ In' = added'
         /\ Out' = removed'
         /\ In' \subseteq In
         /\ Out' \subseteq Out
<1>1. call.adds' = {} /\ call.removes' = {}
  BY Started DEF Idle
<1>2. In' = added' /\ Out' = removed' /\ In' \subseteq In /\ Out' \subseteq Out
  BY <1>1 DEF In, Out, HistoryGrows
<1>3. /\ UNCHANGED Accounts
      /\ \A u, g : Listed(u, g)' = Listed(u, g) /\ Carried(u, g)' = Carried(u, g)
  BY Started
<1>4. AddedAreIn' /\ RemovedAreOut'
  BY <1>3 DEF Inv, MembershipsKept, AddedAreIn, RemovedAreOut, HistoryGrows
<1> QED
  BY <1>1, <1>2, <1>3, <1>4 DEF Inv, MembershipsKept, Seeded

\* What an account carries is what it is promised.
LEMMA GroupsAsPromised ==
  ASSUME Inv, NEW u \in DOMAIN Accounts, NEW g \in GroupNames
  PROVE  /\ <<u, g>> \in added => g \in Accounts[u].groups
         /\ <<u, g>> \in removed => g \notin Accounts[u].groups
BY DEF Inv, MembershipsKept, AddedAreIn, RemovedAreOut, Carried

LEMMA AccountsTyped ==
  ASSUME Inv, NEW u \in DOMAIN Accounts
  PROVE  /\ u \in Users
         /\ Accounts[u].tokens \in SUBSET Tokens
         /\ Accounts[u].groups \in SUBSET GroupNames
         /\ Accounts[u].tokens \subseteq IssuedTo(u)
<1>1. DOMAIN Accounts \subseteq Users /\ Accounts \in [DOMAIN Accounts -> Account]
  BY DEF Inv, TypeOK, StoreOK, Map, Accounts
<1> QED
  BY <1>1 DEF Account, Inv, StoresAgree

\* An account written with the groups it has.
LEMMA AccountAsItWas ==
  ASSUME Inv, NEW u \in DOMAIN Accounts, NEW tokens, NEW w,
         w = PutUser(u, tokens, Accounts[u].groups),
         HistoryGrows, In' = added', Out' = removed',
         UNCHANGED <<Entries, lost>>, expired \subseteq expired',
         tokens \subseteq Accounts[u].tokens \cup (call.issues' \cap IssuedTo(u)'),
         call.issues' \subseteq Tokens
  PROVE  AccountKept(w)'
<1>1. PICK groups : groups = Accounts[u].groups
  OBVIOUS
<1>2. /\ u \in Users
      /\ tokens \in SUBSET Tokens
      /\ groups \in SUBSET GroupNames
      /\ Accounts[u].tokens \subseteq IssuedTo(u)
  BY <1>1, AccountsTyped
<1>3. tokens \subseteq IssuedTo(u)'
  BY <1>2 DEF IssuedTo, HistoryGrows
<1>4. "refresh-tokens.json" \notin lost' => tokens \subseteq DOMAIN Entries' \cup call.issues' \cup expired'
  BY DEF Inv, TokensKept, ListsNameTokens
<1>5. \A g \in GroupNames : <<u, g>> \in In' => g \in groups
  BY <1>1, GroupsAsPromised DEF HistoryGrows
<1>6. \A g \in GroupNames : <<u, g>> \in Out' => g \notin groups
  BY <1>1, GroupsAsPromised DEF HistoryGrows
<1>7. w = PutUser(u, tokens, groups)
  BY <1>1
<1> QED
  BY <1>2, <1>3, <1>4, <1>5, <1>6, <1>7 DEF AccountKept

-----------------------------------------------------------------------------
(* The handlers.                                                            *)

LEMMA OwnersKept ==
  ASSUME Inv, UNCHANGED owner, added' \subseteq added, removed' \subseteq removed
  PROVE  HistoryGrows
BY DEF Inv, TypeOK, HistoryGrows

LEMMA CreateUserStep == ASSUME Inv, NEW u \in Users, CreateUser(u) PROVE Inv'
<1>1. PICK w : w = PutUser(u, {}, {})
  OBVIOUS
<1>2. PICK writes : writes = [Nothing EXCEPT !.now = {w}]
  OBVIOUS
<1>3. Starts(writes, Idle) /\ UNCHANGED <<owner, removed>> /\ added' = added \ PromisesTo(u)
  BY <1>1, <1>2 DEF CreateUser
<1>4. HistoryGrows
  BY <1>3, OwnersKept
<1>5. /\ DOMAIN writes = DOMAIN Nothing
      /\ writes.now = {w} /\ writes.listed = {} /\ writes.found = {} /\ writes.pool = {} /\ writes.last = {}
  BY <1>2 DEF Nothing
<1>6. /\ DOMAIN Idle = DOMAIN Idle
      /\ Idle.issues = {} /\ Idle.kills = {} /\ Idle.expires = {} /\ Idle.abandons = {}
      /\ Idle.adds = {} /\ Idle.removes = {}
      /\ Idle \in Effects
  BY DEF Idle, Effects
<1>7. MembershipsKept' /\ In' = added' /\ Out' = removed'
  BY <1>3, <1>4, <1>6, MembershipsAsTheyWere
<1>8. AccountKept(w)'
  <2>1. \A g \in GroupNames : <<u, g>> \notin added'
    BY <1>3 DEF PromisesTo, Pairs
  <2> QED
    BY <1>1, <1>7, <2>1 DEF AccountKept
<1>9. WritesKeep'
  BY <1>3, <1>5, <1>8, Started DEF WritesKeep
<1> QED
  BY <1>3, <1>4, <1>5, <1>6, <1>7, <1>9, StartsWell

\* What a call about tokens says it will have done.
LEMMA TokenEffects ==
  ASSUME NEW T \in SUBSET Tokens
  PROVE  /\ LET e == [Idle EXCEPT !.issues = T]
            IN  /\ e \in Effects
                /\ DOMAIN e = DOMAIN Idle
                /\ e.issues = T /\ e.kills = {} /\ e.expires = {} /\ e.abandons = {}
                /\ e.adds = {} /\ e.removes = {}
         /\ LET e == [Idle EXCEPT !.kills = T]
            IN  /\ e \in Effects
                /\ DOMAIN e = DOMAIN Idle
                /\ e.issues = {} /\ e.kills = T /\ e.expires = {} /\ e.abandons = {}
                /\ e.adds = {} /\ e.removes = {}
BY DEF Idle, Effects

\* A new token belongs to its user, and is recorded nowhere.
LEMMA Issued ==
  ASSUME Inv, NEW u \in Users, NEW t \in Tokens, t \notin DOMAIN owner,
         owner' = Set(owner, t, u), UNCHANGED <<added, removed>>
  PROVE  /\ HistoryGrows
         /\ t \in DOMAIN owner' /\ owner'[t] = u
         /\ t \notin RevokedTokens \cup dead
<1>1. Map(owner', Tokens, Users)
  BY SetMap DEF Inv, TypeOK
<1>2. /\ \A x \in DOMAIN owner : x \in DOMAIN owner' /\ owner'[x] = owner[x]
      /\ t \in DOMAIN owner' /\ owner'[t] = u
  BY DEF Set
<1>3. t \notin RevokedTokens \cup dead
  BY DEF Inv, TypeOK, StoresAgree
<1> QED
  BY <1>1, <1>2, <1>3 DEF HistoryGrows

\* Both sign-ins, the token endpoint's being the one without a last write.
LEMMA SignInStarts ==
  ASSUME Inv, NEW u \in Users, NEW t \in Tokens, NEW w, NEW last,
         u \in DOMAIN Accounts, t \notin DOMAIN owner,
         w = PutEntry(t, u, FALSE),
         last \subseteq {PutUser(u, Accounts[u].tokens \cup {t}, Accounts[u].groups)},
         NEW writes, DOMAIN writes = DOMAIN Nothing,
         writes.now = {w}, writes.listed = {}, writes.found = {}, writes.pool = {}, writes.last = last,
         Starts(writes, [Idle EXCEPT !.issues = {t}]),
         owner' = Set(owner, t, u), UNCHANGED <<added, removed>>
  PROVE  Inv'
<1>1. PICK effects : effects = [Idle EXCEPT !.issues = {t}]
  OBVIOUS
<1>2. /\ effects \in Effects
      /\ DOMAIN effects = DOMAIN Idle
      /\ effects.issues = {t} /\ effects.kills = {} /\ effects.expires = {} /\ effects.abandons = {}
      /\ effects.adds = {} /\ effects.removes = {}
  BY <1>1, TokenEffects
<1>3. Starts(writes, effects)
  BY <1>1
<1>4. /\ HistoryGrows
      /\ t \in DOMAIN owner' /\ owner'[t] = u
      /\ t \notin RevokedTokens \cup dead
  BY Issued
<1>5. MembershipsKept' /\ In' = added' /\ Out' = removed'
  BY <1>2, <1>3, <1>4, MembershipsAsTheyWere
<1>6. /\ todo' = writes
      /\ call.issues' = {t}
      /\ UNCHANGED <<Entries, Accounts, RevokedTokens, dead, lost>>
      /\ expired \subseteq expired'
  BY <1>2, <1>3, Started DEF Idle
<1>7. FirstEntry(w)'
  BY <1>4, <1>6 DEF FirstEntry
<1>8. ASSUME NEW v \in last PROVE AccountKept(v)'
  <2>1. PICK tokens : tokens = Accounts[u].tokens \cup {t}
    OBVIOUS
  <2>2. v = PutUser(u, tokens, Accounts[u].groups)
    BY <2>1
  <2>3. tokens \subseteq Accounts[u].tokens \cup (call.issues' \cap IssuedTo(u)')
    BY <1>4, <1>6, <2>1 DEF IssuedTo
  <2> QED
    BY <1>4, <1>5, <1>6, <2>2, <2>3, AccountAsItWas
<1>9. \A v, x \in last : v = x
  OBVIOUS
<1>10. WritesKeep'
  BY <1>6, <1>7, <1>8, <1>9 DEF WritesKeep
<1>11. w.file = "refresh-tokens.json"
  BY DEF PutEntry, Put
<1> QED
  BY <1>2, <1>3, <1>4, <1>5, <1>10, <1>11, StartsWell

LEMMA SignInStep ==
  ASSUME Inv, NEW u \in Users, NEW t \in Tokens, SignIn(u, t) \/ OidcSignIn(u, t)
  PROVE  Inv'
<1>1. CASE SignIn(u, t)
  <2>1. PICK w : w = PutEntry(t, u, FALSE)
    OBVIOUS
  <2>2. PICK last : last = {PutUser(u, Accounts[u].tokens \cup {t}, Accounts[u].groups)}
    OBVIOUS
  <2>3. PICK writes : writes = [Nothing EXCEPT !.now = {w}, !.last = last]
    OBVIOUS
  <2>4. /\ DOMAIN writes = DOMAIN Nothing
        /\ writes.now = {w} /\ writes.listed = {} /\ writes.found = {} /\ writes.pool = {} /\ writes.last = last
    BY <2>3 DEF Nothing
  <2>5. Starts(writes, [Idle EXCEPT !.issues = {t}])
    BY <1>1, <2>1, <2>2, <2>3 DEF SignIn
  <2> QED
    BY <1>1, <2>1, <2>2, <2>4, <2>5, SignInStarts DEF SignIn
<1>2. CASE OidcSignIn(u, t)
  <2>1. PICK w : w = PutEntry(t, u, FALSE)
    OBVIOUS
  <2>2. PICK writes : writes = [Nothing EXCEPT !.now = {w}]
    OBVIOUS
  <2>3. /\ DOMAIN writes = DOMAIN Nothing
        /\ writes.now = {w} /\ writes.listed = {} /\ writes.found = {} /\ writes.pool = {} /\ writes.last = {}
    BY <2>2 DEF Nothing
  <2>4. Starts(writes, [Idle EXCEPT !.issues = {t}])
    BY <1>2, <2>1, <2>2 DEF OidcSignIn
  <2> QED
    BY <1>2, <2>1, <2>3, <2>4, SignInStarts DEF OidcSignIn
<1> QED
  BY <1>1, <1>2

\* A sign-out, a disabling or a deletion: every token of the user that is usable
\* is found.
LEMMA SignOutStarts ==
  ASSUME Inv, NEW u \in Users, u \in DOMAIN Accounts,
         NEW writes, DOMAIN writes = DOMAIN Nothing,
         writes.now \subseteq {PutUser(u, {}, Accounts[u].groups)},
         writes.listed \subseteq Accounts[u].tokens \cap DOMAIN Entries,
         writes.found = TokensOf(u), writes.pool = {},
         Starts(writes, [Idle EXCEPT !.kills = IssuedTo(u)]),
         UNCHANGED owner, added' \subseteq added, removed' \subseteq removed,
         \/ writes.last \subseteq {PutUser(u, {}, Accounts[u].groups)}
         \/ /\ writes.last = {Drop("users.json", u)}
            /\ added' \cap PromisesTo(u) = {}
            /\ removed' \cap Seeded \cap PromisesTo(u) = {}
  PROVE  Inv'
<1>1. PICK effects : effects = [Idle EXCEPT !.kills = IssuedTo(u)]
  OBVIOUS
<1>2. IssuedTo(u) \subseteq DOMAIN owner /\ IssuedTo(u) \in SUBSET Tokens
  BY DEF IssuedTo, Inv, TypeOK, Map
<1>3. /\ effects \in Effects
      /\ DOMAIN effects = DOMAIN Idle
      /\ effects.issues = {} /\ effects.kills = IssuedTo(u) /\ effects.expires = {} /\ effects.abandons = {}
      /\ effects.adds = {} /\ effects.removes = {}
  BY <1>1, <1>2, TokenEffects
<1>4. Starts(writes, effects)
  BY <1>1
<1>5. HistoryGrows
  BY OwnersKept
<1>6. MembershipsKept' /\ In' = added' /\ Out' = removed'
  BY <1>3, <1>4, <1>5, MembershipsAsTheyWere
<1>7. /\ todo' = writes
      /\ call.issues' = {}
      /\ UNCHANGED <<Entries, Accounts, Usable, lost>>
      /\ expired \subseteq expired'
  BY <1>3, <1>4, Started DEF Idle
<1>8. TokensOf(u) \subseteq IssuedTo(u) \cap DOMAIN Entries
  BY DEF TokensOf, IssuedTo, Inv, StoresAgree
<1>9. Accounts[u].tokens \subseteq IssuedTo(u)
  BY DEF Inv, StoresAgree
<1>10. IssuedTo(u) \cap Usable \subseteq TokensOf(u)
  BY DEF IssuedTo, Usable, TokensOf, Inv, StoresAgree
<1>11. ASSUME NEW w \in writes.now PROVE AccountKept(w)' /\ w.file = "users.json"
  <2>1. w = PutUser(u, {}, Accounts[u].groups)
    OBVIOUS
  <2>2. w.file = "users.json"
    BY <2>1 DEF PutUser, Put
  <2> QED
    BY <1>5, <1>6, <1>7, <2>1, <2>2, AccountAsItWas
<1>12. ASSUME NEW w \in writes.last PROVE AccountKept(w)' \/ AccountGone(w)'
  <2>1. CASE w = PutUser(u, {}, Accounts[u].groups)
    BY <1>5, <1>6, <1>7, <2>1, AccountAsItWas
  <2>2. CASE /\ w = Drop("users.json", u)
             /\ added' \cap PromisesTo(u) = {}
             /\ removed' \cap Seeded \cap PromisesTo(u) = {}
    <3>1. (TokensOf(u) \cap Usable)' \subseteq Left'
      BY <1>7 DEF TokensOf, Left
    <3> QED
      BY <1>6, <1>7, <2>2, <3>1 DEF AccountGone, Seeded, PromisesTo
  <2> QED
    BY <2>1, <2>2
<1>13. WritesKeep'
  <2>1. /\ \A v, w \in writes.now : v = w
        /\ \A v, w \in writes.last : v = w
    OBVIOUS
  <2> QED
    BY <1>7, <1>11, <1>12, <2>1 DEF WritesKeep
<1> QED
  BY <1>2, <1>3, <1>4, <1>5, <1>6, <1>8, <1>9, <1>10, <1>13, StartsWell

LEMMA SignOutStep ==
  ASSUME Inv, NEW u \in Users,
         GlobalSignOut(u) \/ AdminDisableUser(u) \/ AdminDeleteUser(u) \/ DeleteUser(u)
  PROVE  Inv'
<1>1. CASE GlobalSignOut(u)
  <2>1. PICK writes : writes = SignOutWrites(u, {})
    OBVIOUS
  <2>2. /\ DOMAIN writes = DOMAIN Nothing
        /\ writes.now = {PutUser(u, {}, Accounts[u].groups)}
        /\ writes.listed = Accounts[u].tokens \cap DOMAIN Entries
        /\ writes.found = TokensOf(u)
        /\ writes.pool = {}
        /\ writes.last = {}
    BY <2>1 DEF SignOutWrites, Nothing
  <2>3. /\ u \in DOMAIN Accounts
        /\ Starts(writes, [Idle EXCEPT !.kills = IssuedTo(u)])
        /\ UNCHANGED <<owner, added, removed>>
    BY <1>1, <2>1 DEF GlobalSignOut
  <2> QED
    BY <2>2, <2>3, SignOutStarts
<1>2. ASSUME NEW writes, Deletes(u, writes), DOMAIN writes = DOMAIN Nothing,
             writes.now \subseteq {PutUser(u, {}, Accounts[u].groups)},
             writes.listed \subseteq Accounts[u].tokens \cap DOMAIN Entries,
             writes.found = TokensOf(u), writes.pool = {},
             writes.last = {Drop("users.json", u)}
      PROVE  Inv'
  <2>1. /\ u \in DOMAIN Accounts
        /\ Starts(writes, [Idle EXCEPT !.kills = IssuedTo(u)])
        /\ UNCHANGED owner
        /\ added' \subseteq added
        /\ removed' \subseteq removed
        /\ added' \cap PromisesTo(u) = {}
        /\ removed' \cap Seeded \cap PromisesTo(u) = {}
    BY <1>2 DEF Deletes
  <2> QED
    BY <1>2, <2>1, SignOutStarts
<1>3. CASE AdminDeleteUser(u)
  <2>1. PICK writes : writes = SignOutWrites(u, {Drop("users.json", u)})
    OBVIOUS
  <2>2. /\ DOMAIN writes = DOMAIN Nothing
        /\ writes.now = {PutUser(u, {}, Accounts[u].groups)}
        /\ writes.listed = Accounts[u].tokens \cap DOMAIN Entries
        /\ writes.found = TokensOf(u)
        /\ writes.pool = {}
        /\ writes.last = {Drop("users.json", u)}
    BY <2>1 DEF SignOutWrites, Nothing
  <2> QED
    BY <1>2, <1>3, <2>1, <2>2 DEF AdminDeleteUser
<1>4. CASE DeleteUser(u)
  <2>1. PICK writes :
          writes = [Nothing EXCEPT !.found = TokensOf(u), !.last = {Drop("users.json", u)}]
    OBVIOUS
  <2>2. /\ DOMAIN writes = DOMAIN Nothing
        /\ writes.now = {}
        /\ writes.listed = {}
        /\ writes.found = TokensOf(u)
        /\ writes.pool = {}
        /\ writes.last = {Drop("users.json", u)}
    BY <2>1 DEF Nothing
  <2> QED
    BY <1>2, <1>4, <2>1, <2>2 DEF DeleteUser
<1>5. CASE AdminDisableUser(u)
  <2>1. PICK last : last = {PutUser(u, {}, Accounts[u].groups)}
    OBVIOUS
  <2>2. PICK writes : writes = SignOutWrites(u, last)
    OBVIOUS
  <2>3. /\ DOMAIN writes = DOMAIN Nothing
        /\ writes.now = {PutUser(u, {}, Accounts[u].groups)}
        /\ writes.listed = Accounts[u].tokens \cap DOMAIN Entries
        /\ writes.found = TokensOf(u)
        /\ writes.pool = {}
        /\ writes.last = last
    BY <2>2 DEF SignOutWrites, Nothing
  <2>4. /\ u \in DOMAIN Accounts
        /\ Starts(writes, [Idle EXCEPT !.kills = IssuedTo(u)])
        /\ UNCHANGED <<owner, added, removed>>
    BY <1>5, <2>1, <2>2 DEF AdminDisableUser
  <2> QED
    BY <2>1, <2>3, <2>4, SignOutStarts
<1> QED
  BY <1>1, <1>3, <1>4, <1>5

LEMMA DeleteUserPoolStep ==
  ASSUME Inv, NEW pool \in UserPools, DeleteUserPool(pool)
  PROVE  Inv'
<1>1. PICK users : users = pool \cap DOMAIN Accounts
  OBVIOUS
<1>2. PICK left : left = UNION {TokensOf(u) : u \in users}
  OBVIOUS
<1>3. PICK promises : promises = UNION {PromisesTo(u) : u \in users}
  OBVIOUS
<1>4. PICK writes : writes = [Nothing EXCEPT !.pool = users]
  OBVIOUS
<1>5. PICK effects : effects = [Idle EXCEPT !.abandons = left]
  OBVIOUS
<1>6. /\ Starts(writes, effects)
      /\ added' = added \ promises
      /\ removed' = removed \ (promises \cap Seeded)
      /\ UNCHANGED owner
  BY <1>1, <1>2, <1>3, <1>4, <1>5 DEF DeleteUserPool
<1>7. users \subseteq Users
  BY <1>1
<1>8. left \subseteq DOMAIN owner /\ left \subseteq Tokens
  BY <1>2 DEF TokensOf, Inv, TypeOK, StoresAgree, Map
<1>9. /\ effects \in Effects
      /\ DOMAIN effects = DOMAIN Idle
      /\ effects.issues = {} /\ effects.kills = {} /\ effects.expires = {}
      /\ effects.abandons = left
      /\ effects.adds = {} /\ effects.removes = {}
  BY <1>5, <1>8 DEF Idle, Effects
<1>10. /\ DOMAIN writes = DOMAIN Nothing
       /\ writes.now = {} /\ writes.listed = {} /\ writes.found = {}
       /\ writes.pool = users /\ writes.last = {}
  BY <1>4 DEF Nothing
<1>11. HistoryGrows
  BY <1>6, OwnersKept
<1>12. MembershipsKept' /\ In' = added' /\ Out' = removed'
  BY <1>6, <1>9, <1>11, MembershipsAsTheyWere
<1>13. /\ todo' = writes
       /\ abandoned' = abandoned \cup left
       /\ UNCHANGED <<Entries, Usable>>
  BY <1>6, <1>9, Started
<1>14. ASSUME NEW u \in users PROVE PoolLeaves(u)'
  <2>1. TokensOf(u)' \subseteq abandoned'
    BY <1>2, <1>13 DEF TokensOf
  <2>2. PromisesTo(u) \subseteq promises
    BY <1>3
  <2>3. added' \cap PromisesTo(u) = {} /\ removed' \cap Seeded \cap PromisesTo(u) = {}
    BY <1>6, <2>2
  <2> QED
    BY <1>12, <2>1, <2>3 DEF PoolLeaves, PromisesTo, Seeded
<1>15. WritesKeep'
  <2>1. Left' = {}
    BY <1>10, <1>13 DEF Left
  <2> QED
    BY <1>10, <1>13, <1>14, <2>1 DEF WritesKeep
<1> QED
  BY <1>6, <1>7, <1>8, <1>9, <1>10, <1>11, <1>12, <1>15, StartsWell

LEMMA ExpireStep == ASSUME Inv, NEW t \in Tokens, Expire(t) PROVE Inv'
<1>1. PICK w : w = Drop("refresh-tokens.json", t)
  OBVIOUS
<1>2. PICK writes : writes = [Nothing EXCEPT !.now = {w}]
  OBVIOUS
<1>3. PICK effects : effects = [Idle EXCEPT !.kills = {t}, !.expires = {t}]
  OBVIOUS
<1>4. Starts(writes, effects) /\ UNCHANGED <<owner, added, removed>> /\ t \in Usable
  BY <1>1, <1>2, <1>3 DEF Expire
<1>5. t \in DOMAIN owner
  BY <1>4 DEF Usable, Inv, StoresAgree
<1>6. /\ effects \in Effects
      /\ DOMAIN effects = DOMAIN Idle
      /\ effects.issues = {} /\ effects.kills = {t} /\ effects.expires = {t}
      /\ effects.abandons = {} /\ effects.adds = {} /\ effects.removes = {}
  BY <1>3 DEF Idle, Effects
<1>7. /\ DOMAIN writes = DOMAIN Nothing
      /\ writes.now = {w} /\ writes.listed = {} /\ writes.found = {}
      /\ writes.pool = {} /\ writes.last = {}
  BY <1>2 DEF Nothing
<1>8. HistoryGrows
  BY <1>4, OwnersKept
<1>9. MembershipsKept' /\ In' = added' /\ Out' = removed'
  BY <1>4, <1>6, <1>8, MembershipsAsTheyWere
<1>10. /\ todo' = writes
       /\ call.issues' = {} /\ call.kills' = {t}
       /\ expired' = expired \cup {t}
  BY <1>4, <1>6, Started DEF Idle
<1>11. Left' = {}
  BY <1>7, <1>10 DEF Left
<1>12. EntryGone(w)'
  BY <1>1, <1>7, <1>10, <1>11 DEF EntryGone
<1>13. WritesKeep'
  BY <1>7, <1>10, <1>11, <1>12 DEF WritesKeep
<1>14. w.file = "refresh-tokens.json"
  BY <1>1 DEF Drop
<1> QED
  BY <1>4, <1>5, <1>6, <1>7, <1>8, <1>9, <1>13, <1>14, StartsWell

\* A revocation: the token is found if it is usable.
LEMMA RevocationStarts ==
  ASSUME Inv, NEW t \in Tokens, t \in DOMAIN owner,
         NEW writes, DOMAIN writes = DOMAIN Nothing,
         writes.now = {}, writes.listed = {}, writes.pool = {},
         writes.found \subseteq {t} \cap DOMAIN Entries,
         {t} \cap Usable \subseteq writes.found,
         NEW u,
         writes.last = {} \/ u \in DOMAIN Accounts,
         writes.last \subseteq {PutUser(u, Accounts[u].tokens \ {t}, Accounts[u].groups)},
         Starts(writes, [Idle EXCEPT !.kills = {t}]),
         UNCHANGED <<owner, added, removed>>
  PROVE  Inv'
<1>1. PICK effects : effects = [Idle EXCEPT !.kills = {t}]
  OBVIOUS
<1>2. /\ effects \in Effects
      /\ DOMAIN effects = DOMAIN Idle
      /\ effects.issues = {} /\ effects.kills = {t} /\ effects.expires = {} /\ effects.abandons = {}
      /\ effects.adds = {} /\ effects.removes = {}
  BY <1>1 DEF Idle, Effects
<1>3. Starts(writes, effects)
  BY <1>1
<1>4. HistoryGrows
  BY OwnersKept
<1>5. MembershipsKept' /\ In' = added' /\ Out' = removed'
  BY <1>2, <1>3, <1>4, MembershipsAsTheyWere
<1>6. /\ todo' = writes
      /\ call.issues' = {}
      /\ UNCHANGED <<Entries, Accounts, lost>>
  BY <1>2, <1>3, Started DEF Idle
<1>7. expired \subseteq expired'
  BY <1>3, Started
<1>8. ASSUME NEW w \in writes.last PROVE AccountKept(w)'
  <2>1. PICK tokens : tokens = Accounts[u].tokens \ {t}
    OBVIOUS
  <2>2. w = PutUser(u, tokens, Accounts[u].groups) /\ u \in DOMAIN Accounts
    BY <2>1
  <2> QED
    BY <1>4, <1>5, <1>6, <1>7, <2>1, <2>2, AccountAsItWas
<1>9. WritesKeep'
  <2>1. \A v, w \in writes.last : v = w
    OBVIOUS
  <2> QED
    BY <1>6, <1>8, <2>1 DEF WritesKeep
<1> QED
  BY <1>2, <1>3, <1>4, <1>5, <1>9, StartsWell

LEMMA RevokeStep ==
  ASSUME Inv, NEW t \in Tokens, RevokeToken(t) \/ OidcRevoke(t)
  PROVE  Inv'
<1>1. CASE RevokeToken(t)
  <2>1. PICK u : u = Entries[t].userId
    OBVIOUS
  <2>2. PICK forget :
          forget = IF u \in DOMAIN Accounts
                     THEN {PutUser(u, Accounts[u].tokens \ {t}, Accounts[u].groups)} ELSE {}
    OBVIOUS
  <2>3. PICK writes :
          writes = IF t \in Usable THEN [Nothing EXCEPT !.found = {t}, !.last = forget] ELSE Nothing
    OBVIOUS
  <2>4. Starts(writes, [Idle EXCEPT !.kills = {t}])
    BY <1>1, <2>1, <2>2, <2>3 DEF RevokeToken
  <2>5. /\ DOMAIN writes = DOMAIN Nothing
        /\ writes.now = {}
        /\ writes.listed = {}
        /\ writes.found = {t} \cap Usable
        /\ writes.pool = {}
        /\ writes.last = {} \/ writes.last = forget
    BY <2>3 DEF Nothing
  <2>6. writes.last \subseteq {PutUser(u, Accounts[u].tokens \ {t}, Accounts[u].groups)}
    BY <2>2, <2>5
  <2>7. writes.last = {} \/ u \in DOMAIN Accounts
    BY <2>2, <2>5
  <2>8. Usable \subseteq DOMAIN Entries
    BY DEF Usable
  <2> QED
    BY <1>1, <2>4, <2>5, <2>6, <2>7, <2>8, RevocationStarts DEF RevokeToken
<1>2. CASE OidcRevoke(t)
  <2>1. PICK writes : writes = [Nothing EXCEPT !.found = {t} \cap DOMAIN Entries]
    OBVIOUS
  <2>2. /\ DOMAIN writes = DOMAIN Nothing
        /\ writes.now = {}
        /\ writes.listed = {}
        /\ writes.found = {t} \cap DOMAIN Entries
        /\ writes.pool = {}
        /\ writes.last = {}
    BY <2>1 DEF Nothing
  <2>3. Starts(writes, [Idle EXCEPT !.kills = {t}])
    BY <1>2, <2>1 DEF OidcRevoke
  <2>4. Usable \subseteq DOMAIN Entries
    BY DEF Usable
  <2> QED
    BY <1>2, <2>2, <2>3, <2>4, RevocationStarts DEF OidcRevoke
<1> QED
  BY <1>1, <1>2

LEMMA GroupHandlerStep ==
  ASSUME Inv, NEW g \in GroupNames, CreateGroup(g) \/ DeleteGroup(g)
  PROVE  Inv'
<1>1. PICK w : w = IF g \in DOMAIN Groups THEN Drop("groups.json", g) ELSE PutGroup(g, {})
  OBVIOUS
<1>2. PICK writes : writes = [Nothing EXCEPT !.now = {w}]
  OBVIOUS
<1>3. /\ DOMAIN writes = DOMAIN Nothing
      /\ writes.now = {w} /\ writes.listed = {} /\ writes.found = {} /\ writes.pool = {} /\ writes.last = {}
  BY <1>2 DEF Nothing
<1>4. /\ Starts(writes, Idle)
      /\ UNCHANGED <<owner, removed>>
      /\ added' \subseteq added
      /\ g \in DOMAIN Groups => \A u \in Users : <<u, g>> \notin added'
  BY <1>1, <1>2 DEF CreateGroup, DeleteGroup
<1>5. HistoryGrows
  BY <1>4, OwnersKept
<1>6. /\ Idle.issues = {} /\ Idle.kills = {} /\ Idle.expires = {} /\ Idle.abandons = {}
      /\ Idle.adds = {} /\ Idle.removes = {}
      /\ Idle \in Effects
  BY DEF Idle, Effects
<1>7. MembershipsKept' /\ In' = added' /\ Out' = removed'
  BY <1>4, <1>5, <1>6, MembershipsAsTheyWere
<1>8. GroupKept(w)' \/ GroupGone(w)'
  <2>1. CASE g \in DOMAIN Groups
    BY <1>1, <1>4, <1>7, <2>1 DEF GroupGone
  <2>2. CASE g \notin DOMAIN Groups
    <3>1. \A u \in Users : <<u, g>> \notin added'
      BY <1>4, <2>2 DEF Inv, MembershipsKept, AddedAreIn, Listed
    <3> QED
      BY <1>1, <1>7, <2>2, <3>1 DEF GroupKept
  <2> QED
    BY <2>1, <2>2
<1>9. WritesKeep'
  BY <1>3, <1>4, <1>8, Started DEF WritesKeep
<1> QED
  BY <1>3, <1>4, <1>5, <1>6, <1>7, <1>9, StartsWell

\* What a group lists is what it promises.
LEMMA MembersAsPromised ==
  ASSUME Inv, NEW g \in DOMAIN Groups, NEW u \in Users
  PROVE  /\ g \in GroupNames
         /\ Groups[g] \in SUBSET Users
         /\ <<u, g>> \in added => u \in Groups[g]
         /\ <<u, g>> \in removed => u \notin Groups[g]
<1>1. DOMAIN Groups \subseteq GroupNames /\ Groups \in [DOMAIN Groups -> SUBSET Users]
  BY DEF Inv, TypeOK, StoreOK, Map, Groups
<1> QED
  BY <1>1 DEF Inv, MembershipsKept, AddedAreIn, RemovedAreOut, Listed

\* A call that changes the memberships of one user writes the two copies that
\* are not yet as they should be.
LEMMA MembershipStarts ==
  ASSUME Inv, NEW u \in Users, NEW g \in GroupNames, u \in DOMAIN Accounts, g \in DOMAIN Groups,
         NEW members \in SUBSET Users, NEW groups \in SUBSET GroupNames,
         \A x \in Users \ {u} : x \in members <=> x \in Groups[g],
         \A x \in GroupNames \ {g} : x \in groups <=> x \in Accounts[u].groups,
         NEW writes, writes = MembershipWrites(u, g, members, groups),
         NEW effects, Starts(writes, effects),
         effects \in Effects, effects.adds \cup effects.removes \subseteq {<<u, g>>},
         effects.issues = {}, effects.kills = {}, effects.expires = {}, effects.abandons = {},
         \/ /\ u \in members /\ g \in groups
            /\ <<u, g>> \notin removed' \cup effects.removes
         \/ /\ u \notin members /\ g \notin groups
            /\ <<u, g>> \notin added' \cup effects.adds,
         UNCHANGED owner, added' \subseteq added, removed' \subseteq removed
  PROVE  Inv'
<1>1. /\ DOMAIN writes = DOMAIN Nothing
      /\ writes.now \subseteq {PutGroup(g, members)}
      /\ writes.now = {} => members = Groups[g]
      /\ writes.listed = {} /\ writes.found = {} /\ writes.pool = {}
      /\ writes.last \subseteq {PutUser(u, Accounts[u].tokens, groups)}
      /\ writes.last = {} => groups = Accounts[u].groups
  BY DEF MembershipWrites, Nothing
<1> DEFINE pairs == {<<u, g>>}
<1>2. PICK adds \in SUBSET pairs, removes \in SUBSET pairs :
        adds = effects.adds /\ removes = effects.removes
  OBVIOUS
<1>4. HistoryGrows
  BY OwnersKept
<1>5. /\ todo' = writes
      /\ call.issues' = {} /\ call.adds' = adds /\ call.removes' = removes
      /\ UNCHANGED <<Entries, Accounts, Groups, lost>>
      /\ expired \subseteq expired'
      /\ \A x, y : Listed(x, y)' = Listed(x, y) /\ Carried(x, y)' = Carried(x, y)
  BY <1>2, Started DEF Effects
<1>6. In' = added' \cup adds /\ Out' = removed' \cup removes
  BY <1>5 DEF In, Out
<1>7. \A x \in Users, y \in GroupNames : <<x, y>> \in adds \cup removes => x = u /\ y = g
  BY <1>2
<1>8. \A x \in Users, y \in GroupNames : x # u \/ y # g =>
         /\ <<x, y>> \in In' => <<x, y>> \in added
         /\ <<x, y>> \in Out' => <<x, y>> \in removed
  BY <1>6, <1>7
<1>9. \/ u \in members /\ g \in groups /\ <<u, g>> \notin Out'
      \/ u \notin members /\ g \notin groups /\ <<u, g>> \notin In'
  BY <1>2, <1>6
<1>10. ASSUME NEW w \in writes.now
      PROVE  GroupKept(w)' /\ w.file = "groups.json" /\ w.key = g
  <2>1. w = PutGroup(g, members)
    BY <1>1
  <2>2. \A x \in Users : <<x, g>> \in In' => x \in members
    BY <1>8, <1>9, MembersAsPromised
  <2>3. \A x \in Users : <<x, g>> \in Out' => x \notin members
    BY <1>8, <1>9, MembersAsPromised
  <2>4. w.file = "groups.json" /\ w.key = g
    BY <2>1 DEF PutGroup, Put
  <2> QED
    BY <2>1, <2>2, <2>3, <2>4 DEF GroupKept
<1>11. ASSUME NEW w \in writes.last
      PROVE  AccountKept(w)' /\ w.file = "users.json" /\ w.key = u
  <2>1. PICK tokens : tokens = Accounts[u].tokens
    OBVIOUS
  <2>2. w = PutUser(u, tokens, groups)
    BY <1>1, <2>1
  <2>3. tokens \in SUBSET Tokens /\ tokens \subseteq IssuedTo(u)'
    BY <2>1, AccountsTyped DEF IssuedTo, HistoryGrows
  <2>4. "refresh-tokens.json" \notin lost' => tokens \subseteq DOMAIN Entries' \cup call.issues' \cup expired'
    BY <1>5, <2>1 DEF Inv, TokensKept, ListsNameTokens
  <2>5. \A x \in GroupNames : <<u, x>> \in In' => x \in groups
    BY <1>8, <1>9, GroupsAsPromised
  <2>6. \A x \in GroupNames : <<u, x>> \in Out' => x \notin groups
    BY <1>8, <1>9, GroupsAsPromised
  <2>7. w.file = "users.json" /\ w.key = u
    BY <2>2 DEF PutUser, Put
  <2> QED
    BY <2>2, <2>3, <2>4, <2>5, <2>6, <2>7 DEF AccountKept
<1>12. MembershipsKept'
  <2>1. AddedAreIn' /\ RemovedAreOut'
    BY <1>5 DEF Inv, MembershipsKept, AddedAreIn, RemovedAreOut
  <2>2. MarksGroup(g)' \/ members = Groups[g]
    BY <1>1, <1>5, <1>10 DEF MarksGroup
  <2>3. MarksUser(u)' \/ groups = Accounts[u].groups
    BY <1>1, <1>5, <1>11 DEF MarksUser
  <2>4. members = Groups[g] => (Listed(u, g)' <=> u \in members)
    BY <1>5 DEF Listed
  <2>5. groups = Accounts[u].groups => (Carried(u, g)' <=> g \in groups)
    BY <1>5 DEF Carried
  <2>6. \A x \in Users, y \in GroupNames : <<x, y>> \in call.adds' =>
          (Listed(x, y)' \/ MarksGroup(y)') /\ (Carried(x, y)' \/ MarksUser(x)')
    BY <1>5, <1>6, <1>7, <1>9, <2>2, <2>3, <2>4, <2>5
  <2>7. \A x \in Users, y \in GroupNames : <<x, y>> \in call.removes' =>
          (~Listed(x, y)' \/ MarksGroup(y)') /\ (~Carried(x, y)' \/ MarksUser(x)')
    BY <1>5, <1>6, <1>7, <1>9, <2>2, <2>3, <2>4, <2>5
  <2>8. \A x \in Users, y \in GroupNames : <<x, y>> \in Out' \cap Seeded => x \in DOMAIN Accounts'
    BY <1>5, <1>8 DEF Inv, MembershipsKept, Out
  <2> QED
    BY <2>1, <2>6, <2>7, <2>8 DEF MembershipsKept, Seeded
<1>13. WritesKeep'
  <2>1. /\ \A v, w \in writes.now : v = w
        /\ \A v, w \in writes.last : v = w
    BY <1>1
  <2> QED
    BY <1>1, <1>5, <1>10, <1>11, <2>1 DEF WritesKeep
<1> QED
  BY <1>1, <1>4, <1>12, <1>13, StartsWell

LEMMA MembershipStep ==
  ASSUME Inv, NEW u \in Users, NEW g \in GroupNames,
         AdminAddUserToGroup(u, g) \/ AdminRemoveUserFromGroup(u, g)
  PROVE  Inv'
<1>1. u \in DOMAIN Accounts /\ g \in DOMAIN Groups
  BY DEF AdminAddUserToGroup, AdminRemoveUserFromGroup
<1>2. Groups[g] \in SUBSET Users /\ Accounts[u].groups \in SUBSET GroupNames
  BY <1>1, MembersAsPromised, AccountsTyped
<1>3. CASE AdminAddUserToGroup(u, g)
  <2>1. PICK members, groups :
          members = Groups[g] \cup {u} /\ groups = Accounts[u].groups \cup {g}
    OBVIOUS
  <2>2. PICK writes : writes = MembershipWrites(u, g, members, groups)
    OBVIOUS
  <2>3. PICK effects : effects = [Idle EXCEPT !.adds = {<<u, g>>}]
    OBVIOUS
  <2>4. /\ effects \in Effects
        /\ effects.issues = {} /\ effects.kills = {} /\ effects.expires = {}
        /\ effects.abandons = {} /\ effects.removes = {} /\ effects.adds = {<<u, g>>}
    <3>1. {<<u, g>>} \subseteq Pairs
      BY DEF Pairs
    <3> QED
      BY <2>3, <3>1 DEF Idle, Effects
  <2>5. /\ Starts(writes, effects)
        /\ removed' = removed \ {<<u, g>>}
        /\ UNCHANGED <<owner, added>>
    BY <1>3, <2>1, <2>2, <2>3 DEF AdminAddUserToGroup
  <2>6. /\ members \in SUBSET Users /\ groups \in SUBSET GroupNames
        /\ \A x \in Users \ {u} : x \in members <=> x \in Groups[g]
        /\ \A x \in GroupNames \ {g} : x \in groups <=> x \in Accounts[u].groups
    BY <1>2, <2>1
  <2>7. u \in members /\ g \in groups /\ <<u, g>> \notin removed' \cup effects.removes
    BY <2>1, <2>4, <2>5
  <2>8. added' \subseteq added /\ removed' \subseteq removed
    BY <2>5
  <2> QED
    BY <1>1, <2>2, <2>4, <2>5, <2>6, <2>7, <2>8, MembershipStarts
<1>4. CASE AdminRemoveUserFromGroup(u, g)
  <2>1. PICK members, groups :
          members = Groups[g] \ {u} /\ groups = Accounts[u].groups \ {g}
    OBVIOUS
  <2>2. PICK writes : writes = MembershipWrites(u, g, members, groups)
    OBVIOUS
  <2>3. PICK effects : effects = [Idle EXCEPT !.removes = {<<u, g>>}]
    OBVIOUS
  <2>4. /\ effects \in Effects
        /\ effects.issues = {} /\ effects.kills = {} /\ effects.expires = {}
        /\ effects.abandons = {} /\ effects.adds = {} /\ effects.removes = {<<u, g>>}
    <3>1. {<<u, g>>} \subseteq Pairs
      BY DEF Pairs
    <3> QED
      BY <2>3, <3>1 DEF Idle, Effects
  <2>5. /\ Starts(writes, effects)
        /\ added' = added \ {<<u, g>>}
        /\ UNCHANGED <<owner, removed>>
    BY <1>4, <2>1, <2>2, <2>3 DEF AdminRemoveUserFromGroup
  <2>6. /\ members \in SUBSET Users /\ groups \in SUBSET GroupNames
        /\ \A x \in Users \ {u} : x \in members <=> x \in Groups[g]
        /\ \A x \in GroupNames \ {g} : x \in groups <=> x \in Accounts[u].groups
    BY <1>2, <2>1
  <2>7. u \notin members /\ g \notin groups /\ <<u, g>> \notin added' \cup effects.adds
    BY <2>1, <2>4, <2>5
  <2>8. added' \subseteq added /\ removed' \subseteq removed
    BY <2>5
  <2> QED
    BY <1>1, <2>2, <2>4, <2>5, <2>6, <2>7, <2>8, MembershipStarts
<1> QED
  BY <1>3, <1>4

-----------------------------------------------------------------------------
(* The answer, and the end of the process.                                  *)

LEMMA AnswerStep == Inv /\ Answer => Inv'
<1> SUFFICES ASSUME Inv, Answer PROVE Inv'
  OBVIOUS
<1>1. /\ UNCHANGED <<mem, disk, todo, owner, threatened, expired, abandoned, lost>>
      /\ answered' = answered \cup call.issues
      /\ dead' = dead \cup call.kills
      /\ added' = added \cup call.adds
      /\ removed' = removed \cup call.removes
  BY DEF Answer
<1>2. call' = Idle /\ call.issues' = {} /\ call.kills' = {} /\ call.adds' = {} /\ call.removes' = {}
  BY DEF Answer, Idle
<1>3. /\ todo = Nothing
      /\ todo.now = {} /\ todo.pool = {} /\ todo.last = {} /\ Left = {} /\ Left' = {}
  BY <1>1 DEF Answer, Nothing, Left
<1>4. UNCHANGED <<Entries, RevokedTokens, Accounts, Groups, Usable>>
  BY <1>1 DEF Entries, RevokedTokens, Accounts, Groups, Usable
<1>5. In' = In /\ Out' = Out
  BY <1>1, <1>2 DEF In, Out
<1>6. call.issues \subseteq Usable /\ call.kills \cap Usable = {} /\ call.kills \subseteq threatened
  BY <1>3 DEF Inv, TokensKept
<1>7. TypeOK'
  <2>1. StoreOK(mem') /\ StoreOK(disk')
    BY <1>1 DEF Inv, TypeOK
  <2>2. /\ call.issues \subseteq DOMAIN owner
        /\ answered \cup threatened \cup expired \cup abandoned \cup dead \subseteq DOMAIN owner
    BY <1>6 DEF Usable, Inv, TypeOK, StoresAgree
  <2>3. answered' \cup threatened' \cup expired' \cup abandoned' \cup dead' \subseteq DOMAIN owner'
    BY <1>1, <1>6, <2>2
  <2>4. added' \cup removed' \subseteq Pairs
    BY <1>1 DEF Inv, TypeOK, Effects
  <2>5. call' \in Effects
    BY <1>2 DEF Idle, Effects
  <2> QED
    BY <1>1, <1>3, <2>1, <2>3, <2>4, <2>5 DEF Inv, TypeOK
<1>8. StoresAgree'
  BY <1>1, <1>4 DEF Inv, StoresAgree, IssuedTo
<1>9. TokensKept'
  <2>1. DeadTokensStayDead' /\ AnsweredTokensSurvive'
    BY <1>1, <1>4, <1>6 DEF Inv, TokensKept, DeadTokensStayDead, AnsweredTokensSurvive
  <2>2. HistoryOfTheDead' /\ NoOrphanTokens' /\ ListsNameTokens'
    BY <1>1, <1>4 DEF Inv, TokensKept, HistoryOfTheDead, NoOrphanTokens, ListsNameTokens
  <2> QED
    BY <1>2, <1>3, <2>1, <2>2 DEF TokensKept
<1>10. MembershipsKept'
  <2>1. \A x, g : Listed(x, g)' = Listed(x, g) /\ Carried(x, g)' = Carried(x, g)
    BY <1>4 DEF Listed, Carried
  <2>2. (\A g : ~MarksGroup(g)) /\ (\A u : ~MarksUser(u))
    BY <1>3 DEF MarksGroup, MarksUser
  <2>3. call.adds \subseteq Pairs /\ call.removes \subseteq Pairs
    BY DEF Inv, TypeOK, Effects
  <2>4. \A u \in Users, g \in GroupNames :
          /\ <<u, g>> \in call.adds => Listed(u, g) /\ Carried(u, g)
          /\ <<u, g>> \in call.removes => ~Listed(u, g) /\ ~Carried(u, g)
    BY <2>2 DEF Inv, MembershipsKept
  <2>5. AddedAreIn'
    BY <1>1, <2>1, <2>3, <2>4 DEF Inv, MembershipsKept, AddedAreIn, Pairs
  <2>6. RemovedAreOut'
    BY <1>1, <2>1, <2>3, <2>4 DEF Inv, MembershipsKept, RemovedAreOut, Pairs
  <2> QED
    BY <1>2, <1>4, <1>5, <2>5, <2>6 DEF Inv, MembershipsKept
<1>11. WritesKeep'
  BY <1>1, <1>3 DEF WritesKeep
<1> QED
  BY <1>7, <1>8, <1>9, <1>10, <1>11 DEF Inv

\* The start adds the seed users that are not there, without tokens.
LEMMA LoadedStores ==
  ASSUME NEW files, StoreOK(files)
  PROVE  /\ StoreOK(Loaded(files))
         /\ \A file \in Files \ {"users.json"} : Loaded(files)[file] = files[file]
         /\ DOMAIN Loaded(files)["users.json"] = DOMAIN files["users.json"] \cup DOMAIN Seeds
         /\ \A u \in DOMAIN files["users.json"] :
              Loaded(files)["users.json"][u] = files["users.json"][u]
         /\ \A u \in DOMAIN Seeds \ DOMAIN files["users.json"] :
              Loaded(files)["users.json"][u] = [tokens |-> {}, groups |-> Seeds[u]]
<1>1. PICK users : users = files["users.json"]
  OBVIOUS
<1>2. DOMAIN users \subseteq Users /\ users \in [DOMAIN users -> Account]
  BY <1>1 DEF StoreOK, Map
<1>3. PICK all : all = [u \in DOMAIN users \cup DOMAIN Seeds |->
                          IF u \in DOMAIN users THEN users[u]
                          ELSE [tokens |-> {}, groups |-> Seeds[u]]]
  OBVIOUS
<1>4. DOMAIN files = Files /\ Loaded(files) = [files EXCEPT !["users.json"] = all]
  BY <1>1, <1>3 DEF Loaded, StoreOK
<1>5. /\ DOMAIN Loaded(files) = Files
      /\ Loaded(files)["users.json"] = all
      /\ \A file \in Files \ {"users.json"} : Loaded(files)[file] = files[file]
  BY <1>4 DEF Files
<1>6. \A u \in DOMAIN Seeds : [tokens |-> {}, groups |-> Seeds[u]] \in Account
  BY DEF Account
<1>7. Map(all, Users, Account)
  BY <1>2, <1>3, <1>6 DEF Map
<1>8. StoreOK(Loaded(files))
  BY <1>5, <1>7 DEF StoreOK, Files
<1> QED
  BY <1>1, <1>3, <1>5, <1>8

\* What a start reads is what was there, but for the files that are torn.
LEMMA RestartStep ==
  ASSUME Inv, NEW files, StoreOK(files), Restarts(files),
         lost \subseteq lost', lost' \subseteq Torn,
         answered' \subseteq answered, added' \subseteq added, removed' \subseteq removed,
         \/ files["refresh-tokens.json"] = Entries
         \/ /\ DOMAIN files["refresh-tokens.json"] = {}
            /\ answered' = {} /\ "refresh-tokens.json" \in lost',
         DOMAIN files["revoked-tokens.json"] \subseteq RevokedTokens,
         \/ files["users.json"] = Accounts
         \/ /\ DOMAIN files["users.json"] = {}
            /\ added' = {} /\ removed' \cap Seeded = {} /\ "users.json" \in lost',
         \/ files["groups.json"] = Groups
         \/ DOMAIN files["groups.json"] = {} /\ added' = {}
  PROVE  Inv'
<1>1. /\ disk' = mem'
      /\ StoreOK(mem')
      /\ Entries' = files["refresh-tokens.json"]
      /\ RevokedTokens' = DOMAIN files["revoked-tokens.json"]
      /\ Groups' = files["groups.json"]
      /\ DOMAIN Accounts' = DOMAIN files["users.json"] \cup DOMAIN Seeds
      /\ \A u \in DOMAIN files["users.json"] : Accounts'[u] = files["users.json"][u]
      /\ \A u \in DOMAIN Seeds \ DOMAIN files["users.json"] :
           Accounts'[u] = [tokens |-> {}, groups |-> Seeds[u]]
  BY LoadedStores DEF Restarts, Entries, RevokedTokens, Groups, Accounts, Files
<1>2. /\ call' = Idle
      /\ call.issues' = {} /\ call.kills' = {} /\ call.adds' = {} /\ call.removes' = {}
      /\ UNCHANGED <<owner, threatened, expired, abandoned, dead>>
  BY DEF Restarts, Idle
<1>3. /\ todo' = Nothing
      /\ todo.now' = {} /\ todo.pool' = {} /\ todo.last' = {} /\ Left' = {}
      /\ todo.listed' = {} /\ todo.found' = {}
  BY DEF Restarts, Nothing, Left
<1>4. \A t \in DOMAIN Entries' : t \in DOMAIN Entries /\ Entries'[t] = Entries[t]
  BY <1>1
<1>5. Usable' \subseteq Usable
  BY <1>4 DEF Usable
<1>6. \A u \in DOMAIN Accounts' :
        \/ u \in DOMAIN Accounts /\ Accounts'[u] = Accounts[u]
        \/ /\ u \in DOMAIN Seeds \ DOMAIN files["users.json"]
           /\ Accounts'[u].tokens = {} /\ Accounts'[u].groups = Seeds[u]
  BY <1>1
<1>7. In' = added' /\ Out' = removed'
  BY <1>2 DEF In, Out
<1>8. TypeOK'
  <2>1. call' \in Effects
    BY <1>2 DEF Idle, Effects
  <2>2. StoreOK(disk')
    BY <1>1
  <2> QED
    BY <1>1, <1>2, <1>3, <2>1, <2>2 DEF Inv, TypeOK
<1>9. StoresAgree'
  <2>1. \A t \in DOMAIN Entries' : t \in DOMAIN owner' /\ Entries'[t].userId = owner'[t]
    BY <1>2, <1>4 DEF Inv, StoresAgree
  <2>2. \A u \in DOMAIN Accounts' : Accounts'[u].tokens \subseteq IssuedTo(u)'
    BY <1>2, <1>6 DEF Inv, StoresAgree, IssuedTo
  <2> QED
    BY <1>1, <1>2, <2>1, <2>2 DEF Inv, StoresAgree
<1>10. TokensKept'
  <2>1. DeadTokensStayDead' /\ HistoryOfTheDead'
    BY <1>1, <1>2, <1>5 DEF Inv, TokensKept, DeadTokensStayDead, HistoryOfTheDead
  <2>2. AnsweredTokensSurvive'
    <3>1. CASE files["refresh-tokens.json"] = Entries
      <4>1. Usable' = Usable
        BY <1>1, <3>1 DEF Usable
      <4> QED
        BY <1>2, <4>1 DEF Inv, TokensKept, AnsweredTokensSurvive
    <3>2. CASE answered' = {}
      BY <3>2 DEF AnsweredTokensSurvive
    <3> QED
      BY <3>1, <3>2
  <2>3. NoOrphanTokens'
    BY <1>1, <1>2, <1>4, <1>5 DEF Inv, TokensKept, NoOrphanTokens, Usable
  <2>4. ListsNameTokens'
    BY <1>1, <1>2, <1>6 DEF Inv, TokensKept, ListsNameTokens
  <2> QED
    BY <1>2, <1>3, <2>1, <2>2, <2>3, <2>4 DEF TokensKept
<1>11. MembershipsKept'
  <2>1. AddedAreIn'
    <3>1. CASE added' = {}
      BY <3>1 DEF AddedAreIn
    <3>2. CASE files["users.json"] = Accounts /\ files["groups.json"] = Groups
      <4>1. \A u, g : /\ Listed(u, g) => Listed(u, g)'
                      /\ Carried(u, g) => Carried(u, g)'
        BY <1>1, <3>2 DEF Listed, Carried
      <4> QED
        BY <4>1 DEF Inv, MembershipsKept, AddedAreIn
    <3> QED
      BY <3>1, <3>2
  <2>2. ASSUME NEW u \in Users, NEW g \in GroupNames, <<u, g>> \in removed'
        PROVE  ~Listed(u, g)' /\ ~Carried(u, g)'
    <3>1. ~Listed(u, g) /\ ~Carried(u, g)
      BY <2>2 DEF Inv, MembershipsKept, RemovedAreOut
    <3>2. ~Listed(u, g)'
      BY <1>1, <3>1 DEF Listed
    <3>3. ASSUME u \in DOMAIN Seeds \ DOMAIN files["users.json"] PROVE g \notin Seeds[u]
      <4>1. SUFFICES ASSUME g \in Seeds[u] PROVE FALSE
        OBVIOUS
      <4>2. <<u, g>> \in Seeded
        BY <3>3, <4>1 DEF Seeded, Pairs
      <4>3. <<u, g>> \in Out
        BY <2>2 DEF Out
      <4>4. u \in DOMAIN Accounts
        BY <4>2, <4>3 DEF Inv, MembershipsKept
      <4> QED
        BY <2>2, <3>3, <4>2, <4>4
    <3>4. ~Carried(u, g)'
      BY <1>6, <3>1, <3>3 DEF Carried
    <3> QED
      BY <3>2, <3>4
  <2>3. RemovedAreOut'
    <3>1. removed' \subseteq Pairs
      BY DEF Inv, TypeOK
    <3> QED
      BY <2>2, <3>1 DEF RemovedAreOut, Pairs
  <2>4. \A u \in Users, g \in GroupNames : <<u, g>> \in Out' \cap Seeded => u \in DOMAIN Accounts'
    BY <1>1 DEF Seeded
  <2> QED
    BY <1>2, <2>1, <2>3, <2>4 DEF MembershipsKept, Seeded
<1>12. WritesKeep'
  BY <1>3 DEF WritesKeep
<1> QED
  BY <1>8, <1>9, <1>10, <1>11, <1>12 DEF Inv

LEMMA CrashStep == Inv /\ (Crash \/ CrashTearing) => Inv'
<1> SUFFICES ASSUME Inv, Crash \/ CrashTearing PROVE Inv'
  OBVIOUS
<1>1. disk = mem /\ StoreOK(disk) /\ lost \subseteq Torn
  BY DEF Inv, TypeOK, StoresAgree
<1>2. /\ disk["refresh-tokens.json"] = Entries
      /\ DOMAIN disk["revoked-tokens.json"] = RevokedTokens
      /\ disk["users.json"] = Accounts
      /\ disk["groups.json"] = Groups
  BY <1>1 DEF Entries, RevokedTokens, Accounts, Groups
<1>3. CASE Crash
  <2>1. PICK files : files = disk
    OBVIOUS
  <2>2. Restarts(files) /\ UNCHANGED <<answered, added, removed, lost>>
    BY <1>3, <2>1 DEF Crash
  <2> QED
    BY <1>1, <1>2, <2>1, <2>2, RestartStep
<1>4. CASE CrashTearing
  <2>1. PICK s \in Steps :
          /\ s.write.file \in Torn
          /\ Restarts([disk EXCEPT ![s.write.file] = Empty])
          /\ lost' = lost \cup {s.write.file}
          /\ answered' = IF s.write.file = "refresh-tokens.json" THEN {} ELSE answered
          /\ added' = IF s.write.file \in {"users.json", "groups.json"} THEN {} ELSE added
          /\ removed' = IF s.write.file = "users.json" THEN removed \ Seeded ELSE removed
    BY <1>4 DEF CrashTearing
  <2>2. PICK file \in Torn : file = s.write.file
    BY <2>1
  <2>3. PICK files : files = [disk EXCEPT ![file] = Empty]
    OBVIOUS
  <2>4. file \in Files /\ DOMAIN disk = Files
    BY <1>1 DEF StoreOK
  <2>5. /\ DOMAIN files = Files
        /\ files[file] = Empty
        /\ \A f \in Files \ {file} : files[f] = disk[f]
    BY <2>3, <2>4
  <2>6. DOMAIN Empty = {} /\ \A K, V : Map(Empty, K, V)
    BY DEF Empty, Map
  <2>7. StoreOK(files)
    BY <1>1, <2>5, <2>6 DEF StoreOK, Files
  <2>8. Restarts(files)
    BY <2>1, <2>2, <2>3
  <2>9. /\ files["refresh-tokens.json"] = Entries \/ file = "refresh-tokens.json"
        /\ DOMAIN files["revoked-tokens.json"] \subseteq RevokedTokens
        /\ files["users.json"] = Accounts \/ file = "users.json"
        /\ files["groups.json"] = Groups \/ file = "groups.json"
    BY <1>2, <2>5, <2>6 DEF Files
  <2>10. /\ lost \subseteq lost' /\ lost' \subseteq Torn
         /\ answered' \subseteq answered /\ added' \subseteq added /\ removed' \subseteq removed
    BY <1>1, <2>1, <2>2
  <2>11. \/ files["refresh-tokens.json"] = Entries
         \/ /\ DOMAIN files["refresh-tokens.json"] = {}
            /\ answered' = {} /\ "refresh-tokens.json" \in lost'
    BY <2>1, <2>2, <2>5, <2>6, <2>9
  <2>12. \/ files["users.json"] = Accounts
         \/ /\ DOMAIN files["users.json"] = {}
            /\ added' = {} /\ removed' \cap Seeded = {} /\ "users.json" \in lost'
    BY <2>1, <2>2, <2>5, <2>6, <2>9
  <2>13. \/ files["groups.json"] = Groups
         \/ DOMAIN files["groups.json"] = {} /\ added' = {}
    BY <2>1, <2>2, <2>5, <2>6, <2>9
  <2> QED
    BY <2>7, <2>8, <2>9, <2>10, <2>11, <2>12, <2>13, RestartStep
<1> QED
  BY <1>3, <1>4

LEMMA InitInv == Init => Inv
<1> SUFFICES ASSUME Init PROVE Inv
  OBVIOUS
<1>1. PICK files : files = [file \in Files |-> Empty]
  OBVIOUS
<1>2. DOMAIN Empty = {} /\ \A K, V : Map(Empty, K, V)
  BY DEF Empty, Map
<1>3. StoreOK(files) /\ \A file \in Files : DOMAIN files[file] = {}
  BY <1>1, <1>2 DEF StoreOK, Files
<1>4. /\ disk = mem
      /\ mem = Loaded(files)
      /\ todo = Nothing
      /\ call = Idle
      /\ owner = Empty
      /\ answered = {} /\ threatened = {} /\ expired = {} /\ abandoned = {} /\ dead = {}
      /\ added = {} /\ removed = {} /\ lost = {}
  BY <1>1 DEF Init
<1>5. /\ StoreOK(mem)
      /\ DOMAIN Entries = {}
      /\ RevokedTokens = {}
      /\ \A u \in DOMAIN Accounts : Accounts[u].tokens = {}
  <2>1. PICK stores : stores = Loaded(files)
    OBVIOUS
  <2>2. /\ StoreOK(stores)
        /\ \A file \in Files \ {"users.json"} : DOMAIN stores[file] = {}
        /\ DOMAIN stores["users.json"] = DOMAIN Seeds
        /\ \A u \in DOMAIN Seeds : stores["users.json"][u] = [tokens |-> {}, groups |-> Seeds[u]]
    <3>1. /\ StoreOK(stores)
          /\ \A file \in Files \ {"users.json"} : stores[file] = files[file]
          /\ DOMAIN stores["users.json"] = DOMAIN files["users.json"] \cup DOMAIN Seeds
          /\ \A u \in DOMAIN Seeds \ DOMAIN files["users.json"] :
               stores["users.json"][u] = [tokens |-> {}, groups |-> Seeds[u]]
      BY <1>3, <2>1, LoadedStores
    <3>2. DOMAIN files["users.json"] = {}
      BY <1>3 DEF Files
    <3> QED
      BY <1>3, <3>1, <3>2
  <2>3. mem = stores
    BY <1>4, <2>1
  <2>4. DOMAIN Entries = {} /\ RevokedTokens = {}
    BY <2>2, <2>3 DEF Entries, RevokedTokens, Files
  <2>5. ASSUME NEW u \in DOMAIN Accounts PROVE Accounts[u].tokens = {}
    <3>1. DOMAIN Accounts = DOMAIN Seeds
      BY <2>2, <2>3 DEF Accounts
    <3>2. Accounts[u] = [tokens |-> {}, groups |-> Seeds[u]]
      BY <2>2, <2>3, <3>1 DEF Accounts
    <3> QED
      BY <3>2
  <2> QED
    BY <2>2, <2>3, <2>4, <2>5
<1>6. /\ todo.now = {} /\ todo.listed = {} /\ todo.found = {} /\ todo.pool = {} /\ todo.last = {}
      /\ DOMAIN todo = DOMAIN Nothing
      /\ call.issues = {} /\ call.kills = {} /\ call.adds = {} /\ call.removes = {}
  BY <1>4 DEF Nothing, Idle
<1>7. TypeOK
  <2>1. Map(owner, Tokens, Users)
    BY <1>2, <1>4
  <2>2. call \in Effects
    BY <1>4 DEF Idle, Effects
  <2> QED
    BY <1>4, <1>5, <1>6, <2>1, <2>2 DEF TypeOK
<1>8. StoresAgree
  BY <1>4, <1>5 DEF StoresAgree
<1>9. TokensKept
  BY <1>4, <1>5, <1>6 DEF TokensKept, DeadTokensStayDead, AnsweredTokensSurvive, NoOrphanTokens,
                          ListsNameTokens, HistoryOfTheDead, Usable, Left
<1>10. MembershipsKept
  BY <1>4, <1>6 DEF MembershipsKept, AddedAreIn, RemovedAreOut, Out
<1>11. WritesKeep
  BY <1>6 DEF WritesKeep
<1> QED
  BY <1>7, <1>8, <1>9, <1>10, <1>11 DEF Inv

LEMMA NextInv == Inv /\ [Next]_vars => Inv'
<1> SUFFICES ASSUME Inv, [Next]_vars PROVE Inv'
  OBVIOUS
<1>1. CASE \E u \in Users : CreateUser(u)
  BY <1>1, CreateUserStep
<1>2. CASE \E u \in Users, t \in Tokens : SignIn(u, t) \/ OidcSignIn(u, t)
  BY <1>2, SignInStep
<1>3. CASE \E u \in Users :
             GlobalSignOut(u) \/ AdminDisableUser(u) \/ AdminDeleteUser(u) \/ DeleteUser(u)
  BY <1>3, SignOutStep
<1>4. CASE \E t \in Tokens : RevokeToken(t) \/ OidcRevoke(t)
  BY <1>4, RevokeStep
<1>5. CASE \E g \in GroupNames : CreateGroup(g) \/ DeleteGroup(g)
  BY <1>5, GroupHandlerStep
<1>6. CASE \E u \in Users, g \in GroupNames :
             AdminAddUserToGroup(u, g) \/ AdminRemoveUserFromGroup(u, g)
  BY <1>6, MembershipStep
<1>7. CASE Write
  BY <1>7, WriteStep
<1>8. CASE Answer
  BY <1>8, AnswerStep
<1>9. CASE Crash \/ CrashTearing
  BY <1>9, CrashStep
<1>10. CASE UNCHANGED vars
  <2>1. UNCHANGED <<mem, disk, todo, call, owner, answered, threatened, expired, abandoned, dead, added, removed, lost>>
    BY <1>10 DEF vars, history
  <2>2. UNCHANGED <<Entries, RevokedTokens, Accounts, Groups, Usable, In, Out, Left>>
    BY <2>1 DEF Entries, RevokedTokens, Accounts, Groups, Usable, In, Out, Left
  <2>3. TypeOK' /\ StoresAgree'
    BY <2>1, <2>2 DEF Inv, TypeOK, StoresAgree, IssuedTo
  <2>4. TokensKept'
    BY <2>1, <2>2 DEF Inv, TokensKept, DeadTokensStayDead, AnsweredTokensSurvive, NoOrphanTokens,
                      ListsNameTokens, HistoryOfTheDead
  <2>5. MembershipsKept'
    BY <2>1, <2>2 DEF Inv, MembershipsKept, AddedAreIn, RemovedAreOut, Listed, Carried,
                      MarksGroup, MarksUser, Seeded
  <2>6. ASSUME NEW w \in todo.now
        PROVE  \/ FirstEntry(w)' \/ Record(w)' \/ EntryGone(w)'
               \/ AccountKept(w)' \/ GroupKept(w)' \/ GroupGone(w)'
    <3>1. CASE FirstEntry(w)
      BY <2>1, <2>2, <3>1 DEF FirstEntry
    <3>2. CASE Record(w)
      BY <2>1, <2>2, <3>2 DEF Record
    <3>3. CASE AccountKept(w)
      BY <2>1, <2>2, <3>3, AccountStaysKept
    <3>4. CASE GroupKept(w)
      BY <2>1, <2>2, <3>4 DEF GroupKept
    <3>5. CASE GroupGone(w)
      BY <2>1, <2>2, <3>5 DEF GroupGone
    <3>6. CASE EntryGone(w)
      BY <2>1, <2>2, <3>6 DEF EntryGone
    <3> QED
      BY <3>1, <3>2, <3>3, <3>4, <3>5, <3>6 DEF Inv, WritesKeep
  <2>7. ASSUME NEW w \in todo.last
        PROVE  AccountKept(w)' \/ AccountGone(w)'
    <3>1. CASE AccountKept(w)
      BY <2>1, <2>2, <3>1, AccountStaysKept
    <3>2. CASE AccountGone(w)
      BY <2>1, <2>2, <3>2, AccountStaysGone
    <3> QED
      BY <3>1, <3>2 DEF Inv, WritesKeep
  <2>8. ASSUME NEW u \in todo.pool PROVE PoolLeaves(u)'
    <3>1. PoolLeaves(u)
      BY DEF Inv, WritesKeep
    <3> QED
      BY <2>1, <2>2, <3>1 DEF PoolLeaves, TokensOf, PromisesTo, Seeded
  <2>9. WritesKeep'
    BY <2>1, <2>2, <2>6, <2>7, <2>8 DEF Inv, WritesKeep
  <2> QED
    BY <2>3, <2>4, <2>5, <2>9 DEF Inv
<1>11. CASE \E pool \in UserPools : DeleteUserPool(pool)
  BY <1>11, DeleteUserPoolStep
<1>12. CASE \E t \in Tokens : Expire(t)
  BY <1>12, ExpireStep
<1> QED
  BY <1>1, <1>2, <1>3, <1>4, <1>5, <1>6, <1>7, <1>8, <1>9, <1>10, <1>11, <1>12 DEF Next

-----------------------------------------------------------------------------
(* What a step makes usable.                                                *)

IssuesUnthreatened == call.issues \cap threatened = {}

\* A write that is not to the file of the tokens leaves them.
LEMMA OtherFile ==
  ASSUME Inv, NEW w, Makes(w), w.file \in Files \ {"refresh-tokens.json"}
  PROVE  UNCHANGED Usable
<1>1. Entries' = Entries
  BY OneFile DEF Inv, TypeOK, StoreOK, StoresAgree, Entries, Files
<1> QED
  BY <1>1 DEF Usable

\* A write makes usable at most the token that the call issues.
LEMMA WriteIssues ==
  ASSUME Inv, Write
  PROVE  Usable' \subseteq Usable \cup call.issues /\ UNCHANGED <<call, threatened>>
<1>1. /\ \/ \E w \in todo.now : MakesNow(w)
         \/ \E t \in Left : MakesRevocation(t)
         \/ \E u \in todo.pool : LeavesPool(u)
         \/ \E w \in todo.last : MakesLast(w)
      /\ HandlerGoesOn
  BY TheStep DEF Inv
<1>2. UNCHANGED <<call, threatened>>
  BY <1>1 DEF HandlerGoesOn, history
<1>3. ASSUME NEW w \in todo.now, MakesNow(w) PROVE Usable' \subseteq Usable \cup call.issues
  <2>1. CASE FirstEntry(w)
    <3>1. PICK t \in Tokens, u \in Users : w = PutEntry(t, u, FALSE) /\ call.issues = {t}
      BY <2>1 DEF FirstEntry
    <3>2. /\ DOMAIN Entries' = DOMAIN Entries \cup {t}
          /\ \A x \in DOMAIN Entries : x # t => Entries'[x] = Entries[x]
      BY <1>3, <3>1, EntryWritten DEF MakesNow, Inv, TypeOK, StoresAgree
    <3> QED
      BY <3>1, <3>2 DEF Usable
  <2>2. CASE Record(w) \/ AccountKept(w) \/ GroupKept(w) \/ GroupGone(w)
    <3>1. w.file \in Files \ {"refresh-tokens.json"}
      BY <2>2 DEF Record, AccountKept, GroupKept, GroupGone, PutRevoked, PutUser, PutGroup, Put,
                  Drop, Files
    <3> QED
      BY <1>3, <3>1, OtherFile DEF MakesNow
  <2>3. CASE EntryGone(w)
    <3>1. PICK t \in Tokens : w = Drop("refresh-tokens.json", t)
      BY <2>3 DEF EntryGone
    <3>2. /\ DOMAIN Entries' = DOMAIN Entries \ {t}
          /\ \A x \in DOMAIN Entries : x # t => Entries'[x] = Entries[x]
      BY <1>3, <3>1, EntryDropped DEF MakesNow, Inv, TypeOK, StoresAgree
    <3> QED
      BY <3>2 DEF Usable
  <2> QED
    BY <2>1, <2>2, <2>3 DEF Inv, WritesKeep
<1>4. ASSUME NEW t \in Left, MakesRevocation(t) PROVE Usable' \subseteq Usable
  <2>1. t \in Tokens /\ t \in DOMAIN Entries
    BY DEF Inv, TypeOK, TokensKept, Left
  <2>2. PICK u : u = Entries[t].userId
    OBVIOUS
  <2>3. u \in Users
    BY <2>1, <2>2 DEF Inv, TypeOK, StoreOK, Map, Entries, Entry
  <2>4. /\ DOMAIN Entries' = DOMAIN Entries \cup {t}
        /\ Entries'[t] = [userId |-> u, revoked |-> TRUE]
        /\ \A x \in DOMAIN Entries : x # t => Entries'[x] = Entries[x]
    BY <1>4, <2>1, <2>2, <2>3, EntryWritten DEF MakesRevocation, Inv, TypeOK, StoresAgree
  <2> QED
    BY <2>4 DEF Usable
<1>5. ASSUME NEW w \in todo.last, MakesLast(w) PROVE Usable' \subseteq Usable
  <2>1. AccountKept(w) \/ AccountGone(w)
    BY DEF Inv, WritesKeep
  <2>2. w.file \in Files \ {"refresh-tokens.json"}
    BY <2>1 DEF AccountKept, AccountGone, PutUser, Put, Drop, Files
  <2> QED
    BY <1>5, <2>2, OtherFile DEF MakesLast
<1>6. ASSUME NEW u \in todo.pool, LeavesPool(u) PROVE Usable' \subseteq Usable
  <2>1. PICK w : w = Drop("users.json", u)
    OBVIOUS
  <2>2. w.file \in Files \ {"refresh-tokens.json"}
    BY <2>1 DEF Drop, Files
  <2> QED
    BY <1>6, <2>1, <2>2, OtherFile DEF LeavesPool
<1> QED
  BY <1>1, <1>2, <1>3, <1>4, <1>5, <1>6

\* A start finds no token usable that was not.
LEMMA CrashRevivesNone ==
  ASSUME Inv, Crash \/ CrashTearing
  PROVE  Usable' \subseteq Usable /\ call.issues' = {} /\ UNCHANGED threatened
<1>1. disk = mem /\ StoreOK(disk) /\ DOMAIN disk = Files
  BY DEF Inv, TypeOK, StoresAgree, StoreOK
<1>2. PICK files :
        /\ Restarts(files)
        /\ StoreOK(files)
        /\ files["refresh-tokens.json"] \in {Entries, Empty}
  <2>1. CASE Crash
    BY <1>1, <2>1 DEF Crash, Entries
  <2>2. CASE CrashTearing
    <3>1. PICK file \in Torn : Restarts([disk EXCEPT ![file] = Empty])
      BY <2>2 DEF CrashTearing
    <3>2. PICK files : files = [disk EXCEPT ![file] = Empty]
      OBVIOUS
    <3>3. file \in Files
      OBVIOUS
    <3>4. /\ DOMAIN files = Files
          /\ files[file] = Empty
          /\ \A f \in Files \ {file} : files[f] = disk[f]
      BY <1>1, <3>2, <3>3
    <3>5. \A K, V : Map(Empty, K, V)
      BY DEF Empty, Map
    <3>6. StoreOK(files)
      BY <1>1, <3>4, <3>5 DEF StoreOK, Files
    <3>7. files["refresh-tokens.json"] \in {Entries, Empty}
      BY <1>1, <3>4 DEF Entries, Files
    <3> QED
      BY <3>1, <3>2, <3>6, <3>7
  <2> QED
    BY <2>1, <2>2
<1>3. Entries' = files["refresh-tokens.json"]
  <2>1. PICK stores : stores = Loaded(files)
    OBVIOUS
  <2>2. stores["refresh-tokens.json"] = files["refresh-tokens.json"]
    BY <1>2, <2>1, LoadedStores DEF Files
  <2> QED
    BY <1>2, <2>1, <2>2 DEF Restarts, Entries
<1>4. Entries' = Entries \/ DOMAIN Entries' = {}
  BY <1>2, <1>3 DEF Empty
<1>5. Usable' \subseteq Usable
  BY <1>4 DEF Usable
<1> QED
  BY <1>2, <1>5 DEF Restarts, Idle

\* A handler that starts issues a new token, or none.
LEMMA HandlersIssue ==
  ASSUME Inv, NEW writes, NEW effects, Starts(writes, effects), DOMAIN effects = DOMAIN Idle,
         effects.issues = {} \/ (effects.kills = {} /\ effects.issues \cap DOMAIN owner = {})
  PROVE  UNCHANGED Usable /\ IssuesUnthreatened'
<1>1. /\ UNCHANGED Usable
      /\ call.issues' = effects.issues
      /\ threatened' = threatened \cup effects.kills
  BY Started DEF Idle
<1>2. threatened \subseteq DOMAIN owner
  BY DEF Inv, TypeOK
<1> QED
  BY <1>1, <1>2 DEF IssuesUnthreatened

LEMMA RevivalStep ==
  ASSUME Inv, IssuesUnthreatened, [Next]_vars
  PROVE  threatened \cap Usable' \subseteq Usable /\ IssuesUnthreatened'
<1>1. CASE \E writes, effects :
             /\ Starts(writes, effects)
             /\ DOMAIN effects = DOMAIN Idle
             /\ effects.issues = {} \/ (effects.kills = {} /\ effects.issues \cap DOMAIN owner = {})
  BY <1>1, HandlersIssue
<1>2. CASE \E u \in Users : CreateUser(u)
  <2>1. PICK writes, effects : Starts(writes, effects) /\ effects = Idle
    BY <1>2 DEF CreateUser
  <2> QED
    BY <1>1, <2>1 DEF Idle
<1>3. CASE \E u \in Users, t \in Tokens : SignIn(u, t) \/ OidcSignIn(u, t)
  <2>1. PICK writes, effects, t :
          Starts(writes, effects) /\ effects = [Idle EXCEPT !.issues = {t}] /\ t \notin DOMAIN owner
    BY <1>3 DEF SignIn, OidcSignIn
  <2> QED
    BY <1>1, <2>1 DEF Idle
<1>4. CASE \E u \in Users :
             GlobalSignOut(u) \/ AdminDisableUser(u) \/ AdminDeleteUser(u) \/ DeleteUser(u)
  <2>1. PICK writes, effects, T : Starts(writes, effects) /\ effects = [Idle EXCEPT !.kills = T]
    BY <1>4 DEF GlobalSignOut, AdminDisableUser, AdminDeleteUser, DeleteUser, Deletes
  <2> QED
    BY <1>1, <2>1 DEF Idle
<1>5. CASE \E t \in Tokens : RevokeToken(t) \/ OidcRevoke(t)
  <2>1. PICK writes, effects, T : Starts(writes, effects) /\ effects = [Idle EXCEPT !.kills = T]
    BY <1>5 DEF RevokeToken, OidcRevoke
  <2> QED
    BY <1>1, <2>1 DEF Idle
<1>6. CASE \E g \in GroupNames : CreateGroup(g) \/ DeleteGroup(g)
  <2>1. PICK writes, effects : Starts(writes, effects) /\ effects = Idle
    BY <1>6 DEF CreateGroup, DeleteGroup
  <2> QED
    BY <1>1, <2>1 DEF Idle
<1>7. CASE \E u \in Users, g \in GroupNames :
             AdminAddUserToGroup(u, g) \/ AdminRemoveUserFromGroup(u, g)
  <2>1. PICK writes, effects, P :
          /\ Starts(writes, effects)
          /\ effects = [Idle EXCEPT !.adds = P] \/ effects = [Idle EXCEPT !.removes = P]
    BY <1>7 DEF AdminAddUserToGroup, AdminRemoveUserFromGroup
  <2> QED
    BY <1>1, <2>1 DEF Idle
<1>8. CASE Write
  BY <1>8, WriteIssues DEF IssuesUnthreatened
<1>9. CASE Answer
  BY <1>9 DEF Answer, Idle, IssuesUnthreatened, Usable, Entries
<1>10. CASE Crash \/ CrashTearing
  BY <1>10, CrashRevivesNone DEF IssuesUnthreatened
<1>11. CASE UNCHANGED vars
  BY <1>11 DEF vars, history, IssuesUnthreatened, Usable, Entries
<1>12. CASE \E pool \in UserPools : DeleteUserPool(pool)
  <2>1. PICK writes, effects, T : Starts(writes, effects) /\ effects = [Idle EXCEPT !.abandons = T]
    BY <1>12 DEF DeleteUserPool
  <2> QED
    BY <1>1, <2>1 DEF Idle
<1>13. CASE \E t \in Tokens : Expire(t)
  <2>1. PICK writes, effects, T :
          Starts(writes, effects) /\ effects = [Idle EXCEPT !.kills = T, !.expires = T]
    BY <1>13 DEF Expire
  <2>2. DOMAIN effects = DOMAIN Idle /\ effects.issues = {}
    BY <2>1 DEF Idle
  <2> QED
    BY <1>1, <2>1, <2>2
<1> QED
  BY <1>2, <1>3, <1>4, <1>5, <1>6, <1>7, <1>8, <1>9, <1>10, <1>11, <1>12, <1>13 DEF Next

-----------------------------------------------------------------------------
(* What the files keep.                                                     *)

\* The stores and the files behind them hold what their keys and values say,
\* whatever handler runs and wherever the process dies.
THEOREM TypeCorrect == Spec => []TypeOK
BY InitInv, NextInv, PTL DEF Spec, Inv

\* Once a revocation, a sign-out, a disabling or a deletion was answered, or a
\* client was told that its token has expired, no crash brings the tokens back,
\* also where their user's list had missed them and also where a file tears.
THEOREM RevocationsLast == Spec => []DeadTokensStayDead
BY InitInv, NextInv, PTL DEF Spec, Inv, TokensKept

\* A token its client received is usable until a call is started against it or
\* finds it expired, or the file it is in is torn.
THEOREM AnswersLast == Spec => []AnsweredTokensSurvive
BY InitInv, NextInv, PTL DEF Spec, Inv, TokensKept

\* As long as users.json is whole a usable token has an account, at every write
\* of the deletion of a user and after a crash at any of them, or a pool was
\* deleted with its user.
THEOREM NobodyOrphaned == Spec => []NoOrphanTokens
BY InitInv, NextInv, PTL DEF Spec, Inv, TokensKept

\* As long as refresh-tokens.json is whole the list of a user names only tokens
\* that have an entry or had expired: a sign-in writes the token first, the list
\* last, and only expiry deletes an entry.
THEOREM ListsAreBacked == Spec => []ListsNameTokens
BY InitInv, NextInv, PTL DEF Spec, Inv, TokensKept

\* A token that revoked-tokens.json names is never usable.
THEOREM HistoryIsOfTheDead == Spec => []HistoryOfTheDead
BY InitInv, NextInv, PTL DEF Spec, Inv, TokensKept

\* An addition that was answered is in both copies of the membership, also when
\* it finished what an earlier attempt had left half done, until it is taken
\* back, its user or group goes or its account is overwritten.
THEOREM AdditionsHold == Spec => []AddedAreIn
BY InitInv, NextInv, PTL DEF Spec, Inv, MembershipsKept

\* A removal that was answered is in both copies, also when it finished what an
\* earlier attempt had left half done.
THEOREM RemovalsHold == Spec => []RemovedAreOut
BY InitInv, NextInv, PTL DEF Spec, Inv, MembershipsKept

\* A token that a call was started against never comes back to life, by no
\* handler and no restart, also where that call was cut between two writes.
THEOREM DeadNeverReturn == Spec => NoRevival
<1>1. Init => IssuesUnthreatened
  BY DEF Init, IssuesUnthreatened
<1>2. Inv /\ IssuesUnthreatened /\ [Next]_vars => IssuesUnthreatened'
  BY RevivalStep
<1>3. Inv /\ IssuesUnthreatened /\ [Next]_vars => [threatened \cap Usable' \subseteq Usable]_vars
  BY RevivalStep
<1> QED
  BY InitInv, NextInv, <1>1, <1>2, <1>3, PTL DEF Spec, NoRevival
=============================================================================
