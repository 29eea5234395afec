------------------------------ MODULE Listings ------------------------------
(***************************************************************************)
(* A caller who reads a listing page by page while the store changes:      *)
(* ListUsers, ListGroups, ListUsersInGroup, AdminListGroupsForUser,        *)
(* ListUserPools, ListUserPoolClients, ListResourceServers and             *)
(* ListUserImportJobs.  Every page filters the whole store anew and the    *)
(* token is the offset of the next page in what the filter leaves.         *)
(*                                                                         *)
(* A Map gives its entries in the order in which their keys came into it   *)
(* last, an array in the order of the pushes: an entry keeps its place     *)
(* while it is replaced, and comes last when it is put again after it was  *)
(* deleted.  The entries the filter never leaves (those of other pools)    *)
(* are left out; the file keeps the order.                                 *)
(***************************************************************************)
EXTENDS DataStore, Integers, FiniteSets

CONSTANTS
  Keys,
  PageSizes,        \* Limit, MaxResults, or 60
  MaxPlaces         \* bound: how often a key comes into the store

\* No token: what a page comes with when it is the last.  Every token is greater.
None == 0

ASSUME ListingsAssumption ==
  /\ IsFiniteSet(Keys)
  /\ PageSizes \subseteq Nat \ {0}
  /\ MaxPlaces \in Nat

\* `shown' is what the filter says of the entry.
Entry == [place : 1 .. MaxPlaces, shown : BOOLEAN]

\* How often something happened; more often than there are keys says no more.
Times == 0 .. Cardinality(Keys)

OnceMore(n) == IF n = Cardinality(Keys) THEN n ELSE n + 1

\* `token' is what the last page came with; the rest is history.  `stayed' are
\* the entries shown ever since the listing began, `left' and `joined' say how
\* often an entry stopped or began to be shown among those that were passed.
Reader ==
  [token : {None} \cup (1 .. Cardinality(Keys) - 1), listed : SUBSET Keys,
   repeated : SUBSET Keys, stayed : SUBSET Keys, left : Times, joined : Times]

VARIABLES
  store,
  places,           \* how often a key came in
  reader

vars == <<store, places, reader>>

TypeOK ==
  /\ DOMAIN store \subseteq Keys
  /\ store \in [DOMAIN store -> Entry]
  /\ places \in 0 .. MaxPlaces
  /\ reader \in Reader

Init ==
  /\ store = Empty
  /\ places = 0
  /\ reader = [token |-> None, listed |-> {}, repeated |-> {}, stayed |-> {}, left |-> 0, joined |-> 0]

-----------------------------------------------------------------------------
(* A page.                                                                  *)

Shown == {k \in DOMAIN store : store[k].shown}

IndexAt(place) == Cardinality({k \in Shown : store[k].place < place})

Index(k) == IndexAt(store[k].place)

\* Mutant: slice(start, pageSize).
SliceToSize(start, size) == {k \in Shown : start <= Index(k) /\ Index(k) < size}

\* slice(start, start + pageSize)
Slice(start, size) == {k \in Shown : start <= Index(k) /\ Index(k) < start + size}

\* Mutants: a token also when the page ends with the list; a token with every
\* page, the offset of what was not given yet.
NextTokenAtEnd(start, size) ==
  IF start + size <= Cardinality(Shown) THEN start + size ELSE None

TokenAlways(start, size) == start + Cardinality(Slice(start, size))

NextToken(start, size) == IF start + size < Cardinality(Shown) THEN start + size ELSE None

Answered(so_far, start, size) ==
  [so_far EXCEPT !.token = NextToken(start, size),
                 !.listed = so_far.listed \cup Slice(start, size),
                 !.repeated = so_far.repeated \cup (so_far.listed \cap Slice(start, size))]

ListFirst(size) ==
  /\ reader.token = None
  /\ reader' = Answered([token |-> None, listed |-> {}, repeated |-> {}, stayed |-> Shown,
                         left |-> 0, joined |-> 0], 0, size)
  /\ UNCHANGED <<store, places>>

\* The size may be another one on every page.
ListNext(size) ==
  /\ reader.token # None
  /\ reader' = Answered(reader, reader.token, size)
  /\ UNCHANGED <<store, places>>

-----------------------------------------------------------------------------
(* The store.                                                               *)

Passed(k) == reader.token # None /\ Index(k) < reader.token

\* k is not shown any more.
Leaves(k) ==
  reader' = [reader EXCEPT
    !.stayed = IF reader.token = None THEN reader.stayed ELSE reader.stayed \ {k},
    !.left = IF Passed(k) THEN OnceMore(reader.left) ELSE reader.left]

\* k is shown, at the place it has had.
Joins(k) ==
  reader' = [reader EXCEPT
    !.joined = IF Passed(k) THEN OnceMore(reader.joined) ELSE reader.joined]

\* Any create handler, addMember, the registrations: after all others.
Create(k, shown) ==
  /\ k \notin DOMAIN store
  /\ places < MaxPlaces
  /\ store' = Set(store, k, [place |-> places + 1, shown |-> shown])
  /\ places' = places + 1
  /\ UNCHANGED reader

\* Any update of an entry, also by a create handler that does not ask whether
\* it is there: as far as the filter is concerned nothing, or one of the two
\* that follow.
Hide(k) ==
  /\ k \in Shown
  /\ store' = Set(store, k, [store[k] EXCEPT !.shown = FALSE])
  /\ Leaves(k)
  /\ UNCHANGED places

\* An attribute takes the value in Filter; the account of a member is there
\* again; a user is added to a group that is older than others of his.
Show(k) ==
  /\ k \in DOMAIN store \ Shown
  /\ store' = Set(store, k, [store[k] EXCEPT !.shown = TRUE])
  /\ Joins(k)
  /\ UNCHANGED places

Remove(k) ==
  /\ k \in DOMAIN store
  /\ store' = Delete(store, k)
  /\ IF k \in Shown THEN Leaves(k) ELSE UNCHANGED reader
  /\ UNCHANGED places

Next ==
  \/ \E size \in PageSizes : ListFirst(size) \/ ListNext(size)
  \/ \E k \in Keys, shown \in BOOLEAN : Create(k, shown)
  \/ \E k \in Keys : Hide(k) \/ Show(k) \/ Remove(k)

Spec == Init /\ [][Next]_vars

\* A caller who has got a token asks for the next page.
Fairness == WF_vars(\E size \in PageSizes : ListNext(size))

FairSpec == Spec /\ Fairness

-----------------------------------------------------------------------------
(* Properties.                                                              *)

\* A listing that is over misses no more of the entries that were there all the
\* time than entries left from before the offset meanwhile: none, if nothing was
\* deleted.  It gives no more of them twice than entries came up before the
\* offset: none, if there is no filter, since what is created comes last.
OffsetsShift ==
  /\ reader.token = None => Cardinality(reader.stayed \ reader.listed) <= reader.left
  /\ Cardinality(reader.stayed \cap reader.repeated) <= reader.joined

\* A caller who goes on asking comes to the end, whatever is created meanwhile
\* (of the keys there can be).
ListingEnds == reader.token # None ~> reader.token = None
=============================================================================
