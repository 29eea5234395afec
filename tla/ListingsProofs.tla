--------------------------- MODULE ListingsProofs ---------------------------
(***************************************************************************)
(* Listings, for any finite set of keys, any page sizes and any number of  *)
(* places.                                                                 *)
(***************************************************************************)
EXTENDS Listings, FiniteSetTheorems, TLAPS

USE ListingsAssumption

\* No two entries have a place in common, and the next place is a new one.
PlacesDistinct ==
  /\ \A k \in DOMAIN store : store[k].place <= places
  /\ \A j, k \in DOMAIN store : store[j].place = store[k].place => j = k

StayedShown == reader.token # None => reader.stayed \subseteq Shown

\* The entries that the pages so far have missed for good, and those that they
\* gave twice or the next ones will give again.
Missed ==
  {k \in reader.stayed \ reader.listed : reader.token = None \/ Index(k) < reader.token}

Repeated ==
  reader.stayed \cap
    (reader.repeated \cup {k \in reader.listed : reader.token # None /\ Index(k) >= reader.token})

ShiftsCounted ==
  /\ Cardinality(Missed) <= reader.left
  /\ Cardinality(Repeated) <= reader.joined

Inv == TypeOK /\ PlacesDistinct /\ StayedShown /\ ShiftsCounted

-----------------------------------------------------------------------------
(* Indices.                                                                 *)

Before(k) == {j \in Shown : store[j].place < store[k].place}

LEMMA KeysCounted ==
  /\ Cardinality(Keys) \in Nat
  /\ \A S \in SUBSET Keys : /\ IsFiniteSet(S)
                            /\ Cardinality(S) \in Nat
                            /\ Cardinality(S) <= Cardinality(Keys)
  /\ \A S \in SUBSET Keys : \A T \in SUBSET S : Cardinality(T) <= Cardinality(S)
<1>1. Cardinality(Keys) \in Nat
  BY FS_CardinalityType
<1>2. ASSUME NEW S \in SUBSET Keys
      PROVE  IsFiniteSet(S) /\ Cardinality(S) \in Nat /\ Cardinality(S) <= Cardinality(Keys)
  BY FS_Subset, FS_CardinalityType
<1>3. ASSUME NEW S \in SUBSET Keys, NEW T \in SUBSET S
      PROVE  Cardinality(T) <= Cardinality(S)
  BY <1>2, FS_Subset
<1> QED
  BY <1>1, <1>2, <1>3

\* A set with one element more.
LEMMA OneMore ==
  ASSUME NEW S \in SUBSET Keys, NEW T, NEW x, T \subseteq S \cup {x}, T \subseteq Keys
  PROVE  Cardinality(T) <= Cardinality(S) + 1
<1>1. IsFiniteSet(S) /\ Cardinality(S) \in Nat
  BY KeysCounted
<1>2. IsFiniteSet(S \cup {x}) /\ Cardinality(S \cup {x}) <= Cardinality(S) + 1
  BY <1>1, FS_AddElement
<1>3. Cardinality(T) <= Cardinality(S \cup {x})
  BY <1>2, FS_Subset
<1>4. Cardinality(S \cup {x}) \in Nat /\ Cardinality(T) \in Nat
  BY <1>2, FS_CardinalityType, KeysCounted
<1> QED
  BY <1>1, <1>2, <1>3, <1>4

LEMMA Sets ==
  ASSUME TypeOK
  PROVE  /\ Shown \subseteq Keys
         /\ \A k \in DOMAIN store : store[k].place \in Nat
         /\ \A k : Before(k) \subseteq Shown
         /\ \A k : Index(k) = Cardinality(Before(k))
         /\ \A k : Index(k) \in Nat
<1>1. Shown \subseteq Keys /\ \A k \in DOMAIN store : store[k].place \in Nat
  BY DEF Shown, TypeOK, Entry
<1>2. \A k : Before(k) \subseteq Shown
  BY DEF Before
<1>3. \A k : Index(k) = Cardinality(Before(k))
  BY DEF Index, IndexAt, Before
<1> QED
  BY <1>1, <1>2, <1>3, KeysCounted

\* An entry is behind all that were put before it.
LEMMA IndexGrows ==
  ASSUME TypeOK, NEW j \in Shown, NEW k \in DOMAIN store, store[j].place < store[k].place
  PROVE  Index(j) < Index(k)
<1>1. Before(j) \cup {j} \subseteq Before(k) /\ j \notin Before(j)
  BY Sets DEF Before, Shown
<1>2. IsFiniteSet(Before(j)) /\ IsFiniteSet(Before(k))
  BY Sets, KeysCounted
<1>3. Cardinality(Before(j) \cup {j}) = Cardinality(Before(j)) + 1
  BY <1>1, <1>2, FS_AddElement
<1>4. Cardinality(Before(j) \cup {j}) <= Cardinality(Before(k))
  BY <1>1, <1>2, FS_Subset
<1> QED
  BY <1>3, <1>4, Sets

LEMMA IndexKeepsOrder ==
  ASSUME TypeOK, NEW j \in DOMAIN store, NEW k \in DOMAIN store, store[j].place <= store[k].place
  PROVE  Index(j) <= Index(k)
<1>1. Before(j) \subseteq Before(k)
  BY Sets DEF Before, Shown
<1>2. Before(k) \in SUBSET Keys
  BY Sets
<1> QED
  BY <1>1, <1>2, Sets, KeysCounted

LEMMA IndexDistinct ==
  ASSUME TypeOK, PlacesDistinct, NEW j \in Shown, NEW k \in Shown, Index(j) = Index(k)
  PROVE  j = k
<1>1. j \in DOMAIN store /\ k \in DOMAIN store
  BY DEF Shown
<1>2. CASE store[j].place < store[k].place
  BY <1>1, <1>2, IndexGrows, Sets
<1>3. CASE store[k].place < store[j].place
  BY <1>1, <1>3, IndexGrows, Sets
<1>4. CASE store[k].place = store[j].place
  BY <1>1, <1>4 DEF PlacesDistinct
<1> QED
  BY <1>1, <1>2, <1>3, <1>4, Sets

LEMMA IndexBelowLength ==
  ASSUME TypeOK, NEW k \in Shown
  PROVE  Index(k) < Cardinality(Shown)
<1>1. Before(k) \cup {k} \subseteq Shown /\ k \notin Before(k)
  BY Sets DEF Before, Shown
<1>2. IsFiniteSet(Before(k)) /\ IsFiniteSet(Shown)
  BY Sets, KeysCounted
<1>3. Cardinality(Before(k) \cup {k}) = Cardinality(Before(k)) + 1
  BY <1>1, <1>2, FS_AddElement
<1>4. Cardinality(Before(k) \cup {k}) <= Cardinality(Shown)
  BY <1>1, <1>2, FS_Subset
<1>5. Cardinality(Shown) \in Nat
  BY <1>2, FS_CardinalityType
<1> QED
  BY <1>3, <1>4, <1>5, Sets

-----------------------------------------------------------------------------
(* The steps of the caller.                                                 *)

LEMMA ReaderFields ==
  ASSUME NEW r \in Reader
  PROVE  /\ r.token \in Nat
         /\ r.listed \subseteq Keys
         /\ r.repeated \subseteq Keys
         /\ r.stayed \subseteq Keys
         /\ r.left \in Nat
         /\ r.joined \in Nat
<1>1. Cardinality(Keys) \in Nat
  BY KeysCounted
<1> QED
  BY <1>1 DEF Reader, Times, None

\* A page that begins at start misses nothing that is behind start, and repeats
\* nothing but what was listed and is behind start.
LEMMA AnsweredInv ==
  ASSUME Inv, NEW r \in Reader, r.stayed \subseteq Shown, NEW start \in Nat, NEW size \in PageSizes,
         Cardinality({k \in r.stayed \ r.listed : Index(k) < start}) <= r.left,
         Cardinality(r.stayed \cap (r.repeated \cup {k \in r.listed : Index(k) >= start})) <= r.joined,
         reader' = Answered(r, start, size),
         UNCHANGED <<store, places>>
  PROVE  Inv'
<1> DEFINE wasMissed == {k \in r.stayed \ r.listed : Index(k) < start}
           wasRepeated == r.stayed \cap (r.repeated \cup {k \in r.listed : Index(k) >= start})
<1>1. TypeOK /\ PlacesDistinct /\ size \in Nat \ {0}
  BY DEF Inv
<1>2. Cardinality(Shown) \in Nat /\ Cardinality(Shown) <= Cardinality(Keys) /\ Cardinality(Keys) \in Nat
  BY <1>1, Sets, KeysCounted
<1>3. /\ Shown' = Shown
      /\ \A k : Index(k)' = Index(k)
  BY DEF Shown, Index, IndexAt
<1>4. Slice(start, size) \subseteq Shown
  BY DEF Slice
<1>5. /\ reader'.token = NextToken(start, size)
      /\ reader'.listed = r.listed \cup Slice(start, size)
      /\ reader'.repeated = r.repeated \cup (r.listed \cap Slice(start, size))
      /\ reader'.stayed = r.stayed
      /\ reader'.left = r.left
      /\ reader'.joined = r.joined
  BY DEF Answered, Reader
<1>6. NextToken(start, size) \in {None} \cup (1 .. Cardinality(Keys) - 1)
  BY <1>1, <1>2 DEF NextToken
<1>7. TypeOK'
  <2>1. reader' \in Reader
    BY <1>1, <1>4, <1>6, Sets DEF Answered, Reader
  <2> QED
    BY <1>1, <2>1 DEF TypeOK
<1>8. PlacesDistinct'
  BY <1>1 DEF PlacesDistinct
<1>9. StayedShown'
  BY <1>3, <1>5 DEF StayedShown
<1>10. wasMissed \in SUBSET Keys /\ wasRepeated \in SUBSET Keys
  BY ReaderFields
<1>11. ASSUME NEW k \in Missed'
       PROVE  k \in wasMissed
  <2>1. /\ k \in r.stayed
        /\ k \notin r.listed
        /\ k \notin Slice(start, size)
        /\ k \in Shown
        /\ NextToken(start, size) = None \/ Index(k) < NextToken(start, size)
    BY <1>3, <1>5, <1>11 DEF Missed
  <2>2. Index(k) < start + size
    BY <2>1, <1>1, <1>2, IndexBelowLength, Sets DEF NextToken, None
  <2>3. Index(k) < start
    BY <2>1, <2>2, <1>1, Sets DEF Slice
  <2> QED
    BY <2>1, <2>3
<1>12. ASSUME NEW k \in Repeated'
       PROVE  k \in wasRepeated
  <2>1. /\ k \in r.stayed
        /\ k \in Shown
        /\ \/ k \in r.repeated
           \/ k \in r.listed /\ k \in Slice(start, size)
           \/ /\ k \in r.listed \/ k \in Slice(start, size)
              /\ NextToken(start, size) # None
              /\ Index(k) >= NextToken(start, size)
    BY <1>3, <1>5, <1>12 DEF Repeated
  <2>2. CASE k \in r.repeated
    BY <2>1, <2>2
  <2>3. CASE k \in r.listed /\ k \in Slice(start, size)
    BY <2>1, <2>3 DEF Slice
  <2>4. CASE /\ k \in r.listed \/ k \in Slice(start, size)
             /\ NextToken(start, size) # None
             /\ Index(k) >= NextToken(start, size)
    <3>1. Index(k) >= start + size
      BY <2>4 DEF NextToken
    <3>2. k \notin Slice(start, size) /\ Index(k) >= start
      BY <3>1, <1>1, Sets DEF Slice
    <3> QED
      BY <2>1, <2>4, <3>2
  <2> QED
    BY <2>1, <2>2, <2>3, <2>4
<1>13. ShiftsCounted'
  <2>1. Cardinality(Missed') <= Cardinality(wasMissed) /\ Cardinality(Repeated') <= Cardinality(wasRepeated)
    BY <1>10, <1>11, <1>12, KeysCounted
  <2>2. /\ Cardinality(Missed') \in Nat
        /\ Cardinality(Repeated') \in Nat
        /\ Cardinality(wasMissed) \in Nat
        /\ Cardinality(wasRepeated) \in Nat
    <3>1. Missed' \in SUBSET Keys /\ Repeated' \in SUBSET Keys
      BY <1>10, <1>11, <1>12
    <3> QED
      BY <3>1, <1>10, KeysCounted
  <2>3. r.left \in Nat /\ r.joined \in Nat
    BY ReaderFields
  <2>4. Cardinality(Missed') <= r.left /\ Cardinality(Repeated') <= r.joined
    BY <2>1, <2>2, <2>3
  <2> QED
    BY <2>4, <1>5 DEF ShiftsCounted
<1> QED
  BY <1>7, <1>8, <1>9, <1>13 DEF Inv

LEMMA ListFirstInv ==
  ASSUME Inv, NEW size \in PageSizes, ListFirst(size)
  PROVE  Inv'
<1> DEFINE r == [token |-> None, listed |-> {}, repeated |-> {}, stayed |-> Shown,
                 left |-> 0, joined |-> 0]
<1>1. r \in Reader
  BY Sets, KeysCounted DEF Inv, Reader, Times
<1>2. {k \in r.stayed \ r.listed : Index(k) < 0} = {}
  BY Sets DEF Inv
<1>3. r.stayed \cap (r.repeated \cup {k \in r.listed : Index(k) >= 0}) = {}
  OBVIOUS
<1>4. reader' = Answered(r, 0, size) /\ UNCHANGED <<store, places>>
  BY DEF ListFirst
<1>5. r.stayed = Shown /\ r.left = 0 /\ r.joined = 0
  OBVIOUS
<1> HIDE DEF r
<1> QED
  BY <1>1, <1>2, <1>3, <1>4, <1>5, FS_EmptySet, AnsweredInv

LEMMA ListNextInv ==
  ASSUME Inv, NEW size \in PageSizes, ListNext(size)
  PROVE  Inv'
<1>1. reader \in Reader /\ reader.token # None /\ reader.stayed \subseteq Shown
  BY DEF Inv, TypeOK, StayedShown, ListNext
<1>2. reader.token \in Nat
  BY <1>1, ReaderFields
<1>3. Missed = {k \in reader.stayed \ reader.listed : Index(k) < reader.token}
  BY <1>1 DEF Missed
<1>4. Repeated = reader.stayed \cap (reader.repeated \cup {k \in reader.listed : Index(k) >= reader.token})
  BY <1>1 DEF Repeated
<1>5. Cardinality(Missed) <= reader.left /\ Cardinality(Repeated) <= reader.joined
  BY DEF Inv, ShiftsCounted
<1>6. reader' = Answered(reader, reader.token, size) /\ UNCHANGED <<store, places>>
  BY DEF ListNext
<1> QED
  BY <1>1, <1>2, <1>3, <1>4, <1>5, <1>6, AnsweredInv

-----------------------------------------------------------------------------
(* The steps of the store.                                                  *)

LEMMA SetStore ==
  ASSUME NEW k, NEW entry
  PROVE  /\ DOMAIN Set(store, k, entry) = DOMAIN store \cup {k}
         /\ Set(store, k, entry)[k] = entry
         /\ \A j \in DOMAIN store \ {k} : Set(store, k, entry)[j] = store[j]
BY DEF Set

LEMMA SetTyped ==
  ASSUME TypeOK, NEW k \in Keys, NEW entry \in Entry
  PROVE  /\ DOMAIN Set(store, k, entry) \subseteq Keys
         /\ Set(store, k, entry) \in [DOMAIN Set(store, k, entry) -> Entry]
BY DEF Set, TypeOK

\* The listing does not notice.
LEMMA UnnoticedInv ==
  ASSUME Inv, TypeOK', PlacesDistinct', UNCHANGED reader,
         Shown \subseteq Shown', \A k \in Shown : Index(k)' = Index(k)
  PROVE  Inv'
<1>1. StayedShown'
  BY DEF Inv, StayedShown
<1>2. Missed' = Missed /\ Repeated' = Repeated
  <2>1. CASE reader.token = None
    BY <2>1 DEF Missed, Repeated
  <2>2. CASE reader.token # None
    <3>1. reader.stayed \subseteq Shown
      BY <2>2 DEF Inv, StayedShown
    <3> QED
      BY <3>1 DEF Missed, Repeated
  <2> QED
    BY <2>1, <2>2
<1> QED
  BY <1>1, <1>2 DEF Inv, ShiftsCounted

LEMMA CreateInv ==
  ASSUME Inv, NEW k \in Keys, NEW shown \in BOOLEAN, Create(k, shown)
  PROVE  Inv'
<1> DEFINE entry == [place |-> places + 1, shown |-> shown]
<1>1. TypeOK /\ PlacesDistinct /\ places \in Nat
  BY DEF Inv, TypeOK
<1>2. /\ k \notin DOMAIN store
      /\ store' = Set(store, k, entry)
      /\ places' = places + 1
      /\ places' \in 0 .. MaxPlaces
      /\ UNCHANGED reader
  BY <1>1 DEF Create
<1>3. entry \in Entry /\ entry.place = places + 1
  BY <1>1, <1>2 DEF Entry
<1> HIDE DEF entry
<1>4. /\ DOMAIN store' = DOMAIN store \cup {k}
      /\ store'[k] = entry
      /\ \A j \in DOMAIN store : store'[j] = store[j]
  BY <1>2 DEF Set
<1>5. TypeOK'
  BY <1>1, <1>2, <1>3, SetTyped DEF TypeOK
<1>6. \A j \in DOMAIN store : store[j].place \in Nat /\ store[j].place <= places
  BY <1>1, Sets DEF PlacesDistinct
<1>7. PlacesDistinct'
  BY <1>1, <1>2, <1>3, <1>4, <1>6 DEF PlacesDistinct
<1>8. Shown \subseteq Shown' /\ Shown' \subseteq Shown \cup {k}
  BY <1>4 DEF Shown
<1>9. ASSUME NEW j \in Shown
      PROVE  Index(j)' = Index(j)
  <2>1. j \in DOMAIN store /\ store'[j] = store[j] /\ store[j].place <= places
    BY <1>4, <1>6 DEF Shown
  <2>2. {i \in Shown' : store'[i].place < store'[j].place} = {i \in Shown : store[i].place < store[j].place}
    BY <1>1, <1>3, <1>4, <1>6, <1>8, <2>1 DEF Shown
  <2> QED
    BY <2>2 DEF Index, IndexAt
<1> QED
  BY <1>2, <1>5, <1>7, <1>8, <1>9, UnnoticedInv

\* An entry goes: those behind it move up by one.
LEMMA LeavesInv ==
  ASSUME Inv, NEW k \in Shown, Leaves(k), TypeOK', PlacesDistinct',
         Shown' = Shown \ {k},
         \A j \in Shown' : store'[j].place = store[j].place
  PROVE  Inv'
<1>1. TypeOK /\ PlacesDistinct /\ reader \in Reader /\ k \in DOMAIN store
  BY DEF Inv, TypeOK, Shown
<1>2. CASE reader.token = None
  <2>1. reader' = reader
    BY <1>1, <1>2 DEF Leaves, Passed, Reader
  <2> QED
    BY <2>1, <1>2 DEF Inv, StayedShown, ShiftsCounted, Missed, Repeated
<1>3. CASE reader.token # None
  <2>1. /\ reader'.token = reader.token
        /\ reader'.listed = reader.listed
        /\ reader'.repeated = reader.repeated
        /\ reader'.stayed = reader.stayed \ {k}
        /\ reader'.joined = reader.joined
        /\ reader'.left = IF Index(k) < reader.token THEN OnceMore(reader.left) ELSE reader.left
    BY <1>1, <1>3 DEF Leaves, Passed, Reader
  <2>2. reader.stayed \subseteq Shown
    BY <1>3 DEF Inv, StayedShown
  <2>3. StayedShown'
    BY <2>1, <2>2 DEF StayedShown
  <2>4. ASSUME NEW j \in Shown'
        PROVE  /\ j \in Shown
               /\ Index(j)' = IF store[k].place < store[j].place THEN Index(j) - 1 ELSE Index(j)
    <3>1. j \in Shown /\ store'[j].place = store[j].place
      BY <2>4
    <3>2. {i \in Shown' : store'[i].place < store'[j].place} = Before(j) \ {k}
      BY <3>1 DEF Before
    <3>3. Index(j)' = Cardinality(Before(j) \ {k})
      BY <3>2 DEF Index, IndexAt
    <3>4. IsFiniteSet(Before(j)) /\ Index(j) = Cardinality(Before(j))
      BY <1>1, Sets, KeysCounted
    <3>5. k \in Before(j) <=> store[k].place < store[j].place
      BY DEF Before
    <3> QED
      BY <3>1, <3>3, <3>4, <3>5, FS_RemoveElement
  <2>5. \A j : Index(j) \in Nat
    BY <1>1, Sets
  <2>6. reader.token \in Nat /\ reader.left \in Nat /\ reader.joined \in Nat
    BY <1>1, ReaderFields
  <2>7. Repeated' \subseteq Repeated
    BY <1>3, <2>1, <2>2, <2>4, <2>5, <2>6 DEF Repeated
  <2>8. Missed \in SUBSET Keys /\ Repeated \in SUBSET Keys /\ Missed' \in SUBSET Keys
    BY <1>1, <2>1, ReaderFields DEF Missed, Repeated
  <2>9. Cardinality(Repeated') <= reader'.joined
    <3>1. Cardinality(Repeated') <= Cardinality(Repeated)
      BY <2>7, <2>8, KeysCounted
    <3>2. Cardinality(Repeated') \in Nat /\ Cardinality(Repeated) \in Nat
      BY <2>7, <2>8, KeysCounted
    <3>3. Cardinality(Repeated) <= reader.joined
      BY DEF Inv, ShiftsCounted
    <3> QED
      BY <2>1, <2>6, <3>1, <3>2, <3>3
  \* Only the entry at the offset can slip before it.
  <2>10. ASSUME NEW j \in Missed', j \notin Missed
         PROVE  /\ j \in Shown
                /\ Index(j) = reader.token
                /\ Index(k) < reader.token
    <3>1. /\ j \in Shown'
          /\ j \in reader.stayed \ reader.listed
          /\ Index(j)' < reader.token
          /\ ~(Index(j) < reader.token)
      BY <1>3, <2>1, <2>2, <2>10 DEF Missed
    <3>2. store[k].place < store[j].place /\ Index(j) = reader.token
      BY <2>4, <2>5, <2>6, <3>1
    <3>3. Index(k) < Index(j)
      BY <1>1, <2>4, <3>1, <3>2, IndexGrows DEF Shown
    <3> QED
      BY <2>4, <3>1, <3>2, <3>3
  <2>11. Cardinality(Missed') <= reader'.left
    <3>1. /\ Cardinality(Missed) <= reader.left
          /\ Cardinality(Missed) \in Nat
          /\ Cardinality(Missed') \in Nat
          /\ Cardinality(Missed') <= Cardinality(Keys)
          /\ Cardinality(Keys) \in Nat
      BY <2>8, KeysCounted DEF Inv, ShiftsCounted
    <3>2. CASE Missed' \subseteq Missed
      <4>1. Cardinality(Missed') <= Cardinality(Missed)
        BY <2>8, <3>2, KeysCounted
      <4> QED
        BY <2>1, <2>6, <3>1, <4>1 DEF OnceMore
    <3>3. ASSUME NEW x \in Missed', x \notin Missed
          PROVE  Cardinality(Missed') <= reader'.left
      <4>1. Missed' \subseteq Missed \cup {x}
        BY <1>1, <2>10, <3>3, IndexDistinct
      <4>2. Cardinality(Missed') <= Cardinality(Missed) + 1
        BY <2>8, <4>1, OneMore
      <4>3. reader'.left = OnceMore(reader.left)
        BY <2>1, <2>10, <3>3
      <4> QED
        BY <2>6, <3>1, <4>2, <4>3 DEF OnceMore
    <3> QED
      BY <3>2, <3>3
  <2> QED
    BY <2>3, <2>9, <2>11 DEF Inv, ShiftsCounted
<1> QED
  BY <1>2, <1>3

\* An entry comes up at its place: those behind it move down by one.
LEMMA JoinsInv ==
  ASSUME Inv, NEW k \in DOMAIN store, k \notin Shown, Joins(k), TypeOK', PlacesDistinct',
         Shown' = Shown \cup {k},
         \A j \in Shown' : store'[j].place = store[j].place
  PROVE  Inv'
<1>1. TypeOK /\ PlacesDistinct /\ reader \in Reader
  BY DEF Inv, TypeOK
<1>2. CASE reader.token = None
  <2>1. reader' = reader
    BY <1>1, <1>2 DEF Joins, Passed, Reader
  <2> QED
    BY <2>1, <1>2 DEF Inv, StayedShown, ShiftsCounted, Missed, Repeated
<1>3. CASE reader.token # None
  <2>1. /\ reader'.token = reader.token
        /\ reader'.listed = reader.listed
        /\ reader'.repeated = reader.repeated
        /\ reader'.stayed = reader.stayed
        /\ reader'.left = reader.left
        /\ reader'.joined = IF Index(k) < reader.token THEN OnceMore(reader.joined) ELSE reader.joined
    BY <1>1, <1>3 DEF Joins, Passed, Reader
  <2>2. reader.stayed \subseteq Shown
    BY <1>3 DEF Inv, StayedShown
  <2>3. StayedShown'
    BY <2>1, <2>2 DEF StayedShown
  <2>4. ASSUME NEW j \in Shown
        PROVE  Index(j)' = IF store[k].place < store[j].place THEN Index(j) + 1 ELSE Index(j)
    <3>1. store'[j].place = store[j].place /\ store'[k].place = store[k].place
      BY <2>4
    <3>2. Index(j)' = Cardinality({i \in Shown' : store'[i].place < store'[j].place})
      BY DEF Index, IndexAt
    <3>3. IsFiniteSet(Before(j)) /\ Index(j) = Cardinality(Before(j)) /\ k \notin Before(j)
      BY <1>1, Sets, KeysCounted
    <3>4. CASE store[k].place < store[j].place
      <4>1. {i \in Shown' : store'[i].place < store'[j].place} = Before(j) \cup {k}
        BY <3>1, <3>4 DEF Before
      <4>2. Cardinality(Before(j) \cup {k}) = Cardinality(Before(j)) + 1
        BY <3>3, FS_AddElement
      <4> QED
        BY <3>2, <3>3, <3>4, <4>1, <4>2
    <3>5. CASE ~(store[k].place < store[j].place)
      <4>1. {i \in Shown' : store'[i].place < store'[j].place} = Before(j)
        BY <3>1, <3>5 DEF Before
      <4> QED
        BY <3>2, <3>3, <3>5, <4>1
    <3> QED
      BY <3>4, <3>5
  <2>5. \A j : Index(j) \in Nat
    BY <1>1, Sets
  <2>6. reader.token \in Nat /\ reader.left \in Nat /\ reader.joined \in Nat
    BY <1>1, ReaderFields
  <2>7. Missed' \subseteq Missed
    BY <1>3, <2>1, <2>2, <2>4, <2>5, <2>6 DEF Missed
  <2>8. Missed \in SUBSET Keys /\ Repeated \in SUBSET Keys /\ Repeated' \in SUBSET Keys
    BY <1>1, <2>1, ReaderFields DEF Missed, Repeated
  <2>9. Cardinality(Missed') <= reader'.left
    <3>1. Cardinality(Missed') <= Cardinality(Missed)
      BY <2>7, <2>8, KeysCounted
    <3>2. Cardinality(Missed') \in Nat /\ Cardinality(Missed) \in Nat
      BY <2>7, <2>8, KeysCounted
    <3>3. Cardinality(Missed) <= reader.left
      BY DEF Inv, ShiftsCounted
    <3> QED
      BY <2>1, <2>6, <3>1, <3>2, <3>3
  \* Only the entry before the offset can slip behind it.
  <2>10. ASSUME NEW j \in Repeated', j \notin Repeated
         PROVE  /\ j \in Shown
                /\ Index(j) = reader.token - 1
                /\ Index(k) < reader.token
    <3>1. /\ j \in Shown
          /\ j \in reader.stayed \cap reader.listed
          /\ Index(j)' >= reader.token
          /\ ~(Index(j) >= reader.token)
      BY <1>3, <2>1, <2>2, <2>10 DEF Repeated
    <3>2. store[k].place < store[j].place /\ Index(j) = reader.token - 1
      BY <2>4, <2>5, <2>6, <3>1
    <3>3. j \in DOMAIN store /\ store[k].place <= store[j].place
      BY <1>1, <3>1, <3>2, Sets DEF Shown
    <3>4. Index(k) <= Index(j)
      BY <1>1, <3>3, IndexKeepsOrder
    <3> QED
      BY <2>5, <2>6, <3>1, <3>2, <3>4
  <2>11. Cardinality(Repeated') <= reader'.joined
    <3>1. /\ Cardinality(Repeated) <= reader.joined
          /\ Cardinality(Repeated) \in Nat
          /\ Cardinality(Repeated') \in Nat
          /\ Cardinality(Repeated') <= Cardinality(Keys)
          /\ Cardinality(Keys) \in Nat
      BY <2>8, KeysCounted DEF Inv, ShiftsCounted
    <3>2. CASE Repeated' \subseteq Repeated
      <4>1. Cardinality(Repeated') <= Cardinality(Repeated)
        BY <2>8, <3>2, KeysCounted
      <4> QED
        BY <2>1, <2>6, <3>1, <4>1 DEF OnceMore
    <3>3. ASSUME NEW x \in Repeated', x \notin Repeated
          PROVE  Cardinality(Repeated') <= reader'.joined
      <4>1. Repeated' \subseteq Repeated \cup {x}
        BY <1>1, <2>10, <3>3, IndexDistinct
      <4>2. Cardinality(Repeated') <= Cardinality(Repeated) + 1
        BY <2>8, <4>1, OneMore
      <4>3. reader'.joined = OnceMore(reader.joined)
        BY <2>1, <2>10, <3>3
      <4> QED
        BY <2>6, <3>1, <4>2, <4>3 DEF OnceMore
    <3> QED
      BY <3>2, <3>3
  <2> QED
    BY <2>3, <2>9, <2>11 DEF Inv, ShiftsCounted
<1> QED
  BY <1>2, <1>3

\* An entry is replaced by one of the same place.
ReplacedBy(k, entry) ==
  /\ k \in DOMAIN store
  /\ store' = Set(store, k, entry)
  /\ entry \in Entry
  /\ entry.place = store[k].place
  /\ UNCHANGED places

LEMMA Replaced ==
  ASSUME TypeOK, PlacesDistinct, NEW k, NEW entry, ReplacedBy(k, entry)
  PROVE  /\ reader' \in Reader => TypeOK'
         /\ PlacesDistinct'
         /\ \A j \in Shown' : store'[j].place = store[j].place
         /\ entry.shown => Shown' = Shown \cup {k}
         /\ ~entry.shown => Shown' = Shown \ {k}
<1>1. /\ DOMAIN store' = DOMAIN store
      /\ store'[k] = entry
      /\ \A j \in DOMAIN store \ {k} : store'[j] = store[j]
      /\ k \in Keys
  BY DEF ReplacedBy, Set, TypeOK
<1>2. \A j \in DOMAIN store : store'[j].place = store[j].place
  BY <1>1 DEF ReplacedBy
<1>3. reader' \in Reader => TypeOK'
  BY <1>1, SetTyped DEF TypeOK, ReplacedBy
<1>4. PlacesDistinct'
  BY <1>1, <1>2 DEF PlacesDistinct, ReplacedBy
<1>5. /\ \A j \in Shown' : store'[j].place = store[j].place
      /\ entry.shown => Shown' = Shown \cup {k}
      /\ ~entry.shown => Shown' = Shown \ {k}
  BY <1>1, <1>2 DEF Shown, ReplacedBy
<1> QED
  BY <1>3, <1>4, <1>5

LEMMA OnceMoreTyped == \A n \in Times : OnceMore(n) \in Times
BY KeysCounted DEF Times, OnceMore

LEMMA LeavesTyped ==
  ASSUME TypeOK, NEW k, Leaves(k)
  PROVE  reader' \in Reader
BY OnceMoreTyped DEF TypeOK, Leaves, Reader

LEMMA JoinsTyped ==
  ASSUME TypeOK, NEW k, Joins(k)
  PROVE  reader' \in Reader
BY OnceMoreTyped DEF TypeOK, Joins, Reader

LEMMA HideInv ==
  ASSUME Inv, NEW k \in Keys, Hide(k)
  PROVE  Inv'
<1> DEFINE entry == [store[k] EXCEPT !.shown = FALSE]
<1>1. TypeOK /\ PlacesDistinct /\ k \in Shown /\ k \in DOMAIN store
  BY DEF Inv, Hide, Shown
<1>2. store' = Set(store, k, entry) /\ Leaves(k) /\ UNCHANGED places
  BY DEF Hide
<1>3. entry \in Entry /\ entry.place = store[k].place /\ ~entry.shown
  BY <1>1 DEF TypeOK, Entry
<1> HIDE DEF entry
<1>4. ReplacedBy(k, entry)
  BY <1>1, <1>2, <1>3 DEF ReplacedBy
<1>5. Shown' = Shown \ {k} /\ PlacesDistinct' /\ \A j \in Shown' : store'[j].place = store[j].place
  BY <1>1, <1>3, <1>4, Replaced
<1>6. reader' \in Reader
  BY <1>2, LeavesTyped DEF Inv
<1> QED
  BY <1>1, <1>2, <1>4, <1>5, <1>6, Replaced, LeavesInv DEF Shown

LEMMA ShowInv ==
  ASSUME Inv, NEW k \in Keys, Show(k)
  PROVE  Inv'
<1> DEFINE entry == [store[k] EXCEPT !.shown = TRUE]
<1>1. TypeOK /\ PlacesDistinct /\ k \notin Shown /\ k \in DOMAIN store
  BY DEF Inv, Show, Shown
<1>2. store' = Set(store, k, entry) /\ Joins(k) /\ UNCHANGED places
  BY DEF Show
<1>3. entry \in Entry /\ entry.place = store[k].place /\ entry.shown
  BY <1>1 DEF TypeOK, Entry
<1> HIDE DEF entry
<1>4. ReplacedBy(k, entry)
  BY <1>1, <1>2, <1>3 DEF ReplacedBy
<1>5. Shown' = Shown \cup {k} /\ PlacesDistinct' /\ \A j \in Shown' : store'[j].place = store[j].place
  BY <1>1, <1>3, <1>4, Replaced
<1>6. reader' \in Reader
  BY <1>2, JoinsTyped DEF Inv
<1> QED
  BY <1>1, <1>2, <1>4, <1>5, <1>6, Replaced, JoinsInv

LEMMA RemoveInv ==
  ASSUME Inv, NEW k \in Keys, Remove(k)
  PROVE  Inv'
<1>1. /\ TypeOK
      /\ PlacesDistinct
      /\ store' = Delete(store, k)
      /\ k \in DOMAIN store
      /\ UNCHANGED places
  BY DEF Inv, Remove
<1>2. /\ DOMAIN store' = DOMAIN store \ {k}
      /\ \A j \in DOMAIN store' : store'[j] = store[j]
      /\ store' \in [DOMAIN store' -> Entry]
  BY <1>1 DEF Delete, Restrict, TypeOK
<1>3. PlacesDistinct'
  BY <1>1, <1>2 DEF PlacesDistinct
<1>4. Shown' = Shown \ {k} /\ \A j \in Shown' : store'[j].place = store[j].place
  BY <1>2 DEF Shown
<1>5. CASE k \in Shown
  <2>1. Leaves(k)
    BY <1>5 DEF Remove
  <2>2. reader' \in Reader
    BY <2>1, LeavesTyped DEF Inv
  <2>3. TypeOK'
    BY <1>1, <1>2, <2>2 DEF TypeOK
  <2> QED
    BY <1>3, <1>4, <1>5, <2>1, <2>3, LeavesInv
<1>6. CASE k \notin Shown
  <2>1. UNCHANGED reader
    BY <1>6 DEF Remove
  <2>2. TypeOK'
    BY <1>1, <1>2, <2>1 DEF TypeOK
  <2>3. Shown' = Shown
    BY <1>4, <1>6
  <2>4. \A j \in Shown : Index(j)' = Index(j)
    <3> SUFFICES ASSUME NEW j \in Shown PROVE Index(j)' = Index(j)
      OBVIOUS
    <3>1. {i \in Shown' : store'[i].place < store'[j].place} = {i \in Shown : store[i].place < store[j].place}
      BY <1>4, <2>3
    <3> QED
      BY <3>1 DEF Index, IndexAt
  <2> QED
    BY <1>3, <2>1, <2>2, <2>3, <2>4, UnnoticedInv
<1> QED
  BY <1>5, <1>6

-----------------------------------------------------------------------------
(* The steps together.                                                      *)

LEMMA InitInv == Init => Inv
<1> SUFFICES ASSUME Init PROVE Inv
  OBVIOUS
<1>1. Cardinality(Keys) \in Nat
  BY KeysCounted
<1>2. TypeOK
  BY <1>1 DEF Init, TypeOK, Reader, Times, Empty
<1>3. PlacesDistinct /\ StayedShown
  BY DEF Init, PlacesDistinct, StayedShown, Empty
<1>4. Missed = {} /\ Repeated = {} /\ reader.left = 0 /\ reader.joined = 0
  BY DEF Init, Missed, Repeated
<1>5. ShiftsCounted
  BY <1>4, FS_EmptySet DEF ShiftsCounted
<1> QED
  BY <1>2, <1>3, <1>5 DEF Inv

LEMMA NextInv == Inv /\ [Next]_vars => Inv'
<1> SUFFICES ASSUME Inv, [Next]_vars PROVE Inv'
  OBVIOUS
<1>1. CASE UNCHANGED vars
  <2>1. store' = store /\ places' = places /\ reader' = reader
    BY <1>1 DEF vars
  <2>2. TypeOK' /\ PlacesDistinct'
    BY <2>1 DEF Inv, TypeOK, PlacesDistinct
  <2>3. Shown' = Shown /\ \A k : Index(k)' = Index(k)
    BY <2>1 DEF Shown, Index, IndexAt
  <2> QED
    BY <2>1, <2>2, <2>3, UnnoticedInv
<1>2. CASE \E size \in PageSizes : ListFirst(size) \/ ListNext(size)
  BY <1>2, ListFirstInv, ListNextInv
<1>3. CASE \E k \in Keys, shown \in BOOLEAN : Create(k, shown)
  BY <1>3, CreateInv
<1>4. CASE \E k \in Keys : Hide(k) \/ Show(k) \/ Remove(k)
  BY <1>4, HideInv, ShowInv, RemoveInv
<1> QED
  BY <1>1, <1>2, <1>3, <1>4 DEF Next

LEMMA InvHolds == Spec => []Inv
BY InitInv, NextInv, PTL DEF Spec

\* A token is below the number of keys, so a listing has no more pages.
THEOREM TypeCorrect == Spec => []TypeOK
<1>1. Inv => TypeOK
  BY DEF Inv
<1> QED
  BY <1>1, InvHolds, PTL

\* What a caller misses was pushed before the offset by an entry that left,
\* what he gets twice was pushed behind it by one that came up.
THEOREM ShiftsAreBounded == Spec => []OffsetsShift
<1>1. ASSUME Inv PROVE OffsetsShift
  <2>1. reader.token = None => Missed = reader.stayed \ reader.listed
    BY DEF Missed
  <2>2. reader \in Reader /\ Cardinality(Missed) <= reader.left /\ Cardinality(Repeated) <= reader.joined
    BY <1>1 DEF Inv, TypeOK, ShiftsCounted
  <2>3. reader.stayed \cap reader.repeated \subseteq Repeated /\ Repeated \in SUBSET Keys
    BY <2>2, ReaderFields DEF Repeated
  <2>4. /\ Cardinality(reader.stayed \cap reader.repeated) <= Cardinality(Repeated)
        /\ Cardinality(reader.stayed \cap reader.repeated) \in Nat
        /\ Cardinality(Repeated) \in Nat
        /\ reader.joined \in Nat
    BY <2>2, <2>3, KeysCounted, ReaderFields
  <2> QED
    BY <2>1, <2>2, <2>4 DEF OffsetsShift
<1> QED
  BY <1>1, InvHolds, PTL
=============================================================================
