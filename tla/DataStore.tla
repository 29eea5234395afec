----------------------------- MODULE DataStore -----------------------------
(***************************************************************************)
(* The Map<string, T> that every store of the server keeps                 *)
(* (src/data/store.ts).  A store is a function whose domain is the set of  *)
(* keys present.  Here a write is one step: nothing else can run between   *)
(* the change of the map and the end of fs.writeFileSync, the server being *)
(* single-threaded.                                                        *)
(***************************************************************************)
EXTENDS Functions

\* The Map of a store whose file is absent or unreadable.
Empty == [k \in {} |-> {}]

\* set(key, value): adds the key, or replaces its value.
Set(store, k, v) ==
  [x \in DOMAIN store \cup {k} |-> IF x = k THEN v ELSE store[x]]

\* delete(key): an absent key leaves the map as it is.
Delete(store, k) == Restrict(store, DOMAIN store \ {k})
=============================================================================
