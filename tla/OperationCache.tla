--------------------------- MODULE OperationCache ---------------------------
(***************************************************************************)
(* graphql/handler/operation_cache.go: LRUOperationCache as operators on   *)
(* its state.  An entry is its place in the allocator's array, 1 to        *)
(* MaxEntries; 0 is the root of the ring of entries.  What follows the     *)
(* second Lock of removeOldest is never reached and is left out: Remove,   *)
(* Free and the deletion from the map.                                     *)
(***************************************************************************)
EXTENDS Integers, FiniteSets, FiniteSetsExt, TLC

CONSTANTS MaxEntries, None

ASSUME MaxEntriesAssumption == MaxEntries \in Nat \ {0}

\* newLRUEvictList, newLRUEntryAllocator: the bit of the last entry is set.
NewLRUOperationCache ==
  [cache |-> <<>>, allocated |-> {MaxEntries}, len |-> 0,
   operation |-> [e \in 1..MaxEntries |-> None],
   next |-> [e \in 0..MaxEntries |-> 0], prev |-> [e \in 0..MaxEntries |-> 0]]

\* bitset.NextSet(0) returns the first entry whose bit is set: one that is allocated.
NextSet(lru) == Min(lru.allocated)

\* The ring with e behind at.
insert(lru, e, at) ==
  LET n == lru.next[at]
      one == [lru EXCEPT !.next[at] = e, !.prev[e] = at]
  IN  [one EXCEPT !.next[e] = n, !.prev[n] = e]

move(lru, e, at) ==
  IF e = at THEN lru
  ELSE LET out == [lru EXCEPT !.next[lru.prev[e]] = lru.next[e]]
       IN  insert([out EXCEPT !.prev[out.next[e]] = out.prev[e]], e, at)

MoveToFront(lru, e) == IF lru.next[0] = e THEN lru ELSE move(lru, e, 0)

\* allocator.New and insert
PushFront(lru, operation) ==
  LET e == NextSet(lru)
      new == [lru EXCEPT !.allocated = @ \cup {e}, !.operation[e] = operation, !.len = @ + 1]
  IN  insert(new, e, 0)

Hit(lru, query) == query \in DOMAIN lru.cache
Looked(lru, query) == lru.operation[lru.cache[query]]
Touched(lru, query) == MoveToFront(lru, lru.cache[query])

\* Add, up to the eviction.
Full(lru, query) == ~Hit(lru, query) /\ lru.len > MaxEntries
Added(lru, query, operation) ==
  IF Hit(lru, query)
  THEN [MoveToFront(lru, lru.cache[query]) EXCEPT !.operation[lru.cache[query]] = operation]
  ELSE [PushFront(lru, operation) EXCEPT !.cache = (query :> NextSet(lru)) @@ @]
=============================================================================
