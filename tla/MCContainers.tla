---------------------------- MODULE MCContainers ----------------------------
(*************************************************************************)
(* The trees of libkern/tree.h and the pairing heap of                   *)
(* kern/priority_queue.h, one at a time: the first state says which one  *)
(* is used, and the other stays empty.                                   *)
(*************************************************************************)
EXTENDS Trees, TLC

CONSTANTS Elements, Priorities, KeyBits, ReuseEntries
VARIABLES flags, root, mem, queued, initialised, ordered

Heap == INSTANCE PriorityQueue

ASSUME HeapAssumption ==
  /\ KeyBits \in Nat \ {0} /\ Priorities \subseteq 0 .. 2^KeyBits - 1
  /\ ReuseEntries \in BOOLEAN /\ Null \notin Elements

VARIABLE used   \* which container this behavior is about

heap == <<flags, root, mem, queued, initialised, ordered>>

\* The last node has the key of another one.
Keyed == [n \in Nodes |-> IF n = 11 THEN 4 ELSE n]

\* No routine or property tells the elements of the heap apart.
AnyElement == Permutations(Elements)

Empty ==
  /\ used \in {"trees", "heap"} /\ Init /\ Heap!Init
  /\ used = "heap" => kind = "rb"
  /\ used = "trees" => flags = [generic |-> FALSE, min |-> FALSE]

Use ==
  \/ used = "trees" /\ Next /\ UNCHANGED <<used, heap>>
  \/ used = "heap" /\ Heap!Next /\ UNCHANGED <<used, vars>>

Containers == Empty /\ [][Use]_<<used, vars, heap>>

\* The entries on a heap are one well-linked tree (PriorityQueue.tla, where
\* this and the next two are explained; priority_queue.h:323-487).
HeapIsOneTree == used = "heap" => Heap!OneTree

\* The root of a heap is its best element, as long as
\* priority_queue_entry_increase moves elements towards it
\* (priority_queue.h:345, 669-671).
HeapRootIsBest == used = "heap" => Heap!RootIsBest

\* The routines of a heap tell whether its root or the root's key changed
\* (priority_queue.h:591, 615, 654, 688).
HeapReturnsRootChange == used = "heap" => Heap!ReturnsRootChange
=============================================================================
