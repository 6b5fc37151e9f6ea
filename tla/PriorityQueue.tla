--------------------------- MODULE PriorityQueue ---------------------------
(*************************************************************************)
(* The pairing heap of src/Headers/kern/priority_queue.h: one queue and  *)
(* the entries embedded in its callers' elements.  An entry is named by  *)
(* its element; mem is the memory the inline functions read and write.   *)
(* A routine is an operator that gives the memory, the root and what is  *)
(* returned; it runs under its caller's lock, so a call is one action.   *)
(*************************************************************************)
EXTENDS Integers, FiniteSetsExt

CONSTANTS
  Elements,
  Priorities,     \* the priorities callers use: naturals of KeyBits bits
  KeyBits,        \* PRIORITY_QUEUE_ENTRY_KEY_BITS
  ReuseEntries,   \* callers insert what priority_queue_remove_max gave them as it is
  Null

Pointer == Elements \cup {Null}
PRIORITY_QUEUE_KEY_NONE == 0

VARIABLES
  flags,        \* [generic, min]: what priority_queue_init was given
  root,         \* pqueue_unpack_root
  mem,          \* the entries' fields, and pri, the priority in the element of a generic queue
  queued,       \* history: the elements on the queue
  initialised,  \* history: the entries as priority_queue_entry_init leaves them
  ordered       \* history: priority_queue_entry_increase moved no element away from the root

vars == <<flags, root, mem, queued, initialised, ordered>>

TypeOK ==
  /\ flags \in [generic : BOOLEAN, min : BOOLEAN] /\ root \in Pointer
  /\ mem \in [next : [Elements -> Pointer], prev : [Elements -> Pointer],
              child : [Elements -> Pointer], pri : [Elements -> Priorities],
              key : [Elements -> -(2^(KeyBits - 1)) .. 2^(KeyBits - 1) - 1]]
  /\ ordered \in BOOLEAN /\ queued \subseteq Elements
  /\ initialised \subseteq Elements \ queued

Init ==
  /\ flags \in [generic : BOOLEAN, min : BOOLEAN] /\ root = Null
  /\ mem = [next |-> [e \in Elements |-> Null], prev |-> [e \in Elements |-> Null],
            child |-> [e \in Elements |-> Null],
            key |-> [e \in Elements |-> PRIORITY_QUEUE_KEY_NONE],
            pri |-> [e \in Elements |-> CHOOSE p \in Priorities : TRUE]]
  /\ queued = {} /\ initialised = Elements /\ ordered = TRUE

----------------------------------------------------------------------------
\* A store to a key on LP64: the field is a signed one of KeyBits bits.
Stored(k) == IF k >= 2^(KeyBits - 1) THEN k - 2^KeyBits ELSE k

\* What the comparator reads: the key in the entry, or (external) the element.
SortKey(m, e) == IF flags.generic THEN m.pri[e] ELSE m.key[e]

priority_queue_element_builtin_key_compare(m, e1, e2) == SortKey(m, e2) - SortKey(m, e1)

cmp_fn(m, e1, e2) ==
  IF flags.min THEN priority_queue_element_builtin_key_compare(m, e1, e2)
               ELSE -priority_queue_element_builtin_key_compare(m, e1, e2)

pqueue_list_remove_NoPrev(m, e) == \* Mutant: the next element keeps its prev
  LET p == m.prev[e]  n == m.next[e] IN
  IF m.child[p] = e THEN [m EXCEPT !.child[p] = n] ELSE [m EXCEPT !.next[p] = n]

pqueue_list_remove(m, e) ==
  LET p == m.prev[e]  n == m.next[e]
      cut == IF m.child[p] = e THEN [m EXCEPT !.child[p] = n] ELSE [m EXCEPT !.next[p] = n]
  IN  IF n = Null THEN cut ELSE [cut EXCEPT !.prev[n] = p]

\* The memory after a merge, and where the merged tree is.
pqueue_merge(m, a, b) ==
  IF a = Null THEN [mem |-> m, at |-> b]
  ELSE IF b = Null \/ a = b THEN [mem |-> m, at |-> a]
  ELSE
    LET behind == cmp_fn(m, a, b) < 0
        parent == IF behind THEN b ELSE a
        child == IF behind THEN a ELSE b
        first == m.child[parent]
        hung == [m EXCEPT !.next[child] = first, !.prev[child] = parent]
        told == IF first = Null THEN hung ELSE [hung EXCEPT !.prev[first] = child]
    IN  [mem |-> [told EXCEPT !.child[parent] = child, !.next[parent] = Null, !.prev[parent] = Null],
         at |-> parent]

\* The trees of a list, paired from the left and melded from the right
\* (external: only declared here).
RECURSIVE pqueue_pair_meld(_, _)
pqueue_pair_meld(m, e) ==
  LET b == m.next[e] IN
  IF b = Null THEN [mem |-> [m EXCEPT !.prev[e] = Null], at |-> e]
  ELSE
    LET pair == pqueue_merge(m, e, b)
        others == m.next[b]
        rest == pqueue_pair_meld(pair.mem, others)
    IN  IF others = Null THEN pair ELSE pqueue_merge(rest.mem, pair.at, rest.at)

pqueue_update_key(m, e, k) == IF flags.generic THEN m ELSE [m EXCEPT !.key[e] = Stored(k)]

pqueue_remove_root(m, e) ==
  IF m.child[e] = Null THEN [mem |-> m, at |-> Null] ELSE pqueue_pair_meld(m, m.child[e])

pqueue_remove_non_root(m, e) ==
  LET cut == pqueue_list_remove(m, e)
      sub == pqueue_pair_meld(cut, cut.child[e])
  IN  IF cut.child[e] = Null THEN [mem |-> cut, at |-> root] ELSE pqueue_merge(sub.mem, root, sub.at)

\* priority_queue_entry_init, on a memory.
Cleared(m, e) ==
  [m EXCEPT !.next[e] = Null, !.prev[e] = Null, !.child[e] = Null, !.key[e] = PRIORITY_QUEUE_KEY_NONE]

----------------------------------------------------------------------------
\* The routines, on a memory m: the memory, where the root is, the result.

priority_queue_insert_LateKey(m, r, e, k) ==   \* Mutant: merged before its key is stored
  LET h == pqueue_merge(m, r, e)
  IN  [mem |-> pqueue_update_key(h.mem, e, k), at |-> h.at, ret |-> h.at = e]

priority_queue_insert(m, r, e, k) ==
  LET h == pqueue_merge(pqueue_update_key(m, e, k), r, e)
  IN  [mem |-> h.mem, at |-> h.at, ret |-> h.at = e]

priority_queue_remove(m, e) ==
  LET h == IF e = root THEN pqueue_remove_root(m, e) ELSE pqueue_remove_non_root(m, e)
  IN  [mem |-> Cleared(h.mem, e), at |-> h.at, ret |-> e = root]

priority_queue_entry_decrease_Inserted(m, e, k) ==  \* Mutant: what the insertion returns
  LET out == priority_queue_remove(m, e) IN priority_queue_insert(out.mem, out.at, e, k)

priority_queue_entry_decrease(m, e, k) ==
  LET out == priority_queue_remove(m, e)
  IN  [priority_queue_insert(out.mem, out.at, e, k) EXCEPT !.ret = out.ret]

priority_queue_entry_increase(m, e, k) ==
  IF e = root THEN [mem |-> pqueue_update_key(m, e, k), at |-> root, ret |-> TRUE]
  ELSE priority_queue_insert(pqueue_list_remove(m, e), root, e, k)

\* priority_queue_remove_max and priority_queue_remove_min return the old root,
\* and leave its entry as it is.
priority_queue_remove_max ==
  LET h == pqueue_remove_root(mem, root) IN [mem |-> h.mem, at |-> h.at, ret |-> root]

----------------------------------------------------------------------------
\* The calls.  On a generic queue the caller sets the element's own priority
\* first, and the key it passes is ignored; with keys in the entries the routine
\* stores it.
WithPriority(e, p) == IF flags.generic THEN [mem EXCEPT !.pri[e] = p] ELSE mem

\* How the comparator reads priority p, and which key is nearer the root.
Read(p) == IF flags.generic THEN p ELSE Stored(p)
Nearer(k, l) == IF flags.min THEN k < l ELSE k > l

Becomes(h) == root' = h.at /\ mem' = h.mem

Insert(e, p) ==
  /\ e \notin queued /\ (e \in initialised \/ ReuseEntries)
  /\ Becomes(priority_queue_insert(WithPriority(e, p), root, e, p))
  /\ queued' = queued \cup {e} /\ initialised' = initialised \ {e}
  /\ UNCHANGED <<flags, ordered>>

Remove(e) ==
  /\ e \in queued /\ Becomes(priority_queue_remove(mem, e))
  /\ queued' = queued \ {e} /\ initialised' = initialised \cup {e}
  /\ UNCHANGED <<flags, ordered>>

\* Callers may use either routine, whichever way the element moves.
Decrease(e, p) ==
  /\ e \in queued /\ Becomes(priority_queue_entry_decrease(WithPriority(e, p), e, p))
  /\ UNCHANGED <<flags, queued, initialised, ordered>>

Increase(e, p) ==
  /\ e \in queued /\ Becomes(priority_queue_entry_increase(WithPriority(e, p), e, p))
  /\ ordered' = (ordered /\ ~Nearer(SortKey(mem, e), Read(p)))
  /\ UNCHANGED <<flags, queued, initialised>>

RemoveMax ==
  /\ root # Null /\ Becomes(priority_queue_remove_max) /\ queued' = queued \ {root}
  /\ UNCHANGED <<flags, initialised, ordered>>

\* pqueue_destroy hands every element to a callback (external), which
\* initialises the entry for another use; then the queue is initialised again.
Destroy ==
  /\ root # Null /\ root' = Null
  /\ mem' = FoldSet(LAMBDA e, m : Cleared(m, e), mem, queued)
  /\ queued' = {} /\ initialised' = initialised \cup queued
  /\ UNCHANGED <<flags, ordered>>

EntryInit(e) ==
  /\ e \notin queued \cup initialised /\ mem' = Cleared(mem, e)
  /\ initialised' = initialised \cup {e}
  /\ UNCHANGED <<flags, root, queued, ordered>>

Next ==
  \/ \E e \in Elements, p \in Priorities : Insert(e, p) \/ Decrease(e, p) \/ Increase(e, p)
  \/ \E e \in Elements : Remove(e) \/ EntryInit(e)
  \/ RemoveMax \/ Destroy

Spec == Init /\ [][Next]_vars

----------------------------------------------------------------------------
\* The entries reached upwards from e in at most n steps of prev.
RECURSIVE Above(_, _)
Above(e, n) == IF e = Null \/ n = 0 THEN {} ELSE {e} \cup Above(mem.prev[e], n - 1)

\* However elements come, go and move, also by the wrong one of the two updating
\* routines, fields keep their types and the entries on the queue are one tree:
\* each but the root hangs from exactly one other, by child or by next, knows it
\* as its prev, and leads up to the root (priority_queue.h:323-384, 418-487).
\* An entry that priority_queue_remove_max returned has to be initialised before
\* it is inserted again; ReuseEntries is for callers who rely on line 782, "Uses
\* the priority_queue_remove() routine", which would have initialised it.
OneTree ==
  /\ TypeOK
  /\ root = Null <=> queued = {}
  /\ \A e \in queued :
       /\ root \in Above(e, Cardinality(queued))
       /\ (e = root) <=> (mem.prev[e] = Null)
       /\ e # root => (mem.child[mem.prev[e]] = e) # (mem.next[mem.prev[e]] = e)
       /\ \A f \in {mem.child[e], mem.next[e]} \ {Null} : f \in queued /\ mem.prev[f] = e
  /\ root # Null => mem.next[root] = Null

\* Nothing on the queue is nearer the root's place than the root, so that
\* priority_queue_max and priority_queue_min find what they look for (line 345:
\* "maintain the parent > child invariant"), after any insertions, removals and
\* updates with priority_queue_entry_decrease either way, but only as long as
\* priority_queue_entry_increase moves elements towards the root.  Its warning
\* for min-heaps (669-671) says that "the element moves away from the root".  The
\* order is that of the comparator, which reads keys of an entry as signed (153).
RootIsBest ==
  ordered => \A e \in queued : ~Nearer(SortKey(mem, e), SortKey(mem, root))

\* "Whether the update caused the root or its key to change" (654, 688),
\* "Whether the inserted element became the new root" (591) and "Whether the
\* removed element was the root" (615): insertions and removals tell whether the
\* root changed, and so does either update to another key that moves the element
\* its way, priority_queue_entry_increase towards the root and
\* priority_queue_entry_decrease away from it.  Used the other way, as the
\* warning for min-heaps at 635-637 has it, the latter misses a new root.
ReturnsRootChange ==
  LET Tells(h) == h.ret <=> \/ h.at # root
                            \/ root # Null /\ SortKey(h.mem, root) # SortKey(mem, root)
      MovesUp(e, p) == Nearer(Read(p), SortKey(mem, e))
      MovesDown(e, p) == Nearer(SortKey(mem, e), Read(p))
  IN  ordered =>
        /\ \A e \in initialised, p \in Priorities : Tells(priority_queue_insert(WithPriority(e, p), root, e, p))
        /\ \A e \in queued : priority_queue_remove(mem, e).ret <=> priority_queue_remove(mem, e).at # root
        /\ \A e \in queued, p \in Priorities :
             /\ MovesUp(e, p) => Tells(priority_queue_entry_increase(WithPriority(e, p), e, p))
             /\ MovesDown(e, p) => Tells(priority_queue_entry_decrease(WithPriority(e, p), e, p))
=============================================================================
