----------------------------- MODULE KernQueue -----------------------------
(*************************************************************************)
(* The doubly linked queues of src/Headers/kern/queue.h, in both of its  *)
(* methods, and the circle queues of src/Headers/kern/circle_queue.h.    *)
(* Elements move between queues; each has one linkage.  The routines run *)
(* under their caller's lock, so an operation is a step that carries out *)
(* its stores, in their order.  queue_enter alone promises something to  *)
(* a debugger that stops the machine half way: its stores are steps of   *)
(* their own, in segments that the compiler barrier separates, and       *)
(* within a segment the compiler may exchange stores to different        *)
(* fields.                                                               *)
(*                                                                       *)
(* A Method 2 link points to an element and a Method 1 link to the       *)
(* linkage in it.  Both are named by the element here, and the cases in  *)
(* which the Method 2 macros reach a link as the head's or as an         *)
(* element's are one.                                                    *)
(*************************************************************************)
EXTENDS Integers, Sequences

CONSTANTS
  Elements,
  LinkQueues,   \* heads used with Method 1, linkage chains
  ChainQueues,  \* heads used with Method 2, element chains
  Circles,      \* circle queue heads
  Null

Queues == LinkQueues \cup ChainQueues
Heads == Queues \cup Circles
Nodes == Heads \cup Elements

ASSUME KernQueueAssumption ==
  /\ LinkQueues \cap ChainQueues = {} /\ Queues \cap Circles = {}
  /\ Heads \cap Elements = {} /\ Null \notin Nodes

VARIABLES
  mem,       \* the fields next and prev; a circle's head is its next
  pending,   \* the stores queue_enter has still to make, before and after its barrier
  ready,     \* the heads that are initialised
  it,        \* the safe iteration in progress
  content    \* history: what is on each head, with what is being entered

vars == <<mem, pending, ready, it, content>>

NoIteration == [on |-> Null, at |-> Null, ne |-> Null, seen |-> <<>>, from |-> <<>>]

Memory == [next : [Nodes -> Nodes \cup {Null}], prev : [Nodes -> Nodes \cup {Null}]]
Store == [field : {"next", "prev"}, node : Nodes, val : Nodes \cup {Null}]
NoStores == [before |-> {}, after |-> {}]

TypeOK ==
  /\ mem \in Memory /\ pending \in [before : SUBSET Store, after : SUBSET Store]
  /\ ready \subseteq Heads /\ content \in [Heads -> Seq(Elements)]
  /\ \A q \in ready \cap Queues : mem.next[q] # Null /\ mem.prev[q] # Null
  /\ it.on \in ready \cup {Null} /\ {it.at, it.ne} \subseteq Nodes \cup {Null}

Init ==
  /\ mem = [next |-> [n \in Nodes |-> Null], prev |-> [n \in Nodes |-> Null]]
  /\ pending = NoStores /\ ready = {} /\ it = NoIteration
  /\ content = [q \in Heads |-> <<>>]

\* The contents with an element more at the place i, or without the one there.
Insert(s, i, e) ==
  [j \in 1 .. Len(s) + 1 |-> IF j < i THEN s[j] ELSE IF j = i THEN e ELSE s[j - 1]]
Rotated(s, k) == [j \in 1 .. Len(s) |-> IF j + k > Len(s) THEN s[j + k - Len(s)] ELSE s[j + k]]
Delete(s, i) == [j \in 1 .. Len(s) - 1 |-> IF j < i THEN s[j] ELSE s[j + 1]]

----------------------------------------------------------------------------
\* The stores an operation makes, one after the other.

Next_(n, v) == [field |-> "next", node |-> n, val |-> v]
Prev_(n, v) == [field |-> "prev", node |-> n, val |-> v]
m ++ s == [m EXCEPT ![s.field][s.node] = s.val]

\* insque, and enqueue_head with the head as the predecessor.
InsQue(m, e, pred) ==
  LET succ == m.next[pred]
  IN  m ++ Next_(e, succ) ++ Prev_(e, pred) ++ Prev_(succ, e) ++ Next_(pred, e)

EnqueueTail(m, q, e) ==
  LET tail == m.prev[q]
  IN  m ++ Next_(e, q) ++ Prev_(e, tail) ++ Next_(tail, e) ++ Prev_(q, e)

\* remqueue and remque; the dequeued element's own links are left as they are.
RemQue(m, e) ==
  LET next == m.next[e]  prev == m.prev[e] IN m ++ Prev_(next, prev) ++ Next_(prev, next)

DequeueHead(m, q) == LET new == m.next[m.next[q]] IN m ++ Prev_(new, q) ++ Next_(q, new)
DequeueTail(m, q) == LET new == m.prev[m.prev[q]] IN m ++ Next_(new, q) ++ Prev_(q, new)
Forget(m, e) == m ++ Next_(e, Null) ++ Prev_(e, Null)

QueueEnter_NoBarrier(m, q, e) == \* Mutant: without the compiler barrier
  LET p == m.prev[q]
  IN  [before |-> {Prev_(e, p), Next_(e, q), Next_(p, e), Prev_(q, e)}, after |-> {}]

QueueEnter(m, q, e) ==
  LET p == m.prev[q]
  IN  [before |-> {Prev_(e, p), Next_(e, q)}, after |-> {Next_(p, e), Prev_(q, e)}]

InsertBefore(m, e, cur) ==
  LET p == m.prev[cur] IN m ++ Next_(e, cur) ++ Prev_(e, p) ++ Next_(p, e) ++ Prev_(cur, e)
InsertAfter(m, e, cur) ==
  LET n == m.next[cur] IN m ++ Prev_(e, cur) ++ Next_(e, n) ++ Prev_(n, e) ++ Next_(cur, e)

NewHead(m, old, new) ==
  LET n == m.next[old]  p == m.prev[old]
  IN  m ++ Next_(new, n) ++ Prev_(new, p) ++ Prev_(n, new) ++ Next_(p, new)

CircleFirst(m, c) == m.next[c]
CircleLast(m, c) == IF CircleFirst(m, c) = Null THEN Null ELSE m.prev[CircleFirst(m, c)]
CircleNext(m, c, e) == IF m.next[e] = CircleFirst(m, c) THEN Null ELSE m.next[e]

CircleEnqueueTail(m, c, e) ==
  LET head == CircleFirst(m, c)  tail == CircleLast(m, c) IN
  IF head = Null THEN m ++ Prev_(e, e) ++ Next_(e, e) ++ Next_(c, e)
  ELSE m ++ Next_(e, head) ++ Prev_(e, tail) ++ Next_(tail, e) ++ Prev_(head, e)

CircleDequeue(m, c, e) ==
  LET next == m.next[e]  prev == m.prev[e]  out == m ++ Next_(prev, next) ++ Prev_(next, prev) IN
  IF next = e THEN m ++ Next_(c, Null)
  ELSE IF CircleFirst(m, c) = e THEN out ++ Next_(c, next) ELSE out

----------------------------------------------------------------------------
\* An operation leaves the links m and the contents c.
Leaves(m, c) ==
  /\ pending = NoStores /\ mem' = m /\ content' = c /\ UNCHANGED <<pending, it>>

\* The common case: one queue q, which then holds s.
Do(q, m, s) == Leaves(m, [content EXCEPT ![q] = s]) /\ UNCHANGED ready

\* The callers' side (external): an element is on one queue at most, a queue is
\* initialised before its use, and while one is iterated over only the current
\* element may leave it.
On(e, q) == \E i \in DOMAIN content[q] : content[q][i] = e
Idle == it = NoIteration
Usable(q) == Idle /\ q \in ready
MayEnter(e, q) == Usable(q) /\ \A r \in Heads : ~On(e, r)
MayLeave(e, q) == On(e, q) /\ (Idle \/ (it.on = q /\ it.at = e))
Place(q, e) == CHOOSE i \in DOMAIN content[q] : content[q][i] = e
Without(q, e) == Delete(content[q], Place(q, e))
Rebased(old, new) == [content EXCEPT ![new] = content[old], ![old] = <<>>]

InitQueue(m, q) == m ++ Next_(q, q) ++ Prev_(q, q)
queue_init(q) ==
  /\ Idle /\ q \notin ready /\ Leaves(InitQueue(mem, q), content)
  /\ ready' = ready \cup {q}

----------------------------------------------------------------------------
\* Method 1.

enqueue_head(q, e) ==
  MayEnter(e, q) /\ Do(q, InsQue(mem, e, q), Insert(content[q], 1, e))

enqueue_tail(q, e) ==
  MayEnter(e, q) /\ Do(q, EnqueueTail(mem, q, e), Insert(content[q], Len(content[q]) + 1, e))

insque(q, e, pred) ==
  /\ MayEnter(e, q) /\ On(pred, q)
  /\ Do(q, InsQue(mem, e, pred), Insert(content[q], Place(q, pred) + 1, e))

\* On an empty queue both return NULL and change nothing.
dequeue_head(q) ==
  Usable(q) /\ mem.next[q] # q /\ Do(q, DequeueHead(mem, q), Delete(content[q], 1))

dequeue_tail(q) ==
  Usable(q) /\ mem.prev[q] # q /\ Do(q, DequeueTail(mem, q), Delete(content[q], Len(content[q])))

remqueue(q, e) ==
  MayLeave(e, q) /\ Do(q, RemQue(mem, e), Without(q, e))

\* to may be the queue e is on, unless that is iterated over.
re_queue_head(q, e, to) ==
  /\ MayLeave(e, q) /\ to \in ready /\ to # it.on
  /\ Leaves(InsQue(RemQue(mem, e), e, to),
            [[content EXCEPT ![q] = Without(q, e)] EXCEPT ![to] = Insert(@, 1, e)])
  /\ UNCHANGED ready

re_queue_tail_Early(q, e, to) ==   \* Mutant: the tail is read before the removal
  LET tail == mem.prev[to]
      m == RemQue(mem, e) IN
  /\ MayLeave(e, q) /\ to \in ready /\ to # it.on
  /\ Leaves(m ++ Next_(e, to) ++ Prev_(e, tail) ++ Next_(tail, e) ++ Prev_(to, e),
            [[content EXCEPT ![q] = Without(q, e)] EXCEPT ![to] = Insert(@, Len(@) + 1, e)])
  /\ UNCHANGED ready

re_queue_tail(q, e, to) ==
  /\ MayLeave(e, q) /\ to \in ready /\ to # it.on
  /\ Leaves(EnqueueTail(RemQue(mem, e), to, e),
            [[content EXCEPT ![q] = Without(q, e)] EXCEPT ![to] = Insert(@, Len(@) + 1, e)])
  /\ UNCHANGED ready

\* new may be an uninitialised head; what is on it would leak.
movqueue(old, new) ==
  /\ Usable(old) /\ old # new /\ content[new] = <<>> /\ ready' = ready \cup {new}
  /\ Leaves(IF mem.next[old] = old THEN InitQueue(mem, new)
             ELSE InitQueue(NewHead(mem, old, new), old),
            Rebased(old, new))

----------------------------------------------------------------------------
\* Method 2.

queue_enter(q, e) ==
  /\ MayEnter(e, q) /\ pending = NoStores /\ pending' = QueueEnter(mem, q, e)
  /\ content' = [content EXCEPT ![q] = Insert(@, Len(@) + 1, e)] /\ UNCHANGED <<mem, ready, it>>

\* One of its stores: any of those on the same side of the barrier.
queue_enter_store(s) ==
  /\ s \in pending.before \/ (pending.before = {} /\ s \in pending.after)
  /\ mem' = mem ++ s
  /\ pending' = [before |-> pending.before \ {s}, after |-> pending.after \ {s}]
  /\ UNCHANGED <<ready, it, content>>

queue_enter_first(q, e) ==
  LET n == mem.next[q] IN
  /\ MayEnter(e, q)
  /\ Do(q, mem ++ Prev_(n, e) ++ Next_(e, n) ++ Prev_(e, q) ++ Next_(q, e),
        Insert(content[q], 1, e))

\* cur is an element, or the head for the other end of the queue.
queue_insert_before(q, e, cur) ==
  /\ MayEnter(e, q) /\ (cur = q \/ On(cur, q))
  /\ Do(q, InsertBefore(mem, e, cur),
        Insert(content[q], IF cur = q THEN Len(content[q]) + 1 ELSE Place(q, cur), e))

queue_insert_after(q, e, cur) ==
  /\ MayEnter(e, q) /\ (cur = q \/ On(cur, q))
  /\ Do(q, InsertAfter(mem, e, cur),
        Insert(content[q], IF cur = q THEN 1 ELSE Place(q, cur) + 1, e))

queue_remove(q, e) ==
  MayLeave(e, q) /\ Do(q, Forget(RemQue(mem, e), e), Without(q, e))

\* Callers make sure that the queue is not empty.
queue_remove_first(q) ==
  /\ Usable(q) /\ content[q] # <<>>
  /\ Do(q, Forget(DequeueHead(mem, q), mem.next[q]), Delete(content[q], 1))

queue_remove_last(q) ==
  /\ Usable(q) /\ content[q] # <<>>
  /\ Do(q, Forget(DequeueTail(mem, q), mem.prev[q]), Delete(content[q], Len(content[q])))

\* The old head keeps its links and is to be initialised before its next use.
queue_new_head(old, new) ==
  /\ Usable(old) /\ old # new /\ content[new] = <<>> /\ ready' = (ready \ {old}) \cup {new}
  /\ Leaves(IF mem.next[old] = old THEN InitQueue(mem, new) ELSE NewHead(mem, old, new),
            Rebased(old, new))

\* The same without the case of an empty queue, which callers have to rule out.
queue_assign(to, from) ==
  LET n == mem.next[from]  p == mem.prev[from] IN
  /\ Usable(from) /\ from # to /\ content[from] # <<>> /\ content[to] = <<>>
  /\ ready' = (ready \ {from}) \cup {to}
  /\ Leaves(mem ++ Next_(p, to) ++ Prev_(n, to) ++ Next_(to, n) ++ Prev_(to, p),
            Rebased(from, to))

----------------------------------------------------------------------------
\* Circle queues.

circle_queue_init(c) ==
  /\ Idle /\ c \notin ready /\ Leaves(mem ++ Next_(c, Null), content)
  /\ ready' = ready \cup {c}

circle_enqueue_tail(c, e) ==
  MayEnter(e, c) /\ Do(c, CircleEnqueueTail(mem, c, e), Insert(content[c], Len(content[c]) + 1, e))

circle_enqueue_head(c, e) ==
  /\ MayEnter(e, c)
  /\ Do(c, CircleEnqueueTail(mem, c, e) ++ Next_(c, e), Insert(content[c], 1, e))

circle_dequeue(c, e) ==
  MayLeave(e, c) /\ Do(c, CircleDequeue(mem, c, e), Without(c, e))

circle_dequeue_head(c) == Usable(c) /\ circle_dequeue(c, CircleFirst(mem, c))
circle_dequeue_tail(c) == Usable(c) /\ circle_dequeue(c, CircleLast(mem, c))

circle_queue_rotate_head_forward(c) ==
  /\ Usable(c) /\ CircleFirst(mem, c) # Null
  /\ Do(c, mem ++ Next_(c, mem.next[CircleFirst(mem, c)]), Rotated(content[c], 1))

circle_queue_rotate_head_backward(c) ==
  /\ Usable(c) /\ CircleLast(mem, c) # Null
  /\ Do(c, mem ++ Next_(c, CircleLast(mem, c)), Rotated(content[c], Len(content[c]) - 1))

----------------------------------------------------------------------------
\* qe_foreach_safe and cqe_foreach_safe (and their _element forms): the
\* successor is read before the loop's body runs for the current element.

EndOf(q) == IF q \in Circles THEN Null ELSE q
NextOf(q, e) ==
  IF q \notin Circles THEN mem.next[e] ELSE IF e = Null THEN Null ELSE CircleNext(mem, q, e)

foreach_safe_begin(q) ==
  /\ Usable(q) /\ pending = NoStores
  /\ it' = [on |-> q, at |-> mem.next[q], ne |-> NextOf(q, mem.next[q]),
            seen |-> <<>>, from |-> content[q]]
  /\ UNCHANGED <<mem, pending, ready, content>>

foreach_safe_next_Late(q) ==    \* Mutant: the successor is read after the body
  /\ it.on = q /\ pending = NoStores /\ it.at # EndOf(q)
  /\ it' = [it EXCEPT !.at = NextOf(q, it.at), !.ne = NextOf(q, NextOf(q, it.at)),
                      !.seen = Append(@, it.at)]
  /\ UNCHANGED <<mem, pending, ready, content>>

foreach_safe_next(q) ==
  /\ it.on = q /\ pending = NoStores /\ it.at # EndOf(q)
  /\ it' = [it EXCEPT !.at = it.ne, !.ne = NextOf(q, it.ne), !.seen = Append(@, it.at)]
  /\ UNCHANGED <<mem, pending, ready, content>>

foreach_safe_end(q) ==
  /\ it.on = q /\ pending = NoStores /\ it.at = EndOf(q) /\ it' = NoIteration
  /\ UNCHANGED <<mem, pending, ready, content>>

Method1(q, e) ==
  \/ enqueue_head(q, e) \/ enqueue_tail(q, e) \/ remqueue(q, e)
  \/ \E f \in Elements : insque(q, e, f)
  \/ \E to \in LinkQueues : re_queue_head(q, e, to) \/ re_queue_tail(q, e, to)

Method2(q, e) ==
  \/ queue_enter(q, e) \/ queue_enter_first(q, e) \/ queue_remove(q, e)
  \/ \E cur \in Elements \cup {q} : queue_insert_before(q, e, cur) \/ queue_insert_after(q, e, cur)

Circle(c, e) == circle_enqueue_tail(c, e) \/ circle_enqueue_head(c, e) \/ circle_dequeue(c, e)

Next ==
  \/ \E s \in pending.before \cup pending.after : queue_enter_store(s)
  \/ \E q \in LinkQueues : \/ \E e \in Elements : Method1(q, e)
                           \/ dequeue_head(q) \/ dequeue_tail(q)
                           \/ \E r \in LinkQueues : movqueue(q, r)
  \/ \E q \in ChainQueues : \/ \E e \in Elements : Method2(q, e)
                            \/ queue_remove_first(q) \/ queue_remove_last(q)
                            \/ \E r \in ChainQueues : queue_new_head(q, r) \/ queue_assign(r, q)
  \/ \E q \in Queues : queue_init(q)
  \/ \E c \in Circles : \/ \E e \in Elements : Circle(c, e)
                        \/ circle_queue_init(c) \/ circle_dequeue_head(c) \/ circle_dequeue_tail(c)
                        \/ circle_queue_rotate_head_forward(c) \/ circle_queue_rotate_head_backward(c)
  \/ \E q \in LinkQueues \cup Circles :
       foreach_safe_begin(q) \/ foreach_safe_next(q) \/ foreach_safe_end(q)

Spec == Init /\ [][Next]_vars

----------------------------------------------------------------------------
\* The nodes in the order a walk meets them, a queue's head before its elements,
\* and where the walk goes on from the i-th of n nodes.
Turn(q, s) == IF q \in Circles THEN s ELSE <<q>> \o s
Up(i, n) == IF i = n THEN 1 ELSE i + 1

\* The links m lead around the nodes t, in the one and in the other direction.
Forward(m, t) == \A i \in 1 .. Len(t) : m.next[t[i]] = t[Up(i, Len(t))]
Backward(m, t) == \A i \in 1 .. Len(t) : m.prev[t[Up(i, Len(t))]] = t[i]

\* They do so around all of q, and a circle's head leads to its first element.
Linked(m, q, s) ==
  /\ Forward(m, Turn(q, s)) /\ Backward(m, Turn(q, s))
  /\ q \in Circles => CircleFirst(m, q) = IF s = <<>> THEN Null ELSE s[1]

\* After any sequence of operations of any of the three kinds of queue, also
\* ones that move an element within a queue or a queue to another head, a walk
\* in either direction of every queue meets what the operations say, in their
\* order, and comes back to where it began (queue.h:220-395, 609-935;
\* circle_queue.h:90-168).
LinksMatchContents ==
  TypeOK /\ (pending = NoStores => \A q \in ready : Linked(mem, q, content[q]))

\* A debugger that stops the machine in the middle of queue_enter walks the
\* queue forward as it was or as it will be, whatever order the compiler gave
\* the stores (queue.h:656-663: "in a way that could cause stackshot to trip
\* over an inconsistent queue during iteration").
StackshotWalksWholeQueue ==
  pending # NoStores => \A q \in ready \cap ChainQueues :
    LET s == content[q] IN
    s # <<>> => Forward(mem, Turn(q, Delete(s, Len(s)))) \/ Forward(mem, Turn(q, s))

\* A safe iteration whose body may take the current element off the queue, or
\* move it to another, meets every element that was there once and in order
\* (queue.h:434-436, circle_queue.h:207-209: "if you plan to remove the
\* queue_entry_t, qe, from the queue during the iteration").
SafeIterationMeetsAll ==
  it # NoIteration =>
    /\ Len(it.seen) <= Len(it.from) /\ \A i \in 1 .. Len(it.seen) : it.seen[i] = it.from[i]
    /\ it.at = EndOf(it.on) => it.seen = it.from
=============================================================================
