---------------------------- MODULE SharedObject ----------------------------
(*************************************************************************)
(* The shared and weak pointers of                                       *)
(* src/Headers/IOKit/graphics/tl/osmemory.  A thread carries out an      *)
(* assignment or a destruction as a list of instructions, and other      *)
(* threads come in between.  Every object has one member pointer, so     *)
(* that destroying an object releases another one.  fTypedObj always     *)
(* moves together with fControl and is left out.                         *)
(*************************************************************************)
EXTENDS Integers, Sequences, FiniteSets

CONSTANTS
  Threads,
  Objects,      \* an object, its control block, and the name of its member
  Locals,       \* the pointers a thread has to itself
  Globals,      \* pointers all threads use under the caller's lock
  Weaks,        \* weak pointers, used under that lock as well
  SourceMayDie, \* whether the target may be all that keeps the source alive
  Null

Shared == Globals \cup UNION {Locals[t] : t \in Threads}
Pointers == Shared \cup Objects

\* No two pointers are one.
ASSUME SharedObjectAssumption ==
  /\ Locals \in [Threads -> SUBSET UNION {Locals[t] : t \in Threads}]
  /\ \A t, u \in Threads : t # u => Locals[t] \cap Locals[u] = {}
  /\ \A t \in Threads : Locals[t] \cap (Globals \cup Objects) = {}
  /\ Globals \cap Objects = {} /\ Pointers \cap Weaks = {}
  /\ Null \notin Pointers \cup Weaks
  /\ IsFiniteSet(Pointers) /\ IsFiniteSet(Weaks)
  /\ SourceMayDie \in BOOLEAN

VARIABLES
  fControl,   \* of shared and weak pointers
  state,      \* of each object: none, live, dying, dead (its block remains)
  fUseCount, fWeakCount,
  code        \* of each thread: the instructions it has still to carry out

vars == <<fControl, state, fUseCount, fWeakCount, code>>

Init ==
  /\ fControl = [p \in Pointers \cup Weaks |-> Null]
  /\ state = [o \in Objects |-> "none"]
  /\ fUseCount = [o \in Objects |-> 0] /\ fWeakCount = [o \in Objects |-> 0]
  /\ code = [t \in Threads |-> <<>>]

\* An instruction on p; a store also has its source and, as history, what the
\* source held when the call began.
Instr(do, p) == [do |-> do, p |-> p, from |-> Null, held |-> Null]
From(do, p, q) == [do |-> do, p |-> p, from |-> q, held |-> fControl[q]]

----------------------------------------------------------------------------
\* What callers may do.  A pointer of an object is reached through another
\* pointer to that object; one that all threads use, under the lock.
Guarded == Objects \cup Globals \cup Weaks
LockFree(t) == \A u \in Threads \ {t} : \A i \in DOMAIN code[u] : code[u][i].do # "unlock"

Reach(t, p, through) ==
  \/ p \in Locals[t] \cup Globals \cup Weaks
  \/ p \in Objects /\ \E v \in through : fControl[v] = p

\* The caller of an assignment to p from q keeps what holds q, beyond p itself.
MayCall(t, p, q) ==
  LET own == Locals[t] \cup Globals IN
  /\ code[t] = <<>> /\ ({p, q} \cap Guarded # {} => LockFree(t))
  /\ Reach(t, p, own \ {p})
  /\ Reach(t, q, IF SourceMayDie THEN own ELSE own \ {p})

Call(t, instrs) ==
  /\ code' = [code EXCEPT ![t] = instrs \o
                (IF \E i \in DOMAIN instrs : {instrs[i].p, instrs[i].from} \cap Guarded # {}
                 THEN <<Instr("unlock", Null)>> ELSE <<>>)]
  /\ UNCHANGED <<fControl, state, fUseCount, fWeakCount>>

----------------------------------------------------------------------------
\* The calls.

\* OSSharedObject(_T* tp): a new object, and its control block, which holds
\* one weak count for all shared pointers together.
construct(t, p) ==
  /\ MayCall(t, p, p) /\ fControl[p] = Null
  /\ \E o \in Objects :
       /\ state[o] = "none" /\ state' = [state EXCEPT ![o] = "live"]
       /\ fControl' = [fControl EXCEPT ![p] = o, ![o] = Null]
       /\ fUseCount' = [fUseCount EXCEPT ![o] = 1]
       /\ fWeakCount' = [fWeakCount EXCEPT ![o] = 1]
  /\ UNCHANGED code

copy_construct(t, p, q) ==
  /\ MayCall(t, p, q) /\ p # q /\ fControl[p] = Null
  /\ Call(t, <<From("setme", p, q), Instr("retain", p)>>)

copy_assign(t, p, q) ==
  /\ MayCall(t, p, q) /\ p # q
  /\ Call(t, <<Instr("release", p), From("setme", p, q), Instr("retain", p)>>)

move_construct(t, p, q) ==
  /\ MayCall(t, p, q) /\ p # q /\ fControl[p] = Null
  /\ Call(t, <<From("take", p, q)>>)

move_assign(t, p, q) ==
  /\ MayCall(t, p, q) /\ p # q
  /\ Call(t, <<Instr("release", p), From("take", p, q)>>)

\* The destructor, and reset(), a move assignment from an empty pointer.
destruct(t, p) ==
  /\ MayCall(t, p, p) /\ fControl[p] # Null
  /\ Call(t, <<Instr("release", p), Instr("zero", p)>>)

swap(t, p, q) ==
  /\ MayCall(t, p, q) /\ p # q
  /\ fControl' = [fControl EXCEPT ![p] = fControl[q], ![q] = fControl[p]]
  /\ UNCHANGED <<state, fUseCount, fWeakCount, code>>

\* Weak pointers: q is shared or weak.
weak_assign_NoRetain(t, w, q) ==       \* Mutant: without impl_saferetain
  /\ MayCall(t, w, q) /\ w # q
  /\ Call(t, <<Instr("release_weak", w), From("setme", w, q)>>)

weak_assign(t, w, q) ==
  /\ MayCall(t, w, q) /\ w # q
  /\ Call(t, <<Instr("release_weak", w), From("setme", w, q), Instr("retain_weak", w)>>)

weak_move_assign(t, w, q) ==
  /\ MayCall(t, w, q) /\ w # q
  /\ Call(t, <<Instr("release_weak", w), From("take", w, q)>>)

weak_destruct(t, w) ==
  /\ MayCall(t, w, w) /\ fControl[w] # Null
  /\ Call(t, <<Instr("release_weak", w), Instr("zero", w)>>)

weak_swap(t, w, v) == swap(t, w, v)

lock(t, p, w) ==
  /\ MayCall(t, p, w) /\ fControl[p] = Null
  /\ Call(t, <<From("lock", p, w)>>)

----------------------------------------------------------------------------
\* The instructions.  The counter's own routines are external: atomic steps,
\* retain_shared failing once the count is zero.

Done(t, pushed) == code' = [code EXCEPT ![t] = pushed \o Tail(@)]
Points(p) == fControl[p] # Null

retain_shared(o) == IF fUseCount[o] = 0 THEN fUseCount ELSE [fUseCount EXCEPT ![o] = @ + 1]

\* The block goes with the last weak count, and the object may be made again.
release_weak(o) ==
  /\ fWeakCount' = [fWeakCount EXCEPT ![o] = @ - 1]
  /\ state' = [state EXCEPT ![o] = IF fWeakCount[o] = 1 THEN "none" ELSE "dead"]

impl_setme(t, p, q) ==
  /\ fControl' = [fControl EXCEPT ![p] = fControl[q]] /\ Done(t, <<>>)
  /\ UNCHANGED <<state, fUseCount, fWeakCount>>

\* impl_setme followed by other.impl_zero.
take(t, p, q) ==
  /\ fControl' = [fControl EXCEPT ![p] = fControl[q], ![q] = Null]
  /\ Done(t, <<>>)
  /\ UNCHANGED <<state, fUseCount, fWeakCount>>

impl_zero(t, p) ==
  /\ fControl' = [fControl EXCEPT ![p] = Null] /\ Done(t, <<>>)
  /\ UNCHANGED <<state, fUseCount, fWeakCount>>

\* The result of retain_shared is not looked at.
impl_saferetain(t, p) ==
  /\ fUseCount' = (IF Points(p) THEN retain_shared(fControl[p]) ELSE fUseCount)
  /\ Done(t, <<>>) /\ UNCHANGED <<fControl, state, fWeakCount>>

\* The last release destroys the object, its member pointer first, and then
\* gives up the weak count.
impl_saferelease(t, p) ==
  LET o == fControl[p]
      last == Points(p) /\ fUseCount[o] = 1
  IN
  /\ fUseCount' = (IF Points(p) THEN [fUseCount EXCEPT ![o] = @ - 1] ELSE fUseCount)
  /\ state' = (IF last THEN [state EXCEPT ![o] = "dying"] ELSE state)
  /\ Done(t, IF last THEN <<Instr("release", o), Instr("zero", o), Instr("free", o)>> ELSE <<>>)
  /\ UNCHANGED <<fControl, fWeakCount>>

free(t, o) ==
  release_weak(o) /\ Done(t, <<>>) /\ UNCHANGED <<fControl, fUseCount>>

weak_saferetain(t, w) ==
  /\ fWeakCount' = (IF Points(w) THEN [fWeakCount EXCEPT ![fControl[w]] = @ + 1] ELSE fWeakCount)
  /\ Done(t, <<>>) /\ UNCHANGED <<fControl, state, fUseCount>>

\* While the object lives the block stays, whatever the weak pointers do.
weak_saferelease(t, w) ==
  LET o == fControl[w] IN
  /\ IF ~Points(w) THEN UNCHANGED <<state, fWeakCount>>
     ELSE IF fWeakCount[o] = 1 THEN release_weak(o)
     ELSE fWeakCount' = [fWeakCount EXCEPT ![o] = @ - 1] /\ UNCHANGED state
  /\ Done(t, <<>>) /\ UNCHANGED <<fControl, fUseCount>>

lock_Unchecked(t, p, w) ==             \* Mutant: the result of lock() is not looked at
  /\ fUseCount' = (IF Points(w) THEN retain_shared(fControl[w]) ELSE fUseCount)
  /\ fControl' = [fControl EXCEPT ![p] = fControl[w]]
  /\ Done(t, <<>>) /\ UNCHANGED <<state, fWeakCount>>

lock_step(t, p, w) ==
  LET o == fControl[w]
      got == Points(w) /\ fUseCount[o] > 0
  IN
  /\ fUseCount' = (IF got THEN retain_shared(o) ELSE fUseCount)
  /\ fControl' = [fControl EXCEPT ![p] = IF got THEN o ELSE Null]
  /\ Done(t, <<>>) /\ UNCHANGED <<state, fWeakCount>>

unlock(t) ==
  Done(t, <<>>) /\ UNCHANGED <<fControl, state, fUseCount, fWeakCount>>

Step(t) ==
  /\ code[t] # <<>>
  /\ LET i == Head(code[t]) IN
     \/ i.do = "setme" /\ impl_setme(t, i.p, i.from)
     \/ i.do = "take" /\ take(t, i.p, i.from)
     \/ i.do = "zero" /\ impl_zero(t, i.p)
     \/ i.do = "retain" /\ impl_saferetain(t, i.p)
     \/ i.do = "release" /\ impl_saferelease(t, i.p)
     \/ i.do = "free" /\ free(t, i.p)
     \/ i.do = "retain_weak" /\ weak_saferetain(t, i.p)
     \/ i.do = "release_weak" /\ weak_saferelease(t, i.p)
     \/ i.do = "lock" /\ lock_step(t, i.p, i.from)
     \/ i.do = "unlock" /\ unlock(t)

Next ==
  \E t \in Threads :
    \/ Step(t)
    \/ \E p \in Pointers :
         \/ construct(t, p) \/ destruct(t, p)
         \/ \E q \in Pointers : \/ copy_construct(t, p, q) \/ copy_assign(t, p, q)
                                \/ move_construct(t, p, q) \/ move_assign(t, p, q) \/ swap(t, p, q)
    \/ \E w \in Weaks :
         \/ weak_destruct(t, w)
         \/ \E q \in Pointers \cup Weaks : weak_assign(t, w, q)
         \/ \E q \in Weaks : weak_move_assign(t, w, q) \/ weak_swap(t, w, q)
         \/ \E p \in Pointers : lock(t, p, w)

Spec == Init /\ [][Next]_vars

----------------------------------------------------------------------------
\* A pointer holds a count for what it points to unless its next instruction
\* shows that the count is not taken yet, or already given up.
Before(t, i, p) == \E j \in 1 .. i - 1 : code[t][j].p = p /\ code[t][j].do # "free"
Holds(p) ==
  /\ Points(p)
  /\ \A t \in Threads : \A i \in DOMAIN code[t] :
       code[t][i].p = p /\ ~Before(t, i, p) =>
         code[t][i].do \notin {"setme", "take", "zero", "retain", "retain_weak"}

Owners(o) == {p \in Pointers : Holds(p) /\ fControl[p] = o}
Watchers(o) == {w \in Weaks : Holds(w) /\ fControl[w] = o}

\* The counts are those of the pointers that hold one, whatever assignments,
\* moves and destructions are half way in other threads, and an object lives
\* exactly while its count is not zero: none is destroyed under a pointer and
\* none is left behind (osmemory:202-244).
UseCountsExact ==
  \A o \in Objects : /\ fUseCount[o] = Cardinality(Owners(o))
                     /\ state[o] = "live" <=> fUseCount[o] > 0

\* The control block outlives the object for as long as a weak pointer may
\* ask it for a lock, and no longer (osmemory:417-437, 516-523).
BlockOutlivesWeaks ==
  \A o \in Objects :
    fWeakCount[o] = Cardinality(Watchers(o)) + (IF state[o] \in {"live", "dying"} THEN 1 ELSE 0)

\* What "std::shared_ptr<T> equivalent" (osmemory:186) promises of assignments:
\* releasing the old object never takes away what is being assigned.  The
\* source still points where it did, and to a live object or, for weak pointers,
\* a block that is still there.  Assignments release before they retain
\* (osmemory:258-267, 301-309), so this needs callers who have the source by
\* more than the target: with SourceMayDie, p = p->next destroys its source.
SourceSurvives ==
  \A t \in Threads : \A i \in DOMAIN code[t] :
    LET c == code[t][i] IN
    c.from # Null =>
      /\ fControl[c.from] = c.held
      /\ c.held # Null => state[c.held] \in {"live"} \cup (IF c.from \in Weaks THEN {"dying", "dead"} ELSE {})
=============================================================================
