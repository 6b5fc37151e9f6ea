----------------------------- MODULE LockGuard -----------------------------
(*************************************************************************)
(* The scoped lock of src/Headers/IOKit/graphics/tl/iolocks, over the    *)
(* interrupt-disabling spin lock of src/Headers/IOKit/IOLocks.h.  Every  *)
(* processor runs one thread; while its interrupts are enabled it may    *)
(* take an interrupt, whose handler runs above the thread and uses       *)
(* guards too.  The guards a context has constructed and not yet         *)
(* destroyed are a stack, as C++ scopes make them.  A guard whose fLock  *)
(* was moved away may be destroyed early: it is the local a function     *)
(* returns by move.                                                      *)
(*************************************************************************)
EXTENDS Integers, FiniteSets, Sequences

CONSTANTS
  Cpus,
  Kinds,          \* Kinds[l]: the type of the lock l, the locks in locking order
  MaxGuards,      \* bound on the guards alive in one context
  Movable,        \* the types of the guards that are moved
  NoLock, NoOne   \* a null fLock, the owner of a free lock

Locks == DOMAIN Kinds
KindNames == {"IOLock", "IORecursiveLock", "IOSimpleLock", "IOSimpleLockInterrupt"}

ASSUME LockGuardAssumption ==
  /\ Kinds \in Seq(KindNames) /\ MaxGuards \in Nat /\ Movable \subseteq KindNames
  /\ NoLock \notin Locks /\ NoOne \notin Cpus \X {"thread", "handler"}

VARIABLES
  interrupts,     \* per processor: whether its interrupts are enabled
  inHandler,      \* per processor: whether it runs its handler
  owner, depth,   \* per lock: the context that holds it, and how many times
  guards,         \* per context: its guards, the last constructed last
  pc, want, state \* per context: its step, the lock it waits for, and the
                  \* interrupt state it saved or is to restore

vars == <<interrupts, inHandler, owner, depth, guards, pc, want, state>>

\* The top of a context's stack of guards, what is under it, and a stack without
\* its i-th guard.
Last(s) == s[Len(s)]
Front(s) == SubSeq(s, 1, Len(s) - 1)
RemoveAt(s, i) == SubSeq(s, 1, i - 1) \o SubSeq(s, i + 1, Len(s))

Contexts == Cpus \X {"thread", "handler"}
Guard == [fLock : Locks \cup {NoLock}, fMostlyUnusedInterruptState : BOOLEAN]
Running(x) == inHandler[x[1]] <=> x[2] = "handler"
Live(g) == g.fLock # NoLock
Guarded(x) == {i \in DOMAIN guards[x] : Live(guards[x][i])}

TypeOK ==
  /\ interrupts \in [Cpus -> BOOLEAN] /\ inHandler \in [Cpus -> BOOLEAN]
  /\ owner \in [Locks -> Contexts \cup {NoOne}] /\ depth \in [Locks -> 0 .. MaxGuards]
  /\ guards \in [Contexts -> Seq(Guard)] /\ \A x \in Contexts : Len(guards[x]) <= MaxGuards
  /\ pc \in [Contexts -> {"run", "lock", "restore"}]
  /\ want \in [Contexts -> Locks \cup {NoLock}] /\ state \in [Contexts -> BOOLEAN]

Init ==
  /\ interrupts = [k \in Cpus |-> TRUE] /\ inHandler = [k \in Cpus |-> FALSE]
  /\ owner = [l \in Locks |-> NoOne] /\ depth = [l \in Locks |-> 0]
  /\ guards = [x \in Contexts |-> <<>>] /\ pc = [x \in Contexts |-> "run"]
  /\ want = [x \in Contexts |-> NoLock] /\ state = [x \in Contexts |-> FALSE]

\* The callers' side of the locks (external): locks are taken in locking order,
\* only a recursive lock again, and a handler takes only locks that keep
\* interrupts out and that no thread holds with interrupts enabled.
MayLock(x, l) ==
  /\ \A i \in Guarded(x) : \/ guards[x][i].fLock < l
                           \/ guards[x][i].fLock = l /\ Kinds[l] = "IORecursiveLock"
  /\ x[2] = "handler" => Kinds[l] = "IOSimpleLockInterrupt"

Begin(x, l) ==
  /\ Running(x) /\ pc[x] = "run" /\ Len(guards[x]) < MaxGuards /\ MayLock(x, l)
  /\ pc' = [pc EXCEPT ![x] = "lock"] /\ want' = [want EXCEPT ![x] = l]
  /\ UNCHANGED <<inHandler, owner, depth, guards>>

LockInterrupt_LeftOn(x, l) ==        \* the plain lock routine is called
  /\ Kinds[l] = "IOSimpleLockInterrupt" /\ Begin(x, l)
  /\ state' = [state EXCEPT ![x] = interrupts[x[1]]]
  /\ UNCHANGED interrupts

\* IOSimpleLockLockDisableInterrupt up to its spinning.
LockInterrupt(x, l) ==
  /\ Kinds[l] = "IOSimpleLockInterrupt" /\ Begin(x, l)
  /\ state' = [state EXCEPT ![x] = interrupts[x[1]]]
  /\ interrupts' = [interrupts EXCEPT ![x[1]] = FALSE]

\* lock() of the other three types: the state returned is 0.
LockPlain(x, l) ==
  /\ Kinds[l] # "IOSimpleLockInterrupt" /\ Begin(x, l)
  /\ state' = [state EXCEPT ![x] = FALSE]
  /\ UNCHANGED interrupts

\* The lock is free, or it is recursive and the context's own (external).
Free(x, l) == owner[l] = NoOne \/ (owner[l] = x /\ Kinds[l] = "IORecursiveLock")

Constructed_NoState(x) ==            \* the constructor drops lock()'s result
  [fLock |-> want[x], fMostlyUnusedInterruptState |-> FALSE]

\* The guard as its constructor leaves it.
Constructed(x) == [fLock |-> want[x], fMostlyUnusedInterruptState |-> state[x]]

\* The wait for the lock ends, and with it the constructor.
Locked(x) ==
  LET l == want[x] IN
  /\ Running(x) /\ pc[x] = "lock" /\ Free(x, l)
  /\ owner' = [owner EXCEPT ![l] = x] /\ depth' = [depth EXCEPT ![l] = @ + 1]
  /\ guards' = [guards EXCEPT ![x] = Append(@, Constructed(x))]
  /\ pc' = [pc EXCEPT ![x] = "run"] /\ want' = [want EXCEPT ![x] = NoLock]
  /\ state' = [state EXCEPT ![x] = FALSE]
  /\ UNCHANGED <<interrupts, inHandler>>

Moved_Uninitialised(g) ==            \* the member has no default initializer
  <<[g EXCEPT !.fLock = NoLock], [fLock |-> g.fLock, fMostlyUnusedInterruptState |-> NoLock]>>
Moved_SourceKept(g) ==               \* other.fLock is not cleared
  <<g, [fLock |-> g.fLock, fMostlyUnusedInterruptState |-> FALSE]>>

\* A moved-from guard and the new one: the lock goes over, the interrupt state
\* does not, and the new guard has the member's default.
Moved(g) ==
  <<[g EXCEPT !.fLock = NoLock], [fLock |-> g.fLock, fMostlyUnusedInterruptState |-> FALSE]>>

Move(x) ==
  /\ Running(x) /\ pc[x] = "run" /\ Len(guards[x]) < MaxGuards
  /\ guards[x] # <<>> /\ Live(Last(guards[x])) /\ Kinds[Last(guards[x]).fLock] \in Movable
  /\ guards' = [guards EXCEPT ![x] = Front(@) \o Moved(Last(@))]
  /\ UNCHANGED <<interrupts, inHandler, owner, depth, pc, want, state>>

\* One hold fewer; the last one frees the lock (external).
Release(l) ==
  /\ depth' = [depth EXCEPT ![l] = @ - 1]
  /\ owner' = [owner EXCEPT ![l] = IF depth[l] = 1 THEN NoOne ELSE @]

\* The destructor of the last guard, of a type that leaves interrupts alone.
UnlockPlain(x) ==
  LET g == Last(guards[x]) IN
  /\ Running(x) /\ pc[x] = "run" /\ guards[x] # <<>> /\ Live(g)
  /\ Kinds[g.fLock] # "IOSimpleLockInterrupt"
  /\ Release(g.fLock)
  /\ guards' = [guards EXCEPT ![x] = Front(@)]
  /\ UNCHANGED <<interrupts, inHandler, pc, want, state>>

\* The same for IOSimpleLockInterrupt: the lock is freed first, ...
UnlockInterrupt(x) ==
  LET g == Last(guards[x]) IN
  /\ Running(x) /\ pc[x] = "run" /\ guards[x] # <<>> /\ Live(g)
  /\ Kinds[g.fLock] = "IOSimpleLockInterrupt"
  /\ Release(g.fLock)
  /\ guards' = [guards EXCEPT ![x] = Front(@)]
  /\ pc' = [pc EXCEPT ![x] = "restore"]
  /\ state' = [state EXCEPT ![x] = g.fMostlyUnusedInterruptState]
  /\ UNCHANGED <<interrupts, inHandler, want>>

\* ... then the guard's state becomes the processor's.
EnableInterrupt(x) ==
  /\ Running(x) /\ pc[x] = "restore" /\ pc' = [pc EXCEPT ![x] = "run"]
  /\ interrupts' = [interrupts EXCEPT ![x[1]] = state[x]]
  /\ state' = [state EXCEPT ![x] = FALSE]
  /\ UNCHANGED <<inHandler, owner, depth, guards, want>>

\* The destructor of a guard that was moved from does nothing.
DestroyMoved(x, i) ==
  /\ Running(x) /\ pc[x] = "run" /\ i \in DOMAIN guards[x] /\ ~Live(guards[x][i])
  /\ guards' = [guards EXCEPT ![x] = RemoveAt(@, i)]
  /\ UNCHANGED <<interrupts, inHandler, owner, depth, pc, want, state>>

\* An interrupt arrives, and its handler returns (external).  The processor
\* enters the handler with interrupts disabled and enables them on its return.
Interrupt(k) ==
  /\ interrupts[k] /\ ~inHandler[k]
  /\ inHandler' = [inHandler EXCEPT ![k] = TRUE]
  /\ interrupts' = [interrupts EXCEPT ![k] = FALSE]
  /\ UNCHANGED <<owner, depth, guards, pc, want, state>>

HandlerReturns(k) ==
  LET x == <<k, "handler">> IN
  /\ inHandler[k] /\ pc[x] = "run" /\ guards[x] = <<>>
  /\ inHandler' = [inHandler EXCEPT ![k] = FALSE]
  /\ interrupts' = [interrupts EXCEPT ![k] = TRUE]
  /\ UNCHANGED <<owner, depth, guards, pc, want, state>>

Construct(x) == Locked(x) \/ \E l \in Locks : LockInterrupt(x, l) \/ LockPlain(x, l)
Destroy(x) ==
  \/ UnlockPlain(x) \/ UnlockInterrupt(x) \/ EnableInterrupt(x)
  \/ \E i \in 1 .. MaxGuards : DestroyMoved(x, i)

Next ==
  \/ \E x \in Contexts : Construct(x) \/ Move(x) \/ Destroy(x)
  \/ \E k \in Cpus : Interrupt(k) \/ HandlerReturns(k)

Spec == Init /\ [][Next]_vars

----------------------------------------------------------------------------
\* Whatever is moved and destroyed in which order, every hold of a lock belongs
\* to exactly one guard of the context that took it (iolocks:106-115).
OneGuardPerHold ==
  \A l \in Locks :
    LET holders == {x \in Contexts : \E i \in Guarded(x) : guards[x][i].fLock = l}
    IN  /\ holders = (IF owner[l] = NoOne THEN {} ELSE {owner[l]})
        /\ \A x \in holders : Cardinality({i \in Guarded(x) : guards[x][i].fLock = l}) = depth[l]

\* A handler never waits for a lock that the thread it interrupted holds: that
\* thread cannot run to free it (IOLocks.h:409: "should be locked with
\* interrupts disabled").
HandlerNeverWaitsForItsThread ==
  \A k \in Cpus :
    inHandler[k] /\ pc[<<k, "handler">>] = "lock" =>
      owner[want[<<k, "handler">>]] # <<k, "thread">>

\* A thread that has destroyed its guards has the interrupts it had before them
\* (IOLocks.h:423: "restore preemption and interrupts to the state as they were
\* when the lock was taken").
InterruptsRestored ==
  \A k \in Cpus :
    ~inHandler[k] /\ pc[<<k, "thread">>] = "run" /\ Guarded(<<k, "thread">>) = {}
      => interrupts[k]
=============================================================================
