# TLA+ models of MacKernelSDK

MacKernelSDK is the set of headers a macOS kernel extension is compiled against
(`src/Headers`) and the small library it is linked with (`src/Library/kmod`).
Most of the 1,200 files declare things that the kernel defines. The behaviour
that is really in the repository is the code of the library, and the inline
functions, macros and class templates of some headers. This project models that
code.

## 1. Parts

**libkmod start and stop glue** (`Library/kmod/{c,cplus}_{start,stop}.c`).
`_start` and `_stop`, called by the kernel, in the variants the linker chooses.
Each routine they call can fail, and attempts repeat. The module must never run
without its C++ runtime, and what an unloaded module leaves behind must be known.

**Channel ring leases** (`skywalk/channel/channel_var.h`, `core/skywalk_var.h`).
Writers reserve blocks of slots under a lock, fill them outside it, finish in
any order, and store a lease entry before they take the lock again; indices
wrap. Slots must be published in order, only once filled, all of them, and
without lost wake-ups.

**IOGraphics scoped locks** (`IOKit/graphics/tl/iolocks`, `IOKit/IOLocks.h`).
Guards that lock in the constructor, may be moved, and unlock in the
destructor, some with interrupts disabled. Interrupts come at any point. One
guard per hold, interrupts restored, no handler waiting for the thread under it.

**IOGraphics smart pointers** (`IOKit/graphics/tl/osmemory`). Shared and weak
pointers over a counter. Threads interleave inside assignments, and objects own
objects. Counts must be exact and nothing destroyed under a pointer.

**Kernel queues** (`kern/queue.h`, `kern/circle_queue.h`). Doubly linked
queues by two methods, circle queues, and loops that survive removal. A
debugger may walk a queue while `queue_enter` is half way.

**Kernel priority queue** (`kern/priority_queue.h`). A pairing heap linked
through its entries. Key changes move whole subtrees.

**BSD trees** (`libkern/tree.h`). Red-black and splay trees as macros.

**Arithmetic** (`Library/kmod/i386_builtins.c`, `kern/bits.h`,
`kern/arithmetic_128.h`, `IOKit/audio/BigNum128.h`, `IOKit/storage/IOCDTypes.h`,
`mach/time_value.h`). Words in halves, long division, bit searches and bitmaps,
carries, conversions. Boundaries, wrapped signs, and shifts C does not define.

The parts do not share state. Within a part the modules compose what interacts:
writers, lock and receiver in `Kring`; guards, the interrupt functions of
`IOLocks.h` and processors in `LockGuard`; pointers, counters and threads in
`SharedObject`; queues of all three sorts passing elements around in
`KernQueue`. `Divmod64`, `Counts64`, `Numeric` and the sweep build on `Arith64`.

## 2. Modules

| module | models | checked by |
|---|---|---|
| `Kmod` | the start and stop glue | TLC, `KmodProofs` |
| `Kring` | reservation and publication, writers and receiver | TLC, `KringProofs` |
| `OrderedRing` | what the ring promises, abstractly | refined by `Kring` |
| `KringInv` | the inductive invariant of `Kring` | TLC, proved |
| `LockGuard`, `MCLockGuard` | guards, locks, processors with interrupts | TLC, `LockGuardProofs` |
| `SharedObject`, `MCSharedObject` | shared and weak pointers, threads | TLC, the `SharedObject...` proofs |
| `SharedObjectThreads`, `SharedObjectProofs` | proofs only, the second building on the first | TLAPS |
| `KernQueue`, `MCKernQueue` | both sorts of linked queue, circle queues, safe loops, the debugger | TLC, `KernQueueProofs` |
| `KernQueueRings`, `KernQueueProofs` | proofs only, the second building on the first | TLAPS |
| `PriorityQueue` | the pairing heap | TLC, through the next two |
| `MCPriorityQueue` | instantiates it with interchangeable elements | TLC |
| `Trees` | red-black and splay trees, loops over them | TLC, through the next |
| `MCContainers` | a tree or a heap, one at a time | TLC |
| `Arith64` | words, shifts, absolute value, leading zeros as operators | `WordSweep`, `Arith64Sweep` |
| `Counts64` | trailing zeros and bit counts | `Arith64Sweep` |
| `Bits` | fields, bits, searches, rotations and bitmaps of `bits.h` | `Arith64Sweep` |
| `Numeric` | double words, CD addresses, time values | `Arith64Sweep` |
| `WordSweep` | one word per state, and what shifts and the absolute value should return | TLC, `Arith64Proofs` |
| `Arith64Sweep` | extends it with reference definitions for all the rest of the four above, and calls the divisions of `Divmod64` from the first word | TLC |
| `Divmod64` | `__divmoddi4` and its four callers | `Arith64Sweep`, `Arith64Proofs` |

### How state and actions correspond to the code

`Kmod`. One action for each call the glue makes, because each may fail:
`StartInitializeCPP`, `StartMain`, `StartUndo`, `StopMainC`, `StopMainCPP`,
`StopFinalizeCPP`. The disjuncts of an action are the results of the call. The
linker's choice is made in `Init`: the two C++ files are pulled in by different
symbols (`.constructors_used`, `.destructors_used`), so all four combinations
exist. `CallStart` and `CallStop` are the kernel.

`Kring`. `kr_reserve_slots_locked` runs under the lock and is one action.
`kr_publish_slots` is split wherever another thread can come in between: the
store of the lease entry (`PublishStore`), the lock and the comparison
(`PublishLock`, `PublishNotYet`), every turn of the scan (`PublishScan`; other
writers store entries during it), the update of `ckr_ktail` with the unlock
(`PublishTail`), the notification (`Notify`). `slot` is a history variable: it
tells leased, filled and free slots apart and the code never reads it. The
callers are outside the repository: writers fill what they reserved and publish
it; the receiver (`Rxsync`, `Sleep`, `Poll`) hands slots back under the lock.

Two constants widen what the callers do. Neither condition is in the code.

* `ZeroLease`: writers also reserve when the ring is full. The code then grants
  zero slots and still takes a lease entry.
* `AllowLap`: a writer may be held up so long that the ring comes round to its
  block, or lease entries to its ticket. `~AllowLap` is the assumption that this
  does not happen (`ShortOfUnfinished`).

`LockGuard`. Each processor has a thread and an interrupt handler above it.
`IOSimpleLockLockDisableInterrupt` is `LockInterrupt` (interrupts off) and then
`Locked` (the lock is had); unlocking is `UnlockInterrupt` and then
`EnableInterrupt`, so an interrupt can fall between any two steps. `Move` copies
`fLock` and leaves the new guard's interrupt state at its default, as the move
constructor does; `Movable` says which types of lock have guards that are moved.
The locks, interrupt entry and return, and the callers' locking order
(`MayLock`) are external.

`SharedObject`. A call puts the instructions of its body (`setme`, `retain`,
`release`, `zero`, ...) into the thread's `code`, and each instruction is a step.
Releasing the last count pushes the destruction of the object, and with it the
release of the object's member. The counter's bodies are not in the repository:
its operations are atomic here. A pointer that several threads use is used under
the callers' lock, for a pointer does not synchronise itself. With
`SourceMayDie` callers may assign from a pointer that only the target keeps alive
(`MayCall`); the run `shared_source` shows what comes of it.

`KernQueue`. An operation carries out the list of stores of its body, reads
included: a value read before a store is computed from the memory before it. The
callers hold the queue's lock, so the list is one step, except in `queue_enter`
(`queue_enter_store`), where the barrier separates two segments and the compiler
may exchange stores of one segment that go to different fields. A safe loop is
`foreach_safe_begin`, `_next`, `_end`, with the removal of the current element in
between. `content` is the history of what is on each queue.

`PriorityQueue`. A routine or helper of the header is an operator on the memory
`mem`, whose fields are functions; a routine gives the new memory, the new root and
what it returns, and an action is a call of it. `flags` chooses among max- and
min-heap, and keys in the entry or read from the element by a comparator. Keys in
the entry are stored through `Stored`, a signed bit-field, and `Priorities` reach its
sign. Callers update priorities by either routine in either direction; `ordered` is
the history of whether `priority_queue_entry_increase` has only moved elements towards
the root. Callers initialise an entry that `priority_queue_remove_max` returned before
they insert it again, unless `ReuseEntries`. `pqueue_pair_meld` is only declared: it is
external, and merges pairs from left to right, then the results from right to left.

`Trees`. A tree is a record of link functions; the macros are operators on it,
with their loops as recursions, and an action applies one. Both mirror images of
a case are one definition with a side as a parameter. Nodes with equal keys exist,
so that insertion finds a collision.

`Arith64`, `Counts64`. A word is a number below `2^W` made of two halves of `H` bits; the
code has `H = 32`. Masks are sets of bit positions. Signed overflow wraps.
`Bits` takes a word as the set of its ones; a shift by the full width, which C
does not define, gives any set. `bits` of the code is `bits_between` here. `Numeric` has pairs
of words of `H` bits, where the code has 64.

`Divmod64`. The branches of `__divmoddi4` and one action per pass of its loop;
`Call` and `Return` are the four callers with their sign handling.

## 3. Runs

| run | shows | distinct states |
|---|---|---|
| `kmod` (`Kmod.cfg`, `Kmod`) | Every linkage of _start and _stop and every failure: the module body never runs without its C++ runtime, and an unloaded module leaves the runtime up only in the two cases that the glue lets through. Checks `TypeOK`, `BodyHasRuntime`, `CleanUnload`. | 156 |
| `kring` (`Kring.cfg`, `KringInv`) | Three writers on three slots: publication in ring order, only of filled slots, nothing left behind, the inductive invariant of the proofs, every step a step of the ordered ring, and every reserved slot eventually published, read and given back. Checks `TypeOK`, `PublishedFilled`, `TailBehindLease`, `BlocksDisjoint`, `NothingStranded`, `UnleasedFree`, `KringChain`, `ImplementsOrderedRing`, `EveryLeaseConsumed`. | 10,431 |
| `kring_stranded` (`KringZero.cfg`, `Kring`) | A reservation of no slots on a full ring takes a lease entry in use, and completed blocks are never published. Checks `NothingStranded`. | counterexample |
| `kring_lapped` (`KringLap.cfg`, `Kring`) | A writer held up between its store and the lock for a whole turn of the ring moves ckr_ktail past ckr_klease. Checks `TailBehindLease`. | counterexample |
| `arith64` (`Arith64.cfg`, `Arith64Sweep`) | All 16-bit words through the i386 routines, the bit and bitmap functions, the double-word arithmetic and the address and time conversions, against reference definitions; and the four divisions at every boundary: correct results, the loop invariant of the long division, only shifts C defines, and every call ends. Checks `ShiftsAgree`, `SearchesAgree`, `PopcountsAgree`, `AbsAgrees`, `BitOperationsAgree`, `NumericHelpersAgree`, `TypeOK`, `DivisionCorrect`, `LongDivision`, `ShiftsDefined`, `Terminates`. | 80,076 |
| `lock_guard` (`LockGuard.cfg`, `MCLockGuard`) | Nested and moved guards of every lock type on two processors with interrupts: every hold belongs to one guard, no handler waits for its own thread, nobody deadlocks, and interrupts come back as long as no guard of an interrupt-disabling lock is moved. Checks `TypeOK`, `OneGuardPerHold`, `HandlerNeverWaitsForItsThread`, `InterruptsRestored`. | 207,117 |
| `lock_guard_moved_state` (`LockGuardMovedState.cfg`, `MCLockGuard`) | A moved guard forgets the saved interrupt state and leaves interrupts disabled. Checks `InterruptsRestored`. | counterexample |
| `containers` (`Containers.cfg`, `MCContainers`) | All red-black trees over ten keys and all splay trees over five that insertions and removals produce: order, balance, lookups and iteration with removal. Any sequence of heap operations on four elements, in all four kinds of heap: one well-linked tree, when its root is the best element, and when its results are truthful. Checks `TreeHoldsContent`, `RedBlack`, `LookupsAgree`, `IterationInOrder`, `HeapIsOneTree`, `HeapRootIsBest`, `HeapReturnsRootChange`. | 72,491 |
| `pqueue_reused` (`PriorityQueueReused.cfg`, `MCPriorityQueue`) | What priority_queue_remove_max returns still has its child: inserted again, it is both above and below its old subtree. Checks `OneTree`. | counterexample |
| `kern_queue` (`KernQueue.cfg`, `MCKernQueue`) | Three elements moving between two queues of each method and a circle queue: both directions of every queue agree with its contents, a debugger may walk in the middle of queue_enter, and safe iterations survive removal. Checks `LinksMatchContents`, `StackshotWalksWholeQueue`, `SafeIterationMeetsAll`. | 172,922 |
| `shared_object` (`SharedObject.cfg`, `MCSharedObject`) | Two threads copying, moving, destroying and locking shared and weak pointers, with objects that own objects, by callers who have the source of an assignment by more than its target: counts are exact at every step and nothing is destroyed under a pointer. Checks `UseCountsExact`, `BlockOutlivesWeaks`. | 189,272 |
| `shared_source` (`SharedSource.cfg`, `MCSharedObject`) | An assignment from a member of what its target holds, as in p = p->next, destroys its source before it reads it. Checks `SourceSurvives`. | counterexample |

### Bounds, and why they are enough

* Kmod: none. Its state space is finite, and all of it is visited.
* Kring: three writers on three slots let one writer scan past finished ones
  while every index wraps, with requests for one and two slots, so that a
  request is also cut down. With four slots (92,416 states, some eight minutes)
  the same properties pass. Two writers are enough for the counterexamples. Safety
  does not rest on bounds at all: it is proved (section 4).
* LockGuard: two processors, each with a thread and a handler, five locks of all
  types, three guards alive in a context. The properties are proved without them.
* SharedObject: two threads with a pointer each, one shared between them, two weak
  pointers, two objects, each of which can own the other or itself. The races are
  between two threads at one counter; a chain of two objects is what releasing a
  member takes, and two weak pointers what moving one takes. Objects and weak pointers
  are interchangeable. The properties are proved without these bounds.
* KernQueue: three elements give a first, a last and one in the middle; two queues
  of a method are needed for `re_queue_*`, `movqueue`, `queue_new_head` and
  `queue_assign`. Elements and queues of one method are interchangeable.
* PriorityQueue: four elements make a root with three children, or a chain; three
  priorities give ties, and one of them is negative in a key. Elements are
  interchangeable. `KeyBits` is 3 for the code's 8.
* Trees: ten keys, so that recolouring after an insertion or a removal climbs past
  a black parent and every case is met; splay trees rearrange on every lookup and
  have five keys. One more node has a key that is already there. Loops start in
  trees of up to `MaxIterated` nodes.
* Arith64: every 16-bit word, and shift counts beyond the width on both sides. At
  this width the folds of lines 241, 253 and 254 are empty: they are translated,
  and nothing is shown about them. Wider words do not fit TLC's integers. The same
  16 bits are read as a pair of 8-bit words, as a bitmap of three words of `B = 4`
  bits, as minutes and seconds on a disc, with nine frames around its limits, and as
  a time value. Divisions: 24 words of 16 bits around the limits of halves, words and
  signs, all pairs of them, all four routines. What is not liveness of these, shifts
  and absolute value is proved for all words.

Deadlock is checked in every passing run but `arith64`, in which a call ends. For
guards and for shared pointers it means that nobody ends up waiting for everybody.
The type invariants of `PriorityQueue`, `KernQueue` and `Trees` are checked as parts
of `HeapIsOneTree`, `LinksMatchContents` and `TreeHoldsContent`. The three properties
of `MCContainers` that begin with `Heap` are those of `PriorityQueue` of the same name
without it; its `HeapIsOneTree` is `OneTree`.

### Fairness

`kring` assumes weak fairness of each writer's own steps (a thread that
reserved runs on), strong fairness of getting `ckr_qlock` (the lock is taken over
and over by others; the kernel's mutex does not starve a waiter), and strong
fairness of `Rxsync` (an awake receiver reads, for which it needs the lock too).
`Reserve` and `Poll` are not fair: nobody has to write, and the receiver need not
come back by itself, so the notification is what wakes it. `arith64` assumes
weak fairness of the next step, which during a division is a step of it: the
processor goes on. The other parts are
sequential or have no promise of progress in the code, and no fairness.

### Disagreements with the comments

* **`kring_stranded`**. On a full ring `kr_reserve_slots_locked` grants nothing
  but takes a lease entry (line 861). With N-1 blocks of one slot outstanding,
  `ckr_lease_idx` comes back to the first writer's ticket; its scan (line 908)
  takes the array for empty, and blocks that were completed stay unpublished.
  Line 905: "scan subsequent leases to see if other ranges have been completed".
  A caller that asks `kr_available_slots` first is safe.
* **`kring_lapped`**. The entry is stored (line 898) before the lock is taken
  (line 900). If another writer's scan takes it in between and the ring comes
  round, `start == ckr_ktail` holds again by accident and `ckr_ktail` passes
  `ckr_klease`. Line 318: "On an RX ring, ckr_klease is always after ckr_ktail".
* **`lock_guard_moved_state`**. The move constructor (`iolocks:115`) does not take
  over the interrupt state, so destroying the new guard leaves interrupts
  disabled. `IOLocks.h:423`: "restore preemption and interrupts to the state as
  they were when the lock was taken".
* **`pqueue_reused`**. `priority_queue_remove_max` leaves the old root's child pointer
  set (`priority_queue.h:793`). Inserted again as it is, the element leads to its old
  child and hangs below it. Line 782: "Uses the priority_queue_remove() routine to
  actually do the removal", and that routine initialises the entry (line 623).
  Callers who initialise it themselves are safe (`containers`).
* **`shared_source`**. Copy and move assignment (`osmemory:301-309`, `258-267`) release
  the old object first. If that was all that kept the source alive (`p = p->next`), the
  source is gone before it is read. Line 186: "std::shared_ptr<T> equivalent", whose
  assignments go through a temporary. Callers who have the source by more than the
  target are safe (`shared_object`, and proved).

### Observations

What callers have to know, and what differs from a comment or a name, without a run
of its own. The properties named here say so, as far as there is one.

* The warnings for min-heaps at `priority_queue.h:635` and `:669` have the directions
  exchanged. `priority_queue_entry_increase` keeps the order only if the element moves
  towards the root (`RootIsBest`): it takes the whole subtree along. For a min-heap,
  line 669 says that the element "moves away from the root". Line 635 has
  `priority_queue_entry_decrease` for moves "toward the root"; that keeps the order,
  but the result is whether the element was the root before, so a new root is not
  reported, against line 654 (`ReturnsRootChange`).
* The key of an entry is a signed bit-field (`priority_queue.h:153`), the type of keys
  unsigned (line 122), and the assertion at line 423 lets all of them through. The
  order of the heap is that of the comparator, in which the larger half comes below 0.
* `ZeroLease = TRUE` breaks `NothingStranded` (the run above) but, on the instance
  of that run, none of `PublishedFilled`, `TailBehindLease` and `BlocksDisjoint`.
* `cplus_start.c:69` says "If _realmain failed, tear down C++." The result of the
  finalizer is dropped (line 72): when it fails, the runtime stays up after a
  failed start (`CleanUnload`), until a later stop or undo succeeds. It also stays up
  when `cplus_start.c` is linked with `c_stop.c`, which has no finalizer.
* `channel_var.h:290` gives the strict bound "ckr_ktail <= ckr_klease <
  nkr_khead+N-1". An ordinary full ring has equality.
* `bit_clear_if_set` and `bit_set_if_clear` (`bits.h:65-81`) take the bitmap by
  value: what they change is lost, though their comments say "Non-atomically clear the
  bit" and "set the bit". `BitOperationsAgree` is about their results.
* A rotation by a multiple of the width (`bits.h:55`, `62`) shifts by the full width,
  which C leaves undefined; `BitOperationsAgree` is about the other counts.
* `bitmap_full` sets whole words, also the bits from `nbits` up.
* `SPLAY_REMOVE` returns its argument (`tree.h:226`), not the node it took out,
  which is another one when only their keys are equal.
* `U128`'s `>` is true when its right operand is the greater one, and `<` is its
  negation (`BigNum128.h:35-36`); the postfix `++` and `--` return the new value
  (lines 43, 52). No comment says what they should do; `NumericHelpersAgree` states
  what they do.

## 4. Proofs

**Kmod** (`KmodProofs`, for every linkage and both word sizes). `TypeCorrect`,
`BodyAlwaysHasRuntime` and `UnloadIsClean`, from the inductive invariant
`KmodInv` of theorem `KmodInvariant`, which adds to the two properties what is
true in the middle of a call. `UnloadIsClean` says in which two cases the runtime is
up on an unloaded module; the invariant carries from the undo of a start to the next
call that the start has failed and that there was a `_realmain` to fail.

**Kring**, for any set of writers, any number of slots from two up and any
requests. `TypeCorrect` needs no more than `KringAssumption`. The others assume
`~ZeroLease` and `~AllowLap`; the runs `kring_stranded` and `kring_lapped` show
that neither can be dropped.

None of the safety properties is inductive: which slots a lease entry speaks of,
and which writer will publish it, is nowhere in the state. The code does not
record where the block of a ticket begins, once its writer is gone. The
invariant `KringChain` says that such a record exists: there are a first
outstanding ticket `b` and a function `g` from tickets to first slots such that

* the blocks of tickets `b` up to `ckr_lease_idx` follow each other in ring order
  from `ckr_ktail` (or from where the scan has got to) up to `ckr_klease`, each
  with at least one slot (`ChainOrder`), which is why tickets do not run out;
* a lease entry that is set is the end of its block, and the block is filled
  (`ChainFilled`);
* a writer's locals are those of its block, or its block has been taken and the
  ring has not come round to it (`WriterInv`);
* every unfinished block has a writer at work, and a finished first block has a
  writer about to lock, or a scan (`ChainOwned`).

`KringProofs` begins with the arithmetic of positions on a ring and type
correctness. Then come the steps that do not reserve: `Fill`, `PublishStore`,
`PublishNotYet`, `PublishLock`, the scan, `ckr_ktail` and the receiver. The
reservation, which extends `g` by a new last block, is next, and then the results:

| theorem of `KringProofs` | states |
|---|---|
| `ChainInvariant` | `Spec => []KringChain` |
| `ReceiverReadsFilledSlots` | `Spec => []PublishedFilled` |
| `PublicationBehindReservation` | `Spec => []TailBehindLease` |
| `WritersKeepApart` | `Spec => []BlocksDisjoint` |
| `NoBlockIsStranded` | `Spec => []NothingStranded` |
| `UnleasedSlotsAreFree` | `Spec => []UnleasedFree` |
| `KeepsPromise` | `Spec` implements `OrderedRing!Spec` |

For the refinement, `ckr_khead`, `ckr_ktail`, `ckr_klease` and the filled slots
are the state of `OrderedRing`. A reservation is a `Grant`, `Fill` a `Deliver`,
`PublishTail` a `Publish`, `Rxsync` a `Take`, and all else stutters.

**LockGuard**, for any processors, any locks of any types in any order, and any
number of guards.

| theorem of `LockGuardProofs` | states |
|---|---|
| `HoldsBelongToGuards` | `Spec => []OneGuardPerHold` |
| `HandlersDoNotDeadlock` | `Spec => []HandlerNeverWaitsForItsThread` |
| `TypeCorrect` | `Spec => []TypeOK` |
| `InterruptsComeBack` | `Spec => []InterruptsRestored`, if no guard of an `IOSimpleLockInterrupt` is moved |

The assumption of the last is the one that `lock_guard_moved_state` shows to be
needed. The argument has five parts.

* `Types`: what the variables range over.
* `OwnInv`: the depth of a lock is the number of its owner's
  guards for it, and nobody else has any. A construction adds one, a destruction
  removes one from any place of the sequence, a move replaces one.
* `SpinInv`: whoever has or waits for an interrupt-disabling lock
  has interrupts disabled (`ContextInv`); so a handler finds a thread below it
  that has none of them, and a handler waits for no other sort (`CpuInv`). This
  with `OwnInv` gives the absence of deadlock. Of nested guards only the outermost
  found interrupts enabled (`Nested`), without which an inner destructor could
  let interrupts in too early.
* `RestoreInv`: a thread with interrupts disabled has a guard, or is in a
  constructor or destructor, that remembers to enable them. Only this part needs
  the assumption.

* `RoomInv`: a context that waits for a lock has room for the guard it constructs.
  It is what the bound of `TypeOK` on guards, and with `OwnInv` the bound on
  depths, rests on.

**SharedObject**, for any number of threads, objects and pointers, and every
interleaving of the instructions of copies, moves, swaps, locks and destructions.

| theorem of `SharedObjectProofs` | states |
|---|---|
| `UseCounts` | `Spec => []UseCountsExact` |
| `BlockOutlives` | `Spec => []BlockOutlivesWeaks` |
| `SourceSafe` | `Spec => []SourceSurvives` |

All three assume `~SourceMayDie`: the caller of an assignment keeps the source
alive by something other than the target. The run `shared_source` shows that the
third needs it; that it is enough is all that `SourceSafe` says. `SharedObjectAssumption` says that no two pointers are one and that
there are finitely many, which holds of variables and members in C++.

Nothing in the counts tells what a thread in the middle of an assignment still
has to do. The inductive invariant `Inv` (`SharedObjectThreads`) therefore
describes what is left of each thread's `code`.

* `Shape`: which instruction stands where. A store is followed by the retain that
  pays for it, a release by the store that overwrites the pointer, an object is
  freed right after its member was zeroed; and destructions, nested to any depth,
  are put in front of the rest.
* `Reaches` and `Begun`: what a thread may touch. Its own pointers, what the
  callers' lock protects, the members of objects that a pointer the call leaves
  alone holds, and those of the objects it is destroying itself. The source of a
  store still holds what was read from it, which is why a retain never counts up
  from zero.
* `FreeOnce`, `LockOnce`, `ObjectInv`: one thread destroys an object, once; one
  has the lock; a dying object is one that somebody is destroying.

`SharedObjectThreads` shows that what one thread does to pointers and counts
leaves the others' `Reaches` and `Begun` alone; `SharedObjectProofs` goes through
the instructions and the calls that begin one.

**KernQueue**, for any elements, any heads of the three kinds and every sequence of
operations, with the debugger looking in at any point.

| theorem of `KernQueueProofs` | states |
|---|---|
| `LinksAlwaysMatch` | `Spec => []LinksMatchContents` |
| `StackshotNeverTrips` | `Spec => []StackshotWalksWholeQueue` |
| `SafeIterationIsComplete` | `Spec => []SafeIterationMeetsAll` |

The only assumption is that heads, elements and the null pointer are different
things; what the callers owe (`MayEnter`, `MayLeave`) is part of the model. None of
the three is inductive. The links of one queue stay right only if no element is on
two, and in the middle of `queue_enter` they are not right at all. What a safe loop will meet depends on a pointer it saved before its body changed the
queue. The inductive invariant `QueueInv` therefore has two parts.

* `LinkInv`. Between operations (`Good`): the links of every initialised head are
  those of its contents, in both directions, and every element is in one place of
  one queue (`Spread`). During `queue_enter` (`Entering`): memory is that of an
  earlier good state `g` but for the stores made so far, and those behind the
  barrier are still to come while one before it is (`Partly`). This is what lets the
  debugger walk the queue forward between any two stores: it sees the old contents
  or the new.
* `WalkInv`. A safe loop has met a prefix of what was on the queue when it began;
  its current and its saved element are the next two; and all after the current one
  are still on the queue, in their order, whatever the body did to the ones before
  (`Walks`).

Every operation is a splice: an element linked in between two neighbours, neighbours
linked past an element, a head put in another's place, or the first place of a
circle moved on. The lemmas on rings in `KernQueueRings` (`Between`, `Bypass`,
`Grown`, `Shrunk`) say what a splice does to a ring and that it leaves every other
ring alone. The rest shows for each macro and function that its stores are such a
splice, also where neighbours coincide because the queue is empty or has one element.

**Arithmetic**, for words of every width (`H` up to the code's 32), all words and
all arguments.

| theorem of `Arith64Proofs` | states |
|---|---|
| `DivisionIsCorrect` | `Spec => []DivisionCorrect` |
| `LongDivisionHolds` | `Spec => []LongDivision` |
| `ShiftsAreDefined` | `Spec => []ShiftsDefined` |
| `DivmodTypes` | `Spec => []TypeOK` |
| `ShiftsAlwaysAgree` | `Sweep => []ShiftsAgree` |
| `AbsAlwaysAgrees` | `Sweep => []AbsAgrees` |

For the division (`Divmod64`) the inductive invariant is `DivInv`: what each branch
of `__divmoddi4` knows of its arguments, and in the loop (`LoopInv`) the equation of long division. With `bits`
passes to go there is a `q`, the quotient without its last bit, which is in `wrap`,
such that `a` is the rest of the numerator above `q`, and numerator, quotient and
remainder are in step (`Dividing`). The code compares by the sign of a wrapped
difference, and doubles the remainder before it does. Neither goes wrong because a
divisor with its top bit set takes a single pass. The number of passes comes from
leading zeros, and `__clzdi2` is proved to count them, line by line.

The sweep of `WordSweep` visits nothing but words, so its two theorems speak of every
word. A shift by a count of a half or more (`LeftFar`, `RightFar`) moves one half; a
smaller one (`LeftNear`, `RightNear`) splits a half in two, and what leaves one half
is what the other is missing. The arithmetic shift joins a high half that is
negative with a low one that is not (`SignedJoin`).

The provers know no laws of exponents. `PowersAssumption` of `Arith64` states
`2^(m+n) = 2^m * 2^n` for the exponents of one word, and TLC evaluates it for the
widths of the runs.

**Cardinalities.** `OwnInv` and `Inv` count. The facts about finite sets they need
are collected in a predicate `Counting`, a hypothesis of the lemmas; the lemma
`CountingHolds` at the end of the two developments proves it from the library, so
no theorem rests on it.

Only model-checked:

* liveness (`EveryLeaseConsumed`, `Terminates`), which this prover does not do;
* `Trees`, whose macros and walks are recursions, and would need induction over data;
* what `Arith64Sweep` adds to `WordSweep`: `Numeric` and `Counts64` are defined by
  recursion and folds, and its properties compare them with such definitions;
* `PriorityQueue`, whose heap order is a statement about paths of any length, and
  whose merging of children is a fold over the list of them;
* a ring with full-ring reservations or lapped writers, beyond `TypeCorrect`; the
  runs that show what fails there are in section 3.

## 5. Not modelled

* Headers that only declare: IOKit families, DriverKit, Mach, BSD, most of
  skywalk. They are nearly all of the repository's lines, so the share of it
  that models can cover is small whatever is done. `kern/mpsc_queue.h` describes
  an algorithm in a comment and leaves its code to the kernel.
* `sys/queue.h` and the packet queues of skywalk: sequential lists as macros, of
  the sort `KernQueue` covers.
* `os/smart_ptr.h`, `libkern/c++/OSPtr.h`: assignment there swaps with a temporary
  and so avoids the order that matters in `osmemory`. Of `osmemory` itself,
  `OSUniqueObject`, which has one owner and no count.
* `na_reject_channel` (`nexus_adapter.h:547`) tests a flag and then sets it. Whether
  two callers can meet there depends on a lock of the kernel's, and what a second
  `ch_deactivate` does on its body; neither is here.
* `bits.h`: the atomic operations, one instruction each, and the allocation of
  bitmaps. `kern/remote_time.h` computes with doubles; `os/overflow.h` names
  compiler built-ins; the searches of a CD's table of contents are single loops.
* Flow keys, `kern/kcdata.h`, `IOReportMacros.h`: loads and stores over layouts whose
  users are in the kernel. Cryptographic macros. The test extension `libkmodtest`.

## 6. Running

    tlc -config Kring.cfg KringInv         # likewise for the other runs
    tlapm KringProofs.tla                  # likewise for the other proofs
