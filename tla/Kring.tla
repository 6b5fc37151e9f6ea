------------------------------- MODULE Kring -------------------------------
(*************************************************************************)
(* The lease protocol of a channel ring (skywalk/channel/channel_var.h): *)
(* several writers reserve blocks of slots under the ring lock, fill     *)
(* them outside it, and publish them in ring order whatever the order in *)
(* which they finish.  A writer that finishes out of turn leaves the end *)
(* of its block in ckr_leases for the writer whose turn it is.           *)
(*                                                                       *)
(* kr_reserve_slots_locked runs with the lock held and is one action.    *)
(* kr_publish_slots is split where other writers can come in between:    *)
(* the store to ckr_leases before KR_LOCK, taking the lock, each turn of *)
(* the scan (writers store to ckr_leases without the lock, also during a *)
(* scan), the update of ckr_ktail with KR_UNLOCK, and the notification.  *)
(*                                                                       *)
(* The callers are not in the repository: a writer that fills the slots  *)
(* it reserved and publishes every reservation, and a receiver that is   *)
(* woken by ckr_na_notify and moves ckr_khead towards ckr_ktail under    *)
(* the lock.                                                             *)
(*************************************************************************)
EXTENDS Integers

CONSTANTS
  Writers,    \* the threads that deliver to the ring
  NumSlots,   \* ckr_num_slots
  Requests,   \* the numbers of slots a writer may ask for
  ZeroLease,  \* writers call kr_reserve_slots_locked on a full ring, too
  AllowLap,   \* the ring may come round to a writer that has not finished
  NoWriter    \* nobody holds ckr_qlock

ASSUME KringAssumption ==
  /\ NumSlots \in Nat /\ NumSlots >= 2
  /\ Requests \subseteq Nat \ {0}
  /\ ZeroLease \in BOOLEAN /\ AllowLap \in BOOLEAN
  /\ NoWriter \notin Writers

ckr_lim == NumSlots - 1
Slots == 0 .. ckr_lim
CKR_NOSLOT == -1

VARIABLES
  khead, ktail, klease, lease_idx,  \* the ring's indices
  leases,                           \* ckr_leases
  qlock,                            \* the holder of ckr_qlock
  pc, start, end, ticket,           \* each writer's place and locals
  rx                                \* the receiver: "asleep" or "awake"

\* History, never read by the code: what has become of each slot since it was
\* last free.
VARIABLE slot

ring == <<khead, ktail, klease, lease_idx, leases>>
locals == <<start, end, ticket>>
vars == <<ring, qlock, pc, locals, rx, slot>>

-----------------------------------------------------------------------------
\* Index arithmetic.

SLOT_NEXT(i) == IF i = ckr_lim THEN 0 ELSE i + 1

\* Mutant: the wrapped index is one too far.
SLOT_INCREMENT_SkipsZero(i, n) == IF i + n > ckr_lim THEN i + n - ckr_lim ELSE i + n

\* kr_reserve_slots_locked has it written out.
SLOT_INCREMENT(i, n) == IF i + n > ckr_lim THEN i + n - ckr_lim - 1 ELSE i + n

\* The number of steps from slot i forward to slot j.
Busy(i, j) == IF j - i < 0 THEN j - i + NumSlots ELSE j - i

\* The slots from i up to, and without, j.
Block(i, j) == {s \in Slots : Busy(i, s) < Busy(i, j)}

\* Mutant: slots the receiver has not handed back count as free.
kr_available_slots_FromTail == ckr_lim - Busy(ktail, klease)

kr_available_slots == ckr_lim - Busy(khead, klease)

kr_available_slots_rxring == ckr_lim - Busy(khead, ktail)

-----------------------------------------------------------------------------
Init ==
  /\ khead = 0 /\ ktail = 0 /\ klease = 0 /\ lease_idx = 0
  /\ leases = [t \in Slots |-> CKR_NOSLOT]
  /\ qlock = NoWriter
  /\ pc = [w \in Writers |-> "idle"]
  /\ start = [w \in Writers |-> 0]
  /\ end = [w \in Writers |-> 0]
  /\ ticket = [w \in Writers |-> 0]
  /\ rx = "asleep"
  /\ slot = [s \in Slots |-> "free"]

\* The locals of a call go with it.
ForgetLocals(w) ==
  /\ start' = [start EXCEPT ![w] = 0]
  /\ end' = [end EXCEPT ![w] = 0]
  /\ ticket' = [ticket EXCEPT ![w] = 0]

\* Mutant: the slot that keeps a full ring from looking empty is given away.
Granted_LastSlot(n) == IF n > kr_available_slots + 1 THEN kr_available_slots + 1 ELSE n

\* The request, cut down to what is available.
Granted(n) == IF n > kr_available_slots THEN kr_available_slots ELSE n

kr_reserve_slots_locked(w, n) ==
  LET m == Granted(n) IN
  /\ pc[w] = "idle" /\ qlock = NoWriter
  /\ ticket' = [ticket EXCEPT ![w] = lease_idx]
  /\ leases' = [leases EXCEPT ![lease_idx] = CKR_NOSLOT]
  /\ lease_idx' = SLOT_NEXT(lease_idx)
  /\ start' = [start EXCEPT ![w] = klease]
  /\ end' = [end EXCEPT ![w] = SLOT_INCREMENT(klease, m)]
  /\ klease' = SLOT_INCREMENT(klease, m)
  /\ pc' = [pc EXCEPT ![w] = "filling"]
  /\ slot' = [s \in Slots |-> IF Busy(klease, s) < m THEN "leased" ELSE slot[s]]
  /\ UNCHANGED <<khead, ktail, qlock, rx>>

\* A writer between its reservation and taking the lock to publish.
InFlight(w) == pc[w] \in {"filling", "filled", "stored"}

\* A block of n slots taken now stays short of every unfinished writer's block,
\* and its ticket is not one of theirs.
ShortOfUnfinished(n) ==
  \A w \in Writers : InFlight(w) =>
    /\ ticket[w] # lease_idx
    /\ Busy(klease, start[w]) # 0 => n < Busy(klease, start[w])

\* The writer's call.  The code has neither condition: with ZeroLease the writer
\* may call on a full ring, with AllowLap at any distance.
Reserve(w, n) ==
  /\ ZeroLease \/ kr_available_slots > 0
  /\ AllowLap \/ ShortOfUnfinished(Granted(n))
  /\ kr_reserve_slots_locked(w, n)

\* The writer copies its packets into the slots it reserved.
Fill(w) ==
  /\ pc[w] = "filling"
  /\ pc' = [pc EXCEPT ![w] = "filled"]
  /\ slot' = [s \in Slots |-> IF s \in Block(start[w], end[w]) THEN "filled" ELSE slot[s]]
  /\ UNCHANGED <<ring, qlock, locals, rx>>

\* l[ticket] = end, before the lock.
PublishStore(w) ==
  /\ pc[w] = "filled"
  /\ leases' = [leases EXCEPT ![ticket[w]] = end[w]]
  /\ pc' = [pc EXCEPT ![w] = "stored"]
  /\ UNCHANGED <<khead, ktail, klease, lease_idx, qlock, locals, rx, slot>>

\* KR_LOCK; an earlier block is still missing: nothing to do, KR_UNLOCK.
PublishNotYet(w) ==
  /\ pc[w] = "stored" /\ qlock = NoWriter
  /\ start[w] # ktail
  /\ pc' = [pc EXCEPT ![w] = "idle"]
  /\ ForgetLocals(w)
  /\ UNCHANGED <<ring, qlock, rx, slot>>

\* Mutant: the writer does not look whether it is its turn.
PublishLock_AnyTurn(w) ==
  /\ pc[w] = "stored" /\ qlock = NoWriter
  /\ qlock' = w
  /\ pc' = [pc EXCEPT ![w] = "scan"]
  /\ UNCHANGED <<ring, locals, rx, slot>>

\* KR_LOCK; start == update_pos.
PublishLock(w) ==
  /\ pc[w] = "stored" /\ qlock = NoWriter
  /\ start[w] = ktail
  /\ qlock' = w
  /\ pc' = [pc EXCEPT ![w] = "scan"]
  /\ UNCHANGED <<ring, locals, rx, slot>>

\* Mutant: blocks completed out of turn are not looked for.
ScanGoesOn_Never(w) == FALSE

\* Mutant: unfinished blocks are not told from finished ones.
ScanGoesOn_Unfinished(w) == ticket[w] # lease_idx

\* The condition of the while loop.
ScanGoesOn(w) == ticket[w] # lease_idx /\ leases[ticket[w]] # CKR_NOSLOT

\* One turn of the while loop.
PublishScan(w) ==
  /\ pc[w] = "scan" /\ ScanGoesOn(w)
  /\ end' = [end EXCEPT ![w] = leases[ticket[w]]]
  /\ leases' = [leases EXCEPT ![ticket[w]] = CKR_NOSLOT]
  /\ ticket' = [ticket EXCEPT ![w] = SLOT_NEXT(ticket[w])]
  /\ UNCHANGED <<khead, ktail, klease, lease_idx, qlock, pc, start, rx, slot>>

\* Mutant: new_bufs is not set.
PublishTail_Silent(w) ==
  /\ pc[w] = "scan" /\ ~ScanGoesOn(w)
  /\ ktail' = IF end[w] # start[w] THEN end[w] ELSE ktail
  /\ pc' = [pc EXCEPT ![w] = "idle"]
  /\ qlock' = NoWriter
  /\ ForgetLocals(w)
  /\ UNCHANGED <<khead, klease, lease_idx, leases, rx, slot>>

\* The end of the loop, the new write position, KR_UNLOCK.
PublishTail(w) ==
  /\ pc[w] = "scan" /\ ~ScanGoesOn(w)
  /\ ktail' = IF end[w] # start[w] THEN end[w] ELSE ktail
  /\ pc' = [pc EXCEPT ![w] = IF end[w] # start[w] THEN "notify" ELSE "idle"]
  /\ qlock' = NoWriter
  /\ ForgetLocals(w)
  /\ UNCHANGED <<khead, klease, lease_idx, leases, rx, slot>>

\* kr->ckr_na_notify(kr, p, 0), after the lock is gone.
Notify(w) ==
  /\ pc[w] = "notify"
  /\ rx' = "awake"
  /\ pc' = [pc EXCEPT ![w] = "idle"]
  /\ UNCHANGED <<ring, qlock, locals, slot>>

-----------------------------------------------------------------------------
\* The receiver.

\* rxsync: some of the published slots are consumed and handed back.
Rxsync(n) ==
  /\ rx = "awake" /\ qlock = NoWriter
  /\ n \in 1 .. Busy(khead, ktail)
  /\ khead' = SLOT_INCREMENT(khead, n)
  /\ slot' = [s \in Slots |-> IF Busy(khead, s) < n THEN "free" ELSE slot[s]]
  /\ UNCHANGED <<ktail, klease, lease_idx, leases, qlock, pc, locals, rx>>

\* Nothing left to read: wait for a notification.
Sleep ==
  /\ rx = "awake" /\ khead = ktail
  /\ rx' = "asleep"
  /\ UNCHANGED <<ring, qlock, pc, locals, slot>>

\* The receiver may also come back by itself.
Poll ==
  /\ rx = "asleep"
  /\ rx' = "awake"
  /\ UNCHANGED <<ring, qlock, pc, locals, slot>>

-----------------------------------------------------------------------------
Write(w) ==
  \/ \E n \in Requests : Reserve(w, n)
  \/ Fill(w) \/ PublishStore(w) \/ PublishNotYet(w) \/ PublishLock(w)
  \/ PublishScan(w) \/ PublishTail(w) \/ Notify(w)

Receive == (\E n \in Slots : Rxsync(n)) \/ Sleep \/ Poll

Next == (\E w \in Writers : Write(w)) \/ Receive

Spec == Init /\ [][Next]_vars

\* A writer that has reserved goes on to publish; the ring lock is handed to
\* every thread that keeps asking for it; an awake receiver reads.
Fairness ==
  /\ \A w \in Writers :
       /\ WF_vars(Fill(w) \/ PublishStore(w) \/ PublishScan(w) \/ PublishTail(w) \/ Notify(w))
       /\ SF_vars(PublishNotYet(w) \/ PublishLock(w))
  /\ SF_vars(\E n \in Slots : Rxsync(n))

FairSpec == Spec /\ Fairness
-----------------------------------------------------------------------------
\* The indices stay below ckr_num_slots (the ASSERTs of kr_reserve_slots_locked
\* and kr_publish_slots), a lease entry is an index or CKR_NOSLOT, the lock is
\* held by the scanning writer alone.
TypeOK ==
  /\ khead \in Slots /\ ktail \in Slots /\ klease \in Slots /\ lease_idx \in Slots
  /\ leases \in [Slots -> Slots \cup {CKR_NOSLOT}]
  /\ qlock \in Writers \cup {NoWriter}
  /\ pc \in [Writers -> {"idle", "filling", "filled", "stored", "scan", "notify"}]
  /\ start \in [Writers -> Slots] /\ end \in [Writers -> Slots]
  /\ ticket \in [Writers -> Slots]
  /\ rx \in {"asleep", "awake"}
  /\ slot \in [Slots -> {"free", "leased", "filled"}]
  /\ \A w \in Writers : pc[w] = "scan" <=> qlock = w

\* What the receiver may read has been written: every slot from ckr_khead up to
\* ckr_ktail was filled by the writer it was leased to, however the writers'
\* fills, stores and scans interleave.
PublishedFilled == \A s \in Block(khead, ktail) : slot[s] = "filled"

\* "On an RX ring, ckr_klease is always after ckr_ktail": publication never
\* overtakes reservation.  In numbers, a writer is never promised more slots
\* than the published count leaves.
TailBehindLease == kr_available_slots <= kr_available_slots_rxring

\* A writer works in its own slots: the block it was granted and has not yet
\* reported overlaps neither another such block nor what the receiver may read.
BlocksDisjoint ==
  \A w \in Writers : pc[w] \in {"filling", "filled"} =>
    /\ Block(start[w], end[w]) \cap Block(khead, ktail) = {}
    /\ \A v \in Writers \ {w} : pc[v] \in {"filling", "filled"} =>
         Block(start[w], end[w]) \cap Block(start[v], end[v]) = {}

\* "scan subsequent leases to see if other ranges have been completed"
\* (channel_var.h:905): a completed block is never left behind, so when no
\* writer is at work every reserved slot is published.
NothingStranded ==
  (\A w \in Writers : pc[w] \in {"idle", "notify"}) => ktail = klease

\* The promise of the protocol: with the filled slots read off the history, the
\* ring's indices move as in OrderedRing, so tickets, lease entries, the lock and
\* the unlocked stores to ckr_leases do not show.
Promise == INSTANCE OrderedRing WITH
  head <- khead, tail <- ktail, lease <- klease, filled <- {s \in Slots : slot[s] = "filled"}

ImplementsOrderedRing == Promise!Spec

\* Every reserved slot is eventually published, read and given back: no block
\* is stranded behind a finished writer and no notification is lost.
EveryLeaseConsumed == \A s \in Slots : slot[s] # "free" ~> slot[s] = "free"
=============================================================================
