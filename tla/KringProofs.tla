---------------------------- MODULE KringProofs ----------------------------
(*************************************************************************)
(* Proofs about the lease protocol, for every number of slots, set of    *)
(* writers and set of request sizes: the arithmetic of ring indices,     *)
(* type correctness, the chain of blocks under every step, the theorems  *)
(* that follow from the chain, and the promise kept: every step of Kring *)
(* is a step of OrderedRing or leaves the ring's indices and filled      *)
(* slots as they are.                                                    *)
(*************************************************************************)
EXTENDS KringInv, TLAPS

USE ZenonT(8), SMTT(12)

-----------------------------------------------------------------------------
\* Arithmetic of ring indices.

\* A distance is a number of slots short of a full turn (the busy count of
\* kr_available_slots after its correction by ckr_num_slots).
LEMMA BusyRange ==
  ASSUME NEW i \in Slots, NEW j \in Slots
  PROVE  Busy(i, j) \in 0 .. ckr_lim /\ Busy(i, j) \in Nat
  BY KringAssumption DEF Busy, Slots, ckr_lim

\* The distance from a slot to itself is zero, to any other one it is not.
LEMMA BusyZero ==
  ASSUME NEW i \in Slots, NEW j \in Slots
  PROVE  Busy(i, j) = 0 <=> i = j
  BY KringAssumption DEF Busy, Slots, ckr_lim

\* Two slots at the same distance from a third are the same slot.
LEMMA BusyInjective ==
  ASSUME NEW i \in Slots, NEW j \in Slots, NEW k \in Slots
  PROVE  Busy(i, j) = Busy(i, k) <=> j = k
  BY KringAssumption DEF Busy, Slots, ckr_lim

\* Distances add up: from j to k is the way to k less the way to j, with a
\* whole turn more when j lies behind k.
LEMMA BusyBetween ==
  ASSUME NEW i \in Slots, NEW j \in Slots, NEW k \in Slots
  PROVE  Busy(j, k) = IF Busy(i, j) <= Busy(i, k)
                        THEN Busy(i, k) - Busy(i, j)
                        ELSE Busy(i, k) - Busy(i, j) + NumSlots
  BY KringAssumption DEF Busy, Slots, ckr_lim

\* SLOT_INCREMENT stays in the ring for an increment below a full turn.
LEMMA IncrementInRing ==
  ASSUME NEW j \in Slots, NEW n \in Slots
  PROVE  SLOT_INCREMENT(j, n) \in Slots
  BY KringAssumption DEF SLOT_INCREMENT, Slots, ckr_lim

\* SLOT_INCREMENT moves an index that many steps away, short of a full turn.
LEMMA BusyIncrement ==
  ASSUME NEW i \in Slots, NEW j \in Slots, NEW n \in Slots, Busy(i, j) + n <= ckr_lim
  PROVE  Busy(i, SLOT_INCREMENT(j, n)) = Busy(i, j) + n
  BY KringAssumption DEF Busy, SLOT_INCREMENT, Slots, ckr_lim

\* Moving the origin of the count forward shortens every distance beyond it.
LEMMA BusyFromIncrement ==
  ASSUME NEW i \in Slots, NEW j \in Slots, NEW n \in Slots, n <= Busy(i, j)
  PROVE  Busy(SLOT_INCREMENT(i, n), j) = Busy(i, j) - n
  BY KringAssumption DEF Busy, SLOT_INCREMENT, Slots, ckr_lim

\* SLOT_NEXT is an increment by one.
LEMMA NextIsIncrement ==
  ASSUME NEW i \in Slots
  PROVE  SLOT_NEXT(i) \in Slots /\ SLOT_NEXT(i) = SLOT_INCREMENT(i, 1) /\ 1 \in Slots
  BY KringAssumption DEF SLOT_NEXT, SLOT_INCREMENT, Slots, ckr_lim

\* The next ticket is one step further from b, unless it is b again.
LEMMA BusyNext ==
  ASSUME NEW b \in Slots, NEW t \in Slots
  PROVE  /\ Busy(b, t) < ckr_lim => Busy(b, SLOT_NEXT(t)) = Busy(b, t) + 1
         /\ t # b => Busy(SLOT_NEXT(b), t) = Busy(b, t) - 1
         /\ Busy(SLOT_NEXT(b), b) = ckr_lim
  BY KringAssumption DEF Busy, SLOT_NEXT, Slots, ckr_lim

-----------------------------------------------------------------------------
\* Indices in range, whatever writers do.

\* What is granted is at most what is asked for and what is available, and it is
\* something unless the ring is full.
LEMMA GrantedRange ==
  ASSUME khead \in Slots, klease \in Slots, NEW n \in Requests
  PROVE  /\ Granted(n) \in Slots
         /\ Granted(n) <= ckr_lim - Busy(khead, klease)
         /\ kr_available_slots > 0 => Granted(n) >= 1
<1>1. Busy(khead, klease) \in 0 .. ckr_lim /\ ckr_lim \in Nat
  BY BusyRange, KringAssumption DEF ckr_lim
<1>2. n \in Nat /\ n >= 1
  BY KringAssumption
<1> QED
  BY <1>1, <1>2 DEF Granted, kr_available_slots, Slots

\* Every action keeps the indices in range, ckr_leases well formed, and the lock
\* with the scanning writer: the ASSERTs of kr_reserve_slots_locked and
\* kr_publish_slots never fire, also when writers are lapped or reserve on a full
\* ring.
THEOREM TypeCorrect == Spec => []TypeOK
<1>1. Init => TypeOK
  BY KringAssumption DEF Init, TypeOK, Slots, ckr_lim, CKR_NOSLOT
<1>2. TypeOK /\ [Next]_vars => TypeOK'
  <2> SUFFICES ASSUME TypeOK, [Next]_vars PROVE TypeOK'
    OBVIOUS
  <2> USE DEF TypeOK
  <2>z. 0 \in Slots
    BY KringAssumption DEF Slots, ckr_lim
  <2>1. ASSUME NEW w \in Writers, NEW n \in Requests, Reserve(w, n)
        PROVE  TypeOK'
    <3>1. Granted(n) \in Slots
      BY GrantedRange
    <3>2. SLOT_INCREMENT(klease, Granted(n)) \in Slots /\ SLOT_NEXT(lease_idx) \in Slots
      BY <3>1, IncrementInRing, NextIsIncrement
    <3>3. slot' \in [Slots -> {"free", "leased", "filled"}]
      BY <2>1 DEF Reserve, kr_reserve_slots_locked
    <3> QED
      BY <2>1, <3>2, <3>3, KringAssumption DEF Reserve, kr_reserve_slots_locked
  <2>2. ASSUME NEW w \in Writers, Fill(w) PROVE TypeOK'
    BY <2>2 DEF Fill, ring, locals
  <2>3. ASSUME NEW w \in Writers, PublishStore(w) PROVE TypeOK'
    BY <2>3 DEF PublishStore, locals
  <2>4. ASSUME NEW w \in Writers, PublishNotYet(w) PROVE TypeOK'
    BY <2>4, <2>z, KringAssumption DEF PublishNotYet, ForgetLocals, ring
  <2>5. ASSUME NEW w \in Writers, PublishLock(w) PROVE TypeOK'
    BY <2>5, KringAssumption DEF PublishLock, ring, locals
  <2>6. ASSUME NEW w \in Writers, PublishScan(w) PROVE TypeOK'
    BY <2>6, NextIsIncrement DEF PublishScan, ScanGoesOn
  <2>7. ASSUME NEW w \in Writers, PublishTail(w) PROVE TypeOK'
    BY <2>7, <2>z, KringAssumption DEF PublishTail, ForgetLocals
  <2>8. ASSUME NEW w \in Writers, Notify(w) PROVE TypeOK'
    BY <2>8 DEF Notify, ring, locals
  <2>9. ASSUME NEW n \in Slots, Rxsync(n) PROVE TypeOK'
    BY <2>9, IncrementInRing DEF Rxsync, locals
  <2>10. CASE Sleep \/ Poll \/ UNCHANGED vars
    BY <2>10 DEF Sleep, Poll, vars, ring, locals
  <2> QED
    BY <2>1, <2>2, <2>3, <2>4, <2>5, <2>6, <2>7, <2>8, <2>9, <2>10
    DEF Next, Write, Receive
<1> QED
  BY <1>1, <1>2, PTL DEF Spec

-----------------------------------------------------------------------------
\* The chain of blocks.

\* A block seen from a slot i before it: the slots between its two ends.
LEMMA BlockSeenFrom ==
  ASSUME NEW i \in Slots, NEW j \in Slots, NEW k \in Slots, Busy(i, j) <= Busy(i, k),
         NEW s \in Slots
  PROVE  s \in Block(j, k) <=> Busy(i, j) <= Busy(i, s) /\ Busy(i, s) < Busy(i, k)
<1>1. /\ Busy(j, k) = Busy(i, k) - Busy(i, j)
      /\ Busy(i, j) <= Busy(i, s) => Busy(j, s) = Busy(i, s) - Busy(i, j)
      /\ ~(Busy(i, j) <= Busy(i, s)) => Busy(j, s) = Busy(i, s) - Busy(i, j) + NumSlots
  BY BusyBetween
<1>2. /\ Busy(i, j) \in 0 .. ckr_lim /\ Busy(i, k) \in 0 .. ckr_lim
      /\ Busy(i, s) \in 0 .. ckr_lim /\ ckr_lim = NumSlots - 1 /\ NumSlots \in Nat
  BY BusyRange, KringAssumption DEF ckr_lim
<1> QED
  BY <1>1, <1>2 DEF Block

\* The ends of the blocks of the chain are slots.
LEMMA ChainTypes ==
  ASSUME TypeOK, NEW g \in [Slots -> Slots], NEW t \in Slots
  PROVE  LeaseStart(g, t) \in Slots /\ LeaseEnd(g, t) \in Slots /\ Reach(g, t) \in Slots
  BY NextIsIncrement DEF LeaseStart, LeaseEnd, Reach, TypeOK

\* The chain is empty at first.
LEMMA ChainInit == Init => KringChain
<1> SUFFICES ASSUME Init PROVE KringChain
  OBVIOUS
<1> DEFINE g == [t \in Slots |-> 0]
<1>1. 0 \in Slots /\ g \in [Slots -> Slots]
  BY KringAssumption DEF Slots, ckr_lim
<1>2. Busy(0, 0) = 0 /\ Reach(g, 0) = 0 /\ \A t \in Slots : ~Outstanding(0, t)
  BY <1>1, BusyZero, BusyRange, KringAssumption
  DEF Init, Reach, LeaseStart, Outstanding, ckr_lim
<1>3. ChainOrder(g, 0)
  BY <1>1, <1>2 DEF ChainOrder, Init, Pos
<1>4. ChainFilled(g, 0)
  BY <1>1, <1>2, BusyRange, KringAssumption DEF ChainFilled, Init, Pos, ckr_lim
<1>5. \A w \in Writers : WriterInv(g, 0, w)
  BY DEF WriterInv, Init
<1>8. ChainOwned(g, 0)
  BY <1>2 DEF ChainOwned, Init
<1>6. ChainInv(g, 0)
  BY <1>2, <1>3, <1>4, <1>5, <1>8 DEF ChainInv, Init
<1>7. OneWriterPerTicket
  BY DEF OneWriterPerTicket, Init
<1> HIDE DEF g
<1> QED
  BY <1>1, <1>6, <1>7 DEF KringChain

\* Filling a block leaves the chain as it is.
LEMMA ChainFill ==
  ASSUME TypeOK, TypeOK', NEW g \in [Slots -> Slots], NEW b \in Slots, ChainInv(g, b),
         OneWriterPerTicket, NEW w \in Writers, Fill(w)
  PROVE  ChainInv(g, b)' /\ OneWriterPerTicket'
<1>1. UNCHANGED <<khead, ktail, klease, lease_idx, leases, qlock, start, end, ticket>>
  BY DEF Fill, ring, locals
<1>2. Reach(g, b)' = Reach(g, b) /\ \A t \in Slots : LeaseEnd(g, t)' = LeaseEnd(g, t)
  BY <1>1 DEF Reach, LeaseEnd, LeaseStart
<1>3. \A s \in Slots : Pos(s)' = Pos(s)
  BY <1>1 DEF Pos
<1>4. \A t \in Slots : Outstanding(b, t)' = Outstanding(b, t)
  BY <1>1 DEF Outstanding
<1>5. ChainOrder(g, b)'
  BY <1>1 DEF ChainInv, ChainOrder, Reach, LeaseEnd, LeaseStart, Outstanding, Pos
<1>6. \A s \in Slots : slot[s] = "filled" => slot'[s] = "filled"
  BY DEF Fill, TypeOK
<1>7. ChainFilled(g, b)'
  BY <1>1, <1>2, <1>3, <1>4, <1>6, ChainTypes DEF ChainInv, ChainFilled
<1>8. ASSUME NEW v \in Writers PROVE WriterInv(g, b, v)'
  <2>1. WriterInv(g, b, v)
    BY DEF ChainInv
  <2>2. /\ InChain(g, b, v)' = InChain(g, b, v)
        /\ Taken(g, b, v)' = Taken(g, b, v)
    BY <1>1 DEF InChain, Taken, Reach, LeaseEnd, LeaseStart, Outstanding
  <2>3. CASE v # w
    <3>1. pc'[v] = pc[v]
      BY <2>3 DEF Fill, TypeOK
    <3> QED
      BY <1>1, <1>2, <1>3, <1>6, <2>1, <2>2, <3>1 DEF WriterInv, TypeOK
  <2>4. CASE v = w
    <3>1. pc[v] = "filling" /\ pc'[v] = "filled"
      BY <2>4 DEF Fill, TypeOK
    <3>2. InChain(g, b, v) /\ leases[ticket[v]] = CKR_NOSLOT
      BY <2>1, <3>1 DEF WriterInv
    <3>3. start[v] \in Slots /\ end[v] \in Slots /\ khead \in Slots /\ ticket[v] \in Slots
      BY DEF TypeOK
    <3>4. Pos(start[v]) <= Pos(end[v])
      BY <3>2, <3>3, BusyRange DEF InChain, ChainInv, ChainOrder, Pos
    <3>5. ASSUME NEW s \in Slots, Pos(start[v]) <= Pos(s), Pos(s) < Pos(end[v])
          PROVE  slot'[s] = "filled"
      <4>1. s \in Block(start[v], end[v])
        BY <3>3, <3>4, <3>5, BlockSeenFrom DEF Pos
      <4> QED
        BY <4>1, <2>4 DEF Fill
    <3> QED
      BY <1>1, <1>3, <2>2, <3>1, <3>2, <3>3, <3>5 DEF WriterInv
  <2> QED
    BY <2>3, <2>4
<1>9. OneWriterPerTicket'
  BY <1>1 DEF OneWriterPerTicket, Fill, TypeOK
<1>10. ChainOwned(g, b)'
  <2>1. \A v \in Writers : InChain(g, b, v)' = InChain(g, b, v)
    BY <1>1 DEF InChain, LeaseEnd, LeaseStart, Outstanding
  <2>2. \A v \in Writers : /\ pc[v] \in {"filling", "filled"} => pc'[v] \in {"filling", "filled"}
                           /\ pc[v] \in {"stored", "scan"} => pc'[v] = pc[v]
    BY DEF Fill, TypeOK
  <2> QED
    BY <1>1, <1>4, <2>1, <2>2 DEF ChainInv, ChainOwned
<1> QED
  BY <1>1, <1>2, <1>5, <1>7, <1>8, <1>9, <1>10 DEF ChainInv

\* Reporting a block in ckr_leases, before taking the lock.
LEMMA ChainStore ==
  ASSUME TypeOK, TypeOK', NEW g \in [Slots -> Slots], NEW b \in Slots, ChainInv(g, b),
         OneWriterPerTicket, NEW w \in Writers, PublishStore(w)
  PROVE  ChainInv(g, b)' /\ OneWriterPerTicket'
<1>1. UNCHANGED <<khead, ktail, klease, lease_idx, qlock, start, end, ticket, slot>>
  BY DEF PublishStore, locals
<1>2. Reach(g, b)' = Reach(g, b) /\ \A t \in Slots : LeaseEnd(g, t)' = LeaseEnd(g, t)
  BY <1>1 DEF Reach, LeaseEnd, LeaseStart
<1>3. \A s \in Slots : Pos(s)' = Pos(s)
  BY <1>1 DEF Pos
<1>4. \A t \in Slots : Outstanding(b, t)' = Outstanding(b, t)
  BY <1>1 DEF Outstanding
<1>5. \A v \in Writers : InChain(g, b, v)' = InChain(g, b, v) /\ Taken(g, b, v)' = Taken(g, b, v)
  BY <1>1 DEF InChain, Taken, Reach, LeaseEnd, LeaseStart, Outstanding
<1>6. /\ pc[w] = "filled" /\ pc'[w] = "stored" /\ WriterInv(g, b, w)
      /\ \A v \in Writers : v # w => pc'[v] = pc[v]
  BY DEF PublishStore, TypeOK, ChainInv
<1>7. /\ InChain(g, b, w) /\ leases[ticket[w]] = CKR_NOSLOT
      /\ ticket[w] \in Slots /\ end[w] \in Slots /\ end[w] # CKR_NOSLOT
  BY <1>6, KringAssumption DEF WriterInv, TypeOK, Slots, ckr_lim, CKR_NOSLOT
<1>8. leases'[ticket[w]] = end[w] /\ \A t \in Slots : t # ticket[w] => leases'[t] = leases[t]
  BY DEF PublishStore, TypeOK
<1>9. ChainOrder(g, b)'
  BY <1>1 DEF ChainInv, ChainOrder, Reach, LeaseEnd, LeaseStart, Outstanding, Pos
<1>10. ChainFilled(g, b)'
  <2>1. ASSUME NEW t \in Slots, Outstanding(b, t), leases'[t] # CKR_NOSLOT
        PROVE  /\ leases'[t] = LeaseEnd(g, t)
               /\ \A s \in Slots : Pos(g[t]) <= Pos(s) /\ Pos(s) < Pos(LeaseEnd(g, t))
                                   => slot[s] = "filled"
    <3>1. CASE t = ticket[w]
      BY <3>1, <1>6, <1>7, <1>8 DEF WriterInv, InChain
    <3>2. CASE t # ticket[w]
      BY <3>2, <2>1, <1>8 DEF ChainInv, ChainFilled
    <3> QED
      BY <3>1, <3>2
  <2>2. \A s \in Slots : Pos(s) < Pos(Reach(g, b)) => slot[s] = "filled"
    BY DEF ChainInv, ChainFilled
  <2> QED
    BY <2>1, <2>2, <1>1, <1>2, <1>3, <1>4, ChainTypes DEF ChainFilled
<1>11. ASSUME NEW v \in Writers PROVE WriterInv(g, b, v)'
  <2>1. WriterInv(g, b, v) /\ ticket[v] \in Slots /\ start[v] \in Slots /\ end[v] \in Slots
    BY DEF ChainInv, TypeOK
  <2>2. CASE v = w
    BY <2>2, <1>1, <1>5, <1>6, <1>7, <1>8 DEF WriterInv
  <2>3. CASE v # w
    <3>1. pc'[v] = pc[v]
      BY <2>3, <1>6
    <3>2. CASE pc[v] \in {"filling", "filled"}
      <4>1. ticket[v] # ticket[w]
        BY <3>2, <2>3, <1>6 DEF OneWriterPerTicket
      <4> QED
        BY <4>1, <2>1, <3>1, <3>2, <1>1, <1>3, <1>5, <1>8, ZenonT(40) DEF WriterInv
    <3>3. CASE pc[v] = "stored"
      <4>1. InChain(g, b, v) /\ leases[ticket[v]] = end[v] => leases'[ticket[v]] = end[v]
        BY <1>7, <1>8, <2>1 DEF InChain
      <4> QED
        BY <4>1, <2>1, <3>1, <3>3, <1>1, <1>5 DEF WriterInv
    <3>4. CASE pc[v] = "scan"
      <4>1. InChain(g, b, v) /\ leases[b] = end[v] /\ ticket[v] = b => leases'[b] = end[v]
        BY <1>7, <1>8, <2>1 DEF InChain
      <4> QED
        BY <4>1, <2>1, <3>1, <3>4, <1>1, <1>2, <1>5 DEF WriterInv
    <3> QED
      BY <3>1, <3>2, <3>3, <3>4 DEF WriterInv
  <2> QED
    BY <2>2, <2>3
<1>12. OneWriterPerTicket'
  BY <1>1, <1>6 DEF OneWriterPerTicket
<1>13. ChainOwned(g, b)'
  <2>1. ASSUME NEW t \in Slots, Outstanding(b, t), leases'[t] = CKR_NOSLOT
        PROVE  \E v \in Writers : pc'[v] \in {"filling", "filled"} /\ ticket[v] = t
    <3>1. t # ticket[w] /\ leases[t] = CKR_NOSLOT
      BY <2>1, <1>7, <1>8
    <3>2. PICK v \in Writers : pc[v] \in {"filling", "filled"} /\ ticket[v] = t
      BY <2>1, <3>1 DEF ChainInv, ChainOwned
    <3> QED
      BY <3>1, <3>2, <1>6
  <2>2. ASSUME b # lease_idx, leases'[b] # CKR_NOSLOT
        PROVE  \E v \in Writers : \/ pc'[v] = "stored" /\ ticket[v] = b /\ InChain(g, b, v)
                                  \/ pc'[v] = "scan"
    <3>1. CASE b = ticket[w]
      BY <3>1, <1>6, <1>7
    <3>2. CASE b # ticket[w]
      <4>1. leases[b] # CKR_NOSLOT
        BY <3>2, <2>2, <1>8
      <4>2. PICK v \in Writers : \/ pc[v] = "stored" /\ ticket[v] = b /\ InChain(g, b, v)
                                 \/ pc[v] = "scan"
        BY <2>2, <4>1 DEF ChainInv, ChainOwned
      <4> QED
        BY <4>2, <1>6
    <3> QED
      BY <3>1, <3>2
  <2> QED
    BY <2>1, <2>2, <1>1, <1>4, <1>5 DEF ChainOwned
<1> QED
  BY <1>1, <1>2, <1>9, <1>10, <1>11, <1>12, <1>13 DEF ChainInv

\* The shape of the chain hangs on ckr_khead, ckr_klease and ckr_lease_idx only.
LEMMA ChainFrame ==
  ASSUME NEW g \in [Slots -> Slots], NEW b \in Slots,
         UNCHANGED <<khead, klease, lease_idx>>
  PROVE  /\ Reach(g, b)' = Reach(g, b)
         /\ \A t \in Slots : /\ LeaseEnd(g, t)' = LeaseEnd(g, t)
                             /\ Outstanding(b, t)' = Outstanding(b, t)
         /\ \A s \in Slots : Pos(s)' = Pos(s)
  BY DEF Reach, LeaseEnd, LeaseStart, Outstanding, Pos

\* A writer whose locals and whose chain stay the same keeps its place in it.
LEMMA WriterFrame ==
  ASSUME NEW g \in [Slots -> Slots], NEW b \in Slots, NEW v \in Writers,
         UNCHANGED <<khead, klease, lease_idx>>,
         start'[v] = start[v], end'[v] = end[v], ticket'[v] = ticket[v]
  PROVE  InChain(g, b, v)' = InChain(g, b, v) /\ Taken(g, b, v)' = Taken(g, b, v)
  BY DEF InChain, Taken, Reach, LeaseEnd, LeaseStart, Outstanding

\* Tickets stay with one writer as long as nobody takes one.
LEMMA TicketsFrame ==
  ASSUME OneWriterPerTicket,
         \A v \in Writers : pc'[v] \in {"filling", "filled"} =>
                              pc[v] \in {"filling", "filled"} /\ ticket'[v] = ticket[v]
  PROVE  OneWriterPerTicket'
BY Zenon DEF OneWriterPerTicket

\* Nobody leaves a block: every writer that sees to one still does.
LEMMA OwnedFrame ==
  ASSUME NEW g \in [Slots -> Slots], NEW b \in Slots, ChainOwned(g, b),
         UNCHANGED <<khead, klease, lease_idx, leases>>,
         \A v \in Writers : pc[v] \in {"filling", "filled"} =>
                             pc'[v] = pc[v] /\ ticket'[v] = ticket[v],
         b # lease_idx /\ leases[b] # CKR_NOSLOT =>
           \A v \in Writers :
             /\ pc[v] = "stored" /\ ticket[v] = b /\ InChain(g, b, v)
                => pc'[v] = "stored" /\ ticket'[v] = b /\ InChain(g, b, v)'
             /\ pc[v] = "scan" => pc'[v] = "scan"
  PROVE  ChainOwned(g, b)'
<1>1. ASSUME NEW t \in Slots, Outstanding(b, t)', leases'[t] = CKR_NOSLOT
      PROVE  \E v \in Writers : pc'[v] \in {"filling", "filled"} /\ ticket'[v] = t
  <2>1. Outstanding(b, t) /\ leases[t] = CKR_NOSLOT
    BY <1>1, ChainFrame
  <2>2. PICK v \in Writers : pc[v] \in {"filling", "filled"} /\ ticket[v] = t
    BY <2>1, ZenonT(30) DEF ChainOwned
  <2>3. pc'[v] \in {"filling", "filled"} /\ ticket'[v] = t
    BY <2>2
  <2> QED
    BY <2>3
<1>2. ASSUME b # lease_idx', leases'[b] # CKR_NOSLOT
      PROVE  \E v \in Writers : \/ pc'[v] = "stored" /\ ticket'[v] = b /\ InChain(g, b, v)'
                                \/ pc'[v] = "scan"
  <2>1. b # lease_idx /\ leases[b] # CKR_NOSLOT
    BY <1>2
  <2>2. PICK v \in Writers : \/ pc[v] = "stored" /\ ticket[v] = b /\ InChain(g, b, v)
                             \/ pc[v] = "scan"
    BY <2>1, ZenonT(30) DEF ChainOwned
  <2>3. \/ pc'[v] = "stored" /\ ticket'[v] = b /\ InChain(g, b, v)'
        \/ pc'[v] = "scan"
    BY <2>1, <2>2, ZenonT(30)
  <2> QED
    BY <2>3, ZenonT(30)
<1> QED
  BY <1>1, <1>2, ZenonT(30) DEF ChainOwned

\* A writer that finds the lock free and an earlier block missing leaves: its
\* block is not the first of the chain.
LEMMA ChainNotYet ==
  ASSUME TypeOK, TypeOK', NEW g \in [Slots -> Slots], NEW b \in Slots, ChainInv(g, b),
         OneWriterPerTicket, NEW w \in Writers, PublishNotYet(w)
  PROVE  ChainInv(g, b)' /\ OneWriterPerTicket'
<1>1. UNCHANGED <<khead, ktail, klease, lease_idx, leases, qlock, slot>>
  BY DEF PublishNotYet, ring
<1>2. /\ pc[w] = "stored" /\ pc'[w] = "idle" /\ start[w] # ktail /\ qlock = NoWriter
      /\ \A v \in Writers : v # w => /\ pc'[v] = pc[v] /\ start'[v] = start[v]
                                     /\ end'[v] = end[v] /\ ticket'[v] = ticket[v]
  BY DEF PublishNotYet, ForgetLocals, TypeOK
<1>3. \A v \in Writers : v # w => InChain(g, b, v)' = InChain(g, b, v) /\ Taken(g, b, v)' = Taken(g, b, v)
  BY <1>1, <1>2, WriterFrame
<1>4. ChainOrder(g, b)' /\ ChainFilled(g, b)'
  BY <1>1 DEF ChainInv, ChainOrder, ChainFilled, Reach, LeaseEnd, LeaseStart, Outstanding, Pos
<1>5. ASSUME NEW v \in Writers PROVE WriterInv(g, b, v)'
  <2>1. WriterInv(g, b, v) /\ start[v] \in Slots /\ end[v] \in Slots
    BY DEF ChainInv, TypeOK
  <2>2. CASE v = w
    BY <2>2, <1>2 DEF WriterInv
  <2>3. CASE v # w
    BY <2>1, <2>3, <1>1, <1>2, <1>3, ChainFrame DEF WriterInv
  <2> QED
    BY <2>2, <2>3
<1>6. OneWriterPerTicket'
  <2>1. \A v \in Writers : pc'[v] \in {"filling", "filled"} =>
                             pc[v] \in {"filling", "filled"} /\ ticket'[v] = ticket[v]
    BY <1>2
  <2> QED
    BY <2>1, TicketsFrame
<1>7. ~(ticket[w] = b /\ InChain(g, b, w))
  <2> SUFFICES ASSUME ticket[w] = b, InChain(g, b, w) PROVE FALSE
    OBVIOUS
  <2>1. b # lease_idx
    BY BusyRange DEF InChain, Outstanding, TypeOK
  <2> QED
    BY <2>1, <1>2 DEF InChain, ChainInv, Reach, LeaseStart
<1>8. ChainOwned(g, b)'
  <2>1. ChainOwned(g, b)
    BY DEF ChainInv
  <2>2. \A v \in Writers : pc[v] \in {"filling", "filled"} => pc'[v] = pc[v] /\ ticket'[v] = ticket[v]
    BY <1>2
  <2>3. \A v \in Writers :
          /\ pc[v] = "stored" /\ ticket[v] = b /\ InChain(g, b, v)
             => pc'[v] = "stored" /\ ticket'[v] = b /\ InChain(g, b, v)'
          /\ pc[v] = "scan" => pc'[v] = "scan"
    BY <1>2, <1>3, <1>7
  <2> QED
    BY <1>1, <2>1, <2>2, <2>3, OwnedFrame
<1> QED
  BY <1>1, <1>4, <1>5, <1>6, <1>8, ChainFrame DEF ChainInv

\* A block of the chain that begins at the reach is the first one.
LEMMA FirstOfChain ==
  ASSUME TypeOK, NEW g \in [Slots -> Slots], NEW b \in Slots, ChainInv(g, b),
         NEW t \in Slots, Outstanding(b, t), g[t] = Reach(g, b)
  PROVE  t = b
<1> SUFFICES ASSUME t # b PROVE FALSE
  OBVIOUS
<1>1. Busy(b, b) = 0 /\ Busy(b, t) \in Nat /\ Busy(b, t) # 0 /\ Busy(b, lease_idx) \in Nat
  BY BusyRange, BusyZero DEF TypeOK
<1>2. Busy(b, b) < Busy(b, t) /\ Outstanding(b, b) /\ b # lease_idx
  BY <1>1 DEF Outstanding
<1>3. Pos(g[b]) < Pos(LeaseEnd(g, b)) /\ Pos(LeaseEnd(g, b)) <= Pos(g[t])
  BY <1>2 DEF ChainInv, ChainOrder
<1>4. g[b] = g[t]
  BY <1>2 DEF Reach, LeaseStart
<1>5. Pos(g[b]) \in Int /\ Pos(LeaseEnd(g, b)) \in Int
  BY BusyRange, ChainTypes DEF Pos, TypeOK
<1> QED
  BY <1>3, <1>4, <1>5

\* A writer that takes the lock and finds start == ckr_ktail has the first block
\* of the chain: the ring has not come round to a block already taken.
LEMMA ChainLock ==
  ASSUME TypeOK, TypeOK', NEW g \in [Slots -> Slots], NEW b \in Slots, ChainInv(g, b),
         OneWriterPerTicket, NEW w \in Writers, PublishLock(w)
  PROVE  ChainInv(g, b)' /\ OneWriterPerTicket'
<1>1. UNCHANGED <<khead, ktail, klease, lease_idx, leases, start, end, ticket, slot>>
  BY DEF PublishLock, ring, locals
<1>2. /\ pc[w] = "stored" /\ pc'[w] = "scan" /\ start[w] = ktail
      /\ qlock = NoWriter /\ qlock' = w
      /\ \A v \in Writers : v # w => pc'[v] = pc[v]
  BY DEF PublishLock, TypeOK
<1>3. \A v \in Writers : InChain(g, b, v)' = InChain(g, b, v) /\ Taken(g, b, v)' = Taken(g, b, v)
  BY <1>1, WriterFrame
<1>4. ChainOrder(g, b)' /\ ChainFilled(g, b)'
  BY <1>1 DEF ChainInv, ChainOrder, ChainFilled, Reach, LeaseEnd, LeaseStart, Outstanding, Pos
<1>5. Reach(g, b) = ktail
  BY <1>2, ZenonT(40) DEF ChainInv
<1>6. InChain(g, b, w) /\ leases[ticket[w]] = end[w]
  <2>1. ~Taken(g, b, w)
    BY <1>2, <1>5, BusyZero DEF Taken, TypeOK
  <2> QED
    BY <2>1, <1>2, ZenonT(40) DEF ChainInv, WriterInv
<1>7. ticket[w] = b
  BY <1>2, <1>5, <1>6, FirstOfChain DEF InChain, TypeOK
<1>8. ASSUME NEW v \in Writers PROVE WriterInv(g, b, v)'
  <2>1. WriterInv(g, b, v) /\ start[v] \in Slots /\ end[v] \in Slots
    BY DEF ChainInv, TypeOK
  <2>2. CASE v = w
    BY <2>2, <1>1, <1>2, <1>3, <1>5, <1>6, <1>7, ChainFrame, ZenonT(40) DEF WriterInv
  <2>3. CASE v # w
    BY <2>1, <2>3, <1>1, <1>2, <1>3, ChainFrame DEF WriterInv
  <2> QED
    BY <2>2, <2>3
<1>9. OneWriterPerTicket'
  <2>1. \A v \in Writers : pc'[v] \in {"filling", "filled"} =>
                             pc[v] \in {"filling", "filled"} /\ ticket'[v] = ticket[v]
    BY <1>1, <1>2
  <2> QED
    BY <2>1, TicketsFrame
<1>10. ChainOwned(g, b)'
  BY <1>1, <1>2, <1>3, ChainFrame, ZenonT(60) DEF ChainInv, ChainOwned
<1>11. qlock' # NoWriter
  BY <1>2, KringAssumption
<1> QED
  BY <1>4, <1>8, <1>9, <1>10, <1>11 DEF ChainInv

----------------------------------------------------------------------------
\* A turn of the scan takes the first block off the chain.
LEMMA ChainScan ==
  ASSUME TypeOK, TypeOK', NEW g \in [Slots -> Slots], NEW b \in Slots, ChainInv(g, b),
         OneWriterPerTicket, NEW w \in Writers, PublishScan(w)
  PROVE  ChainInv(g, SLOT_NEXT(b))' /\ OneWriterPerTicket'
<1> DEFINE c == SLOT_NEXT(b)
<1>1. UNCHANGED <<khead, ktail, klease, lease_idx, qlock, pc, start, slot>>
  BY DEF PublishScan
<1>2. /\ pc[w] = "scan" /\ WriterInv(g, b, w) /\ ticket[w] = b
      /\ b # lease_idx /\ leases[b] # CKR_NOSLOT /\ qlock = w
  BY DEF PublishScan, ScanGoesOn, ChainInv, WriterInv, TypeOK
<1>3. /\ end'[w] = leases[b] /\ ticket'[w] = c /\ leases'[b] = CKR_NOSLOT
      /\ \A t \in Slots : t # b => leases'[t] = leases[t]
      /\ \A v \in Writers : v # w => end'[v] = end[v] /\ ticket'[v] = ticket[v]
  BY <1>2 DEF PublishScan, TypeOK
<1>4. /\ c \in Slots /\ Reach(g, b) \in Slots /\ Reach(g, c) \in Slots
      /\ khead \in Slots /\ ktail \in Slots /\ klease \in Slots /\ lease_idx \in Slots
      /\ ckr_lim \in Nat /\ NumSlots = ckr_lim + 1
  BY NextIsIncrement, ChainTypes, KringAssumption DEF TypeOK, ckr_lim
<1>5. Outstanding(b, b) /\ Reach(g, b) = g[b] /\ Reach(g, c) = LeaseEnd(g, b)
  BY <1>2, <1>4, BusyZero, BusyRange DEF Outstanding, Reach, LeaseStart, LeaseEnd
<1>6. leases[b] = Reach(g, c)
  BY <1>2, <1>5 DEF ChainInv, ChainFilled
<1> HIDE DEF c
<1>7. \A t \in Slots : Outstanding(c, t) <=> Outstanding(b, t) /\ t # b
  <2> SUFFICES ASSUME NEW t \in Slots PROVE Outstanding(c, t) <=> Outstanding(b, t) /\ t # b
    OBVIOUS
  <2>1. /\ Busy(c, lease_idx) = Busy(b, lease_idx) - 1
        /\ t # b => Busy(c, t) = Busy(b, t) - 1
        /\ t = b => Busy(c, t) = ckr_lim
    BY <1>2, <1>4, BusyNext DEF c
  <2>2. Busy(b, t) \in 0 .. ckr_lim /\ Busy(b, lease_idx) \in 0 .. ckr_lim
    BY <1>4, BusyRange
  <2> QED
    BY <2>1, <2>2, <1>4 DEF Outstanding
<1>8. \A x \in Slots : Pos(x) \in 0 .. ckr_lim
  BY <1>4, BusyRange DEF Pos
<1>9. /\ Pos(ktail) <= Pos(Reach(g, b)) /\ Pos(Reach(g, b)) < Pos(Reach(g, c))
      /\ Pos(Reach(g, c)) <= Pos(klease)
  BY <1>5 DEF ChainInv, ChainOrder
<1>10. ChainOrder(g, c)
  <2>1. Pos(ktail) <= Pos(Reach(g, c))
    BY <1>4, <1>8, <1>9
  <2>2. ASSUME NEW t \in Slots, Outstanding(c, t)
        PROVE  /\ Pos(Reach(g, c)) <= Pos(g[t])
               /\ Pos(g[t]) < Pos(LeaseEnd(g, t))
               /\ Pos(LeaseEnd(g, t)) <= Pos(klease)
               /\ Busy(t, lease_idx) <= Pos(klease) - Pos(g[t])
    <3>1. Outstanding(b, t) /\ t # b
      BY <2>2, <1>7
    <3>2. Busy(b, b) < Busy(b, t)
      BY <3>1, BusyZero, BusyRange
    <3> QED
      BY <3>1, <3>2, <1>5 DEF ChainInv, ChainOrder
  <2>3. ASSUME NEW t \in Slots, NEW u \in Slots, Outstanding(c, u), Busy(c, t) < Busy(c, u)
        PROVE  Pos(LeaseEnd(g, t)) <= Pos(g[u])
    <3>1. Outstanding(b, u) /\ u # b
      BY <2>3, <1>7
    <3>2. Outstanding(c, t)
      BY <2>3, <1>4, BusyRange DEF Outstanding
    <3>3. t # b
      BY <3>2, <1>7
    <3>4. Busy(b, t) < Busy(b, u)
      BY <2>3, <3>1, <3>3, BusyNext, BusyRange DEF c
    <3> QED
      BY <3>1, <3>4 DEF ChainInv, ChainOrder
  <2> QED
    BY <2>1, <2>2, <2>3, <1>9 DEF ChainOrder
<1>11. ChainOrder(g, c)'
  BY <1>10, <1>1 DEF ChainOrder, Reach, LeaseEnd, LeaseStart, Outstanding, Pos
<1>12. ChainFilled(g, c)'
  <2>1. ASSUME NEW t \in Slots, Outstanding(c, t), leases'[t] # CKR_NOSLOT
        PROVE  /\ leases'[t] = LeaseEnd(g, t)
               /\ \A s \in Slots : Pos(g[t]) <= Pos(s) /\ Pos(s) < Pos(LeaseEnd(g, t))
                                   => slot[s] = "filled"
    BY <2>1, <1>3, <1>7 DEF ChainInv, ChainFilled
  <2>2. ASSUME NEW s \in Slots, Pos(s) < Pos(Reach(g, c)) PROVE slot[s] = "filled"
    <3>1. CASE Pos(s) < Pos(Reach(g, b))
      BY <3>1 DEF ChainInv, ChainFilled
    <3>2. CASE ~(Pos(s) < Pos(Reach(g, b)))
      <4>1. Pos(g[b]) <= Pos(s) /\ Pos(s) < Pos(LeaseEnd(g, b))
        BY <3>2, <2>2, <1>4, <1>5, <1>8
      <4> QED
        BY <4>1, <1>2, <1>5 DEF ChainInv, ChainFilled
    <3> QED
      BY <3>1, <3>2
  <2>3. \A t \in Slots : /\ Outstanding(c, t)' = Outstanding(c, t)
                          /\ LeaseEnd(g, t)' = LeaseEnd(g, t) /\ LeaseEnd(g, t) \in Slots
    BY <1>1, <1>4, ChainFrame, ChainTypes
  <2>4. Reach(g, c)' = Reach(g, c) /\ \A s \in Slots : Pos(s)' = Pos(s) /\ slot'[s] = slot[s]
    BY <1>1, <1>4, ChainFrame
  <2>5. ASSUME NEW t \in Slots, Outstanding(c, t)', leases'[t] # CKR_NOSLOT
        PROVE  /\ leases'[t] = LeaseEnd(g, t)'
               /\ \A s \in Slots : Pos(g[t])' <= Pos(s)' /\ Pos(s)' < Pos(LeaseEnd(g, t))'
                                   => slot'[s] = "filled"
    BY <2>1, <2>3, <2>4, <2>5
  <2>6. \A s \in Slots : Pos(s)' < Pos(Reach(g, c))' => slot'[s] = "filled"
    BY <2>2, <2>4, <1>4
  <2> QED
    BY <2>5, <2>6 DEF ChainFilled
<1>13. ASSUME NEW v \in Writers PROVE WriterInv(g, c, v)'
  <2>1. CASE v = w
    <3>1. Reach(g, c) # ktail
      BY <1>4, <1>8, <1>9
    <3> QED
      BY <2>1, <3>1, <1>1, <1>2, <1>3, <1>4, <1>6, ChainFrame DEF WriterInv
  <2>2. CASE v # w
    <3>1. /\ WriterInv(g, b, v) /\ start[v] \in Slots /\ end[v] \in Slots /\ ticket[v] \in Slots
          /\ start'[v] = start[v] /\ end'[v] = end[v] /\ ticket'[v] = ticket[v] /\ pc'[v] = pc[v]
      BY <2>2, <1>1, <1>3 DEF ChainInv, TypeOK
    <3>2. pc[v] # "scan"
      BY <2>2, <1>2 DEF TypeOK
    <3>3. InChain(g, c, v)' = InChain(g, c, v) /\ Taken(g, c, v)' = Taken(g, c, v)
      BY <3>1, <1>1, <1>4, WriterFrame
    <3>4. InChain(g, b, v) /\ ticket[v] # b => InChain(g, c, v) /\ leases'[ticket[v]] = leases[ticket[v]]
      BY <3>1, <1>3, <1>7 DEF InChain
    <3>5. ASSUME InChain(g, b, v), ticket[v] = b PROVE Taken(g, c, v)
      <4>1. start[v] = Reach(g, b)
        BY <3>5, <1>5 DEF InChain
      <4>2. /\ Busy(start[v], Reach(g, c)) = Pos(Reach(g, c)) - Pos(Reach(g, b))
            /\ Busy(start[v], klease) = Pos(klease) - Pos(Reach(g, b))
        <5>1. Pos(Reach(g, b)) <= Pos(Reach(g, c)) /\ Pos(Reach(g, b)) <= Pos(klease)
          BY <1>4, <1>8, <1>9
        <5> QED
          BY <4>1, <5>1, <1>4, BusyBetween DEF Pos
      <4> QED
        BY <4>2, <1>4, <1>8, <1>9 DEF Taken
    <3>6. ASSUME Taken(g, b, v) PROVE Taken(g, c, v)
      <4>1. /\ Busy(Reach(g, b), Reach(g, c)) = Pos(Reach(g, c)) - Pos(Reach(g, b))
            /\ Busy(Reach(g, b), klease) = Pos(klease) - Pos(Reach(g, b))
        <5>1. Pos(Reach(g, b)) <= Pos(Reach(g, c)) /\ Pos(Reach(g, b)) <= Pos(klease)
          BY <1>4, <1>8, <1>9
        <5> QED
          BY <5>1, <1>4, BusyBetween DEF Pos
      <4>2. /\ Busy(start[v], Reach(g, b)) \in 0 .. ckr_lim
            /\ Busy(start[v], Reach(g, c)) \in 0 .. ckr_lim
            /\ Busy(start[v], klease) \in 0 .. ckr_lim
        BY <3>1, <1>4, BusyRange
      <4>3. /\ Busy(Reach(g, b), Reach(g, c)) =
                 IF Busy(start[v], Reach(g, b)) <= Busy(start[v], Reach(g, c))
                   THEN Busy(start[v], Reach(g, c)) - Busy(start[v], Reach(g, b))
                   ELSE Busy(start[v], Reach(g, c)) - Busy(start[v], Reach(g, b)) + NumSlots
            /\ Busy(Reach(g, b), klease) = Busy(start[v], klease) - Busy(start[v], Reach(g, b))
        BY <3>1, <3>6, <1>4, BusyBetween DEF Taken
      <4> QED
        BY <3>6, <4>1, <4>2, <4>3, <1>4, <1>8, <1>9 DEF Taken
    <3>7. CASE pc[v] \in {"filling", "filled"}
      <4>1. InChain(g, b, v) /\ leases[ticket[v]] = CKR_NOSLOT
        BY <3>1, <3>7 DEF WriterInv
      <4>2. ticket[v] # b
        BY <4>1, <1>2
      <4> QED
        BY <4>1, <4>2, <3>1, <3>3, <3>4, <3>7, <1>1, ChainFrame DEF WriterInv
    <3>8. CASE pc[v] = "stored"
      BY <3>1, <3>3, <3>4, <3>5, <3>6, <3>8 DEF WriterInv
    <3> QED
      BY <3>1, <3>2, <3>7, <3>8 DEF WriterInv
  <2> QED
    BY <2>1, <2>2
<1>14. OneWriterPerTicket'
  <2>1. \A v \in Writers : pc'[v] \in {"filling", "filled"} =>
                             pc[v] \in {"filling", "filled"} /\ ticket'[v] = ticket[v]
    BY <1>1, <1>2, <1>3
  <2> QED
    BY <2>1, TicketsFrame
<1>15. ChainOwned(g, c)'
  <2>1. ASSUME NEW t \in Slots, Outstanding(c, t), leases'[t] = CKR_NOSLOT
        PROVE  \E v \in Writers : pc'[v] \in {"filling", "filled"} /\ ticket'[v] = t
    <3>1. Outstanding(b, t) /\ leases[t] = CKR_NOSLOT
      BY <2>1, <1>3, <1>7
    <3>2. PICK v \in Writers : pc[v] \in {"filling", "filled"} /\ ticket[v] = t
      BY <3>1 DEF ChainInv, ChainOwned
    <3>3. v # w
      BY <3>2, <1>2
    <3> QED
      BY <3>2, <3>3, <1>1, <1>3
  <2>2. pc'[w] = "scan"
    BY <1>1, <1>2
  <2> QED
    BY <2>1, <2>2, <1>1, <1>4, ChainFrame DEF ChainOwned
<1>16. qlock' # NoWriter
  BY <1>1, <1>2, KringAssumption
<1> QED
  BY <1>11, <1>12, <1>13, <1>14, <1>15, <1>16 DEF ChainInv, c

\* The end of a scan moves ckr_ktail to the beginning of the chain.
LEMMA ChainTail ==
  ASSUME TypeOK, TypeOK', NEW g \in [Slots -> Slots], NEW b \in Slots, ChainInv(g, b),
         OneWriterPerTicket, NEW w \in Writers, PublishTail(w)
  PROVE  ChainInv(g, b)' /\ OneWriterPerTicket' /\ ktail' = Reach(g, b)
<1>1. UNCHANGED <<khead, klease, lease_idx, leases, slot>>
  BY DEF PublishTail
<1>2. /\ pc[w] = "scan" /\ pc'[w] \in {"notify", "idle"} /\ qlock = w /\ qlock' = NoWriter
      /\ ~ScanGoesOn(w) /\ WriterInv(g, b, w)
      /\ \A v \in Writers : v # w => /\ pc'[v] = pc[v] /\ start'[v] = start[v]
                                     /\ end'[v] = end[v] /\ ticket'[v] = ticket[v]
  BY DEF PublishTail, ForgetLocals, TypeOK, ChainInv
<1>3. ticket[w] = b /\ start[w] = ktail
  BY <1>2 DEF WriterInv
<1>4. b = lease_idx \/ leases[b] = CKR_NOSLOT
  BY <1>2, <1>3 DEF ScanGoesOn
<1>5. Reach(g, b) = end[w] /\ end[w] # start[w]
  <2>1. ~(InChain(g, b, w) /\ leases[b] = end[w])
    <3> SUFFICES ASSUME InChain(g, b, w), leases[b] = end[w] PROVE FALSE
      OBVIOUS
    <3>1. b # lease_idx
      BY <1>3, BusyRange DEF InChain, Outstanding, TypeOK
    <3>2. end[w] # CKR_NOSLOT
      BY KringAssumption DEF TypeOK, Slots, ckr_lim, CKR_NOSLOT
    <3> QED
      BY <3>1, <3>2, <1>4
  <2> QED
    BY <2>1, <1>2, <1>3 DEF WriterInv
<1>6. ktail' = Reach(g, b)
  BY <1>5 DEF PublishTail
<1>7. /\ Reach(g, b)' = Reach(g, b) /\ Reach(g, b) \in Slots
      /\ \A s \in Slots : Pos(s)' = Pos(s) /\ Pos(s) \in Nat
  BY <1>1, ChainFrame, ChainTypes, BusyRange DEF Pos, TypeOK
<1>8. ChainOrder(g, b)'
  <2>1. Pos(ktail)' <= Pos(Reach(g, b))'
    BY <1>6, <1>7, <1>1 DEF Pos
  <2> QED
    BY <2>1, <1>1 DEF ChainInv, ChainOrder, Reach, LeaseEnd, LeaseStart, Outstanding, Pos
<1>9. ChainFilled(g, b)'
  BY <1>1 DEF ChainInv, ChainFilled, Reach, LeaseEnd, LeaseStart, Outstanding, Pos
<1>10. \A v \in Writers : v # w => InChain(g, b, v)' = InChain(g, b, v) /\ Taken(g, b, v)' = Taken(g, b, v)
  BY <1>1, <1>2, WriterFrame
<1>11. ASSUME NEW v \in Writers PROVE WriterInv(g, b, v)'
  <2>1. CASE v = w
    BY <2>1, <1>2 DEF WriterInv
  <2>2. CASE v # w
    <3>1. WriterInv(g, b, v) /\ start[v] \in Slots /\ end[v] \in Slots /\ pc[v] # "scan"
      BY <2>2, <1>2 DEF ChainInv, TypeOK
    <3> QED
      BY <3>1, <2>2, <1>1, <1>2, <1>7, <1>10 DEF WriterInv
  <2> QED
    BY <2>1, <2>2
<1>12. OneWriterPerTicket'
  <2>1. \A v \in Writers : pc'[v] \in {"filling", "filled"} =>
                             pc[v] \in {"filling", "filled"} /\ ticket'[v] = ticket[v]
    BY <1>2
  <2> QED
    BY <2>1, TicketsFrame
<1>13. ChainOwned(g, b)'
  BY <1>1, <1>2, <1>4, <1>10, OwnedFrame DEF ChainInv
<1> QED
  BY <1>6, <1>7, <1>8, <1>9, <1>11, <1>12, <1>13 DEF ChainInv

\* The notification and the receiver's sleeping and waking do not touch the ring.
LEMMA ChainIdle ==
  ASSUME TypeOK, TypeOK', NEW g \in [Slots -> Slots], NEW b \in Slots, ChainInv(g, b),
         OneWriterPerTicket,
         (\E w \in Writers : Notify(w)) \/ Sleep \/ Poll \/ UNCHANGED vars
  PROVE  ChainInv(g, b)' /\ OneWriterPerTicket'
<1>1. UNCHANGED <<khead, ktail, klease, lease_idx, leases, qlock, start, end, ticket, slot>>
  BY DEF Notify, Sleep, Poll, vars, ring, locals
<1>2. \A v \in Writers : pc'[v] = pc[v] \/ (pc[v] = "notify" /\ pc'[v] = "idle")
  BY DEF Notify, Sleep, Poll, vars, TypeOK
<1>3. \A v \in Writers : InChain(g, b, v)' = InChain(g, b, v) /\ Taken(g, b, v)' = Taken(g, b, v)
  BY <1>1, WriterFrame
<1>4. ChainOrder(g, b)' /\ ChainFilled(g, b)'
  BY <1>1, ZenonT(40) DEF ChainInv, ChainOrder, ChainFilled, Reach, LeaseEnd, LeaseStart, Outstanding, Pos
<1>5. ASSUME NEW v \in Writers PROVE WriterInv(g, b, v)'
  <2>1. WriterInv(g, b, v) /\ start[v] \in Slots /\ end[v] \in Slots
    BY DEF ChainInv, TypeOK
  <2> QED
    BY <2>1, <1>1, <1>2, <1>3, ChainFrame, ZenonT(40) DEF WriterInv
<1>6. OneWriterPerTicket'
  <2>1. \A v \in Writers : pc'[v] \in {"filling", "filled"} =>
                             pc[v] \in {"filling", "filled"} /\ ticket'[v] = ticket[v]
    BY <1>1, <1>2
  <2> QED
    BY <2>1, TicketsFrame
<1>7. ChainOwned(g, b)'
  <2>1. \A v \in Writers : pc[v] # "notify" => pc'[v] = pc[v]
    BY <1>2
  <2> QED
    BY <2>1, <1>1, <1>3, OwnedFrame DEF ChainInv
<1> QED
  BY <1>1, <1>4, <1>5, <1>6, <1>7, ChainFrame DEF ChainInv

\* The receiver moves ckr_khead within the published slots: every slot of the
\* chain comes that much nearer, and the slots given back lie behind it.
LEMMA ChainRxsync ==
  ASSUME TypeOK, TypeOK', NEW g \in [Slots -> Slots], NEW b \in Slots, ChainInv(g, b),
         OneWriterPerTicket, NEW n \in Slots, Rxsync(n)
  PROVE  ChainInv(g, b)' /\ OneWriterPerTicket'
<1>1. UNCHANGED <<ktail, klease, lease_idx, leases, qlock, pc, start, end, ticket>>
  BY DEF Rxsync, locals
<1>2. /\ qlock = NoWriter /\ n \in 1 .. Pos(ktail) /\ n \in Nat
      /\ \A s \in Slots : slot'[s] = IF Pos(s) < n THEN "free" ELSE slot[s]
  BY KringAssumption DEF Rxsync, Pos, Slots, ckr_lim
<1>3. /\ khead \in Slots /\ klease \in Slots /\ ktail \in Slots /\ Reach(g, b) \in Slots
      /\ ckr_lim \in Nat /\ NumSlots = ckr_lim + 1
      /\ \A t \in Slots : LeaseEnd(g, t) \in Slots
  BY ChainTypes, KringAssumption DEF TypeOK, ckr_lim
<1>4. /\ Reach(g, b)' = Reach(g, b) /\ Reach(g, b) = ktail
      /\ \A t \in Slots : /\ LeaseEnd(g, t)' = LeaseEnd(g, t)
                          /\ Outstanding(b, t)' = Outstanding(b, t)
  BY <1>1, <1>2 DEF Reach, LeaseEnd, LeaseStart, Outstanding, ChainInv
<1>5. \A s \in Slots : Pos(s) \in 0 .. ckr_lim /\ Pos(s) \in Nat
  BY <1>3, BusyRange DEF Pos
<1>6. \A s \in Slots : /\ Pos(s) >= n => Pos(s)' = Pos(s) - n
                       /\ Pos(s) < n => Pos(s)' = Pos(s) - n + NumSlots
  <2> SUFFICES ASSUME NEW s \in Slots
               PROVE  /\ Pos(s) >= n => Pos(s)' = Pos(s) - n
                      /\ Pos(s) < n => Pos(s)' = Pos(s) - n + NumSlots
    OBVIOUS
  <2> DEFINE h == SLOT_INCREMENT(khead, n)
  <2>1. h \in Slots /\ khead' = h
    BY <1>3, IncrementInRing DEF Rxsync
  <2>2. Busy(khead, h) = n
    <3>1. Busy(khead, khead) = 0 /\ Busy(khead, khead) + n <= ckr_lim
      BY <1>2, <1>3, <1>5, BusyZero
    <3> QED
      BY <3>1, <1>2, <1>3, BusyIncrement
  <2> HIDE DEF h
  <2>3. Busy(h, s) = IF n <= Busy(khead, s) THEN Busy(khead, s) - n
                                            ELSE Busy(khead, s) - n + NumSlots
    BY <1>3, <2>1, <2>2, BusyBetween
  <2> QED
    BY <2>1, <2>3, <1>2, <1>3, <1>5 DEF Pos
<1>7. Pos(klease) >= n /\ Pos(ktail) >= n
  BY <1>2, <1>3, <1>4, <1>5 DEF ChainInv, ChainOrder
<1>8. \A t \in Slots : Outstanding(b, t) => Pos(g[t]) >= n /\ Pos(LeaseEnd(g, t)) >= n
  <2> SUFFICES ASSUME NEW t \in Slots, Outstanding(b, t)
               PROVE  Pos(g[t]) >= n /\ Pos(LeaseEnd(g, t)) >= n
    OBVIOUS
  <2>1. Pos(ktail) <= Pos(g[t]) /\ Pos(g[t]) < Pos(LeaseEnd(g, t))
    BY <1>4 DEF ChainInv, ChainOrder
  <2>2. g[t] \in Slots
    OBVIOUS
  <2>3. Pos(ktail) \in Nat /\ Pos(g[t]) \in Nat /\ Pos(LeaseEnd(g, t)) \in Nat
    BY <2>2, <1>3, <1>5
  <2> QED
    BY <2>1, <2>3, <1>2
<1>9. ChainOrder(g, b)'
  <2>1. /\ Pos(ktail)' <= Pos(Reach(g, b))' /\ Pos(Reach(g, b))' <= Pos(klease)'
    <3>1. Pos(ktail)' = Pos(ktail) - n /\ Pos(klease)' = Pos(klease) - n
      BY <1>1, <1>3, <1>6, <1>7 DEF Pos
    <3>2. Pos(Reach(g, b))' = Pos(ktail)'
      BY <1>1, <1>4 DEF Pos
    <3> QED
      BY <3>1, <3>2, <1>2, <1>3, <1>4, <1>5 DEF ChainInv, ChainOrder
  <2>2. Pos(klease)' = Pos(klease) - n /\ Pos(Reach(g, b))' = Pos(Reach(g, b)) - n
    BY <1>1, <1>3, <1>4, <1>6, <1>7 DEF Pos
  <2>3. \A t \in Slots : Outstanding(b, t) =>
          Pos(g[t])' = Pos(g[t]) - n /\ Pos(LeaseEnd(g, t))' = Pos(LeaseEnd(g, t)) - n
    <3> SUFFICES ASSUME NEW t \in Slots, Outstanding(b, t)
                 PROVE  Pos(g[t])' = Pos(g[t]) - n /\ Pos(LeaseEnd(g, t))' = Pos(LeaseEnd(g, t)) - n
      OBVIOUS
    <3>1. LeaseEnd(g, t)' = LeaseEnd(g, t)
      BY <1>4
    <3> QED
      BY <3>1, <1>3, <1>6, <1>8 DEF Pos
  <2>4. ASSUME NEW t \in Slots, Outstanding(b, t)
        PROVE  /\ Pos(Reach(g, b))' <= Pos(g[t])'
               /\ Pos(g[t])' < Pos(LeaseEnd(g, t))'
               /\ Pos(LeaseEnd(g, t))' <= Pos(klease)'
               /\ Busy(t, lease_idx)' <= Pos(klease)' - Pos(g[t])'
    <3>1. /\ Pos(Reach(g, b)) <= Pos(g[t]) /\ Pos(g[t]) < Pos(LeaseEnd(g, t))
          /\ Pos(LeaseEnd(g, t)) <= Pos(klease)
          /\ Busy(t, lease_idx) <= Pos(klease) - Pos(g[t])
      BY <2>4 DEF ChainInv, ChainOrder
    <3>2. Busy(t, lease_idx)' = Busy(t, lease_idx) /\ Busy(t, lease_idx) \in 0 .. ckr_lim
      BY <1>1, BusyRange DEF TypeOK
    <3>3. /\ Pos(Reach(g, b)) \in Nat /\ Pos(g[t]) \in Nat /\ Pos(LeaseEnd(g, t)) \in Nat
          /\ Pos(klease) \in Nat /\ n \in Nat /\ Busy(t, lease_idx) \in Nat
      <4>1. g[t] \in Slots
        OBVIOUS
      <4> QED
        BY <4>1, <1>2, <1>3, <1>5, BusyRange DEF TypeOK
    <3> QED
      BY <2>2, <2>3, <2>4, <3>1, <3>2, <3>3
  <2>5. ASSUME NEW t \in Slots, NEW u \in Slots, Outstanding(b, u), Busy(b, t) < Busy(b, u)
        PROVE  Pos(LeaseEnd(g, t))' <= Pos(g[u])'
    <3>1. Pos(LeaseEnd(g, t)) <= Pos(g[u])
      BY <2>5 DEF ChainInv, ChainOrder
    <3>2. Outstanding(b, t)
      BY <2>5, BusyRange DEF Outstanding, TypeOK
    <3>3. Pos(LeaseEnd(g, t)) \in Nat /\ Pos(g[u]) \in Nat /\ n \in Nat
      <4>1. g[u] \in Slots
        OBVIOUS
      <4> QED
        BY <4>1, <1>2, <1>3, <1>5
    <3> QED
      BY <2>3, <2>5, <3>1, <3>2, <3>3
  <2> QED
    BY <2>1, <2>4, <2>5, <1>1, <1>4 DEF ChainOrder
<1>10. \A s \in Slots : \A x \in Slots :
         Pos(x) >= n /\ Pos(s)' < Pos(x)' => Pos(s) >= n /\ slot'[s] = slot[s] /\ Pos(s) < Pos(x)
  BY <1>2, <1>3, <1>5, <1>6
<1>11. \A s \in Slots : \A x \in Slots : Pos(x) >= n /\ Pos(s) >= n /\ Pos(x)' <= Pos(s)' => Pos(x) <= Pos(s)
  BY <1>2, <1>3, <1>5, <1>6
<1>12. ChainFilled(g, b)'
  <2>1. ASSUME NEW t \in Slots, Outstanding(b, t), leases[t] # CKR_NOSLOT
        PROVE  /\ leases[t] = LeaseEnd(g, t)
               /\ \A s \in Slots : Pos(g[t])' <= Pos(s)' /\ Pos(s)' < Pos(LeaseEnd(g, t))'
                                   => slot'[s] = "filled"
    <3>1. /\ leases[t] = LeaseEnd(g, t)
          /\ \A s \in Slots : Pos(g[t]) <= Pos(s) /\ Pos(s) < Pos(LeaseEnd(g, t)) => slot[s] = "filled"
      BY <2>1 DEF ChainInv, ChainFilled
    <3>2. LeaseEnd(g, t)' = LeaseEnd(g, t) /\ LeaseEnd(g, t) \in Slots /\ g[t] \in Slots
      BY <1>3, <1>4
    <3>3. ASSUME NEW s \in Slots, Pos(g[t])' <= Pos(s)', Pos(s)' < Pos(LeaseEnd(g, t))'
          PROVE  slot'[s] = "filled"
      <4>1. Pos(s) >= n /\ slot'[s] = slot[s] /\ Pos(s) < Pos(LeaseEnd(g, t))
        <5> DEFINE x == LeaseEnd(g, t)
        <5>1. Pos(s)' < Busy(khead', x)
          BY <3>3, <3>2 DEF Pos
        <5>2. x \in Slots /\ Pos(x) >= n
          BY <3>2, <2>1, <1>8
        <5> HIDE DEF x
        <5>3. Pos(s) >= n /\ slot'[s] = slot[s] /\ Pos(s) < Pos(x)
          BY <5>1, <5>2, <1>10 DEF Pos
        <5> QED
          BY <5>3 DEF x
      <4>2. Pos(g[t]) <= Pos(s)
        BY <3>2, <3>3, <4>1, <2>1, <1>8, <1>11
      <4> QED
        BY <3>1, <4>1, <4>2
    <3> QED
      BY <3>1, <3>3
  <2>2. ASSUME NEW s \in Slots, Pos(s)' < Pos(Reach(g, b))' PROVE slot'[s] = "filled"
    <3>1. Pos(s)' < Pos(ktail)'
      BY <2>2, <1>1, <1>4 DEF Pos
    <3>2. Pos(s)' < Busy(khead', ktail)
      BY <3>1, <1>1 DEF Pos
    <3>3. slot'[s] = slot[s] /\ Pos(s) < Pos(ktail)
      BY <3>2, <1>3, <1>7, <1>10 DEF Pos
    <3> QED
      BY <3>3, <1>4 DEF ChainInv, ChainFilled
  <2> QED
    BY <2>1, <2>2, <1>1, <1>4 DEF ChainFilled
<1>13. ASSUME NEW v \in Writers PROVE WriterInv(g, b, v)'
  <2>1. /\ WriterInv(g, b, v) /\ start[v] \in Slots /\ end[v] \in Slots /\ pc[v] # "scan"
        /\ pc'[v] = pc[v] /\ ticket[v] \in Slots
    BY <1>1, <1>2, KringAssumption DEF ChainInv, TypeOK
  <2>2. InChain(g, b, v)' = InChain(g, b, v) /\ Taken(g, b, v)' = Taken(g, b, v)
    BY <1>1, <1>4, <2>1, ZenonT(40) DEF InChain, Taken
  <2>3. ASSUME pc[v] = "filled", NEW s \in Slots, Pos(start[v])' <= Pos(s)', Pos(s)' < Pos(end[v])'
        PROVE  slot'[s] = "filled"
    <3>1. Pos(start[v]) >= n /\ Pos(end[v]) >= n
      BY <2>1, <2>3, <1>8 DEF WriterInv, InChain
    <3>2. Busy(khead', start[v]) <= Pos(s)' /\ Pos(s)' < Busy(khead', end[v])
      BY <2>3, <1>1 DEF Pos
    <3>3. Pos(s) >= n /\ slot'[s] = slot[s] /\ Pos(s) < Pos(end[v])
      BY <3>1, <3>2, <2>1, <1>10 DEF Pos
    <3>4. Pos(start[v]) <= Pos(s)
      BY <3>1, <3>2, <3>3, <2>1, <1>11 DEF Pos
    <3> QED
      BY <3>3, <3>4, <2>1, <2>3, ZenonT(40) DEF WriterInv
  <2> QED
    BY <2>1, <2>2, <2>3, <1>1 DEF WriterInv
<1>14. OneWriterPerTicket'
  BY <1>1 DEF OneWriterPerTicket
<1>15. ChainOwned(g, b)'
  <2>1. \A v \in Writers : InChain(g, b, v)' = InChain(g, b, v)
    BY <1>1, <1>4 DEF InChain, TypeOK
  <2> QED
    BY <2>1, <1>1, <1>4 DEF ChainInv, ChainOwned
<1> QED
  BY <1>1, <1>4, <1>9, <1>12, <1>13, <1>14, <1>15 DEF ChainInv

-----------------------------------------------------------------------------
\* What kr_reserve_slots_locked does with m slots granted.
ReserveEffect(w, m) ==
  /\ UNCHANGED <<khead, ktail, qlock>> /\ qlock = NoWriter
  /\ klease' = SLOT_INCREMENT(klease, m) /\ lease_idx' = SLOT_NEXT(lease_idx)
  /\ leases'[lease_idx] = CKR_NOSLOT
  /\ \A t \in Slots : t # lease_idx => leases'[t] = leases[t]
  /\ pc[w] = "idle" /\ pc'[w] = "filling"
  /\ start'[w] = klease /\ end'[w] = klease' /\ ticket'[w] = lease_idx
  /\ \A v \in Writers : v # w => /\ pc'[v] = pc[v] /\ start'[v] = start[v]
                                 /\ end'[v] = end[v] /\ ticket'[v] = ticket[v]
  /\ \A s \in Slots : slot'[s] = IF Busy(klease, s) < m THEN "leased" ELSE slot[s]
  /\ ShortOfUnfinished(m)

\* There is room for them.
ReserveRoom(m) ==
  /\ khead \in Slots /\ klease \in Slots /\ ktail \in Slots /\ lease_idx \in Slots
  /\ ckr_lim \in Nat /\ NumSlots = ckr_lim + 1
  /\ m \in Slots /\ m >= 1 /\ m <= ckr_lim - Pos(klease) /\ m \in Nat
  /\ \A s \in Slots : Pos(s) \in 0 .. ckr_lim /\ Pos(s) \in Nat

\* The chain before (g) and after (f): one more ticket, whose block begins at the
\* old ckr_klease and ends at the new one; the other blocks stay where they are.
ReserveShape(g, b, f, m) ==
  /\ f[lease_idx] = klease /\ \A t \in Slots : t # lease_idx => f[t] = g[t]
  /\ \A t \in Slots : LeaseEnd(g, t) \in Slots /\ g[t] \in Slots
  /\ Reach(g, b) \in Slots /\ Reach(f, b)' = Reach(g, b)
  /\ \A t \in Slots : Outstanding(b, t)' <=> Outstanding(b, t) \/ t = lease_idx
  /\ \A t \in Slots : Outstanding(b, t) => t # lease_idx /\ LeaseEnd(f, t)' = LeaseEnd(g, t)
  /\ \A t \in Slots : t = lease_idx => LeaseEnd(f, t)' = klease'
  /\ \A s \in Slots : Pos(s)' = Pos(s)
  /\ Pos(klease)' = Pos(klease) + m /\ Pos(ktail)' = Pos(ktail)
  /\ Pos(Reach(f, b))' = Pos(Reach(g, b)) /\ Pos(Reach(g, b)) <= Pos(klease)
  /\ \A t \in Slots : Outstanding(b, t) => Pos(LeaseEnd(f, t))' = Pos(LeaseEnd(g, t))
  /\ \A t \in Slots : t = lease_idx => Pos(LeaseEnd(f, t))' = Pos(klease) + m
  /\ \A s \in Slots : Pos(s) < Pos(klease) => slot'[s] = slot[s]

\* A reservation on a ring with room takes at least one slot and no more than
\* there are.
LEMMA ReserveTakes ==
  ASSUME TypeOK, TypeOK', ~ZeroLease, ~AllowLap, NEW w \in Writers, NEW n \in Requests, Reserve(w, n)
  PROVE  ReserveEffect(w, Granted(n)) /\ ReserveRoom(Granted(n))
<1>1. ReserveEffect(w, Granted(n)) /\ kr_available_slots > 0
  BY DEF Reserve, kr_reserve_slots_locked, ReserveEffect, TypeOK
<1>2. /\ khead \in Slots /\ klease \in Slots /\ ktail \in Slots /\ lease_idx \in Slots
      /\ ckr_lim \in Nat /\ NumSlots = ckr_lim + 1
  BY KringAssumption DEF TypeOK, ckr_lim
<1>3. \A s \in Slots : Pos(s) \in 0 .. ckr_lim /\ Pos(s) \in Nat
  BY <1>2, BusyRange DEF Pos
<1>4. /\ Granted(n) \in Slots /\ Granted(n) >= 1 /\ Granted(n) <= ckr_lim - Pos(klease)
      /\ Granted(n) \in Nat
  BY <1>1, <1>2, GrantedRange DEF Pos, Slots
<1> QED
  BY <1>1, <1>2, <1>3, <1>4 DEF ReserveRoom

\* The chain after a reservation.  There is a free ticket because every ticket in
\* use stands for a slot at least.
LEMMA ReserveExtends ==
  ASSUME TypeOK, TypeOK', NEW g \in [Slots -> Slots], NEW b \in Slots, ChainInv(g, b),
         NEW w \in Writers, NEW m, ReserveEffect(w, m), ReserveRoom(m),
         NEW f \in [Slots -> Slots],
         f[lease_idx] = klease, \A t \in Slots : t # lease_idx => f[t] = g[t]
  PROVE  ReserveShape(g, b, f, m)
<1> DEFINE k == SLOT_INCREMENT(klease, m)
           l == SLOT_NEXT(lease_idx)
<1>1. /\ khead \in Slots /\ klease \in Slots /\ ktail \in Slots /\ lease_idx \in Slots
      /\ ckr_lim \in Nat /\ NumSlots = ckr_lim + 1
      /\ \A t \in Slots : LeaseEnd(g, t) \in Slots /\ g[t] \in Slots
      /\ Reach(g, b) \in Slots
  BY ChainTypes DEF ReserveRoom
<1>3. m \in Slots /\ m >= 1 /\ m <= ckr_lim - Pos(klease) /\ m \in Nat
  BY DEF ReserveRoom
<1>4. \A s \in Slots : Pos(s) \in 0 .. ckr_lim /\ Pos(s) \in Nat
  BY DEF ReserveRoom
<1>2. UNCHANGED khead /\ UNCHANGED ktail /\ klease' = k /\ lease_idx' = l
  BY DEF ReserveEffect
<1>5. k \in Slots /\ l \in Slots /\ Pos(k) = Pos(klease) + m
  <2>1. Busy(khead, klease) + m <= ckr_lim
    BY <1>1, <1>3, <1>4 DEF Pos
  <2> QED
    BY <2>1, <1>1, <1>3, IncrementInRing, NextIsIncrement, BusyIncrement DEF Pos
<1>6. Busy(b, lease_idx) < ckr_lim
  <2>1. CASE b = lease_idx
    BY <2>1, <1>1, BusyZero, KringAssumption DEF ckr_lim
  <2>2. CASE b # lease_idx
    <3>1. Outstanding(b, b)
      BY <2>2, <1>1, BusyZero, BusyRange DEF Outstanding
    <3>2. Busy(b, lease_idx) <= Pos(klease) - Pos(g[b])
      BY <3>1 DEF ChainInv, ChainOrder
    <3>3. Busy(b, lease_idx) \in Nat /\ Pos(klease) \in Nat /\ Pos(g[b]) \in Nat
      BY <1>1, <1>4, BusyRange
    <3> QED
      BY <3>2, <3>3, <1>1, <1>3
  <2> QED
    BY <2>1, <2>2
<1>7. Busy(b, l) = Busy(b, lease_idx) + 1
  BY <1>1, <1>6, BusyNext
<1> HIDE DEF k, l
\* The tickets in use are the old ones and the new one.
<1>8. \A t \in Slots : Outstanding(b, t)' <=> Outstanding(b, t) \/ t = lease_idx
  <2> SUFFICES ASSUME NEW t \in Slots PROVE Outstanding(b, t)' <=> Outstanding(b, t) \/ t = lease_idx
    OBVIOUS
  <2>1. Busy(b, t) \in Nat /\ Busy(b, lease_idx) \in Nat /\ (Busy(b, t) = Busy(b, lease_idx) <=> t = lease_idx)
    BY <1>1, BusyRange, BusyInjective
  <2>2. Outstanding(b, t)' <=> Busy(b, t) < Busy(b, l)
    BY <1>2 DEF Outstanding
  <2> QED
    BY <2>1, <2>2, <1>7 DEF Outstanding
<1>9. \A t \in Slots : Outstanding(b, t) => t # lease_idx
  BY <1>1, BusyRange DEF Outstanding
<1>11. l # lease_idx /\ ~Outstanding(b, l)
  <2>1. Busy(b, lease_idx) \in Nat
    BY <1>1, BusyRange
  <2> QED
    BY <2>1, <1>7 DEF Outstanding
<1>12. \A t \in Slots : Outstanding(b, t) \/ t = lease_idx => LeaseStart(f, t)' = LeaseStart(g, t)
  BY <1>2, <1>9, <1>11 DEF LeaseStart
<1>13. \A t \in Slots : t = lease_idx => LeaseEnd(f, t)' = klease'
  BY <1>2 DEF LeaseEnd, LeaseStart, l
<1>14. \A t \in Slots : Outstanding(b, t) =>
         SLOT_NEXT(t) \in Slots /\ (Outstanding(b, SLOT_NEXT(t)) \/ SLOT_NEXT(t) = lease_idx)
  <2> SUFFICES ASSUME NEW t \in Slots, Outstanding(b, t)
               PROVE  SLOT_NEXT(t) \in Slots /\ (Outstanding(b, SLOT_NEXT(t)) \/ SLOT_NEXT(t) = lease_idx)
    OBVIOUS
  <2>1. /\ Busy(b, t) \in Nat /\ Busy(b, lease_idx) \in Nat /\ SLOT_NEXT(t) \in Slots
        /\ (Busy(b, SLOT_NEXT(t)) = Busy(b, lease_idx) <=> SLOT_NEXT(t) = lease_idx)
    BY <1>1, BusyRange, BusyInjective, NextIsIncrement
  <2>2. Busy(b, SLOT_NEXT(t)) = Busy(b, t) + 1
    <3>1. Busy(b, t) < ckr_lim
      BY <2>1, <1>1, <1>6 DEF Outstanding
    <3> QED
      BY <3>1, <1>1, BusyNext
  <2> QED
    BY <2>1, <2>2 DEF Outstanding
<1>15. \A t \in Slots : Outstanding(b, t) => LeaseEnd(f, t)' = LeaseEnd(g, t)
  BY <1>12, <1>14 DEF LeaseEnd
<1>16. Reach(f, b)' = Reach(g, b)
  <2>1. Outstanding(b, b) \/ b = lease_idx
    BY <1>1, BusyZero, BusyRange DEF Outstanding
  <2> QED
    BY <2>1, <1>12 DEF Reach
<1>17. /\ \A s \in Slots : Pos(s)' = Pos(s)
       /\ Pos(klease)' = Pos(klease) + m /\ Pos(ktail)' = Pos(ktail)
       /\ Pos(Reach(f, b))' = Pos(Reach(g, b))
  BY <1>2, <1>5, <1>16 DEF Pos
<1>18. \A t \in Slots : Outstanding(b, t) => Pos(LeaseEnd(f, t))' = Pos(LeaseEnd(g, t))
  BY <1>2, <1>15 DEF Pos
<1>19. \A t \in Slots : t = lease_idx => Pos(LeaseEnd(f, t))' = Pos(klease) + m
  BY <1>2, <1>5, <1>13 DEF Pos
<1>20. Pos(Reach(g, b)) <= Pos(klease)
  BY DEF ChainInv, ChainOrder
\* What lies before ckr_klease is left alone.
<1>21. \A s \in Slots : Pos(s) < Pos(klease) => slot'[s] = slot[s]
  <2> SUFFICES ASSUME NEW s \in Slots, Pos(s) < Pos(klease) PROVE ~(Busy(klease, s) < m)
    BY DEF ReserveEffect
  <2>1. Busy(klease, s) = Pos(s) - Pos(klease) + NumSlots
    <3>1. ~(Pos(klease) <= Pos(s))
      BY <1>1, <1>4
    <3> QED
      BY <3>1, <1>1, BusyBetween DEF Pos
  <2> QED
    BY <2>1, <1>1, <1>3, <1>4
<1> QED
  BY <1>1, <1>8, <1>9, <1>13, <1>15, <1>16, <1>17, <1>18, <1>19, <1>20, <1>21 DEF ReserveShape

\* The longer chain is in ring order.
LEMMA ReserveOrder ==
  ASSUME TypeOK, TypeOK', NEW g \in [Slots -> Slots], NEW b \in Slots, ChainInv(g, b),
         NEW w \in Writers, NEW m, ReserveEffect(w, m), ReserveRoom(m),
         NEW f \in [Slots -> Slots], ReserveShape(g, b, f, m)
  PROVE  ChainOrder(f, b)'
<1>1. /\ khead \in Slots /\ klease \in Slots /\ ktail \in Slots /\ lease_idx \in Slots
      /\ ckr_lim \in Nat /\ NumSlots = ckr_lim + 1
      /\ \A t \in Slots : LeaseEnd(g, t) \in Slots /\ g[t] \in Slots
      /\ Reach(g, b) \in Slots
  BY DEF ReserveRoom, ReserveShape
<1>3. m \in Slots /\ m >= 1 /\ m <= ckr_lim - Pos(klease) /\ m \in Nat
  BY DEF ReserveRoom
<1>4. \A s \in Slots : Pos(s) \in 0 .. ckr_lim /\ Pos(s) \in Nat
  BY DEF ReserveRoom
<1>8. \A t \in Slots : Outstanding(b, t)' <=> Outstanding(b, t) \/ t = lease_idx
  BY DEF ReserveShape
<1>10. f[lease_idx] = klease /\ \A t \in Slots : t # lease_idx => f[t] = g[t]
  BY DEF ReserveShape
<1>15. \A t \in Slots : Outstanding(b, t) =>
         /\ LeaseEnd(f, t)' = LeaseEnd(g, t) /\ Pos(LeaseEnd(f, t))' = Pos(LeaseEnd(g, t))
  BY DEF ReserveShape
<1>17. /\ \A s \in Slots : Pos(s)' = Pos(s)
       /\ Pos(klease)' = Pos(klease) + m /\ Pos(ktail)' = Pos(ktail)
       /\ Pos(Reach(f, b))' = Pos(Reach(g, b)) /\ Pos(Reach(g, b)) <= Pos(klease)
  BY DEF ReserveShape
<1>19. \A t \in Slots : t = lease_idx => Pos(LeaseEnd(f, t))' = Pos(klease) + m
  BY DEF ReserveShape
<1>2. lease_idx' = SLOT_NEXT(lease_idx)
  BY DEF ReserveEffect
<1> QED
  <2>1. Pos(ktail)' <= Pos(Reach(f, b))' /\ Pos(Reach(f, b))' <= Pos(klease)'
    <3>1. Pos(ktail) <= Pos(Reach(g, b))
      BY DEF ChainInv, ChainOrder
    <3>2. Pos(Reach(g, b)) \in Nat /\ Pos(klease) \in Nat
      BY <1>1, <1>4
    <3> QED
      BY <3>1, <3>2, <1>3, <1>17
  <2>2. ASSUME NEW t \in Slots, Outstanding(b, t)'
        PROVE  /\ Pos(Reach(f, b))' <= Pos(f[t])'
               /\ Pos(f[t])' < Pos(LeaseEnd(f, t))'
               /\ Pos(LeaseEnd(f, t))' <= Pos(klease)'
               /\ Busy(t, lease_idx)' <= Pos(klease)' - Pos(f[t])'
    <3>1. CASE t = lease_idx
      <4>1. Pos(f[t])' = Pos(klease)
        BY <3>1, <1>1, <1>10, <1>17
      <4>2. Busy(t, lease_idx)' = 1
        <5>1. Busy(lease_idx, lease_idx) = 0 /\ 0 < ckr_lim
          BY <1>1, BusyZero, KringAssumption DEF ckr_lim
        <5>2. Busy(lease_idx, SLOT_NEXT(lease_idx)) = 0 + 1
          BY <5>1, <1>1, BusyNext
        <5> QED
          BY <3>1, <5>2, <1>2
      <4>3. Pos(klease) \in Nat /\ Pos(Reach(g, b)) \in Nat
        BY <1>1, <1>4
      <4>4. Pos(LeaseEnd(f, t))' = Pos(klease) + m
        BY <3>1, <1>19
      <4> QED
        BY <4>1, <4>2, <4>3, <4>4, <1>3, <1>17
    <3>2. CASE t # lease_idx
      <4>1. Outstanding(b, t)
        BY <3>2, <2>2, <1>8
      <4>2. /\ Pos(Reach(g, b)) <= Pos(g[t]) /\ Pos(g[t]) < Pos(LeaseEnd(g, t))
            /\ Pos(LeaseEnd(g, t)) <= Pos(klease)
            /\ Busy(t, lease_idx) <= Pos(klease) - Pos(g[t])
        BY <4>1 DEF ChainInv, ChainOrder
      <4>3. Pos(f[t])' = Pos(g[t])
        BY <3>2, <1>1, <1>10, <1>17
      <4>4. /\ Pos(klease) \in Nat /\ Pos(g[t]) \in Nat /\ Pos(LeaseEnd(g, t)) \in Nat
            /\ Busy(t, lease_idx) \in Nat
        BY <1>1, <1>4, BusyRange
      <4>5. Busy(t, lease_idx)' = Busy(t, lease_idx) + 1
        <5>1. Busy(t, lease_idx) < ckr_lim
          BY <4>2, <4>4, <1>1, <1>3
        <5> QED
          BY <5>1, <1>1, <1>2, BusyNext
      <4>6. Pos(LeaseEnd(f, t))' = Pos(LeaseEnd(g, t))
        BY <4>1, <1>15
      <4> QED
        BY <4>2, <4>3, <4>4, <4>5, <4>6, <1>3, <1>17
    <3> QED
      BY <3>1, <3>2
  <2>3. ASSUME NEW t \in Slots, NEW u \in Slots, Outstanding(b, u)', Busy(b, t) < Busy(b, u)
        PROVE  Pos(LeaseEnd(f, t))' <= Pos(f[u])'
    <3>1. Busy(b, t) \in Nat /\ Busy(b, u) \in Nat /\ Busy(b, lease_idx) \in Nat
      BY <1>1, BusyRange
    <3>2. Outstanding(b, u) \/ u = lease_idx
      BY <2>3, <1>8
    <3>3. Outstanding(b, t)
      BY <2>3, <3>1, <3>2 DEF Outstanding
    <3>4. Pos(LeaseEnd(f, t))' = Pos(LeaseEnd(g, t))
      BY <3>3, <1>15
    <3>5. CASE u = lease_idx
      <4>1. Pos(LeaseEnd(g, t)) <= Pos(klease)
        BY <3>3 DEF ChainInv, ChainOrder
      <4>2. Pos(f[u])' = Pos(klease)
        BY <3>5, <1>1, <1>10, <1>17
      <4> QED
        BY <3>4, <4>1, <4>2
    <3>6. CASE u # lease_idx
      <4>1. Pos(LeaseEnd(g, t)) <= Pos(g[u])
        BY <2>3, <3>2, <3>6 DEF ChainInv, ChainOrder
      <4>2. Pos(f[u])' = Pos(g[u])
        BY <3>6, <1>1, <1>10, <1>17
      <4> QED
        BY <3>4, <4>1, <4>2
    <3> QED
      BY <3>5, <3>6
  <2> QED
    BY <2>1, <2>2, <2>3 DEF ChainOrder

\* The new block is not reported as filled, and no filled slot is taken.
LEMMA ReserveFilled ==
  ASSUME TypeOK, TypeOK', NEW g \in [Slots -> Slots], NEW b \in Slots, ChainInv(g, b),
         NEW w \in Writers, NEW m, ReserveEffect(w, m), ReserveRoom(m),
         NEW f \in [Slots -> Slots], ReserveShape(g, b, f, m)
  PROVE  ChainFilled(f, b)'
<1>1. /\ khead \in Slots /\ klease \in Slots /\ ktail \in Slots /\ lease_idx \in Slots
      /\ ckr_lim \in Nat /\ NumSlots = ckr_lim + 1
      /\ \A t \in Slots : LeaseEnd(g, t) \in Slots /\ g[t] \in Slots
      /\ Reach(g, b) \in Slots
  BY DEF ReserveRoom, ReserveShape
<1>4. \A s \in Slots : Pos(s) \in 0 .. ckr_lim /\ Pos(s) \in Nat
  BY DEF ReserveRoom
<1>8. \A t \in Slots : Outstanding(b, t)' <=> Outstanding(b, t) \/ t = lease_idx
  BY DEF ReserveShape
<1>10. f[lease_idx] = klease /\ \A t \in Slots : t # lease_idx => f[t] = g[t]
  BY DEF ReserveShape
<1>15. \A t \in Slots : Outstanding(b, t) =>
         /\ LeaseEnd(f, t)' = LeaseEnd(g, t) /\ Pos(LeaseEnd(f, t))' = Pos(LeaseEnd(g, t))
  BY DEF ReserveShape
<1>17. /\ \A s \in Slots : Pos(s)' = Pos(s)
       /\ Pos(klease)' = Pos(klease) + m /\ Pos(ktail)' = Pos(ktail)
       /\ Pos(Reach(f, b))' = Pos(Reach(g, b)) /\ Pos(Reach(g, b)) <= Pos(klease)
  BY DEF ReserveShape
<1>21. \A s \in Slots : Pos(s) < Pos(klease) => slot'[s] = slot[s]
  BY DEF ReserveShape
<1>2. /\ leases'[lease_idx] = CKR_NOSLOT
      /\ \A t \in Slots : t # lease_idx => leases'[t] = leases[t]
  BY DEF ReserveEffect
<1> QED
  <2>1. ASSUME NEW t \in Slots, Outstanding(b, t)', leases'[t] # CKR_NOSLOT
        PROVE  /\ leases'[t] = LeaseEnd(f, t)'
               /\ \A s \in Slots : Pos(f[t])' <= Pos(s)' /\ Pos(s)' < Pos(LeaseEnd(f, t))'
                                   => slot'[s] = "filled"
    <3>1. t # lease_idx /\ Outstanding(b, t)
      BY <2>1, <1>2, <1>8
    <3>2. /\ leases'[t] = leases[t] /\ LeaseEnd(f, t)' = LeaseEnd(g, t)
          /\ Pos(LeaseEnd(f, t))' = Pos(LeaseEnd(g, t)) /\ Pos(f[t])' = Pos(g[t])
      BY <3>1, <1>1, <1>2, <1>10, <1>15, <1>17
    <3>3. /\ leases[t] = LeaseEnd(g, t)
          /\ \A s \in Slots : Pos(g[t]) <= Pos(s) /\ Pos(s) < Pos(LeaseEnd(g, t)) => slot[s] = "filled"
      BY <2>1, <3>1, <3>2 DEF ChainInv, ChainFilled
    <3>4. Pos(LeaseEnd(g, t)) <= Pos(klease) /\ Pos(LeaseEnd(g, t)) \in Nat /\ Pos(klease) \in Nat
      BY <3>1, <1>1, <1>4 DEF ChainInv, ChainOrder
    <3> QED
      BY <3>2, <3>3, <3>4, <1>4, <1>17, <1>21
  <2>2. ASSUME NEW s \in Slots, Pos(s)' < Pos(Reach(f, b))' PROVE slot'[s] = "filled"
    <3>1. Pos(s) < Pos(Reach(g, b))
      BY <2>2, <1>17
    <3>2. Pos(s) < Pos(klease)
      BY <3>1, <1>1, <1>4, <1>17
    <3> QED
      BY <3>1, <3>2, <1>21 DEF ChainInv, ChainFilled
  <2> QED
    BY <2>1, <2>2 DEF ChainFilled

\* The other writers' blocks stay in the chain.
LEMMA ReserveInChain ==
  ASSUME TypeOK, TypeOK', NEW g \in [Slots -> Slots], NEW b \in Slots, ChainInv(g, b),
         NEW w \in Writers, NEW m, ReserveEffect(w, m), ReserveRoom(m),
         NEW f \in [Slots -> Slots], ReserveShape(g, b, f, m),
         NEW v \in Writers, v # w, InChain(g, b, v)
  PROVE  InChain(f, b, v)' /\ ticket[v] # lease_idx /\ leases'[ticket[v]] = leases[ticket[v]]
<1>1. PICK t \in Slots : t = ticket[v]
  BY DEF TypeOK
<1>2. ticket'[v] = t /\ start'[v] = start[v] /\ end'[v] = end[v]
  BY <1>1, ZenonT(40) DEF ReserveEffect
<1>3. Outstanding(b, t) /\ start[v] = g[t] /\ end[v] = LeaseEnd(g, t)
  BY <1>1 DEF InChain
<1>4. Outstanding(b, t)' /\ f[t] = g[t] /\ LeaseEnd(f, t)' = LeaseEnd(g, t) /\ t # lease_idx
  BY <1>3 DEF ReserveShape
<1>5. Outstanding(b, ticket[v])' /\ LeaseEnd(f, ticket[v])' = LeaseEnd(f, t)'
  BY <1>2, <1>4, ZenonT(40) DEF Outstanding, LeaseEnd, LeaseStart
<1>6. InChain(f, b, v)'
  BY <1>2, <1>3, <1>4, <1>5 DEF InChain
<1> QED
  BY <1>1, <1>4, <1>6, ZenonT(40) DEF ReserveEffect

\* The new block has no writer but the caller.
LEMMA ReserveCaller ==
  ASSUME TypeOK, TypeOK', NEW g \in [Slots -> Slots], NEW b \in Slots, ChainInv(g, b),
         NEW w \in Writers, NEW m, ReserveEffect(w, m), ReserveRoom(m),
         NEW f \in [Slots -> Slots], ReserveShape(g, b, f, m)
  PROVE  InChain(f, b, w)'
<1>1. PICK t \in Slots : t = lease_idx
  BY DEF ReserveRoom
<1>2. ticket'[w] = t /\ start'[w] = f[t] /\ end'[w] = klease'
  BY <1>1 DEF ReserveEffect, ReserveShape
<1>3. Outstanding(b, t)' /\ LeaseEnd(f, t)' = klease'
  BY <1>1 DEF ReserveShape
<1>4. Outstanding(b, ticket[w])' /\ LeaseEnd(f, ticket[w])' = klease'
  BY <1>2, <1>3 DEF Outstanding, LeaseEnd, LeaseStart
<1> QED
  BY <1>2, <1>4 DEF InChain

\* A writer whose block was taken is not reached: it is unfinished, so the new
\* block stays short of it.
LEMMA ReserveTaken ==
  ASSUME TypeOK, TypeOK', NEW g \in [Slots -> Slots], NEW b \in Slots, ChainInv(g, b),
         NEW w \in Writers, NEW m, ReserveEffect(w, m), ReserveRoom(m),
         NEW f \in [Slots -> Slots], ReserveShape(g, b, f, m),
         NEW v \in Writers, v # w, pc[v] = "stored", Taken(g, b, v)
  PROVE  Taken(f, b, v)'
<1>1. PICK x \in Slots : x = start[v] /\ x = start'[v]
  BY DEF TypeOK, ReserveEffect
<1>2. /\ klease \in Slots /\ Reach(g, b) \in Slots /\ m \in Slots /\ m \in Nat /\ m >= 1
      /\ ckr_lim \in Nat /\ NumSlots = ckr_lim + 1
  BY DEF ReserveRoom, ReserveShape
<1>3. /\ Busy(x, klease) \in Nat /\ Busy(x, Reach(g, b)) \in Nat
      /\ Busy(x, Reach(g, b)) > 0 /\ Busy(x, Reach(g, b)) <= Busy(x, klease)
  BY <1>1, <1>2, BusyRange DEF Taken
<1>4. Busy(klease, x) = NumSlots - Busy(x, klease)
  <2>1. Busy(x, x) = 0
    BY BusyZero
  <2>2. ~(Busy(x, klease) <= Busy(x, x))
    BY <2>1, <1>3
  <2>3. Busy(klease, x) = 0 - Busy(x, klease) + NumSlots
    BY <2>1, <2>2, <1>2, BusyBetween
  <2> QED
    BY <2>3, <1>2, <1>3
<1>5. m < Busy(klease, x)
  <2>1. klease # x
    BY <1>2, <1>3, BusyZero
  <2>2. Busy(klease, x) # 0
    BY <2>1, <1>2, BusyZero
  <2> QED
    BY <2>2, <1>1 DEF ReserveEffect, ShortOfUnfinished, InFlight
<1>6. Busy(x, SLOT_INCREMENT(klease, m)) = Busy(x, klease) + m
  <2>1. Busy(x, klease) + m <= ckr_lim
    BY <1>2, <1>3, <1>4, <1>5
  <2> QED
    BY <2>1, <1>2, BusyIncrement
<1>7. /\ Busy(start[v], Reach(f, b))' = Busy(x, Reach(g, b))
      /\ Busy(start[v], klease)' = Busy(x, klease) + m
  BY <1>1, <1>6 DEF ReserveEffect, ReserveShape
<1> QED
  BY <1>2, <1>3, <1>7 DEF Taken

\* Every writer keeps its place.
LEMMA ReserveWriters ==
  ASSUME TypeOK, TypeOK', NEW g \in [Slots -> Slots], NEW b \in Slots, ChainInv(g, b),
         NEW w \in Writers, NEW m, ReserveEffect(w, m), ReserveRoom(m),
         NEW f \in [Slots -> Slots], ReserveShape(g, b, f, m),
         NEW v \in Writers
  PROVE  WriterInv(f, b, v)'
<1>1. CASE v = w
  BY <1>1, ReserveCaller DEF ReserveEffect, WriterInv
<1>2. CASE v # w
  <2>1. /\ WriterInv(g, b, v) /\ start[v] \in Slots /\ end[v] \in Slots /\ ticket[v] \in Slots
        /\ pc'[v] = pc[v] /\ start'[v] = start[v] /\ end'[v] = end[v] /\ ticket'[v] = ticket[v]
        /\ khead' = khead /\ pc[v] # "scan"
    BY <1>2, KringAssumption DEF ReserveEffect, ChainInv, TypeOK
  <2>2. CASE pc[v] \in {"filling", "filled"}
    <3>1. InChain(g, b, v) /\ leases[ticket[v]] = CKR_NOSLOT
      BY <2>1, <2>2 DEF WriterInv
    <3>2. InChain(f, b, v)' /\ leases'[ticket[v]] = CKR_NOSLOT
      BY <1>2, <3>1, ReserveInChain
    <3>3. ASSUME pc[v] = "filled", NEW s \in Slots, Pos(start[v]) <= Pos(s), Pos(s) < Pos(end[v])
          PROVE  slot'[s] = "filled"
      <4>1. slot[s] = "filled"
        BY <3>3, <2>1, ZenonT(40) DEF WriterInv
      <4>2. Pos(end[v]) <= Pos(klease)
        BY <3>1, <2>1 DEF InChain, ChainInv, ChainOrder
      <4>3. Pos(s) \in Nat /\ Pos(end[v]) \in Nat /\ Pos(klease) \in Nat
        BY <2>1, ZenonT(40) DEF ReserveRoom
      <4>4. Pos(s) < Pos(klease)
        BY <3>3, <4>2, <4>3
      <4> QED
        BY <4>1, <4>4 DEF ReserveShape
    <3>4. /\ Pos(start[v])' = Pos(start[v]) /\ Pos(end[v])' = Pos(end[v])
          /\ \A s \in Slots : Pos(s)' = Pos(s)
      BY <2>1 DEF Pos
    <3> QED
      BY <2>1, <2>2, <3>2, <3>3, <3>4, ZenonT(40) DEF WriterInv
  <2>3. CASE pc[v] = "stored"
    <3>1. CASE InChain(g, b, v) /\ leases[ticket[v]] = end[v]
      <4>1. InChain(f, b, v)' /\ leases'[ticket[v]] = leases[ticket[v]]
        BY <1>2, <3>1, ReserveInChain
      <4>2. InChain(f, b, v)' /\ leases'[ticket'[v]] = end'[v]
        BY <4>1, <3>1, <2>1
      <4> QED
        BY <4>2, <2>1, <2>3, ZenonT(40) DEF WriterInv
    <3>2. CASE Taken(g, b, v)
      <4>1. Taken(f, b, v)'
        BY <1>2, <2>3, <3>2, ReserveTaken
      <4> QED
        BY <4>1, <2>1, <2>3, ZenonT(40) DEF WriterInv
    <3> QED
      BY <2>1, <2>3, <3>1, <3>2, ZenonT(40) DEF WriterInv
  <2> QED
    BY <2>1, <2>2, <2>3, ZenonT(40) DEF WriterInv
<1> QED
  BY <1>1, <1>2

\* Every block still has somebody to see to it.
LEMMA ReserveOwned ==
  ASSUME TypeOK, TypeOK', NEW g \in [Slots -> Slots], NEW b \in Slots, ChainInv(g, b),
         NEW w \in Writers, NEW m, ReserveEffect(w, m), ReserveRoom(m),
         NEW f \in [Slots -> Slots], ReserveShape(g, b, f, m)
  PROVE  ChainOwned(f, b)'
<1>8. \A t \in Slots : Outstanding(b, t)' <=> Outstanding(b, t) \/ t = lease_idx
  BY DEF ReserveShape
<1>2. /\ leases'[lease_idx] = CKR_NOSLOT
      /\ \A t \in Slots : t # lease_idx => leases'[t] = leases[t]
      /\ pc[w] = "idle" /\ pc'[w] = "filling" /\ ticket'[w] = lease_idx
      /\ \A v \in Writers : v # w => pc'[v] = pc[v] /\ ticket'[v] = ticket[v]
  BY DEF ReserveEffect
<1> QED
  <2>1. ASSUME NEW t \in Slots, Outstanding(b, t)', leases'[t] = CKR_NOSLOT
        PROVE  \E v \in Writers : pc'[v] \in {"filling", "filled"} /\ ticket'[v] = t
    <3>1. CASE t = lease_idx
      BY <3>1, <1>2
    <3>2. CASE t # lease_idx
      <4>1. Outstanding(b, t) /\ leases[t] = CKR_NOSLOT
        BY <3>2, <2>1, <1>2, <1>8
      <4>2. PICK v \in Writers : pc[v] \in {"filling", "filled"} /\ ticket[v] = t
        BY <4>1 DEF ChainInv, ChainOwned
      <4>3. v # w
        BY <4>2, <1>2
      <4> QED
        BY <4>2, <4>3, <1>2
    <3> QED
      BY <3>1, <3>2
  <2>2. ASSUME leases'[b] # CKR_NOSLOT
        PROVE  \E v \in Writers : \/ pc'[v] = "stored" /\ ticket'[v] = b /\ InChain(f, b, v)'
                                  \/ pc'[v] = "scan"
    <3>1. b # lease_idx /\ leases[b] # CKR_NOSLOT
      BY <2>2, <1>2
    <3>2. PICK v \in Writers : \/ pc[v] = "stored" /\ ticket[v] = b /\ InChain(g, b, v)
                               \/ pc[v] = "scan"
      BY <3>1 DEF ChainInv, ChainOwned
    <3>3. v # w
      BY <3>2, <1>2
    <3> QED
      BY <3>2, <3>3, <1>2, ReserveInChain
  <2> QED
    BY <2>1, <2>2 DEF ChainOwned

\* A reservation adds a block at the end of the chain.  The ring has room for it,
\* the lease array has room for its ticket, and it stays short of every writer
\* whose block was taken.
LEMMA ChainReserve ==
  ASSUME TypeOK, TypeOK', NEW g \in [Slots -> Slots], NEW b \in Slots, ChainInv(g, b),
         OneWriterPerTicket, ~ZeroLease, ~AllowLap,
         NEW w \in Writers, NEW n \in Requests, Reserve(w, n)
  PROVE  (\E f \in [Slots -> Slots] : ChainInv(f, b)') /\ OneWriterPerTicket'
<1>1. PICK m : ReserveEffect(w, m) /\ ReserveRoom(m)
  BY ReserveTakes
<1>2. PICK f \in [Slots -> Slots] :
        f[lease_idx] = klease /\ \A t \in Slots : t # lease_idx => f[t] = g[t]
  <2>1. [g EXCEPT ![lease_idx] = klease] \in [Slots -> Slots]
    BY DEF TypeOK
  <2> QED
    BY <2>1, ZenonT(40) DEF TypeOK
<1>3. ReserveShape(g, b, f, m)
  BY <1>1, <1>2, ReserveExtends
<1>4. ChainOrder(f, b)' /\ ChainFilled(f, b)' /\ ChainOwned(f, b)'
  BY <1>1, <1>3, ReserveOrder, ReserveFilled, ReserveOwned
<1>5. \A v \in Writers : WriterInv(f, b, v)'
  BY <1>1, <1>3, ReserveWriters
<1>6. qlock' = NoWriter => Reach(f, b)' = ktail'
  BY <1>1, <1>3, ZenonT(40) DEF ChainInv, ReserveEffect, ReserveShape
<1>7. ChainInv(f, b)'
  BY <1>4, <1>5, <1>6 DEF ChainInv
<1>8. \A v \in Writers : v # w /\ pc[v] \in {"filling", "filled"} => ticket[v] # lease_idx
  <2>1. \A v \in Writers : pc[v] \in {"filling", "filled"} => InChain(g, b, v)
    BY DEF ChainInv, WriterInv
  <2> QED
    BY <2>1, <1>1, <1>3, ReserveInChain
<1>9. OneWriterPerTicket'
  BY <1>1, <1>8 DEF ReserveEffect, OneWriterPerTicket
<1> QED
  BY <1>7, <1>9

-----------------------------------------------------------------------------
\* The chain is an inductive invariant of the protocol when writers reserve only
\* on a ring with room and the ring does not come round to an unfinished writer:
\* kr_reserve_slots_locked appends to it, the scan of kr_publish_slots takes from
\* it, and nothing else touches it.
THEOREM ChainInvariant ==
  ASSUME ~ZeroLease, ~AllowLap
  PROVE  Spec => [](TypeOK /\ KringChain)
<1>1. Init => KringChain
  BY ChainInit
<1>2. TypeOK /\ TypeOK' /\ KringChain /\ [Next]_vars => KringChain'
  <2> SUFFICES ASSUME TypeOK, TypeOK', KringChain, [Next]_vars PROVE KringChain'
    OBVIOUS
  <2>1. PICK g \in [Slots -> Slots], b \in Slots : ChainInv(g, b)
    BY DEF KringChain
  <2>2. OneWriterPerTicket
    BY DEF KringChain
  <2> SUFFICES OneWriterPerTicket' /\ \E f \in [Slots -> Slots], c \in Slots : ChainInv(f, c)'
    BY DEF KringChain
  <2>3. ASSUME NEW w \in Writers, NEW n \in Requests, Reserve(w, n)
        PROVE  OneWriterPerTicket' /\ \E f \in [Slots -> Slots], c \in Slots : ChainInv(f, c)'
    BY <2>1, <2>2, <2>3, ChainReserve
  <2>4. ASSUME NEW w \in Writers, Fill(w)
        PROVE  OneWriterPerTicket' /\ \E f \in [Slots -> Slots], c \in Slots : ChainInv(f, c)'
    BY <2>1, <2>2, <2>4, ChainFill
  <2>5. ASSUME NEW w \in Writers, PublishStore(w)
        PROVE  OneWriterPerTicket' /\ \E f \in [Slots -> Slots], c \in Slots : ChainInv(f, c)'
    BY <2>1, <2>2, <2>5, ChainStore
  <2>6. ASSUME NEW w \in Writers, PublishNotYet(w)
        PROVE  OneWriterPerTicket' /\ \E f \in [Slots -> Slots], c \in Slots : ChainInv(f, c)'
    BY <2>1, <2>2, <2>6, ChainNotYet
  <2>7. ASSUME NEW w \in Writers, PublishLock(w)
        PROVE  OneWriterPerTicket' /\ \E f \in [Slots -> Slots], c \in Slots : ChainInv(f, c)'
    BY <2>1, <2>2, <2>7, ChainLock
  <2>8. ASSUME NEW w \in Writers, PublishScan(w)
        PROVE  OneWriterPerTicket' /\ \E f \in [Slots -> Slots], c \in Slots : ChainInv(f, c)'
    BY <2>1, <2>2, <2>8, ChainScan, NextIsIncrement
  <2>9. ASSUME NEW w \in Writers, PublishTail(w)
        PROVE  OneWriterPerTicket' /\ \E f \in [Slots -> Slots], c \in Slots : ChainInv(f, c)'
    BY <2>1, <2>2, <2>9, ChainTail
  <2>10. ASSUME NEW n \in Slots, Rxsync(n)
         PROVE  OneWriterPerTicket' /\ \E f \in [Slots -> Slots], c \in Slots : ChainInv(f, c)'
    BY <2>1, <2>2, <2>10, ChainRxsync
  <2>11. CASE (\E w \in Writers : Notify(w)) \/ Sleep \/ Poll \/ UNCHANGED vars
    BY <2>1, <2>2, <2>11, ChainIdle
  <2> QED
    BY <2>3, <2>4, <2>5, <2>6, <2>7, <2>8, <2>9, <2>10, <2>11 DEF Next, Write, Receive
<1> QED
  BY <1>1, <1>2, TypeCorrect, PTL DEF Spec

\* Where the chain puts the published slots and ckr_klease.
LEMMA ChainBounds ==
  ASSUME TypeOK, NEW g \in [Slots -> Slots], NEW b \in Slots, ChainInv(g, b)
  PROVE  /\ Reach(g, b) \in Slots
         /\ Pos(ktail) <= Pos(Reach(g, b)) /\ Pos(Reach(g, b)) <= Pos(klease)
         /\ \A s \in Slots : Pos(s) \in Nat /\ Pos(s) <= ckr_lim
         /\ \A w \in Writers : pc[w] \in {"filling", "filled"} =>
              /\ Pos(Reach(g, b)) <= Pos(start[w])
              /\ Pos(start[w]) < Pos(end[w]) /\ Pos(end[w]) <= Pos(klease)
<1>1. Pos(ktail) <= Pos(Reach(g, b)) /\ Pos(Reach(g, b)) <= Pos(klease)
  BY DEF ChainInv, ChainOrder
<1>2. \A s \in Slots : Pos(s) \in Nat /\ Pos(s) <= ckr_lim
  BY BusyRange, KringAssumption DEF Pos, TypeOK, ckr_lim
<1>3. \A w \in Writers : pc[w] \in {"filling", "filled"} =>
        /\ Pos(Reach(g, b)) <= Pos(start[w])
        /\ Pos(start[w]) < Pos(end[w]) /\ Pos(end[w]) <= Pos(klease)
  BY DEF ChainInv, ChainOrder, WriterInv, InChain, TypeOK
<1> QED
  BY <1>1, <1>2, <1>3, ChainTypes

\* The receiver only ever reads slots that have been filled.
THEOREM ReceiverReadsFilledSlots ==
  ASSUME ~ZeroLease, ~AllowLap
  PROVE  Spec => []PublishedFilled
<1>1. TypeOK /\ KringChain => PublishedFilled
  <2> SUFFICES ASSUME TypeOK, KringChain, NEW s \in Block(khead, ktail) PROVE slot[s] = "filled"
    BY DEF PublishedFilled
  <2>1. PICK g \in [Slots -> Slots], b \in Slots : ChainInv(g, b)
    BY DEF KringChain
  <2>2. s \in Slots /\ Pos(s) < Pos(ktail) /\ ktail \in Slots
    BY DEF Block, Pos, TypeOK
  <2>3. Pos(s) < Pos(Reach(g, b))
    BY <2>1, <2>2, ChainBounds
  <2> QED
    BY <2>1, <2>2, <2>3, ZenonT(40) DEF ChainInv, ChainFilled
<1> QED
  BY <1>1, ChainInvariant, PTL

\* ckr_ktail never passes ckr_klease.
THEOREM PublicationBehindReservation ==
  ASSUME ~ZeroLease, ~AllowLap
  PROVE  Spec => []TailBehindLease
<1>1. TypeOK /\ KringChain => TailBehindLease
  <2> SUFFICES ASSUME TypeOK, KringChain PROVE TailBehindLease
    OBVIOUS
  <2>1. PICK g \in [Slots -> Slots], b \in Slots : ChainInv(g, b)
    BY DEF KringChain
  <2>2. /\ Pos(ktail) \in Nat /\ Pos(klease) \in Nat /\ ckr_lim \in Nat
        /\ Pos(ktail) <= Pos(klease)
    BY <2>1, ChainBounds, KringAssumption DEF TypeOK, ckr_lim
  <2> QED
    BY <2>2 DEF TailBehindLease, kr_available_slots, kr_available_slots_rxring, Pos
<1> QED
  BY <1>1, ChainInvariant, PTL

\* The block of a writer at work overlaps neither another such block nor what
\* the receiver may read.
THEOREM WritersKeepApart ==
  ASSUME ~ZeroLease, ~AllowLap
  PROVE  Spec => []BlocksDisjoint
<1>1. TypeOK /\ KringChain => BlocksDisjoint
  <2> SUFFICES ASSUME TypeOK, KringChain, NEW w \in Writers, pc[w] \in {"filling", "filled"}
               PROVE  /\ Block(start[w], end[w]) \cap Block(khead, ktail) = {}
                      /\ \A v \in Writers \ {w} : pc[v] \in {"filling", "filled"} =>
                           Block(start[w], end[w]) \cap Block(start[v], end[v]) = {}
    BY DEF BlocksDisjoint
  <2>1. PICK g \in [Slots -> Slots], b \in Slots : ChainInv(g, b)
    BY DEF KringChain
  <2>2. \A v \in Writers : /\ start[v] \in Slots /\ end[v] \in Slots /\ ticket[v] \in Slots
                           /\ khead \in Slots /\ ktail \in Slots
    BY DEF TypeOK
  <2>3. \A v \in Writers : pc[v] \in {"filling", "filled"} =>
          \A s \in Slots : s \in Block(start[v], end[v]) => Pos(start[v]) <= Pos(s) /\ Pos(s) < Pos(end[v])
    <3> SUFFICES ASSUME NEW v \in Writers, pc[v] \in {"filling", "filled"},
                        NEW s \in Slots, s \in Block(start[v], end[v])
                 PROVE  Pos(start[v]) <= Pos(s) /\ Pos(s) < Pos(end[v])
      OBVIOUS
    <3>1. Pos(start[v]) <= Pos(end[v])
      BY <2>1, <2>2, ChainBounds
    <3> QED
      BY <2>2, <3>1, BlockSeenFrom DEF Pos
  <2>4. Block(start[w], end[w]) \cap Block(khead, ktail) = {}
    <3> SUFFICES ASSUME NEW s \in Slots, s \in Block(start[w], end[w]), s \in Block(khead, ktail)
                 PROVE  FALSE
      BY DEF Block
    <3>1. Pos(start[w]) <= Pos(s) /\ Pos(s) < Pos(ktail)
      BY <2>3 DEF Block, Pos
    <3>2. Pos(ktail) <= Pos(Reach(g, b)) /\ Pos(Reach(g, b)) <= Pos(start[w])
      BY <2>1, ChainBounds
    <3>3. /\ Pos(s) \in Nat /\ Pos(ktail) \in Nat /\ Pos(start[w]) \in Nat
          /\ Pos(Reach(g, b)) \in Nat
      BY <2>1, <2>2, ChainBounds
    <3> QED
      BY <3>1, <3>2, <3>3
  <2>5. ASSUME NEW v \in Writers \ {w}, pc[v] \in {"filling", "filled"}
        PROVE  Block(start[w], end[w]) \cap Block(start[v], end[v]) = {}
    <3> SUFFICES ASSUME NEW s \in Slots, s \in Block(start[w], end[w]), s \in Block(start[v], end[v])
                 PROVE  FALSE
      BY DEF Block
    <3>1. /\ Pos(start[w]) <= Pos(s) /\ Pos(s) < Pos(end[w])
          /\ Pos(start[v]) <= Pos(s) /\ Pos(s) < Pos(end[v])
      BY <2>3, <2>5
    <3>2. InChain(g, b, w) /\ InChain(g, b, v) /\ ticket[v] # ticket[w]
      BY <2>1, <2>5, ZenonT(40) DEF KringChain, OneWriterPerTicket, ChainInv, WriterInv
    <3>3. Busy(b, ticket[v]) < Busy(b, ticket[w]) \/ Busy(b, ticket[w]) < Busy(b, ticket[v])
      <4>1. Busy(b, ticket[v]) # Busy(b, ticket[w])
        BY <2>2, <3>2, BusyInjective
      <4>2. Busy(b, ticket[v]) \in Nat /\ Busy(b, ticket[w]) \in Nat
        BY <2>2, BusyRange
      <4> QED
        BY <4>1, <4>2
    <3>4. Pos(end[v]) <= Pos(start[w]) \/ Pos(end[w]) <= Pos(start[v])
      BY <2>1, <2>2, <3>2, <3>3 DEF ChainInv, ChainOrder, InChain
    <3>5. /\ Pos(s) \in Nat /\ Pos(start[w]) \in Nat /\ Pos(end[w]) \in Nat
          /\ Pos(start[v]) \in Nat /\ Pos(end[v]) \in Nat
      BY <2>1, <2>2, ChainBounds
    <3> QED
      BY <3>1, <3>4, <3>5
  <2> QED
    BY <2>4, <2>5
<1> QED
  BY <1>1, ChainInvariant, PTL

\* No completed block is left behind: with all writers done, everything reserved
\* is published.
THEOREM NoBlockIsStranded ==
  ASSUME ~ZeroLease, ~AllowLap
  PROVE  Spec => []NothingStranded
<1>1. TypeOK /\ KringChain => NothingStranded
  <2> SUFFICES ASSUME TypeOK, KringChain, \A w \in Writers : pc[w] \in {"idle", "notify"}
               PROVE  ktail = klease
    BY DEF NothingStranded
  <2>1. PICK g \in [Slots -> Slots], b \in Slots : ChainInv(g, b)
    BY DEF KringChain
  <2>2. qlock = NoWriter
    BY DEF TypeOK
  <2>3. b = lease_idx
    <3> SUFFICES ASSUME b # lease_idx PROVE FALSE
      OBVIOUS
    <3>1. Outstanding(b, b)
      BY BusyZero, BusyRange DEF Outstanding, TypeOK
    <3> QED
      BY <2>1, <3>1 DEF ChainInv, ChainOwned
  <2> QED
    BY <2>1, <2>2, <2>3 DEF ChainInv, Reach, LeaseStart
<1> QED
  BY <1>1, ChainInvariant, PTL

----------------------------------------------------------------------------
Filled == {s \in Slots : slot[s] = "filled"}

\* The two modules count alike.
LEMMA SameArithmetic ==
  ASSUME NEW i \in Slots, NEW j \in Slots, NEW n \in Slots
  PROVE  /\ Promise!Distance(i, j) = Busy(i, j)
         /\ Promise!Advance(i, n) = SLOT_INCREMENT(i, n)
         /\ Promise!Between(i, j) = Block(i, j)
<1>1. \A k \in Slots : Promise!Distance(i, k) = Busy(i, k)
  BY KringAssumption DEF Promise!Distance, Busy, Slots, ckr_lim
<1>2. Promise!Advance(i, n) = SLOT_INCREMENT(i, n)
  BY KringAssumption DEF Promise!Advance, SLOT_INCREMENT, Slots, ckr_lim
<1>3. Promise!Between(i, j) = Block(i, j)
  BY <1>1 DEF Promise!Between, Block, Slots, ckr_lim
<1> QED
  BY <1>1, <1>2, <1>3

-----------------------------------------------------------------------------
\* A reservation finds the slots it takes free.
LEMMA ReserveTakesFree ==
  ASSUME TypeOK, TypeOK', UnleasedFree, NEW w \in Writers, NEW n \in Requests,
         Reserve(w, n)
  PROVE  UnleasedFree' /\ \A s \in Slots : Busy(klease, s) < Granted(n) => slot[s] = "free"
<1> DEFINE m == Granted(n)
<1>1. /\ m \in Slots /\ m <= ckr_lim - Pos(klease) /\ m \in Nat
      /\ ckr_lim \in Nat /\ NumSlots = ckr_lim + 1
      /\ khead \in Slots /\ klease \in Slots
  BY GrantedRange, KringAssumption DEF TypeOK, Slots, ckr_lim, Pos
<1>2. /\ khead' = khead /\ klease' = SLOT_INCREMENT(klease, m)
      /\ \A s \in Slots : slot'[s] = IF Busy(klease, s) < m THEN "leased" ELSE slot[s]
  BY DEF Reserve, kr_reserve_slots_locked
<1> HIDE DEF m
<1>3. \A s \in Slots : Pos(s) \in 0 .. ckr_lim /\ Pos(s) \in Nat
  BY <1>1, BusyRange DEF Pos
<1>4. Pos(klease)' = Pos(klease) + m
  <2>1. Busy(khead, klease) + m <= ckr_lim
    BY <1>1, <1>3 DEF Pos
  <2> QED
    BY <2>1, <1>1, <1>2, BusyIncrement DEF Pos
<1>5. \A s \in Slots : Pos(s)' = Pos(s)
  BY <1>2 DEF Pos
<1>6. \A s \in Slots : Busy(klease, s) = IF Pos(klease) <= Pos(s) THEN Pos(s) - Pos(klease)
                                                              ELSE Pos(s) - Pos(klease) + NumSlots
  BY <1>1, BusyBetween DEF Pos
<1>7. \A s \in Slots : Busy(klease, s) < m => Pos(klease) <= Pos(s)
  BY <1>1, <1>3, <1>6
<1>8. ASSUME NEW s \in Slots, Pos(klease)' <= Pos(s)' PROVE slot'[s] = "free"
  <2>1. Pos(klease) + m <= Pos(s)
    BY <1>4, <1>5, <1>8
  <2>2. Pos(klease) <= Pos(s) /\ ~(Busy(klease, s) < m)
    BY <2>1, <1>1, <1>3, <1>6
  <2> QED
    BY <2>2, <1>2 DEF UnleasedFree
<1> QED
  BY <1>7, <1>8 DEF UnleasedFree, m

\* A writer fills only slots between ckr_ktail and ckr_klease.
LEMMA FillsWithinLease ==
  ASSUME TypeOK, KringChain, NEW w \in Writers, pc[w] \in {"filling", "filled"}
  PROVE  \A s \in Block(start[w], end[w]) : s \in Block(ktail, klease) /\ Pos(s) < Pos(klease)
<1>1. PICK g \in [Slots -> Slots], b \in Slots : ChainInv(g, b)
  BY DEF KringChain
<1>2. /\ khead \in Slots /\ ktail \in Slots /\ klease \in Slots
      /\ start[w] \in Slots /\ end[w] \in Slots
  BY DEF TypeOK
<1>3. /\ Pos(ktail) <= Pos(start[w]) /\ Pos(start[w]) <= Pos(end[w])
      /\ Pos(end[w]) <= Pos(klease) /\ Pos(ktail) <= Pos(klease)
  BY <1>1, <1>2, ChainBounds
<1>4. ASSUME NEW s \in Slots, s \in Block(start[w], end[w])
      PROVE  s \in Block(ktail, klease) /\ Pos(s) < Pos(klease)
  <2>1. Pos(start[w]) <= Pos(s) /\ Pos(s) < Pos(end[w])
    BY <1>2, <1>3, <1>4, BlockSeenFrom DEF Pos
  <2>2. Pos(ktail) <= Pos(s) /\ Pos(s) < Pos(klease)
    BY <1>1, <1>2, <1>3, <2>1, ChainBounds
  <2> QED
    BY <1>2, <1>3, <2>2, BlockSeenFrom DEF Pos
<1> QED
  BY <1>4 DEF Block

\* What the receiver gives back is free.
LEMMA RxsyncFrees ==
  ASSUME TypeOK, KringChain, UnleasedFree, NEW n \in Slots, Rxsync(n)
  PROVE  UnleasedFree'
<1>1. PICK g \in [Slots -> Slots], b \in Slots : ChainInv(g, b)
  BY DEF KringChain
<1>2. /\ khead \in Slots /\ ktail \in Slots /\ klease \in Slots
      /\ ckr_lim \in Nat /\ NumSlots = ckr_lim + 1 /\ n \in Nat
  BY KringAssumption DEF TypeOK, ckr_lim, Slots
<1>3. /\ n <= Pos(ktail) /\ khead' = SLOT_INCREMENT(khead, n) /\ klease' = klease
      /\ \A s \in Slots : slot'[s] = IF Pos(s) < n THEN "free" ELSE slot[s]
  BY DEF Rxsync, Pos
<1>4. \A s \in Slots : Pos(s) \in Nat /\ Pos(s) <= ckr_lim
  BY <1>1, ChainBounds
<1>5. n <= Pos(klease)
  <2>1. /\ Reach(g, b) \in Slots
        /\ Pos(ktail) <= Pos(Reach(g, b)) /\ Pos(Reach(g, b)) <= Pos(klease)
    BY <1>1, ChainBounds
  <2>2. Pos(ktail) \in Nat /\ Pos(Reach(g, b)) \in Nat /\ Pos(klease) \in Nat BY <1>2, <1>4, <2>1
  <2>3. \A i, j, k, l \in Nat : i <= j /\ j <= k /\ k <= l => i <= l OBVIOUS
  <2> QED BY <1>2, <1>3, <2>1, <2>2, <2>3, Zenon
<1>6. \A s \in Slots : n <= Pos(s) => Busy(khead', s) = Pos(s) - n
  BY <1>2, <1>3, BusyFromIncrement DEF Pos
<1>7. ASSUME NEW s \in Slots, Pos(klease)' <= Pos(s)' PROVE slot'[s] = "free"
  <2>1. CASE Pos(s) < n
    BY <2>1, <1>3
  <2>2. CASE ~(Pos(s) < n)
    <3>1. n <= Pos(s)
      BY <2>2, <1>2, <1>4
    <3>2. Pos(klease) - n <= Pos(s) - n
      BY <3>1, <1>2, <1>3, <1>5, <1>6, <1>7 DEF Pos
    <3>3. Pos(klease) <= Pos(s)
      BY <3>2, <1>2, <1>4
    <3> QED
      BY <2>2, <3>3, <1>3 DEF UnleasedFree
  <2> QED
    BY <2>1, <2>2
<1> QED
  BY <1>7 DEF UnleasedFree

\* Slots outside every lease are free, so a reservation never takes a slot that
\* still holds packets.
THEOREM UnleasedSlotsAreFree ==
  ASSUME ~ZeroLease, ~AllowLap
  PROVE  Spec => []UnleasedFree
<1>1. Init => UnleasedFree
  BY DEF Init, UnleasedFree
<1>2. TypeOK /\ TypeOK' /\ KringChain /\ UnleasedFree /\ [Next]_vars => UnleasedFree'
  <2> SUFFICES ASSUME TypeOK, TypeOK', KringChain, UnleasedFree, [Next]_vars PROVE UnleasedFree'
    OBVIOUS
  <2>1. ASSUME NEW w \in Writers, NEW n \in Requests, Reserve(w, n)
        PROVE  UnleasedFree'
    BY <2>1, ReserveTakesFree
  <2>2. ASSUME NEW w \in Writers, Fill(w) PROVE UnleasedFree'
    <3>1. \A s \in Block(start[w], end[w]) : Pos(s) < Pos(klease)
      BY <2>2, FillsWithinLease DEF Fill
    <3>2. /\ UNCHANGED <<khead, klease>>
          /\ \A s \in Slots : s \notin Block(start[w], end[w]) => slot'[s] = slot[s]
      BY <2>2 DEF Fill, ring
    <3>3. \A s \in Slots : Pos(s) \in Nat /\ Pos(klease) \in Nat
      BY BusyRange DEF Pos, TypeOK
    <3>4. \A s \in Slots : Pos(klease) <= Pos(s) => s \notin Block(start[w], end[w])
      BY <3>1, <3>3
    <3> QED
      BY <3>2, <3>4 DEF UnleasedFree, Pos
  <2>3. ASSUME NEW n \in Slots, Rxsync(n) PROVE UnleasedFree'
    BY <2>3, RxsyncFrees
  <2>4. ASSUME UNCHANGED <<khead, klease, slot>> PROVE UnleasedFree'
    BY <2>4 DEF UnleasedFree, Pos
  <2> QED
    BY <2>1, <2>2, <2>3, <2>4
    DEF Next, Write, Receive, PublishStore, PublishNotYet, PublishLock, PublishScan, PublishTail,
        Notify, Sleep, Poll, vars, ring
<1> QED
  BY <1>1, <1>2, ChainInvariant, PTL DEF Spec

-----------------------------------------------------------------------------
\* kr_reserve_slots_locked grants slots.
LEMMA ReserveGrants ==
  ASSUME TypeOK, TypeOK', ~ZeroLease, UnleasedFree, NEW w \in Writers, NEW n \in Requests,
         Reserve(w, n)
  PROVE  Promise!Next
<1> DEFINE m == Granted(n)
<1>1. /\ m \in Slots /\ m <= ckr_lim - Busy(khead, klease) /\ m >= 1 /\ m \in Nat
      /\ Busy(khead, klease) \in Nat /\ ckr_lim \in Nat /\ NumSlots = ckr_lim + 1
  BY GrantedRange, BusyRange, KringAssumption DEF Reserve, kr_reserve_slots_locked, TypeOK, Slots, ckr_lim
<1> HIDE DEF m
<1>2. /\ klease' = Promise!Advance(klease, m) /\ khead' = khead /\ ktail' = ktail
      /\ Promise!Distance(khead, klease) = Busy(khead, klease)
  BY <1>1, SameArithmetic DEF Reserve, kr_reserve_slots_locked, TypeOK, m
<1>3. Filled' = Filled
  <2> SUFFICES ASSUME NEW s \in Slots PROVE slot'[s] = "filled" <=> slot[s] = "filled"
    BY DEF Filled
  <2> QED
    BY ReserveTakesFree DEF Reserve, kr_reserve_slots_locked
<1>4. m \in 1 .. NumSlots - 1 /\ m \in 1 .. NumSlots - 1 - Promise!Distance(khead, klease)
  BY <1>1, <1>2
<1> QED
  BY <1>2, <1>3, <1>4 DEF Promise!Next, Promise!Grant, Filled

\* Filling a block delivers it.
LEMMA FillDelivers ==
  ASSUME TypeOK, KringChain, NEW w \in Writers, Fill(w)
  PROVE  Promise!Next
<1> DEFINE S == Block(start[w], end[w]) \ Filled
<1>1. Promise!Between(ktail, klease) = Block(ktail, klease)
  BY SameArithmetic DEF TypeOK
<1>2. S \subseteq Promise!Between(ktail, klease) /\ S \cap Filled = {}
  BY <1>1, FillsWithinLease DEF Fill
<1>3. Filled' = Filled \cup S
  BY DEF Filled, Fill, Block
<1>4. UNCHANGED <<khead, ktail, klease>>
  BY DEF Fill, ring
<1> HIDE DEF S
<1> QED
  BY <1>2, <1>3, <1>4 DEF Promise!Next, Promise!Deliver, Filled

\* The end of a scan publishes a run of filled slots.
LEMMA TailPublishes ==
  ASSUME TypeOK, TypeOK', KringChain, NEW w \in Writers, PublishTail(w)
  PROVE  Promise!Next \/ UNCHANGED Promise!ringVars
<1>1. PICK g \in [Slots -> Slots], b \in Slots : ChainInv(g, b)
  BY DEF KringChain
<1>2. PICK r \in Slots : r = Reach(g, b)
  BY <1>1, ChainBounds
<1>3. ktail' = r /\ khead' = khead /\ klease' = klease /\ Filled' = Filled
  BY <1>1, <1>2, ChainTail DEF PublishTail, Filled, KringChain
<1>4. CASE r = ktail
  BY <1>3, <1>4 DEF Promise!ringVars, Filled
<1>5. CASE r # ktail
  <2> DEFINE n == Busy(ktail, r)
  <2>1. /\ khead \in Slots /\ ktail \in Slots /\ klease \in Slots
        /\ ckr_lim \in Nat /\ NumSlots = ckr_lim + 1
    BY KringAssumption DEF TypeOK, ckr_lim
  <2>2. /\ Pos(ktail) <= Pos(r) /\ Pos(r) <= Pos(klease) /\ Pos(ktail) <= Pos(klease)
        /\ Pos(ktail) \in Nat /\ Pos(r) \in Nat /\ Pos(klease) \in Nat
    <3>1. /\ Pos(ktail) <= Pos(Reach(g, b)) /\ Pos(Reach(g, b)) <= Pos(klease)
          /\ \A s \in Slots : Pos(s) \in Nat
      BY <1>1, ChainBounds, Zenon
    <3>2. Pos(ktail) <= Pos(r) /\ Pos(r) <= Pos(klease) BY <1>2, <3>1, Zenon
    <3>3. Pos(ktail) \in Nat /\ Pos(r) \in Nat /\ Pos(klease) \in Nat BY <1>2, <2>1, <3>1, Zenon
    <3>4. \A i, j, k \in Nat : i <= j /\ j <= k => i <= k OBVIOUS
    <3> QED BY <3>2, <3>3, <3>4, Zenon
  <2>3. n = Pos(r) - Pos(ktail) /\ Busy(ktail, klease) = Pos(klease) - Pos(ktail)
    BY <2>1, <2>2, BusyBetween DEF Pos
  <2>4. n \in Slots /\ n \in Nat /\ n # 0 /\ n <= ckr_lim
    <3>1. n \in 0 .. ckr_lim /\ n \in Nat /\ n # 0
      BY <1>5, <2>1, BusyRange, BusyZero
    <3> QED
      BY <3>1, <2>1 DEF Slots
  <2>5. SLOT_INCREMENT(ktail, n) = r
    <3>1. Busy(ktail, ktail) = 0 /\ Busy(ktail, ktail) + n <= ckr_lim
      BY <2>1, <2>4, BusyZero
    <3>2. Busy(ktail, SLOT_INCREMENT(ktail, n)) = n
      BY <2>1, <2>4, <3>1, BusyIncrement
    <3> QED
      BY <3>2, <2>1, <2>4, IncrementInRing, BusyInjective
  <2>6. Block(ktail, r) \subseteq Filled
    <3> SUFFICES ASSUME NEW s \in Slots, s \in Block(ktail, r) PROVE slot[s] = "filled"
      BY DEF Block, Filled
    <3>1. Pos(s) < Pos(r)
      BY <2>1, <2>2, BlockSeenFrom DEF Pos
    <3> QED
      BY <1>1, <1>2, <3>1 DEF ChainInv, ChainFilled
  <2> HIDE DEF n
  <2>7. /\ Promise!Distance(ktail, klease) = Busy(ktail, klease)
        /\ Promise!Advance(ktail, n) = r
        /\ Promise!Between(ktail, r) = Block(ktail, r)
    BY <2>1, <2>4, <2>5, SameArithmetic
  <2>8. n \in 1 .. NumSlots - 1 /\ n \in 1 .. Promise!Distance(ktail, klease)
    BY <2>1, <2>2, <2>3, <2>4, <2>7
  <2>9. Promise!Between(ktail, Promise!Advance(ktail, n)) \subseteq Filled
    BY <2>6, <2>7
  <2> QED
    BY <1>3, <2>7, <2>8, <2>9 DEF Promise!Next, Promise!Publish, Filled
<1> QED
  BY <1>4, <1>5

\* The receiver takes slots.
LEMMA RxsyncTakes ==
  ASSUME TypeOK, NEW n \in Slots, Rxsync(n)
  PROVE  Promise!Next
<1>1. /\ khead \in Slots /\ ktail \in Slots
      /\ ckr_lim \in Nat /\ NumSlots = ckr_lim + 1 /\ n \in Nat /\ n <= ckr_lim
  BY KringAssumption DEF TypeOK, ckr_lim, Slots
<1>2. /\ n \in 1 .. Busy(khead, ktail) /\ khead' = SLOT_INCREMENT(khead, n)
      /\ ktail' = ktail /\ klease' = klease
      /\ \A s \in Slots : slot'[s] = IF Busy(khead, s) < n THEN "free" ELSE slot[s]
  BY DEF Rxsync
<1>3. Busy(khead, SLOT_INCREMENT(khead, n)) = n /\ SLOT_INCREMENT(khead, n) \in Slots
  <2>1. Busy(khead, khead) = 0 /\ Busy(khead, khead) + n <= ckr_lim
    BY <1>1, BusyZero
  <2> QED
    BY <2>1, <1>1, BusyIncrement, IncrementInRing
<1>4. Filled' = Filled \ Block(khead, SLOT_INCREMENT(khead, n))
  BY <1>2, <1>3 DEF Filled, Block
<1>5. /\ Promise!Distance(khead, ktail) = Busy(khead, ktail)
      /\ Promise!Advance(khead, n) = SLOT_INCREMENT(khead, n)
      /\ Promise!Between(khead, SLOT_INCREMENT(khead, n)) = Block(khead, SLOT_INCREMENT(khead, n))
  BY <1>1, <1>3, SameArithmetic
<1>6. n \in 1 .. NumSlots - 1
  BY <1>1, <1>2
<1> QED
  BY <1>2, <1>4, <1>5, <1>6 DEF Promise!Next, Promise!Take, Filled

\* The lease protocol implements the ordered ring: slots are published in ring
\* order and only when filled, although kr_publish_slots is called in any order
\* and stores to ckr_leases without the lock.
THEOREM KeepsPromise ==
  ASSUME ~ZeroLease, ~AllowLap
  PROVE  Spec => ImplementsOrderedRing
<1>1. Init => Promise!Init
  BY DEF Init, Promise!Init
<1>2. TypeOK /\ TypeOK' /\ KringChain /\ UnleasedFree /\ [Next]_vars => [Promise!Next]_(Promise!ringVars)
  <2> SUFFICES ASSUME TypeOK, TypeOK', KringChain, UnleasedFree, [Next]_vars
               PROVE  Promise!Next \/ UNCHANGED Promise!ringVars
    OBVIOUS
  <2>1. ASSUME NEW w \in Writers, NEW n \in Requests, Reserve(w, n)
        PROVE  Promise!Next
    BY <2>1, ReserveGrants
  <2>2. ASSUME NEW w \in Writers, Fill(w) PROVE Promise!Next
    BY <2>2, FillDelivers
  <2>3. ASSUME NEW w \in Writers, PublishTail(w)
        PROVE  Promise!Next \/ UNCHANGED Promise!ringVars
    BY <2>3, TailPublishes
  <2>4. ASSUME NEW n \in Slots, Rxsync(n) PROVE Promise!Next
    BY <2>4, RxsyncTakes
  <2>5. ASSUME UNCHANGED <<khead, ktail, klease, slot>> PROVE UNCHANGED Promise!ringVars
    BY <2>5 DEF Promise!ringVars
  <2> QED
    BY <2>1, <2>2, <2>3, <2>4, <2>5
    DEF Next, Write, Receive, PublishStore, PublishNotYet, PublishLock, PublishScan,
        Notify, Sleep, Poll, vars, ring
<1> QED
  BY <1>1, <1>2, ChainInvariant, UnleasedSlotsAreFree, PTL
  DEF Spec, ImplementsOrderedRing, Promise!Spec
============================================================================
