------------------------------ MODULE KringInv ------------------------------
(*************************************************************************)
(* The inductive invariant behind Kring's safety, for writers that are   *)
(* not lapped and do not reserve on a full ring.                         *)
(*                                                                       *)
(* The blocks that have been granted and that no scan has taken form a   *)
(* chain: tickets b, b+1, ... up to ckr_lease_idx, the block of ticket t *)
(* beginning at slot g[t] and ending where the next one begins, the last *)
(* one at ckr_klease.  Neither b nor g is kept by the code, so they are  *)
(* quantified.                                                           *)
(*************************************************************************)
EXTENDS Kring

\* Slots in the order in which the receiver meets them.
Pos(s) == Busy(khead, s)

Outstanding(b, t) == Busy(b, t) < Busy(b, lease_idx)

LeaseStart(g, t) == IF t = lease_idx THEN klease ELSE g[t]

LeaseEnd(g, t) == LeaseStart(g, SLOT_NEXT(t))

\* Where the chain begins: everything before it has been taken by a scan.
Reach(g, b) == LeaseStart(g, b)

\* Each block has at least one slot, the chain lies between the published slots
\* and ckr_klease in ring order, and so there are no more tickets than slots.
ChainOrder(g, b) ==
  /\ Pos(ktail) <= Pos(Reach(g, b)) /\ Pos(Reach(g, b)) <= Pos(klease)
  /\ \A t \in Slots : Outstanding(b, t) =>
       /\ Pos(Reach(g, b)) <= Pos(g[t])
       /\ Pos(g[t]) < Pos(LeaseEnd(g, t))
       /\ Pos(LeaseEnd(g, t)) <= Pos(klease)
       /\ Busy(t, lease_idx) <= Pos(klease) - Pos(g[t])
  /\ \A t, u \in Slots : Outstanding(b, u) /\ Busy(b, t) < Busy(b, u) =>
       Pos(LeaseEnd(g, t)) <= Pos(g[u])

\* A lease entry in the chain is empty or tells the end of its block, and then
\* the block is filled; so is everything before the chain.
ChainFilled(g, b) ==
  /\ \A t \in Slots : Outstanding(b, t) /\ leases[t] # CKR_NOSLOT =>
       /\ leases[t] = LeaseEnd(g, t)
       /\ \A s \in Slots : Pos(g[t]) <= Pos(s) /\ Pos(s) < Pos(LeaseEnd(g, t)) => slot[s] = "filled"
  /\ \A s \in Slots : Pos(s) < Pos(Reach(g, b)) => slot[s] = "filled"

\* The writer's locals are those of its block in the chain.
InChain(g, b, w) ==
  /\ Outstanding(b, ticket[w])
  /\ start[w] = g[ticket[w]]
  /\ end[w] = LeaseEnd(g, ticket[w])

\* A scan has taken the writer's block, and the ring has not come round to it.
Taken(g, b, w) ==
  /\ Busy(start[w], Reach(g, b)) > 0
  /\ Busy(start[w], Reach(g, b)) <= Busy(start[w], klease)

WriterInv(g, b, w) ==
  /\ pc[w] \in {"filling", "filled"} =>
       InChain(g, b, w) /\ leases[ticket[w]] = CKR_NOSLOT
  /\ pc[w] = "filled" =>
       \A s \in Slots : Pos(start[w]) <= Pos(s) /\ Pos(s) < Pos(end[w]) => slot[s] = "filled"
  /\ pc[w] = "stored" =>
       \/ InChain(g, b, w) /\ leases[ticket[w]] = end[w]
       \/ Taken(g, b, w)
  /\ pc[w] = "scan" =>
       /\ ticket[w] = b /\ start[w] = ktail
       /\ \/ Reach(g, b) = ktail /\ InChain(g, b, w) /\ leases[b] = end[w]
          \/ Reach(g, b) # ktail /\ Reach(g, b) = end[w]

\* Somebody sees to every block of the chain: an unfinished one belongs to a
\* writer that has yet to store its end, and the first one, when finished, to a
\* writer that has yet to take the lock or to a scan.
ChainOwned(g, b) ==
  /\ \A t \in Slots : Outstanding(b, t) /\ leases[t] = CKR_NOSLOT =>
       \E w \in Writers : pc[w] \in {"filling", "filled"} /\ ticket[w] = t
  /\ b # lease_idx /\ leases[b] # CKR_NOSLOT =>
       \E w \in Writers :
         \/ pc[w] = "stored" /\ ticket[w] = b /\ InChain(g, b, w)
         \/ pc[w] = "scan"

OneWriterPerTicket ==
  \A v, w \in Writers :
    /\ v # w
    /\ pc[v] \in {"filling", "filled"} /\ pc[w] \in {"filling", "filled"}
    => ticket[v] # ticket[w]

\* When nobody scans, the chain begins at ckr_ktail.
ChainInv(g, b) ==
  /\ qlock = NoWriter => Reach(g, b) = ktail
  /\ ChainOrder(g, b)
  /\ ChainFilled(g, b)
  /\ ChainOwned(g, b)
  /\ \A w \in Writers : WriterInv(g, b, w)

\* The blocks granted and not yet taken form a chain in ring order, and every
\* writer, published slot and lease entry has its place in it.
KringChain ==
  /\ OneWriterPerTicket
  /\ \E g \in [Slots -> Slots], b \in Slots : ChainInv(g, b)

\* Nothing is written beyond ckr_klease: what no writer holds is what the
\* receiver has given back.
UnleasedFree == \A s \in Slots : Pos(klease) <= Pos(s) => slot[s] = "free"
=============================================================================
