---------------------------- MODULE OrderedRing ----------------------------
(*************************************************************************)
(* What the lease protocol of a channel ring promises: slots are granted *)
(* in ring order, become filled in any order, are shown to the receiver  *)
(* in ring order and only once filled, and are granted again only after  *)
(* the receiver gave them back.  No tickets, no lease array and no lock. *)
(*************************************************************************)
EXTENDS Integers

CONSTANT NumSlots

VARIABLES head, tail, lease, filled

ringVars == <<head, tail, lease, filled>>

Distance(i, j) == IF j < i THEN j - i + NumSlots ELSE j - i

Advance(i, n) == IF i + n >= NumSlots THEN i + n - NumSlots ELSE i + n

Between(i, j) == {s \in 0 .. NumSlots - 1 : Distance(i, s) < Distance(i, j)}

Init == head = 0 /\ tail = 0 /\ lease = 0 /\ filled = {}

\* One slot stays unused: a full ring would look like an empty one.
Grant(n) ==
  /\ n \in 1 .. NumSlots - 1 - Distance(head, lease)
  /\ lease' = Advance(lease, n)
  /\ UNCHANGED <<head, tail, filled>>

Deliver(S) ==
  /\ S \subseteq Between(tail, lease) \ filled
  /\ filled' = filled \cup S
  /\ UNCHANGED <<head, tail, lease>>

Publish(n) ==
  /\ n \in 1 .. Distance(tail, lease)
  /\ Between(tail, Advance(tail, n)) \subseteq filled
  /\ tail' = Advance(tail, n)
  /\ UNCHANGED <<head, lease, filled>>

Take(n) ==
  /\ n \in 1 .. Distance(head, tail)
  /\ head' = Advance(head, n)
  /\ filled' = filled \ Between(head, Advance(head, n))
  /\ UNCHANGED <<tail, lease>>

Next ==
  \/ \E n \in 1 .. NumSlots - 1 : Grant(n) \/ Publish(n) \/ Take(n)
  \/ \E S \in SUBSET Between(tail, lease) : Deliver(S)

Spec == Init /\ [][Next]_ringVars
=============================================================================
