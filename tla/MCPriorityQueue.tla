-------------------------- MODULE MCPriorityQueue --------------------------
(* Elements are interchangeable: no routine or property tells them apart. *)
EXTENDS PriorityQueue, TLC

AnyElement == Permutations(Elements)
=============================================================================
