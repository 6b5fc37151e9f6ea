---------------------------- MODULE MCKernQueue ----------------------------
(* Elements are interchangeable, and so are the heads of one method. *)
EXTENDS KernQueue, TLC

Interchangeable ==
  Permutations(Elements) \cup Permutations(LinkQueues) \cup Permutations(ChainQueues)
=============================================================================
