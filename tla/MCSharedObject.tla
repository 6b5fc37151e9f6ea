--------------------------- MODULE MCSharedObject ---------------------------
(* Two threads with a pointer of their own each. *)
EXTENDS SharedObject, TLC

CONSTANTS t1, t2, p1, p2

LocalsOf == t1 :> {p1} @@ t2 :> {p2}

Interchangeable == Permutations(Objects) \cup Permutations(Weaks)
=============================================================================
