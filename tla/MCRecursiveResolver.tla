------------------------- MODULE MCRecursiveResolver -------------------------
(* Small instances of RecursiveResolver for TLC. *)
EXTENDS RecursiveResolver, TLC

CONSTANTS q1, q2, q3

DistinctIds == (q1 :> 1) @@ (q2 :> 2) @@ (q3 :> 3)
=============================================================================
