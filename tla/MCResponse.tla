----------------------------- MODULE MCResponse -----------------------------
(* Small instances of Response for TLC. *)
EXTENDS Response, TLC

CONSTANTS n1, n2, n3

ShortAndLong == (n1 :> 3) @@ (n2 :> 12) @@ (n3 :> 5)
=============================================================================
