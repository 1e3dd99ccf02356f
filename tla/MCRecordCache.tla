---------------------------- MODULE MCRecordCache ----------------------------
(* Small instances of RecordCache for TLC. *)
EXTENDS RecordCache

CONSTANTS n1, n2, a1, w1, w2

Rec(n, v, t) == [name |-> n, value |-> v, ttl |-> t]

(* An alias and its address, the names in the other order with an address  *)
(* that expires at once, and an alias that closes a circle.                *)
SomeAnswers ==
  {<<Rec(n1, n2, 2), Rec(n2, a1, 1)>>, <<Rec(n2, a1, 0), Rec(n1, a1, 1)>>, <<Rec(n2, n1, 1)>>}
=============================================================================
