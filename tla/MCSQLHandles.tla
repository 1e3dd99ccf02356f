---------------------------- MODULE MCSQLHandles ----------------------------
(* SQLHandles for TLC. *)
EXTENDS SQLHandles, TLC

MCSymmetry == Permutations(Workers)
=============================================================================
