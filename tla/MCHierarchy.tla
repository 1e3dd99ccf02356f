----------------------------- MODULE MCHierarchy ----------------------------
(* Hierarchy for TLC: two chains of names below one label, so that several *)
(* loggers wait in one provision node, and a name that "root" starts with. *)
EXTENDS Hierarchy, TLC

MCNames == { <<"a">>, <<"a", "b">>, <<"a", "b", "c">>, <<"a", "d">>,
             <<"r">>, <<"r", "s">> }
MCSymmetry == Permutations(Threads)
MCRootLike == { <<"r">> }
=============================================================================
