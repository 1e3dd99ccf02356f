------------------------------ MODULE MCStartup ------------------------------
(* Small instances of Startup for TLC: atoi gives 0 for text that is no     *)
(* number.                                                                 *)
EXTENDS Startup

SomeNumbers == {-1, 0, 8, 65589}
=============================================================================
