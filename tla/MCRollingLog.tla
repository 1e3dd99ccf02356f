---------------------------- MODULE MCRollingLog ----------------------------
(* RollingLog for TLC: unbuffered, and with a buffer of one or two events. *)
EXTENDS RollingLog

MCBufferSizes == {0, 1, 2}
=============================================================================
