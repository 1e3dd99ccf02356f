----------------------------- MODULE MCDNSServer -----------------------------
(* Small instances of DNSServer for TLC. *)
EXTENDS DNSServer

CONSTANTS r1, r2
=============================================================================
