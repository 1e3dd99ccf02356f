---------------------------- MODULE RequestService ----------------------------
(***************************************************************************)
(* What the DNS server promises about the datagrams it accepts, whatever   *)
(* the number of worker threads: a request is accepted once, requests are  *)
(* taken up in the order in which they were accepted, each is taken up by  *)
(* one worker only, and each is finished (answered, or its answer failed   *)
(* to leave) at most once.                                                 *)
(***************************************************************************)
EXTENDS Sequences

CONSTANT Requests       \* the datagrams that clients may send

VARIABLES
  pending,              \* accepted requests that no worker has taken up
  serving,              \* requests a worker is working on
  finished              \* requests whose response was handed to sendto

serviceVars == <<pending, serving, finished>>

Known == {pending[i] : i \in DOMAIN pending} \cup serving \cup finished

ServiceInit == pending = <<>> /\ serving = {} /\ finished = {}

Accept(r) ==
  /\ r \notin Known
  /\ pending' = Append(pending, r)
  /\ UNCHANGED <<serving, finished>>

TakeUp ==
  /\ pending # <<>>
  /\ pending' = Tail(pending)
  /\ serving' = serving \cup {Head(pending)}
  /\ UNCHANGED finished

Finish(r) ==
  /\ r \in serving
  /\ serving' = serving \ {r}
  /\ finished' = finished \cup {r}
  /\ UNCHANGED pending

ServiceNext == TakeUp \/ \E r \in Requests : Accept(r) \/ Finish(r)

ServiceSpec == ServiceInit /\ [][ServiceNext]_serviceVars
=============================================================================
