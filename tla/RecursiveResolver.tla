-------------------------- MODULE RecursiveResolver --------------------------
(***************************************************************************)
(* DNSResolver::recursiveResolve on one worker's UDP socket.  The worker   *)
(* forwards one query at a time and takes the next datagram of the socket  *)
(* for the answer, checked by its identifier only.  The network and the    *)
(* recursive server may lose, delay, reorder and duplicate datagrams, and  *)
(* refuse a query, which winsock reports to a later recv.                  *)
(***************************************************************************)
EXTENDS Naturals, Sequences, FiniteSets, Functions

CONSTANTS
  Queries,              \* the queries this worker forwards, each once
  Id,                   \* the identifier each client chose
  Refusal,              \* what recv reports for a refused query
  None,                 \* no query
  MaxDuplicates,        \* bound on datagrams the network duplicates
  MaxSelectErrors,      \* bound on failures of select()
  MayLose               \* may datagrams get lost

ASSUME ResolverAssumption ==
  /\ IsFiniteSet(Queries) /\ Refusal \notin Queries /\ None \notin Queries
  /\ Id \in [Queries -> Nat]
  /\ MaxDuplicates \in Nat /\ MaxSelectErrors \in Nat
  /\ MayLose \in BOOLEAN

VARIABLES
  current,              \* the query recursiveResolve is working on
  outcome,              \* how recursiveResolve ended for each query
  written,              \* whose answer it wrote into the packet
  toServer,             \* queries on their way to the recursive server
  network,              \* answers on their way back: <<query, copy>>
  buffer,               \* the worker's socket
  duplicates, selectErrors

vars == <<current, outcome, written, toServer, network, buffer, duplicates, selectErrors>>

Copies == 0 .. MaxDuplicates

Init ==
  /\ current = None
  /\ outcome = [q \in Queries |-> "none"] /\ written = [q \in Queries |-> None]
  /\ toServer = {} /\ network = {} /\ buffer = <<>>
  /\ duplicates = 0 /\ selectErrors = 0

-----------------------------------------------------------------------------
Sent(q) == {<<q, 0>>}

Forward(q) ==
  /\ current = None /\ outcome[q] = "none"
  /\ current' = q
  /\ outcome' = [outcome EXCEPT ![q] = "forwarded"]
  /\ toServer' = toServer \cup Sent(q)
  /\ UNCHANGED <<written, network, buffer, duplicates, selectErrors>>

(* sendto reports an error. *)
ForwardFails(q) ==
  /\ current = None /\ outcome[q] = "none"
  /\ outcome' = [outcome EXCEPT ![q] = "error"]
  /\ UNCHANGED <<current, written, toServer, network, buffer, duplicates, selectErrors>>

(* select reports an error: the answer is not awaited. *)
SelectFails ==
  /\ current # None
  /\ selectErrors < MaxSelectErrors
  /\ selectErrors' = selectErrors + 1
  /\ outcome' = [outcome EXCEPT ![current] = "error"]
  /\ current' = None
  /\ UNCHANGED <<written, toServer, network, buffer, duplicates>>

IdNotCompared(d, q) == TRUE
IdMatches(d, q) == Id[d] = Id[q]

(* What recv made of the head of the socket: an error, the exception of a  *)
(* wrong identifier, or the answer.                                        *)
Judged(d) ==
  IF d = Refusal THEN "error"
  ELSE IF IdMatches(d, current) THEN "answered" ELSE "mismatch"

Peeked(s) == s
Consumed(s) == Tail(s)

WrittenAnyway(d) == d
Written(d) == IF d = Refusal THEN None ELSE d

(* select returns once the socket has something; recv takes its head. *)
ReadyMatching == buffer # <<>> /\ Judged(Head(buffer)) # "mismatch"
Ready == buffer # <<>>

Receive ==
  /\ current # None /\ Ready
  /\ outcome' = [outcome EXCEPT ![current] = Judged(Head(buffer))]
  /\ written' = [written EXCEPT ![current] = Written(Head(buffer))]
  /\ buffer' = Consumed(buffer)
  /\ current' = None
  /\ UNCHANGED <<toServer, network, duplicates, selectErrors>>

-----------------------------------------------------------------------------
(* The recursive server and the network. *)
ServerAnswers(m) ==
  /\ m \in toServer
  /\ toServer' = toServer \ {m}
  /\ network' = network \cup {m}
  /\ UNCHANGED <<current, outcome, written, buffer, duplicates, selectErrors>>

ServerRefuses(m) ==
  /\ m \in toServer
  /\ toServer' = toServer \ {m}
  /\ buffer' = Append(buffer, Refusal)
  /\ UNCHANGED <<current, outcome, written, network, duplicates, selectErrors>>

Deliver(m) ==
  /\ m \in network
  /\ network' = network \ {m}
  /\ buffer' = Append(buffer, m[1])
  /\ UNCHANGED <<current, outcome, written, toServer, duplicates, selectErrors>>

Duplicate(m) ==
  /\ m \in network /\ duplicates < MaxDuplicates
  /\ duplicates' = duplicates + 1
  /\ network' = network \cup {<<m[1], duplicates + 1>>}
  /\ UNCHANGED <<current, outcome, written, toServer, buffer, selectErrors>>

Lose(m) ==
  /\ MayLose
  /\ m \in toServer \cup network
  /\ toServer' = toServer \ {m} /\ network' = network \ {m}
  /\ UNCHANGED <<current, outcome, written, buffer, duplicates, selectErrors>>

WorkerStep == (\E q \in Queries : Forward(q) \/ ForwardFails(q)) \/ SelectFails \/ Receive

ServerStep == \E m \in toServer : ServerAnswers(m) \/ ServerRefuses(m)

NetworkStep == \E m \in network : Deliver(m) \/ Duplicate(m)

LossStep == \E m \in toServer \cup network : Lose(m)

(* Every query has been dealt with, or the worker is blocked in select(). *)
Rest ==
  /\ toServer = {} /\ network = {}
  /\ IF current = None THEN \A q \in Queries : outcome[q] # "none" ELSE ~Ready
  /\ UNCHANGED vars

Next == WorkerStep \/ ServerStep \/ NetworkStep \/ LossStep \/ Rest

Spec == Init /\ [][Next]_vars

(* The worker runs, and what is not lost is answered and delivered. *)
FairSpec ==
  /\ Spec
  /\ WF_vars(Receive) /\ WF_vars(ServerStep)
  /\ WF_vars(\E m \in network : Deliver(m))

-----------------------------------------------------------------------------
(* The values of the worker's locals, the datagrams under way and the socket. *)
TypeOK ==
  /\ current \in Queries \cup {None}
  /\ outcome \in [Queries -> {"none", "forwarded", "error", "mismatch", "answered"}]
  /\ written \in [Queries -> Queries \cup {None}]
  /\ toServer \subseteq Queries \X Copies
  /\ network \subseteq Queries \X Copies
  /\ buffer \in Seq(Queries \cup {Refusal})
  /\ duplicates \in 0 .. MaxDuplicates /\ selectErrors \in 0 .. MaxSelectErrors

(* When clients choose distinct identifiers, a packet that recursiveResolve *)
(* returns answers the query it forwarded, however late, doubled or        *)
(* reordered the datagrams are.                                            *)
OwnAnswer ==
  IsInjective(Id) =>
    \A q \in Queries : outcome[q] = "answered" => written[q] = q

(* Datagrams that nobody waits for: every call of recursiveResolve sends   *)
(* one datagram and takes one, so a surplus has a duplicate or a select()  *)
(* that failed as its cause.                                               *)
Outstanding == Cardinality(toServer) + Cardinality(network) + Len(buffer)
Awaited == IF current = None THEN 0 ELSE 1
BacklogBounded == Outstanding <= Awaited + duplicates + selectErrors

(* Until the network duplicates a datagram or select() fails, no answer is *)
(* taken for that of another query: "Recursive response ID mismatch" is    *)
(* never thrown.                                                           *)
NoMismatchWithoutFault ==
  duplicates + selectErrors = 0 =>
    \A q \in Queries : outcome[q] # "mismatch"

(* recursiveResolve returns, whatever is at the head of the socket, unless *)
(* datagrams were lost until nothing is left that could end its select().  *)
RecursionReturns ==
  \A q \in Queries :
    outcome[q] = "forwarded" ~> outcome[q] # "forwarded" \/ Outstanding = 0
=============================================================================
