--------------------------- MODULE ResolverProofs ---------------------------
(***************************************************************************)
(* RecursiveResolver's safety for any queries, duplicates and failures of  *)
(* select().  The count of datagrams is what tells that nothing is left    *)
(* when no query is being worked on, and so that the next one meets only   *)
(* its own answer.                                                         *)
(***************************************************************************)
EXTENDS RecursiveResolver, FiniteSetTheorems, SequenceTheorems, TLAPS

USE ResolverAssumption

Datagrams == Queries \X Copies
Payload == Queries \cup {Refusal}

(* Sets of datagrams are finite, so they can be counted.                   *)
LEMMA DatagramsFinite == ASSUME NEW S \in SUBSET Datagrams
                         PROVE  IsFiniteSet(S) /\ Cardinality(S) \in Nat
<1>1. IsFiniteSet(Copies) BY FS_Interval DEF Copies
<1>2. IsFiniteSet(Datagrams) BY Zenon, <1>1, FS_Product DEF Datagrams
<1> QED BY Zenon, <1>2, FS_Subset, FS_CardinalityType

(* A new socket has the types of TypeOK.                                   *)
LEMMA TypeInit == Init => TypeOK
BY EmptySeq DEF Init, TypeOK, Copies

(* Every step of the worker, the server and the network keeps them.        *)
LEMMA TypeNext == TypeOK /\ [Next]_vars => TypeOK'
<1> SUFFICES ASSUME TypeOK, [Next]_vars PROVE TypeOK'
  BY Zenon
<1>1. ASSUME NEW q \in Queries, Forward(q) PROVE TypeOK'
  BY <1>1 DEF Forward, Sent, TypeOK, Copies
<1>2. ASSUME NEW q \in Queries, ForwardFails(q) PROVE TypeOK'
  BY Zenon, <1>2 DEF ForwardFails, TypeOK
<1>3. CASE SelectFails
  BY <1>3 DEF SelectFails, TypeOK
<1>4. CASE Receive
  <2>1. Head(buffer) \in Payload /\ buffer' \in Seq(Payload)
    BY Zenon, <1>4, HeadTailProperties DEF Receive, Ready, Consumed, TypeOK, Payload
  <2>2. Written(Head(buffer)) \in Queries \cup {None}
    BY Zenon, <2>1 DEF Written, Payload
  <2>3. Judged(Head(buffer)) \in {"error", "answered", "mismatch"}
    BY Zenon DEF Judged
  <2> QED BY Zenon, <1>4, <2>1, <2>2, <2>3 DEF Receive, TypeOK, Payload
<1>5. ASSUME NEW m \in toServer, ServerAnswers(m) PROVE TypeOK'
  BY Zenon, <1>5 DEF ServerAnswers, TypeOK
<1>6. ASSUME NEW m \in toServer, ServerRefuses(m) PROVE TypeOK'
  BY Zenon, <1>6, AppendProperties DEF ServerRefuses, TypeOK
<1>7. ASSUME NEW m \in network, Deliver(m) PROVE TypeOK'
  <2>1. m[1] \in Payload BY Zenon DEF TypeOK, Payload
  <2> QED BY Zenon, <1>7, <2>1, AppendProperties DEF Deliver, TypeOK, Payload
<1>8. ASSUME NEW m \in network, Duplicate(m) PROVE TypeOK'
  <2>1. m[1] \in Queries BY Zenon DEF TypeOK
  <2>2. duplicates' \in Copies BY <1>8 DEF Duplicate, TypeOK, Copies
  <2> QED BY <1>8, <2>1, <2>2 DEF Duplicate, TypeOK, Copies
<1>9. ASSUME NEW m \in toServer \cup network, Lose(m) PROVE TypeOK'
  BY Zenon, <1>9 DEF Lose, TypeOK
<1>10. CASE UNCHANGED vars
  BY Zenon, <1>10 DEF vars, TypeOK
<1> QED
  BY Zenon, <1>1, <1>2, <1>3, <1>4, <1>5, <1>6, <1>7, <1>8, <1>9, <1>10
  DEF Next, WorkerStep, ServerStep, NetworkStep, LossStep, Rest

(* The worker's locals, the datagrams and the socket keep their types. *)
THEOREM TypeCorrect == Spec => []TypeOK
BY TypeInit, TypeNext, PTL DEF Spec
-----------------------------------------------------------------------------
(* Whatever answer was accepted has the identifier of the query. *)
OwnInv ==
  \A q \in Queries : outcome[q] = "answered" => written[q] \in Queries /\ Id[written[q]] = Id[q]

(* Only recv accepts an answer, after it compared the identifiers.         *)
LEMMA OwnNext == TypeOK /\ OwnInv /\ [Next]_vars => OwnInv'
<1> SUFFICES ASSUME TypeOK, OwnInv, [Next]_vars, NEW p \in Queries, outcome'[p] = "answered"
             PROVE  written'[p] \in Queries /\ Id[written'[p]] = Id[p]
  BY Zenon DEF OwnInv
<1>1. ASSUME NEW q \in Queries, Forward(q) \/ ForwardFails(q)
      PROVE  outcome[p] = "answered" /\ written' = written
  BY Zenon, <1>1 DEF Forward, ForwardFails, TypeOK
<1>2. ASSUME SelectFails PROVE outcome[p] = "answered" /\ written' = written
  BY Zenon, <1>2 DEF SelectFails, TypeOK
<1>3. CASE Receive
  <2>1. Head(buffer) \in Payload
    BY Zenon, <1>3, HeadTailProperties DEF Receive, Ready, TypeOK, Payload
  <2>2. CASE p = current
    <3>1. Judged(Head(buffer)) = "answered" /\ written'[p] = Written(Head(buffer))
      BY Zenon, <1>3, <2>2 DEF Receive, TypeOK
    <3> QED BY Zenon, <2>1, <2>2, <3>1 DEF Judged, IdMatches, Written, Payload
  <2>3. CASE p # current
    BY Zenon, <1>3, <2>3 DEF Receive, TypeOK, OwnInv
  <2> QED BY Zenon, <2>2, <2>3
<1>4. ASSUME ServerStep \/ NetworkStep \/ LossStep \/ Rest \/ UNCHANGED vars
      PROVE  outcome' = outcome /\ written' = written
  BY Zenon, <1>4 DEF ServerStep, NetworkStep, LossStep, Rest, vars, ServerAnswers, ServerRefuses,
              Deliver, Duplicate, Lose
<1> QED BY Zenon, <1>1, <1>2, <1>3, <1>4 DEF OwnInv, Next, WorkerStep

(* With distinct identifiers recursiveResolve returns no other query's     *)
(* answer, whatever the network does.                                      *)
THEOREM AnswersOwnQuery == Spec => []OwnAnswer
<1>1. Init => OwnInv BY Zenon DEF Init, OwnInv
<1>2. OwnInv => OwnAnswer BY Zenon DEF OwnInv, OwnAnswer, IsInjective
<1> QED BY <1>1, <1>2, OwnNext, TypeCorrect, PTL DEF Spec
-----------------------------------------------------------------------------
(* A call sends one datagram and takes one; a duplicate or a failed        *)
(* select() adds one to the count and to the bound alike.                  *)
LEMMA BacklogNext == TypeOK /\ BacklogBounded /\ [Next]_vars => BacklogBounded'
<1> SUFFICES ASSUME TypeOK, BacklogBounded, [Next]_vars PROVE BacklogBounded'
  BY Zenon
<1> DEFINE S == Cardinality(toServer)
           N == Cardinality(network)
           L == Len(buffer)
<1>0. /\ IsFiniteSet(toServer) /\ S \in Nat
      /\ IsFiniteSet(network) /\ N \in Nat
      /\ L \in Nat /\ duplicates \in Nat /\ selectErrors \in Nat
      /\ S + N + L <= Awaited + duplicates + selectErrors
      /\ Awaited \in {0, 1} /\ Awaited' \in {0, 1}
  BY DatagramsFinite DEF TypeOK, Datagrams, BacklogBounded, Outstanding, Awaited
<1>1. SUFFICES S' + N' + L' <= Awaited' + duplicates' + selectErrors'
  BY Zenon DEF BacklogBounded, Outstanding
<1>2. ASSUME NEW q \in Queries, Forward(q) PROVE S' \in {S, S + 1} /\ N' = N /\ L' = L
  BY Zenon, <1>0, <1>2, FS_AddElement DEF Forward, Sent
<1>3. ASSUME NEW q \in Queries, Forward(q)
      PROVE  Awaited = 0 /\ Awaited' = 1 /\ UNCHANGED <<duplicates, selectErrors>>
  BY Zenon, <1>3 DEF Forward, Awaited
<1>4. ASSUME NEW q \in Queries, ForwardFails(q)
      PROVE  UNCHANGED <<S, N, L, Awaited, duplicates, selectErrors>>
  BY Zenon, <1>4 DEF ForwardFails, Awaited
<1>5. ASSUME SelectFails
      PROVE  /\ UNCHANGED <<S, N, L, duplicates>> /\ Awaited = 1 /\ Awaited' = 0
             /\ selectErrors' = selectErrors + 1
  BY Zenon, <1>5 DEF SelectFails, Awaited
<1>6. ASSUME Receive
      PROVE  /\ UNCHANGED <<S, N, duplicates, selectErrors>> /\ Awaited = 1 /\ Awaited' = 0
             /\ L' = L - 1
  BY Zenon, <1>6, HeadTailProperties DEF Receive, Ready, Consumed, Awaited, TypeOK
<1>7. ASSUME NEW m \in toServer, ServerAnswers(m)
      PROVE  /\ S' = S - 1 /\ N' \in {N, N + 1}
             /\ UNCHANGED <<L, Awaited, duplicates, selectErrors>>
  BY Zenon, <1>0, <1>7, FS_AddElement, FS_RemoveElement DEF ServerAnswers, Awaited
<1>8. ASSUME NEW m \in toServer, ServerRefuses(m)
      PROVE  /\ S' = S - 1 /\ L' = L + 1
             /\ UNCHANGED <<N, Awaited, duplicates, selectErrors>>
  <2>1. L' = L + 1
    BY <1>8, AppendProperties DEF ServerRefuses, TypeOK
  <2>2. S' = S - 1
    BY Zenon, <1>0, <1>8, FS_RemoveElement DEF ServerRefuses
  <2> QED BY Zenon, <1>8, <2>1, <2>2 DEF ServerRefuses, Awaited
<1>9. ASSUME NEW m \in network, Deliver(m)
      PROVE  /\ N' = N - 1 /\ L' = L + 1
             /\ UNCHANGED <<S, Awaited, duplicates, selectErrors>>
  <2>1. m[1] \in Payload BY Zenon DEF TypeOK, Payload
  <2>2. L' = L + 1
    BY <1>9, <2>1, AppendProperties DEF Deliver, TypeOK, Payload
  <2>3. N' = N - 1
    BY Zenon, <1>0, <1>9, FS_RemoveElement DEF Deliver
  <2> QED BY Zenon, <1>9, <2>2, <2>3 DEF Deliver, Awaited
<1>10. ASSUME NEW m \in network, Duplicate(m)
       PROVE  /\ N' \in {N, N + 1} /\ duplicates' = duplicates + 1
              /\ UNCHANGED <<S, L, Awaited, selectErrors>>
  BY Zenon, <1>0, <1>10, FS_AddElement DEF Duplicate, Awaited
<1>11. ASSUME NEW m \in toServer \cup network, Lose(m)
       PROVE  /\ S' \in {S, S - 1} /\ N' \in {N, N - 1}
              /\ UNCHANGED <<L, Awaited, duplicates, selectErrors>>
  BY Zenon, <1>0, <1>11, FS_RemoveElement DEF Lose, Awaited
<1>12. ASSUME UNCHANGED vars PROVE UNCHANGED <<S, N, L, Awaited, duplicates, selectErrors>>
  BY Zenon, <1>12 DEF vars, Awaited
<1> HIDE DEF S, N, L
<1> QED
  BY <1>0, <1>2, <1>3, <1>4, <1>5, <1>6, <1>7, <1>8, <1>9, <1>10, <1>11, <1>12
  DEF Next, WorkerStep, ServerStep, NetworkStep, LossStep, Rest

(* A surplus of datagrams in the socket never exceeds the duplicates and   *)
(* the calls that gave up on their answer.                                 *)
THEOREM SurplusHasCause == Spec => []BacklogBounded
<1>1. Init => BacklogBounded
  BY FS_EmptySet, EmptySeq DEF Init, BacklogBounded, Outstanding, Awaited
<1> QED BY <1>1, BacklogNext, TypeCorrect, PTL DEF Spec
-----------------------------------------------------------------------------
(* Before any fault all that is under way belongs to the query at hand. *)
Faultless == duplicates + selectErrors = 0
MatchInv ==
  Faultless =>
    /\ \A m \in toServer \cup network : m[1] = current
    /\ \A i \in 1 .. Len(buffer) : buffer[i] \in {current, Refusal}
    /\ \A q \in Queries : outcome[q] # "mismatch"

(* By the count, nothing is under way when no query is at hand. *)
LEMMA NothingCounted ==
  ASSUME NEW S \in SUBSET Datagrams, NEW N \in SUBSET Datagrams, NEW l \in Nat,
         Cardinality(S) + Cardinality(N) + l <= 0
  PROVE  S = {} /\ N = {} /\ l = 0
<1>1. /\ IsFiniteSet(S) /\ Cardinality(S) \in Nat
      /\ IsFiniteSet(N) /\ Cardinality(N) \in Nat
  BY Zenon, DatagramsFinite
<1>2. Cardinality(S) = 0 /\ Cardinality(N) = 0 /\ l = 0
  BY <1>1
<1> QED BY Zenon, <1>1, <1>2, FS_EmptySet

(* Before a fault a query is forwarded only when nothing is under way, so  *)
(* what recv takes is its answer or its refusal.                           *)
LEMMA MatchNext ==
  TypeOK /\ TypeOK' /\ BacklogBounded /\ BacklogBounded' /\ MatchInv /\ [Next]_vars => MatchInv'
<1> DEFINE Under == \A m \in toServer \cup network : m[1] = current
           Socket == \A i \in 1 .. Len(buffer) : buffer[i] \in {current, Refusal}
           NoMismatch == \A q \in Queries : outcome[q] # "mismatch"
<1> SUFFICES ASSUME TypeOK, TypeOK', BacklogBounded, BacklogBounded', MatchInv, [Next]_vars,
                    Faultless'
             PROVE  Under' /\ Socket' /\ NoMismatch'
  BY Zenon DEF MatchInv
<1>0. Faultless => Under /\ Socket /\ NoMismatch
  BY Zenon DEF MatchInv
<1>11. duplicates \in Nat /\ selectErrors \in Nat
  BY DEF TypeOK
<1>1. ASSUME NEW q \in Queries, Forward(q) PROVE Under' /\ Socket' /\ NoMismatch'
  <2>1. Faultless BY Zenon, <1>1 DEF Forward, Faultless
  <2>2. toServer = {} /\ network = {} /\ Len(buffer) = 0
    <3>1. Cardinality(toServer) + Cardinality(network) + Len(buffer) <= 0
      BY <1>1, <2>1 DEF Forward, BacklogBounded, Outstanding, Awaited, Faultless, TypeOK
    <3>2. Len(buffer) \in Nat BY DEF TypeOK
    <3> QED BY Zenon, <3>1, <3>2, NothingCounted DEF TypeOK, Datagrams
  <2>3. Under' BY <1>1, <2>2 DEF Forward, Sent
  <2>4. Socket' BY <1>1, <2>2 DEF Forward
  <2>5. NoMismatch' BY Zenon, <1>0, <1>1, <2>1 DEF Forward, TypeOK
  <2> QED BY Zenon, <2>3, <2>4, <2>5
<1>2. ASSUME NEW q \in Queries, ForwardFails(q) PROVE Under' /\ Socket' /\ NoMismatch'
  <2>1. Faultless BY Zenon, <1>2 DEF ForwardFails, Faultless
  <2> QED BY Zenon, <1>0, <1>2, <2>1 DEF ForwardFails, TypeOK
<1>3. ~SelectFails
  BY <1>11 DEF SelectFails, Faultless
<1>4. CASE Receive
  <2>1. Faultless BY Zenon, <1>4 DEF Receive, Faultless
  <2>2. toServer' = {} /\ network' = {} /\ Len(buffer') = 0
    <3>1. Cardinality(toServer') + Cardinality(network') + Len(buffer') <= 0
      BY <1>4 DEF Receive, BacklogBounded, Outstanding, Awaited, Faultless, TypeOK
    <3>2. Len(buffer') \in Nat BY DEF TypeOK
    <3> QED BY Zenon, <3>1, <3>2, NothingCounted DEF TypeOK, Datagrams
  <2>3. Head(buffer) \in {current, Refusal}
    <3>1. buffer \in Seq(Payload) /\ buffer # <<>> /\ Len(buffer) \in Nat \ {0}
      BY Zenon, <1>4, EmptySeq DEF Receive, Ready, TypeOK, Payload
    <3>2. Head(buffer) = buffer[1] BY <3>1
    <3> QED BY <1>0, <2>1, <3>1, <3>2
  <2>4. Judged(Head(buffer)) # "mismatch"
    BY Zenon, <2>3 DEF Judged, IdMatches
  <2>5. NoMismatch' BY Zenon, <1>0, <1>4, <2>1, <2>4 DEF Receive, TypeOK
  <2> QED BY <2>2, <2>5
<1>5. ASSUME NEW m \in toServer, ServerAnswers(m) PROVE Under' /\ Socket' /\ NoMismatch'
  <2>1. Faultless BY Zenon, <1>5 DEF ServerAnswers, Faultless
  <2> QED BY Zenon, <1>0, <1>5, <2>1 DEF ServerAnswers
<1>6. ASSUME NEW m \in toServer, ServerRefuses(m) PROVE Under' /\ Socket' /\ NoMismatch'
  <2>1. Faultless BY Zenon, <1>6 DEF ServerRefuses, Faultless
  <2>2. Socket'
    BY <1>0, <1>6, <2>1, AppendProperties DEF ServerRefuses, TypeOK
  <2> QED BY Zenon, <1>0, <1>6, <2>1, <2>2 DEF ServerRefuses
<1>7. ASSUME NEW m \in network, Deliver(m) PROVE Under' /\ Socket' /\ NoMismatch'
  <2>1. Faultless BY Zenon, <1>7 DEF Deliver, Faultless
  <2>2. m[1] \in Payload /\ m[1] = current BY Zenon, <1>0, <2>1 DEF TypeOK, Payload
  <2>3. Socket'
    BY <1>0, <1>7, <2>1, <2>2, AppendProperties DEF Deliver, TypeOK, Payload
  <2> QED BY Zenon, <1>0, <1>7, <2>1, <2>3 DEF Deliver
<1>8. ASSUME NEW m \in network PROVE ~Duplicate(m)
  BY <1>11 DEF Duplicate, Faultless
<1>9. ASSUME NEW m \in toServer \cup network, Lose(m) PROVE Under' /\ Socket' /\ NoMismatch'
  <2>1. Faultless BY Zenon, <1>9 DEF Lose, Faultless
  <2> QED BY Zenon, <1>0, <1>9, <2>1 DEF Lose
<1>10. CASE UNCHANGED vars
  <2>1. Faultless BY Zenon, <1>10 DEF vars, Faultless
  <2> QED BY Zenon, <1>0, <1>10, <2>1 DEF vars
<1> HIDE DEF Under, Socket, NoMismatch
<1> QED
  BY Zenon, <1>1, <1>2, <1>3, <1>4, <1>5, <1>6, <1>7, <1>8, <1>9, <1>10
  DEF Next, WorkerStep, ServerStep, NetworkStep, LossStep, Rest

(* "Recursive response ID mismatch" is not thrown before the network has   *)
(* duplicated a datagram or select() has failed.                           *)
THEOREM MismatchHasCause == Spec => []NoMismatchWithoutFault
<1>1. Init => MatchInv BY EmptySeq DEF Init, MatchInv
<1>2. MatchInv => NoMismatchWithoutFault
  BY Zenon DEF MatchInv, Faultless, NoMismatchWithoutFault
<1> QED BY <1>1, <1>2, MatchNext, TypeCorrect, SurplusHasCause, PTL DEF Spec
=============================================================================
