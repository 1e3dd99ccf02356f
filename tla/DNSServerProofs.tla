--------------------------- MODULE DNSServerProofs ---------------------------
(* Proofs of the safety properties of DNSServer, for any number of threads *)
(* and requests.                                                           *)
EXTENDS DNSServer, TLAPS

(* What the proofs use of sequences. *)
LEMMA EmptyIs == ASSUME NEW S PROVE << >> \in Seq(S) /\ Len(<< >>) = 0
OBVIOUS

(* The length of a queue. *)
LEMMA LenIs ==
  ASSUME NEW S, NEW s \in Seq(S)
  PROVE  /\ Len(s) \in Nat /\ DOMAIN s = 1 .. Len(s)
         /\ s # << >> <=> Len(s) # 0
         /\ \A i \in 1 .. Len(s) : s[i] \in S
OBVIOUS

(* push() puts a request behind the others. *)
LEMMA AppendIs ==
  ASSUME NEW S, NEW s \in Seq(S), NEW e \in S
  PROVE  /\ Append(s, e) \in Seq(S)
         /\ Append(s, e) # << >>
         /\ Len(Append(s, e)) = Len(s) + 1
         /\ \A i \in 1 .. Len(s) : Append(s, e)[i] = s[i]
         /\ Append(s, e)[Len(s) + 1] = e
OBVIOUS

(* pop() takes the first request and leaves the others in their order. *)
LEMMA TailIs ==
  ASSUME NEW S, NEW s \in Seq(S), s # << >>
  PROVE  /\ Head(s) \in S /\ Head(s) = s[1]
         /\ Tail(s) \in Seq(S)
         /\ Len(Tail(s)) = Len(s) - 1
         /\ \A i \in 1 .. Len(Tail(s)) : Tail(s)[i] = s[i + 1]
OBVIOUS

(* TypeOK is inductive together with this: a packet that run() is about to *)
(* push, and the packet a worker works on, are packets.                    *)
PacketsInHand ==
  /\ mainPc = "push" => hand \in Requests
  /\ \A w \in Workers : pc[w] \in Serving => request[w] \in Requests

TypeInv == TypeOK /\ PacketsInHand

(* Every step of the threads, of the network and of the console handler    *)
(* keeps each variable within its type.                                    *)
THEOREM TypeInvariant == Spec => []TypeInv
<1> USE ConstantsAssumption DEF ConstantsAssumption
<1> USE DEF mainVars, quitVars, sockVars, queueVars, packetVars, localVars,
            historyVars, workerVars, vars
<1>1. Init => TypeInv
  <2> SUFFICES ASSUME Init PROVE TypeInv
    BY Zenon
  <2>1. pc \in [Workers -> WorkerLabels]
    BY Zenon DEF Init, WorkerLabels
  <2>2. /\ process \in {"running", "exited"} /\ mainPc \in MainLabels
        /\ content \in [Requests -> {"query", "local", "upstream", "freed"}]
        /\ request \in [Workers -> Requests \cup {NULL}]
        /\ error \in [Workers -> BOOLEAN] /\ recursionOccurred \in [Workers -> BOOLEAN]
    BY Zenon DEF Init, MainLabels
  <2>3. PacketsInHand
    BY Zenon DEF Init, PacketsInHand, Serving
  <2>4. /\ isRunning \in BOOLEAN /\ quitEvent \in BOOLEAN /\ selected \in BOOLEAN
        /\ fdRead \in BOOLEAN /\ socketEvent \in BOOLEAN
    BY Zenon DEF Init
  <2>5. /\ sockBuf \in Seq(Requests) /\ requestQueue \in Seq(Requests)
        /\ threadsWaiting \in 0 .. NumThreads /\ requestSemaphore \in 0 .. SemaphoreMax
        /\ hand \in Requests \cup {NULL} /\ ctrlPc \in {"idle", "signal"}
    BY DEF Init
  <2>6. /\ arrived \in SUBSET Requests /\ heap \in SUBSET Requests
        /\ finished \in SUBSET Requests /\ queuedRunning \in SUBSET Requests
    BY Zenon DEF Init
  <2> QED BY Zenon, <2>1, <2>2, <2>3, <2>4, <2>5, <2>6 DEF TypeInv, TypeOK
<1>2. TypeInv /\ [Next]_vars => TypeInv'
  <2> SUFFICES ASSUME TypeInv, [Next]_vars PROVE TypeInv'
    BY Zenon
  <2>7. CASE UNCHANGED vars
    <3>1. TypeOK' BY Zenon, <2>7 DEF TypeInv, TypeOK
    <3>2. PacketsInHand' BY Zenon, <2>7 DEF TypeInv, PacketsInHand
    <3> QED BY Zenon, <3>1, <3>2 DEF TypeInv
  <2> USE DEF TypeInv, TypeOK, PacketsInHand, Serving, Main, Worker, Fault, Faults, Throw
  <2>1. ASSUME NEW r \in Requests, Arrive(r) PROVE TypeInv'
    <3>1. socketEvent' \in BOOLEAN
      BY Zenon, <2>1 DEF Arrive
    <3>2. sockBuf' \in Seq(Requests)
      <4>1. sockBuf' = Append(sockBuf, r) BY Zenon, <2>1 DEF Arrive
      <4> QED BY Zenon, <4>1, AppendIs
    <3>3. arrived' \in SUBSET Requests /\ fdRead' \in BOOLEAN
      BY Zenon, <2>1 DEF Arrive
    <3>4. UNCHANGED <<mainVars, quitVars, selected, queueVars, workerVars, queuedRunning>>
      BY Zenon, <2>1 DEF Arrive
    <3> QED BY Zenon, <3>1, <3>2, <3>3, <3>4
  <2>2. ASSUME MainStep PROVE TypeInv'
    <3> USE DEF MainLabels
    <3>1. CASE Bind BY Zenon, <3>1 DEF Bind, Armed
    <3>2. CASE BindFails BY Zenon, <3>2 DEF BindFails
    <3>3. CASE RunTest BY Zenon, <3>3 DEF RunTest
    <3>4. CASE WaitForDatagram BY Zenon, <3>4 DEF WaitForDatagram
    <3>5. CASE ReceiveDatagram BY <3>5 DEF ReceiveDatagram
    <3>6. CASE PushRequest BY <3>6 DEF PushRequest
    <3>7. CASE ReleaseToken BY <3>7 DEF ReleaseToken, Released
    <3>8. CASE FreeStrings BY <3>8 DEF FreeStrings
    <3>9. CASE JoinThreads BY <3>9 DEF JoinThreads, Smaller
    <3>10. CASE DeleteServer BY Zenon, <3>10 DEF DeleteServer
    <3>11. CASE MainReturns BY Zenon, <3>11 DEF MainReturns
    <3> QED BY Zenon, <2>2, <3>1, <3>2, <3>3, <3>4, <3>5, <3>6, <3>7, <3>8, <3>9, <3>10,
               <3>11 DEF MainStep
  <2>3. CASE ClearRunning BY Zenon, <2>3 DEF ClearRunning
  <2>4. CASE SignalQuit BY Zenon, <2>4 DEF SignalQuit, Signalled
  <2>5. CASE HandlerUsesFreedServer BY Zenon, <2>5 DEF HandlerUsesFreedServer
  <2>6. ASSUME NEW w \in Workers, WorkerStep(w) \/ Upstream(w) \/ UpstreamLost(w)
        PROVE TypeInv'
    <3> USE DEF WorkerLabels, Holding
    <3>1. CASE StartWorker(w) BY Zenon, <3>1 DEF StartWorker
    <3>2. CASE StartFails(w) BY Zenon, <3>2 DEF StartFails
    <3>3. CASE LoopTest(w) BY Zenon, <3>3 DEF LoopTest
    <3>4. CASE CacheAndClean(w) BY Zenon, <3>4 DEF CacheAndClean
    <3>5. CASE CacheFails(w) BY Zenon, <3>5 DEF CacheFails
    <3>6. CASE WaitForRequest(w) BY <3>6 DEF WaitForRequest, Acquired
    <3>7. CASE QuitTest(w) BY Zenon, <3>7 DEF QuitTest
    <3>8. CASE PopRequest(w) BY <3>8 DEF PopRequest, Oldest, Popped
    <3>9. CASE PopEmpty(w) BY Zenon, <3>9 DEF PopEmpty
    <3>10. CASE ExtractQueries(w) BY <3>10 DEF ExtractQueries
    <3>11. CASE ResolveLocally(w) BY Zenon, <3>11 DEF ResolveLocally
    <3>12. CASE ResolveThrows(w) BY Zenon, <3>12 DEF ResolveThrows
    <3>13. CASE ForwardRequest(w) BY <3>13 DEF ForwardRequest
    <3>14. CASE SendResponse(w) BY <3>14 DEF SendResponse
    <3>15. CASE WorkerUsesFreedServer(w) BY Zenon, <3>15 DEF WorkerUsesFreedServer
    <3>16. CASE UpstreamAnswers(w) BY Zenon, <3>16 DEF UpstreamAnswers
    <3>17. CASE UpstreamFails(w) BY Zenon, <3>17 DEF UpstreamFails
    <3>18. CASE UpstreamLost(w) BY Zenon, <3>18 DEF UpstreamLost
    <3> QED BY Zenon, <2>6, <3>1, <3>2, <3>3, <3>4, <3>5, <3>6, <3>7, <3>8, <3>9, <3>10,
               <3>11, <3>12, <3>13, <3>14, <3>15, <3>16, <3>17, <3>18
            DEF WorkerStep, Resolve, Upstream
  <2> QED BY Zenon, <2>1, <2>2, <2>3, <2>4, <2>5, <2>6, <2>7 DEF Next, Stopped
<1> QED BY <1>1, <1>2, PTL DEF Spec

(* The variables of the threads, the queue and the socket keep their types. *)
THEOREM TypeCorrect == Spec => []TypeOK
<1>1. TypeInv => TypeOK BY Zenon DEF TypeInv
<1> QED BY <1>1, TypeInvariant, PTL

-----------------------------------------------------------------------------
(* The order of the steps of shutdown() and of main(): the quit event is   *)
(* set, and run() left, only once isRunning is cleared.                    *)
ShutdownOrder ==
  /\ quitEvent \/ ctrlPc = "signal" => ~isRunning
  /\ mainPc \in {"strings", "join", "return"} => ~isRunning

(* Every step keeps that order. *)
LEMMA ShutdownStep ==
  ASSUME ShutdownOrder, [Next]_vars
  PROVE  ShutdownOrder'
<1>0. ASSUME UNCHANGED <<mainPc, isRunning, quitEvent, ctrlPc>> PROVE ShutdownOrder'
  BY Zenon, <1>0 DEF ShutdownOrder
<1> USE DEF mainVars, quitVars
<1>1. ASSUME NEW r \in Requests, Arrive(r) PROVE ShutdownOrder'
  BY Zenon, <1>0, <1>1 DEF Arrive
<1>2. ASSUME MainStep PROVE ShutdownOrder'
  <2> USE DEF ShutdownOrder
  <2>1. CASE Bind \/ BindFails \/ RunTest \/ WaitForDatagram \/ ReceiveDatagram
    BY <2>1 DEF Main, Bind, BindFails, RunTest, WaitForDatagram, ReceiveDatagram
  <2>2. CASE PushRequest \/ ReleaseToken \/ FreeStrings
    BY <2>2 DEF Main, PushRequest, ReleaseToken, FreeStrings
  <2>3. CASE JoinThreads \/ DeleteServer \/ MainReturns
    BY <2>3 DEF Main, JoinThreads, DeleteServer, MainReturns
  <2> QED BY Zenon, <1>2, <2>1, <2>2, <2>3 DEF MainStep
<1>3. CASE ClearRunning BY Zenon, <1>3 DEF ClearRunning, ShutdownOrder
<1>4. CASE SignalQuit BY Zenon, <1>4 DEF SignalQuit, ShutdownOrder
<1>5. ASSUME NEW f, Fault(f) PROVE ShutdownOrder'
  BY Zenon, <1>0, <1>5 DEF Fault
<1>6. ASSUME NEW w \in Workers, WorkerStep(w) \/ Upstream(w) \/ UpstreamLost(w)
      PROVE  ShutdownOrder'
  <2>0. ASSUME NEW from, NEW to, Worker(w, from, to) PROVE ShutdownOrder'
    BY Zenon, <1>0, <2>0 DEF Worker
  <2>1. CASE \/ StartWorker(w) \/ LoopTest(w) \/ CacheAndClean(w) \/ CacheFails(w)
             \/ WaitForRequest(w) \/ QuitTest(w) \/ PopRequest(w) \/ ExtractQueries(w)
    BY Zenon, <2>0, <2>1 DEF StartWorker, LoopTest, CacheAndClean, CacheFails, WaitForRequest,
                      QuitTest, PopRequest, ExtractQueries
  <2>2. CASE Resolve(w) \/ SendResponse(w) \/ Upstream(w) \/ UpstreamLost(w)
    BY Zenon, <2>0, <2>2 DEF Resolve, ResolveLocally, ResolveThrows, ForwardRequest, SendResponse,
                      Upstream, UpstreamAnswers, UpstreamFails, UpstreamLost
  <2>3. CASE StartFails(w) BY Zenon, <1>0, <2>3 DEF StartFails
  <2>4. CASE PopEmpty(w) \/ WorkerUsesFreedServer(w)
    BY Zenon, <1>5, <2>4 DEF PopEmpty, WorkerUsesFreedServer
  <2> QED BY Zenon, <1>6, <2>1, <2>2, <2>3, <2>4 DEF WorkerStep
<1>7. CASE HandlerUsesFreedServer BY Zenon, <1>5, <1>7 DEF HandlerUsesFreedServer
<1>8. CASE UNCHANGED vars BY Zenon, <1>0, <1>8 DEF vars
<1> QED BY Zenon, <1>1, <1>2, <1>3, <1>4, <1>6, <1>7, <1>8 DEF Next, Stopped

(* The steps of shutdown() happen in the order of the code. *)
LEMMA ShutdownOrdered == Spec => []ShutdownOrder
<1>1. Init => ShutdownOrder BY Zenon DEF Init, ShutdownOrder
<1> QED BY <1>1, ShutdownStep, PTL DEF Spec

-----------------------------------------------------------------------------
(* The socket.  FD_READ is armed, or signalled and not yet received, never *)
(* both: recvfrom alone arms it again.  While it is selected, one of the   *)
(* two tells of every datagram.                                            *)
SocketInv ==
  /\ mainPc = "bind" => sockBuf = << >> /\ ~selected
  /\ fdRead => sockBuf = << >>
  /\ socketEvent => sockBuf # << >>
  /\ mainPc = "recv" => sockBuf # << >> /\ ~socketEvent
  /\ selected /\ mainPc \in {"while", "wait", "push", "release"} =>
       /\ sockBuf = << >> => fdRead
       /\ sockBuf # << >> => socketEvent

(* The workers and the console handler do not touch the socket. *)
LEMMA SocketLeft ==
  ASSUME \/ ClearRunning \/ SignalQuit \/ HandlerUsesFreedServer \/ Stopped
         \/ \E w \in Workers : WorkerStep(w) \/ Upstream(w) \/ UpstreamLost(w)
  PROVE  UNCHANGED <<mainPc, hand, sockVars>>
<1> USE DEF mainVars, vars, Fault, Worker
<1>1. ASSUME NEW w \in Workers, WorkerStep(w) \/ Upstream(w) \/ UpstreamLost(w)
      PROVE  UNCHANGED <<mainPc, hand, sockVars>>
  <2>1. CASE \/ StartWorker(w) \/ LoopTest(w) \/ CacheAndClean(w) \/ CacheFails(w)
             \/ WaitForRequest(w) \/ QuitTest(w) \/ PopRequest(w) \/ ExtractQueries(w)
    BY Zenon, <2>1 DEF StartWorker, LoopTest, CacheAndClean, CacheFails, WaitForRequest, QuitTest,
                PopRequest, ExtractQueries
  <2>2. CASE Resolve(w) \/ SendResponse(w) \/ Upstream(w) \/ UpstreamLost(w)
    BY Zenon, <2>2 DEF Resolve, ResolveLocally, ResolveThrows, ForwardRequest, SendResponse, Upstream,
                UpstreamAnswers, UpstreamFails, UpstreamLost
  <2>3. CASE StartFails(w) \/ PopEmpty(w) \/ WorkerUsesFreedServer(w)
    BY Zenon, <2>3 DEF StartFails, PopEmpty, WorkerUsesFreedServer
  <2> QED BY Zenon, <1>1, <2>1, <2>2, <2>3 DEF WorkerStep
<1>2. CASE ClearRunning \/ SignalQuit \/ HandlerUsesFreedServer \/ Stopped
  BY Zenon, <1>2 DEF ClearRunning, SignalQuit, HandlerUsesFreedServer, Stopped
<1> QED BY Zenon, <1>1, <1>2

(* Every step keeps SocketInv; that run() goes on to recvfrom only for the *)
(* socket's event needs the order of the steps of shutdown().              *)
LEMMA SocketStep ==
  ASSUME TypeInv, ShutdownOrder, SocketInv, [Next]_vars
  PROVE  SocketInv'
<1>0. sockBuf \in Seq(Requests) BY Zenon DEF TypeInv, TypeOK
<1>1. ASSUME UNCHANGED <<mainPc, sockVars>> PROVE SocketInv'
  BY Zenon, <1>1 DEF SocketInv, sockVars
<1>2. ASSUME NEW r \in Requests, Arrive(r) PROVE SocketInv'
  <2>1. /\ mainPc # "bind" /\ UNCHANGED <<mainPc, selected>> /\ ~fdRead'
        /\ sockBuf' = Append(sockBuf, r)
        /\ socketEvent' <=> socketEvent \/ fdRead
    BY Zenon, <1>2 DEF Arrive, mainVars
  <2>2. sockBuf' # << >> BY Zenon, <1>0, <2>1, AppendIs
  <2> QED BY Zenon, <2>1, <2>2 DEF SocketInv
<1>3. ASSUME Bind PROVE SocketInv'
  <2>1. /\ mainPc = "bind" /\ mainPc' = "while" /\ UNCHANGED <<sockBuf, socketEvent>>
        /\ fdRead' = selected'
    BY Zenon, <1>3 DEF Bind, Main, Armed
  <2> QED BY Zenon, <2>1 DEF SocketInv
<1>4. ASSUME WaitForDatagram PROVE SocketInv'
  <2>1. /\ mainPc = "wait" /\ UNCHANGED <<selected, sockBuf, fdRead>> /\ ~socketEvent'
        /\ socketEvent \/ quitEvent
        /\ mainPc' = IF isRunning THEN "recv" ELSE "strings"
    BY Zenon, <1>4 DEF WaitForDatagram, Main
  <2>2. isRunning => socketEvent BY Zenon, <2>1 DEF ShutdownOrder
  <2> QED BY Zenon, <2>1, <2>2 DEF SocketInv
<1>5. ASSUME ReceiveDatagram PROVE SocketInv'
  <2>1. /\ mainPc = "recv" /\ mainPc' \in {"while", "push"} /\ selected' = selected
        /\ sockBuf' = Tail(sockBuf)
        /\ socketEvent' <=> socketEvent \/ sockBuf' # << >>
        /\ fdRead' <=> sockBuf' = << >>
    BY Zenon, <1>5 DEF ReceiveDatagram, Main
  <2> QED BY Zenon, <2>1 DEF SocketInv
<1>6. ASSUME BindFails \/ RunTest \/ PushRequest \/ ReleaseToken \/ FreeStrings
             \/ JoinThreads \/ DeleteServer \/ MainReturns
      PROVE  SocketInv'
  <2>1. /\ UNCHANGED sockVars /\ mainPc' \notin {"bind", "recv"}
        /\ mainPc' \in {"while", "wait", "push", "release"} =>
             mainPc \in {"while", "push", "release"}
    BY Zenon, <1>6 DEF BindFails, RunTest, PushRequest, ReleaseToken, FreeStrings, JoinThreads,
                DeleteServer, MainReturns, Main
  <2>2. UNCHANGED <<sockBuf, selected, fdRead, socketEvent>> BY Zenon, <2>1 DEF sockVars
  <2> QED BY Zenon, <2>1, <2>2 DEF SocketInv
<1>7. CASE UNCHANGED vars BY Zenon, <1>1, <1>7 DEF vars, mainVars
<1> QED BY Zenon, <1>1, <1>2, <1>3, <1>4, <1>5, <1>6, <1>7, SocketLeft DEF Next, MainStep

(* run() never waits with a datagram in the socket and no event to come,   *)
(* and calls recvfrom only when there is something to receive.             *)
THEOREM NoDatagramLost == Spec => []NoLostDatagram
<1>1. Init => SocketInv BY Zenon DEF Init, SocketInv
<1>2. TypeInv /\ ShutdownOrder /\ SocketInv /\ [Next]_vars => SocketInv'
  BY Zenon, SocketStep
<1>3. SocketInv => NoLostDatagram BY Zenon DEF SocketInv, NoLostDatagram
<1> QED BY <1>1, <1>2, <1>3, TypeInvariant, ShutdownOrdered, PTL DEF Spec

-----------------------------------------------------------------------------
(* What pushing and popping do to the elements of a queue. *)
LEMMA RangeAppend ==
  ASSUME NEW S, NEW q \in Seq(S), NEW e \in S
  PROVE  /\ Range(Append(q, e)) = Range(q) \cup {e}
         /\ IsInjective(q) /\ e \notin Range(q) => IsInjective(Append(q, e))
<1>1. /\ DOMAIN Append(q, e) = 1 .. Len(q) + 1 /\ DOMAIN q = 1 .. Len(q)
      /\ Len(q) \in Nat
      /\ \A i \in 1 .. Len(q) : Append(q, e)[i] = q[i]
      /\ Append(q, e)[Len(q) + 1] = e
  BY AppendIs, LenIs
<1>2. Range(Append(q, e)) = Range(q) \cup {e}
  <2>1. ASSUME NEW x \in Range(Append(q, e)) PROVE x \in Range(q) \cup {e}
    <3>1. PICK i \in 1 .. Len(q) + 1 : x = Append(q, e)[i] BY Zenon, <1>1, <2>1 DEF Range
    <3>2. i \in 1 .. Len(q) \/ i = Len(q) + 1 BY <1>1
    <3> QED BY Zenon, <1>1, <3>1, <3>2 DEF Range
  <2>2. ASSUME NEW x \in Range(q) PROVE x \in Range(Append(q, e))
    <3>1. PICK i \in 1 .. Len(q) : x = q[i] BY Zenon, <1>1, <2>2 DEF Range
    <3>2. i \in 1 .. Len(q) + 1 BY <1>1
    <3> QED BY Zenon, <1>1, <3>1, <3>2 DEF Range
  <2>3. e \in Range(Append(q, e))
    <3>1. Len(q) + 1 \in 1 .. Len(q) + 1 BY <1>1
    <3> QED BY Zenon, <1>1, <3>1 DEF Range
  <2> QED BY Zenon, <2>1, <2>2, <2>3
<1>3. ASSUME IsInjective(q), e \notin Range(q) PROVE IsInjective(Append(q, e))
  <2> SUFFICES ASSUME NEW i \in 1 .. Len(q) + 1, NEW j \in 1 .. Len(q) + 1,
                      Append(q, e)[i] = Append(q, e)[j]
               PROVE  i = j
    BY Zenon, <1>1 DEF IsInjective
  <2>1. \A k \in 1 .. Len(q) + 1 : k \in 1 .. Len(q) \/ k = Len(q) + 1 BY <1>1
  <2>2. \A k \in 1 .. Len(q) : q[k] # e BY Zenon, <1>1, <1>3 DEF Range
  <2> QED BY Zenon, <1>1, <1>3, <2>1, <2>2 DEF IsInjective
<1> QED BY Zenon, <1>2, <1>3

(* A request popped from a queue without repetitions is no longer in it. *)
LEMMA RangeTail ==
  ASSUME NEW S, NEW q \in Seq(S), q # << >>
  PROVE  /\ Head(q) \in Range(q) /\ Range(q) = Range(Tail(q)) \cup {Head(q)}
         /\ IsInjective(q) =>
              IsInjective(Tail(q)) /\ Head(q) \notin Range(Tail(q))
<1>1. /\ DOMAIN q = 1 .. Len(q) /\ Len(q) \in Nat /\ Len(q) >= 1
      /\ DOMAIN Tail(q) = 1 .. Len(q) - 1
      /\ \A i \in 1 .. Len(q) - 1 : Tail(q)[i] = q[i + 1]
      /\ Head(q) = q[1]
  BY TailIs, LenIs, EmptyIs
<1>2. Range(q) = Range(Tail(q)) \cup {Head(q)}
  <2>1. ASSUME NEW x \in Range(q) PROVE x \in Range(Tail(q)) \cup {Head(q)}
    <3>1. PICK i \in 1 .. Len(q) : x = q[i] BY Zenon, <1>1, <2>1 DEF Range
    <3>2. i = 1 \/ (i - 1 \in 1 .. Len(q) - 1 /\ x = Tail(q)[i - 1])
      BY <1>1, <3>1
    <3> QED BY Zenon, <1>1, <3>1, <3>2 DEF Range
  <2>2. ASSUME NEW x \in Range(Tail(q)) PROVE x \in Range(q)
    <3>1. PICK i \in 1 .. Len(q) - 1 : x = Tail(q)[i] BY Zenon, <1>1, <2>2 DEF Range
    <3>2. i + 1 \in 1 .. Len(q) /\ x = q[i + 1] BY <1>1, <3>1
    <3> QED BY Zenon, <1>1, <3>2 DEF Range
  <2>3. Head(q) \in Range(q)
    <3>1. 1 \in 1 .. Len(q) BY <1>1
    <3> QED BY Zenon, <1>1, <3>1 DEF Range
  <2> QED BY Zenon, <2>1, <2>2, <2>3
<1>3. ASSUME IsInjective(q)
      PROVE  IsInjective(Tail(q)) /\ Head(q) \notin Range(Tail(q))
  <2>1. \A i \in 1 .. Len(q) - 1 : i + 1 \in 1 .. Len(q) /\ Tail(q)[i] = q[i + 1]
    BY <1>1
  <2>2. IsInjective(Tail(q))
    <3> SUFFICES ASSUME NEW i \in 1 .. Len(q) - 1, NEW j \in 1 .. Len(q) - 1,
                        Tail(q)[i] = Tail(q)[j]
                 PROVE  i = j
      BY Zenon, <1>1 DEF IsInjective
    <3>1. i + 1 = j + 1 BY <1>1, <1>3, <2>1 DEF IsInjective
    <3> QED BY <3>1
  <2>3. ASSUME NEW i \in 1 .. Len(q) - 1 PROVE Tail(q)[i] # Head(q)
    <3>1. 1 \in 1 .. Len(q) /\ i + 1 # 1 BY <1>1
    <3> QED BY Zenon, <1>1, <1>3, <2>1, <3>1 DEF IsInjective
  <2> QED BY Zenon, <1>1, <2>2, <2>3 DEF Range
<1> QED BY Zenon, <1>2, <1>3

-----------------------------------------------------------------------------
(* What makes ExclusiveService inductive: a datagram that is still in the  *)
(* socket, or in run()'s hand, is new to the rest of the server.           *)
Accepted == Range(requestQueue) \cup InService \cup finished \cup queuedRunning

Fresh ==
  /\ IsInjective(sockBuf) /\ Range(sockBuf) \subseteq arrived
  /\ Accepted \subseteq arrived /\ Accepted \cap Range(sockBuf) = {}
  /\ mainPc = "push" => hand \in arrived /\ hand \notin Range(sockBuf) \cup Accepted

OnceInv == Fresh /\ ExclusiveService

fixedVars == <<mainPc, hand, arrived, sockBuf, requestQueue, finished, queuedRunning>>

(* A step of a worker that neither takes up nor finishes a request. *)
LEMMA WorkerKeepsService ==
  ASSUME TypeInv, OnceInv, NEW w \in Workers, NEW to,
         pc' = [pc EXCEPT ![w] = to], pc[w] \in Serving <=> to \in Serving,
         UNCHANGED <<fixedVars, request>>
  PROVE  OnceInv' /\ InService' = InService
<1>1. \A v \in Workers : (pc[v] \in Serving)' <=> pc[v] \in Serving
  BY Zenon DEF TypeInv, TypeOK
<1>2. InService' = InService
  BY Zenon, <1>1 DEF InService
<1>3. Fresh'
  BY Zenon, <1>2 DEF OnceInv, Fresh, Accepted, fixedVars
<1>4. ExclusiveService'
  BY Zenon, <1>1 DEF OnceInv, ExclusiveService, fixedVars
<1> QED BY Zenon, <1>2, <1>3, <1>4 DEF OnceInv

(* A step that leaves the workers and the requests alone. *)
LEMMA OthersKeepService ==
  ASSUME OnceInv, UNCHANGED <<pc, request, arrived, sockBuf, requestQueue, finished,
                              queuedRunning>>,
         mainPc' # "push" \/ (mainPc' = mainPc /\ hand' = hand)
  PROVE  OnceInv' /\ InService' = InService
<1>1. InService' = InService BY Zenon DEF InService
<1>2. Fresh' BY Zenon, <1>1 DEF OnceInv, Fresh, Accepted
<1>3. ExclusiveService' BY Zenon DEF OnceInv, ExclusiveService
<1> QED BY Zenon, <1>1, <1>2, <1>3 DEF OnceInv

(* A worker that takes up the oldest request. *)
LEMMA PopKeepsService ==
  ASSUME TypeInv, OnceInv, NEW w \in Workers, PopRequest(w)
  PROVE  /\ OnceInv'
         /\ InService' = InService \cup {Head(requestQueue)}
<1> DEFINE r == Head(requestQueue)
<1> USE DEF PopRequest, Worker, Oldest, Popped
<1>1. /\ requestQueue # << >> /\ requestQueue' = Tail(requestQueue)
      /\ request' = [request EXCEPT ![w] = r] /\ pc' = [pc EXCEPT ![w] = "extract"]
      /\ pc[w] = "pop"
  BY Zenon
<1>2. UNCHANGED <<mainPc, hand, arrived, sockBuf, finished, queuedRunning>>
  BY Zenon DEF mainVars, sockVars
<1>3. /\ r \in Range(requestQueue)
      /\ Range(requestQueue) = Range(requestQueue') \cup {r}
      /\ IsInjective(requestQueue') /\ r \notin Range(requestQueue')
  <2>1. requestQueue \in Seq(Requests) /\ IsInjective(requestQueue)
    BY Zenon DEF TypeInv, TypeOK, OnceInv, ExclusiveService
  <2>2. /\ Head(requestQueue) \in Range(requestQueue)
        /\ Range(requestQueue) = Range(Tail(requestQueue)) \cup {Head(requestQueue)}
        /\ IsInjective(Tail(requestQueue))
        /\ Head(requestQueue) \notin Range(Tail(requestQueue))
    BY Zenon, <1>1, <2>1, RangeTail
  <2> QED BY Zenon, <1>1, <2>2
<1>4. /\ pc'[w] = "extract" /\ request'[w] = r
      /\ \A v \in Workers \ {w} : pc'[v] = pc[v] /\ request'[v] = request[v]
  BY Zenon, <1>1 DEF TypeInv, TypeOK
<1> HIDE DEF PopRequest, Worker, Oldest, Popped, r
<1>5. InService' = InService \cup {r}
  <2>1. /\ pc'[w] \in Serving /\ pc[w] \notin Serving
        /\ \A v \in Workers : v # w => (pc'[v] \in Serving <=> pc[v] \in Serving)
    BY Zenon, <1>1, <1>4 DEF Serving
  <2> QED BY Zenon, <1>4, <2>1 DEF InService
<1>6. Fresh'
  <2>1. Accepted' = Accepted
    BY Zenon, <1>2, <1>3, <1>5 DEF Accepted
  <2> QED BY Zenon, <1>2, <2>1 DEF OnceInv, Fresh
<1>7. ExclusiveService'
  <2>1. r \notin finished /\ Range(requestQueue') \cap finished' = {}
    BY Zenon, <1>2, <1>3 DEF OnceInv, ExclusiveService
  <2>2. ASSUME NEW v \in Workers, pc'[v] \in Serving
        PROVE  /\ request'[v] \notin Range(requestQueue')
               /\ request'[v] \notin finished'
               /\ \A u \in Workers : pc'[u] \in Serving /\ request'[u] = request'[v] => u = v
    <3>1. \A u \in Workers \ {w} : pc'[u] \in Serving => request'[u] # r
      BY Zenon, <1>3, <1>4 DEF OnceInv, ExclusiveService
    <3>2. CASE v = w BY Zenon, <1>2, <1>3, <1>4, <2>1, <3>1, <3>2
    <3>3. CASE v # w
      BY Zenon, <1>2, <1>3, <1>4, <2>2, <3>1, <3>3 DEF OnceInv, ExclusiveService
    <3> QED BY Zenon, <3>2, <3>3
  <2> QED BY Zenon, <1>3, <2>1, <2>2 DEF ExclusiveService
<1> QED BY Zenon, <1>5, <1>6, <1>7 DEF OnceInv, r

(* A worker that hands a response to sendto. *)
LEMMA SendKeepsService ==
  ASSUME TypeInv, OnceInv, NEW w \in Workers, SendResponse(w)
  PROVE  /\ OnceInv'
         /\ request[w] \in InService /\ InService' = InService \ {request[w]}
         /\ finished' = finished \cup {request[w]}
<1>1. /\ pc[w] = "send" /\ finished' = finished \cup {request[w]} /\ request' = request
      /\ pc' = [pc EXCEPT ![w] = "while"]
      /\ UNCHANGED <<mainPc, hand, arrived, sockBuf, queuedRunning, requestQueue>>
  BY Zenon DEF SendResponse, Worker, mainVars, sockVars, queueVars
<1>2. /\ pc'[w] = "while"
      /\ \A v \in Workers \ {w} : pc'[v] = pc[v]
  BY Zenon, <1>1 DEF TypeInv, TypeOK
<1>3. pc[w] \in Serving /\ pc'[w] \notin Serving
  BY Zenon, <1>1, <1>2 DEF Serving
<1>4. request[w] \in InService
  BY Zenon, <1>3 DEF InService
<1>5. \A v \in Workers \ {w} : pc[v] \in Serving => request[v] # request[w]
  BY Zenon, <1>3 DEF OnceInv, ExclusiveService
<1>6. InService' = InService \ {request[w]}
  BY Zenon, <1>1, <1>2, <1>3, <1>5 DEF InService
<1>7. Fresh'
  <2>1. Accepted' = Accepted
    BY Zenon, <1>1, <1>4, <1>6 DEF Accepted
  <2> QED BY Zenon, <1>1, <2>1 DEF OnceInv, Fresh
<1>8. ExclusiveService'
  <2>1. Range(requestQueue') \cap finished' = {}
    BY Zenon, <1>1, <1>3 DEF OnceInv, ExclusiveService
  <2> QED BY Zenon, <1>1, <1>2, <1>3, <1>5, <2>1 DEF OnceInv, ExclusiveService
<1> QED BY Zenon, <1>1, <1>4, <1>6, <1>7, <1>8 DEF OnceInv

(* run() pushes the request in its hand. *)
LEMMA PushKeepsService ==
  ASSUME TypeInv, OnceInv, PushRequest
  PROVE  /\ OnceInv' /\ InService' = InService
         /\ hand \in Requests /\ hand \notin Accepted
<1>1. /\ mainPc = "push" /\ mainPc' = "release"
      /\ requestQueue' = Append(requestQueue, hand)
      /\ queuedRunning' \subseteq queuedRunning \cup {hand}
      /\ UNCHANGED <<arrived, sockBuf, finished, pc, request>>
  BY Zenon DEF PushRequest, Main, sockVars, workerVars, localVars
<1>2. /\ hand \in Requests /\ requestQueue \in Seq(Requests)
      /\ hand \in arrived /\ hand \notin Range(sockBuf) \cup Accepted
  BY Zenon, <1>1 DEF TypeInv, TypeOK, PacketsInHand, OnceInv, Fresh
<1>3. /\ Range(requestQueue') = Range(requestQueue) \cup {hand}
      /\ IsInjective(requestQueue')
  <2>1. hand \notin Range(requestQueue) /\ IsInjective(requestQueue)
    BY Zenon, <1>2 DEF OnceInv, ExclusiveService, Accepted
  <2> QED BY <1>1, <1>2, <2>1, RangeAppend
<1>4. InService' = InService BY Zenon, <1>1 DEF InService
<1>5. Fresh'
  <2>1. Accepted' \subseteq Accepted \cup {hand}
    BY Zenon, <1>1, <1>3, <1>4 DEF Accepted
  <2> QED BY Zenon, <1>1, <1>2, <2>1 DEF OnceInv, Fresh
<1>6. ExclusiveService'
  <2>1. hand \notin finished /\ \A w \in Workers : pc[w] \in Serving => request[w] # hand
    BY Zenon, <1>2 DEF Accepted, InService
  <2> QED BY Zenon, <1>1, <1>3, <2>1 DEF OnceInv, ExclusiveService
<1> QED BY Zenon, <1>2, <1>4, <1>5, <1>6 DEF OnceInv

(* A datagram arrives, and run() receives one. *)
LEMMA SocketKeepsService ==
  ASSUME TypeInv, OnceInv,
         ReceiveDatagram \/ \E r \in Requests : Arrive(r)
  PROVE  OnceInv' /\ UNCHANGED <<pc, request, requestQueue, finished>>
<1>1. UNCHANGED <<pc, request, requestQueue, finished, queuedRunning>>
  BY Zenon DEF ReceiveDatagram, Arrive, queueVars, workerVars, localVars, historyVars
<1>2. InService' = InService /\ Accepted' = Accepted
  BY Zenon, <1>1 DEF InService, Accepted
<1>3. ExclusiveService'
  BY Zenon, <1>1 DEF OnceInv, ExclusiveService
<1>4. ASSUME NEW r \in Requests, Arrive(r) PROVE Fresh'
  <2>1. /\ r \notin arrived /\ arrived' = arrived \cup {r} /\ sockBuf' = Append(sockBuf, r)
        /\ mainPc' = mainPc /\ hand' = hand
    BY Zenon, <1>4 DEF Arrive, mainVars
  <2>2. Range(sockBuf') = Range(sockBuf) \cup {r} /\ IsInjective(sockBuf')
    BY <2>1, RangeAppend DEF TypeInv, TypeOK, OnceInv, Fresh
  <2> QED BY Zenon, <1>2, <2>1, <2>2 DEF OnceInv, Fresh
<1>5. ASSUME ReceiveDatagram PROVE Fresh'
  <2>1. /\ sockBuf # << >> /\ sockBuf' = Tail(sockBuf) /\ arrived' = arrived
        /\ mainPc' = "push" => hand' = Head(sockBuf)
    BY Zenon, <1>5 DEF ReceiveDatagram, Main
  <2>2. /\ Head(sockBuf) \in Range(sockBuf) /\ Head(sockBuf) \notin Range(sockBuf')
        /\ Range(sockBuf') \subseteq Range(sockBuf) /\ IsInjective(sockBuf')
    BY <2>1, RangeTail DEF TypeInv, TypeOK, OnceInv, Fresh
  <2> QED BY Zenon, <1>2, <2>1, <2>2 DEF OnceInv, Fresh
<1> QED BY Zenon, <1>1, <1>3, <1>4, <1>5 DEF OnceInv

(* Every step keeps the invariant, and is a step of the service or none. *)
LEMMA ServiceStep ==
  ASSUME TypeInv, OnceInv, [Next]_vars
  PROVE  OnceInv' /\ [Service!ServiceNext]_(Service!serviceVars)
<1> DEFINE Quiet == InService' = InService /\ UNCHANGED <<requestQueue, finished>>
<1>0. Quiet => [Service!ServiceNext]_(Service!serviceVars)
  BY Zenon DEF Service!serviceVars
<1>1. SUFFICES OnceInv' /\ (Quiet \/ Service!ServiceNext)
  BY Zenon, <1>0
<1>2. ASSUME NEW r \in Requests, Arrive(r) PROVE OnceInv' /\ Quiet
  BY Zenon, <1>2, SocketKeepsService DEF InService
<1>3. CASE ReceiveDatagram
  BY Zenon, <1>3, SocketKeepsService DEF InService
<1>4. CASE PushRequest
  <2>1. Service!Accept(hand)
    <3>1. requestQueue' = Append(requestQueue, hand) /\ finished' = finished
      BY Zenon, <1>4 DEF PushRequest, workerVars
    <3> QED BY Zenon, <1>4, <3>1, PushKeepsService
            DEF Service!Accept, Service!Known, Accepted, Range
  <2> QED BY Zenon, <1>4, <2>1, PushKeepsService DEF Service!ServiceNext
<1>5. ASSUME NEW w \in Workers, PopRequest(w) PROVE OnceInv' /\ Service!ServiceNext
  <2>1. requestQueue # << >> /\ requestQueue' = Tail(requestQueue) /\ finished' = finished
    BY Zenon, <1>5 DEF PopRequest, Popped
  <2>2. Service!TakeUp
    BY Zenon, <1>5, <2>1, PopKeepsService DEF Service!TakeUp
  <2> QED BY Zenon, <1>5, <2>2, PopKeepsService DEF Service!ServiceNext
<1>6. ASSUME NEW w \in Workers, SendResponse(w) PROVE OnceInv' /\ Service!ServiceNext
  <2>1. requestQueue' = requestQueue BY Zenon, <1>6 DEF SendResponse, queueVars
  <2>2. Service!Finish(request[w])
    BY Zenon, <1>6, <2>1, SendKeepsService DEF Service!Finish
  <2>3. request[w] \in Requests
    BY Zenon, <1>6 DEF SendResponse, Worker, TypeInv, PacketsInHand, Serving
  <2> QED BY Zenon, <1>6, <2>2, <2>3, SendKeepsService DEF Service!ServiceNext
<1>7. ASSUME UNCHANGED <<pc, request, arrived, sockBuf, requestQueue, finished,
                         queuedRunning>>,
             mainPc' # "push" \/ (mainPc' = mainPc /\ hand' = hand)
      PROVE  OnceInv' /\ Quiet
  BY Zenon, <1>7, OthersKeepService
<1>8. ASSUME NEW w \in Workers, NEW from, NEW to, from \in Serving <=> to \in Serving,
             Worker(w, from, to), UNCHANGED <<requestQueue, request, finished>>
      PROVE  OnceInv' /\ Quiet
  <2>1. pc' = [pc EXCEPT ![w] = to] /\ (pc[w] \in Serving <=> to \in Serving)
    BY Zenon, <1>8 DEF Worker
  <2>2. UNCHANGED <<fixedVars, request>>
    BY Zenon, <1>8 DEF Worker, fixedVars, mainVars, sockVars
  <2>3. OnceInv' /\ InService' = InService
    BY Zenon, <2>1, <2>2, WorkerKeepsService
  <2> QED BY Zenon, <1>8, <2>3
<1>9. ASSUME Bind \/ BindFails \/ RunTest \/ WaitForDatagram \/ ReleaseToken \/ FreeStrings
             \/ JoinThreads \/ DeleteServer \/ MainReturns
      PROVE  OnceInv' /\ Quiet
  <2> USE <1>7 DEF Main, sockVars, queueVars, workerVars, localVars
  <2>1. CASE Bind \/ BindFails \/ RunTest BY Zenon, <2>1 DEF Bind, BindFails, RunTest
  <2>2. CASE WaitForDatagram \/ ReleaseToken BY Zenon, <2>2 DEF WaitForDatagram, ReleaseToken
  <2>3. CASE FreeStrings \/ JoinThreads BY Zenon, <2>3 DEF FreeStrings, JoinThreads
  <2>4. CASE DeleteServer \/ MainReturns BY Zenon, <2>4 DEF DeleteServer, MainReturns
  <2> QED BY Zenon, <1>9, <2>1, <2>2, <2>3, <2>4
<1>10. ASSUME ClearRunning \/ SignalQuit \/ HandlerUsesFreedServer
       PROVE  OnceInv' /\ Quiet
  BY Zenon, <1>7, <1>10
     DEF ClearRunning, SignalQuit, HandlerUsesFreedServer, Fault, mainVars, sockVars,
         queueVars, workerVars, localVars
<1>11. ASSUME NEW w \in Workers, StartFails(w) \/ PopEmpty(w) \/ WorkerUsesFreedServer(w)
       PROVE  OnceInv' /\ Quiet
  BY Zenon, <1>7, <1>11
     DEF StartFails, PopEmpty, WorkerUsesFreedServer, Fault, sockVars, queueVars,
         workerVars, localVars
<1>12. ASSUME NEW w \in Workers,
              \/ StartWorker(w) \/ LoopTest(w) \/ CacheAndClean(w) \/ CacheFails(w)
              \/ WaitForRequest(w) \/ QuitTest(w) \/ ExtractQueries(w) \/ Resolve(w)
              \/ Upstream(w) \/ UpstreamLost(w)
       PROVE  OnceInv' /\ Quiet
  <2> USE DEF Serving, queueVars
  <2>1. CASE StartWorker(w) BY Zenon, <1>8, <2>1 DEF StartWorker
  <2>2. CASE LoopTest(w) BY Zenon, <1>8, <2>2 DEF LoopTest
  <2>3. CASE CacheAndClean(w) BY Zenon, <1>8, <2>3 DEF CacheAndClean
  <2>4. CASE CacheFails(w) BY Zenon, <1>8, <2>4 DEF CacheFails
  <2>5. CASE WaitForRequest(w) BY Zenon, <1>8, <2>5 DEF WaitForRequest
  <2>6. CASE QuitTest(w) BY Zenon, <1>8, <2>6 DEF QuitTest
  <2>7. CASE ExtractQueries(w) BY Zenon, <1>8, <2>7 DEF ExtractQueries
  <2>8. CASE ResolveLocally(w) BY Zenon, <1>8, <2>8 DEF ResolveLocally
  <2>9. CASE ResolveThrows(w) BY Zenon, <1>8, <2>9 DEF ResolveThrows
  <2>10. CASE ForwardRequest(w) BY Zenon, <1>8, <2>10 DEF ForwardRequest
  <2>11. CASE UpstreamAnswers(w) BY Zenon, <1>8, <2>11 DEF UpstreamAnswers
  <2>12. CASE UpstreamFails(w) BY Zenon, <1>8, <2>12 DEF UpstreamFails
  <2>13. CASE UpstreamLost(w) BY Zenon, <1>8, <2>13 DEF UpstreamLost
  <2> QED BY Zenon, <1>12, <2>1, <2>2, <2>3, <2>4, <2>5, <2>6, <2>7, <2>8, <2>9, <2>10,
             <2>11, <2>12, <2>13 DEF Resolve, Upstream
<1>13. CASE UNCHANGED vars
  BY Zenon, <1>7, <1>13 DEF vars, mainVars, sockVars, queueVars, localVars, historyVars
<1> QED
  BY Zenon, <1>2, <1>3, <1>4, <1>5, <1>6, <1>9, <1>10, <1>11, <1>12, <1>13
     DEF Next, MainStep, WorkerStep, Stopped

(* Nothing is queued, worked on or answered before the server runs. *)
LEMMA ServiceInitially == Init => OnceInv /\ Service!ServiceInit
<1> SUFFICES ASSUME Init PROVE OnceInv /\ Service!ServiceInit
  BY Zenon
<1>1. InService = {} /\ Range(requestQueue) = {} /\ Range(sockBuf) = {}
  BY DEF Init, InService, Serving, Range
<1>2. IsInjective(sockBuf) /\ IsInjective(requestQueue)
  BY DEF Init, IsInjective
<1>3. Fresh
  BY Zenon, <1>1, <1>2 DEF Init, Fresh, Accepted
<1>4. ExclusiveService
  BY Zenon, <1>1, <1>2 DEF Init, ExclusiveService, Serving
<1> QED BY Zenon, <1>1, <1>3, <1>4 DEF Init, OnceInv, Service!ServiceInit

(* No request is queued twice, worked on by two workers, or answered twice. *)
THEOREM EachRequestOnce == Spec => []ExclusiveService
<1>1. Init => OnceInv BY Zenon, ServiceInitially
<1>2. TypeInv /\ OnceInv /\ [Next]_vars => OnceInv'
  BY Zenon, ServiceStep
<1>3. OnceInv => ExclusiveService BY Zenon DEF OnceInv
<1> QED BY <1>1, <1>2, <1>3, TypeInvariant, PTL DEF Spec

(* The threads together implement the service: requests are taken up in    *)
(* the order in which run() queued them, each by one worker, and finished  *)
(* once.                                                                   *)
THEOREM ServerImplementsService == Spec => ImplementsService
<1>1. Init => OnceInv /\ Service!ServiceInit BY Zenon, ServiceInitially
<1>2. TypeInv /\ OnceInv /\ [Next]_vars
        => OnceInv' /\ [Service!ServiceNext]_(Service!serviceVars)
  BY Zenon, ServiceStep
<1> QED BY <1>1, <1>2, TypeInvariant, PTL DEF Spec, ImplementsService, Service!ServiceSpec

-----------------------------------------------------------------------------
(* The semaphore's tokens.  Their count rests on these facts about the     *)
(* cardinality of sets of workers, which WorkersCounted proves at the end, *)
(* after the last proof the library on finite sets would slow down; the    *)
(* theorems about the tokens follow there.                                 *)
Counted ==
  /\ Cardinality({}) = 0
  /\ \A S \in SUBSET Workers :
       /\ Cardinality(S) \in Nat
       /\ \A w \in Workers \ S : Cardinality(S \cup {w}) = Cardinality(S) + 1

Claiming == {"woken", "pop"}

(* The semaphore and the queue have counts. *)
LEMMA CountsTyped ==
  ASSUME TypeInv
  PROVE  requestSemaphore \in Nat /\ Len(requestQueue) \in Nat
<1>1. requestSemaphore \in 0 .. SemaphoreMax /\ requestQueue \in Seq(Requests)
  BY Zenon DEF TypeInv, TypeOK
<1>2. SemaphoreMax \in Nat
  BY Zenon, ConstantsAssumption DEF ConstantsAssumption
<1> QED BY <1>1, <1>2, LenIs

(* How a worker's step changes the number of workers that hold a token. *)
LEMMA ClaimantsCount ==
  ASSUME Counted, NEW w \in Workers, pc \in [Workers -> WorkerLabels], NEW to,
         pc' = [pc EXCEPT ![w] = to]
  PROVE  /\ Cardinality(Claimants) \in Nat
         /\ Cardinality(Claimants') =
              Cardinality(Claimants)
                + (IF to \in Claiming THEN 1 ELSE 0)
                - (IF pc[w] \in Claiming THEN 1 ELSE 0)
<1>1. Claimants \in SUBSET Workers /\ Claimants \ {w} \in SUBSET Workers
  BY Zenon DEF Claimants
<1>2. Cardinality(Claimants) \in Nat /\ Cardinality(Claimants \ {w}) \in Nat
  BY Zenon, <1>1 DEF Counted
<1>3. CASE to \in Claiming /\ pc[w] \in Claiming
  <2>1. Claimants' = Claimants BY Zenon, <1>3 DEF Claimants, Claiming
  <2> QED BY <1>2, <1>3, <2>1
<1>4. CASE to \notin Claiming /\ pc[w] \notin Claiming
  <2>1. Claimants' = Claimants BY Zenon, <1>4 DEF Claimants, Claiming
  <2> QED BY <1>2, <1>4, <2>1
<1>5. CASE to \in Claiming /\ pc[w] \notin Claiming
  <2>1. Claimants' = Claimants \cup {w} /\ w \in Workers \ Claimants
    BY Zenon, <1>5 DEF Claimants, Claiming
  <2>2. Cardinality(Claimants \cup {w}) = Cardinality(Claimants) + 1
    BY Zenon, <1>1, <2>1 DEF Counted
  <2> QED BY <1>2, <1>5, <2>1, <2>2
<1>6. CASE to \notin Claiming /\ pc[w] \in Claiming
  <2>1. /\ Claimants' = Claimants \ {w} /\ (Claimants \ {w}) \cup {w} = Claimants
        /\ w \in Workers \ (Claimants \ {w})
    BY Zenon, <1>6 DEF Claimants, Claiming
  <2>2. Cardinality((Claimants \ {w}) \cup {w}) = Cardinality(Claimants \ {w}) + 1
    BY Zenon, <1>1, <2>1 DEF Counted
  <2> QED BY <1>2, <1>6, <2>1, <2>2
<1> QED BY Zenon, <1>3, <1>4, <1>5, <1>6

TokenInv == TokensCovered /\ ShutdownOrder /\ NoFaultBeforeShutdown

(* The count behind it: s tokens, c claims and d due are covered by l      *)
(* requests, and a step that adds a claim (a) or drops one (b).            *)
LEMMA BalanceKept ==
  ASSUME NEW s \in Nat, NEW ss \in Nat, NEW l \in Nat, NEW ll \in Nat,
         NEW c \in Nat, NEW cc, NEW d \in Nat, NEW a \in {0, 1}, NEW b \in {0, 1},
         cc = c + a - b, ss + a - ll <= s + b - l, s + c + d <= l
  PROVE  ss + cc + d <= ll
  OBVIOUS

(* A worker's step keeps the tokens covered when what it adds to the       *)
(* semaphore and to the claims is no more than what it adds to the queue.  *)
LEMMA WorkerKeepsTokens ==
  ASSUME Counted, TypeInv, TokenInv, NEW w \in Workers, NEW to,
         pc' = [pc EXCEPT ![w] = to],
         UNCHANGED <<mainVars, quitVars>>,
         requestSemaphore' \in Nat, requestQueue' \in Seq(Requests),
         ~quitEvent =>
           requestSemaphore' + (IF to \in Claiming THEN 1 ELSE 0) - Len(requestQueue')
             <= requestSemaphore + (IF pc[w] \in Claiming THEN 1 ELSE 0)
                  - Len(requestQueue)
  PROVE  TokenInv'
<1>1. /\ Cardinality(Claimants) \in Nat
      /\ Cardinality(Claimants') = Cardinality(Claimants)
           + (IF to \in Claiming THEN 1 ELSE 0) - (IF pc[w] \in Claiming THEN 1 ELSE 0)
  BY Zenon, ClaimantsCount DEF TypeInv, TypeOK
<1>2. /\ Len(requestQueue) \in Nat /\ Len(requestQueue') \in Nat
      /\ requestSemaphore \in Nat /\ ReleaseDue \in Nat /\ ReleaseDue' = ReleaseDue
  BY ConstantsAssumption
     DEF ConstantsAssumption, TypeInv, TypeOK, ReleaseDue, mainVars
<1>3. TokensCovered'
  <2> SUFFICES ASSUME ~quitEvent'
               PROVE  requestSemaphore' + Cardinality(Claimants') + ReleaseDue'
                        <= Len(requestQueue')
    BY Zenon DEF TokensCovered
  <2>1. ~quitEvent BY Zenon DEF quitVars
  <2>2. requestSemaphore + Cardinality(Claimants) + ReleaseDue <= Len(requestQueue)
    BY Zenon, <2>1 DEF TokenInv, TokensCovered
  <2>3. (IF to \in Claiming THEN 1 ELSE 0) \in {0, 1}
        /\ (IF pc[w] \in Claiming THEN 1 ELSE 0) \in {0, 1}
    BY Zenon
  <2> QED BY SMTT(30), <1>1, <1>2, <2>1, <2>2, <2>3, BalanceKept
<1>4. ShutdownOrder' /\ NoFaultBeforeShutdown'
  BY Zenon DEF TokenInv, ShutdownOrder, NoFaultBeforeShutdown, mainVars, quitVars
<1> QED BY Zenon, <1>3, <1>4 DEF TokenInv

(* Nothing is in the semaphore, and no worker holds a token, at the start. *)
LEMMA TokensInitially == ASSUME Counted, Init PROVE TokenInv
<1>1. Claimants = {} BY Zenon DEF Init, Claimants
<1>2. Cardinality(Claimants) = 0 BY Zenon, <1>1 DEF Counted
<1>3. TokensCovered
  BY <1>2, ConstantsAssumption DEF ConstantsAssumption, Init, TokensCovered, ReleaseDue
<1>4. ShutdownOrder /\ NoFaultBeforeShutdown
  BY Zenon DEF Init, ShutdownOrder, NoFaultBeforeShutdown, Faults
<1> QED BY Zenon, <1>3, <1>4 DEF TokenInv

(* run() pushes before it releases, and a worker takes its token before it *)
(* pops: every step keeps the tokens backed until the quit event is set.   *)
LEMMA TokenStep ==
  ASSUME Counted, TypeInv, TypeInv', TokenInv, [Next]_vars
  PROVE  TokenInv'
<1> USE ConstantsAssumption DEF ConstantsAssumption
<1>0. /\ Cardinality(Claimants) \in Nat /\ requestSemaphore \in Nat
      /\ Len(requestQueue) \in Nat
  <2>1. Claimants \in SUBSET Workers BY Zenon DEF Claimants
  <2> QED BY Zenon, <2>1, CountsTyped DEF Counted
<1> USE DEF mainVars, quitVars, sockVars, queueVars, packetVars, localVars,
            historyVars, workerVars, vars
<1>1. ASSUME pc' = pc, requestQueue' = requestQueue,
             requestSemaphore' = requestSemaphore, quitEvent' \/ quitEvent' = quitEvent,
             ReleaseDue' = ReleaseDue
      PROVE  TokensCovered'
  <2>1. Claimants' = Claimants BY Zenon, <1>1 DEF Claimants
  <2> QED BY Zenon, <1>1, <2>1 DEF TokenInv, TokensCovered
<1>2. ASSUME NEW r \in Requests, Arrive(r) PROVE TokenInv'
  BY Zenon, <1>1, <1>2 DEF Arrive, TokenInv, ShutdownOrder, NoFaultBeforeShutdown, ReleaseDue
<1>3. ASSUME MainStep PROVE TokenInv'
  <2> USE DEF Main, TokenInv, ShutdownOrder, NoFaultBeforeShutdown, Faults, ReleaseDue
  <2>1. CASE Bind BY Zenon, <1>1, <2>1 DEF Bind
  <2>2. CASE BindFails BY Zenon, <1>1, <2>2 DEF BindFails
  <2>3. CASE RunTest BY Zenon, <1>1, <2>3 DEF RunTest
  <2>4. CASE WaitForDatagram BY Zenon, <1>1, <2>4 DEF WaitForDatagram
  <2>5. CASE ReceiveDatagram BY Zenon, <1>1, <2>5 DEF ReceiveDatagram
  <2>6. CASE PushRequest
    <3>1. Claimants' = Claimants BY Zenon, <2>6 DEF PushRequest, Claimants
    <3>2. Len(requestQueue') = Len(requestQueue) + 1
      <4>1. requestQueue' = Append(requestQueue, hand) /\ mainPc = "push"
        BY Zenon, <2>6 DEF PushRequest
      <4>2. requestQueue \in Seq(Requests) /\ hand \in Requests
        BY Zenon, <4>1 DEF TypeInv, TypeOK, PacketsInHand
      <4> QED BY Zenon, <4>1, <4>2, AppendIs
    <3>3. TokensCovered'
      BY <1>0, <2>6, <3>1, <3>2 DEF PushRequest, TokensCovered
    <3> QED BY Zenon, <2>6, <3>3 DEF PushRequest
  <2>7. CASE ReleaseToken
    <3>1. Claimants' = Claimants BY Zenon, <2>7 DEF ReleaseToken, Claimants
    <3>2. requestSemaphore' \in Nat /\ requestSemaphore' <= requestSemaphore + 1
      BY <1>0, <2>7 DEF ReleaseToken, Released
    <3>3. TokensCovered'
      BY <1>0, <2>7, <3>1, <3>2 DEF ReleaseToken, TokensCovered
    <3> QED BY Zenon, <2>7, <3>3 DEF ReleaseToken
  <2>8. CASE FreeStrings BY Zenon, <1>1, <2>8 DEF FreeStrings
  <2>9. CASE JoinThreads BY Zenon, <1>1, <2>9 DEF JoinThreads
  <2>10. CASE DeleteServer BY Zenon, <1>1, <2>10 DEF DeleteServer
  <2>11. CASE MainReturns BY Zenon, <1>1, <2>11 DEF MainReturns
  <2> QED BY Zenon, <1>3, <2>1, <2>2, <2>3, <2>4, <2>5, <2>6, <2>7, <2>8, <2>9, <2>10,
             <2>11 DEF MainStep
<1>4. CASE ClearRunning
  BY Zenon, <1>1, <1>4
     DEF ClearRunning, TokenInv, ShutdownOrder, NoFaultBeforeShutdown, Faults, ReleaseDue
<1>5. CASE SignalQuit
  BY Zenon, <1>1, <1>5 DEF SignalQuit, Signalled, TokenInv, ShutdownOrder,
                    NoFaultBeforeShutdown, Faults, ReleaseDue
<1>6. CASE HandlerUsesFreedServer
  BY Zenon, <1>1, <1>6 DEF HandlerUsesFreedServer, Fault, TokenInv, ShutdownOrder,
                    NoFaultBeforeShutdown, ReleaseDue
<1>7. ASSUME NEW w \in Workers, WorkerStep(w) \/ Upstream(w) \/ UpstreamLost(w)
      PROVE TokenInv'
  <2>0. requestSemaphore' \in Nat /\ requestQueue' \in Seq(Requests)
    <3>1. requestSemaphore' \in 0 .. SemaphoreMax /\ requestQueue' \in Seq(Requests)
      BY Zenon DEF TypeInv, TypeOK
    <3> QED BY <3>1, ConstantsAssumption DEF ConstantsAssumption
  <2>1. ASSUME NEW from \in WorkerLabels \ Claiming, NEW to \in WorkerLabels \ Claiming,
               Worker(w, from, to), UNCHANGED queueVars
        PROVE TokenInv'
    <3>1. pc' = [pc EXCEPT ![w] = to] /\ UNCHANGED <<mainVars, quitVars>>
      BY Zenon, <2>1 DEF Worker
    <3>2. requestSemaphore' + (IF to \in Claiming THEN 1 ELSE 0) - Len(requestQueue')
            <= requestSemaphore + (IF pc[w] \in Claiming THEN 1 ELSE 0) - Len(requestQueue)
      BY <1>0, <2>1 DEF Worker
    <3> HIDE DEF mainVars, quitVars
    <3> QED BY Zenon, <2>0, <3>1, <3>2, WorkerKeepsTokens
  <2> USE DEF WorkerLabels, Holding, Serving, Claiming
  <2>2. CASE StartWorker(w) BY Zenon, <2>1, <2>2 DEF StartWorker
  <2>3. CASE StartFails(w)
    BY Zenon, <1>1, <2>3 DEF StartFails, TokenInv, ShutdownOrder, NoFaultBeforeShutdown,
                      Faults, ReleaseDue
  <2>4. CASE LoopTest(w) BY Zenon, <2>1, <2>4 DEF LoopTest
  <2>5. CASE CacheAndClean(w) BY Zenon, <2>1, <2>5 DEF CacheAndClean
  <2>6. CASE CacheFails(w) BY Zenon, <2>1, <2>6 DEF CacheFails
  <2>7. CASE WaitForRequest(w)
    <3>1. ~quitEvent => requestSemaphore' = requestSemaphore - 1
      BY Zenon, <1>0, <2>7 DEF WaitForRequest, Acquired
    <3>2. pc' = [pc EXCEPT ![w] = "woken"] /\ UNCHANGED <<mainVars, quitVars>>
      BY Zenon, <2>7 DEF WaitForRequest, Worker
    <3>3. requestQueue' = requestQueue /\ "woken" \in Claiming /\ pc[w] \notin Claiming
      BY Zenon, <2>7 DEF WaitForRequest, Worker
    <3>4. ~quitEvent =>
            requestSemaphore' + (IF "woken" \in Claiming THEN 1 ELSE 0) - Len(requestQueue')
              <= requestSemaphore + (IF pc[w] \in Claiming THEN 1 ELSE 0)
                   - Len(requestQueue)
      BY <1>0, <3>1, <3>3
    <3> HIDE DEF mainVars, quitVars
    <3> QED BY Zenon, <2>0, <3>2, <3>4, WorkerKeepsTokens
  <2>8. CASE QuitTest(w)
    <3> DEFINE to == IF WorkLeft THEN "pop" ELSE "done"
    <3>1. pc' = [pc EXCEPT ![w] = to] /\ UNCHANGED <<mainVars, quitVars>>
      BY Zenon, <2>8 DEF QuitTest, Worker
    <3>2. pc[w] = "woken" /\ requestSemaphore' = requestSemaphore /\ requestQueue' = requestQueue
      BY Zenon, <2>8 DEF QuitTest, Worker
    <3> HIDE DEF to, mainVars, quitVars
    <3>3. requestSemaphore' + (IF to \in Claiming THEN 1 ELSE 0) - Len(requestQueue')
            <= requestSemaphore + (IF pc[w] \in Claiming THEN 1 ELSE 0) - Len(requestQueue)
      BY <1>0, <3>2
    <3> QED BY Zenon, <2>0, <3>1, <3>3, WorkerKeepsTokens
  <2>9. CASE PopRequest(w)
    <3>1. Len(requestQueue') = Len(requestQueue) - 1
      <4>1. requestQueue # << >> /\ requestQueue' = Tail(requestQueue)
        BY Zenon, <2>9 DEF PopRequest, Popped
      <4>2. requestQueue \in Seq(Requests) BY Zenon DEF TypeInv, TypeOK
      <4> QED BY Zenon, <4>1, <4>2, TailIs
    <3>2. pc' = [pc EXCEPT ![w] = "extract"] /\ UNCHANGED <<mainVars, quitVars>>
      BY Zenon, <2>9 DEF PopRequest, Worker
    <3>3. requestSemaphore' + (IF "extract" \in Claiming THEN 1 ELSE 0) - Len(requestQueue')
            <= requestSemaphore + (IF pc[w] \in Claiming THEN 1 ELSE 0) - Len(requestQueue)
      BY <1>0, <2>9, <3>1 DEF PopRequest, Worker
    <3> HIDE DEF mainVars, quitVars
    <3> QED BY Zenon, <2>0, <3>2, <3>3, WorkerKeepsTokens
  <2>10. CASE PopEmpty(w)
    <3>1. w \in Claimants BY Zenon, <2>10 DEF PopEmpty, Claimants
    <3>2. Cardinality(Claimants) # 0
      <4>1. /\ Claimants \ {w} \in SUBSET Workers /\ w \in Workers \ (Claimants \ {w})
            /\ (Claimants \ {w}) \cup {w} = Claimants
        BY Zenon, <3>1 DEF Claimants
      <4>2. /\ Cardinality(Claimants \ {w}) \in Nat
            /\ Cardinality((Claimants \ {w}) \cup {w}) = Cardinality(Claimants \ {w}) + 1
        BY Zenon, <4>1 DEF Counted
      <4>3. Cardinality(Claimants) = Cardinality(Claimants \ {w}) + 1
        BY Zenon, <4>1, <4>2
      <4> QED
        <5> DEFINE n == Cardinality(Claimants \ {w})
        <5>1. n \in Nat /\ Cardinality(Claimants) = n + 1 BY Zenon, <4>2, <4>3
        <5> HIDE DEF n
        <5> QED BY <5>1
    <3>3. Len(requestQueue) = 0 BY Zenon, <2>10 DEF PopEmpty
    <3>4. quitEvent
      BY <1>0, <3>2, <3>3 DEF TokenInv, TokensCovered, ReleaseDue
    <3> QED BY Zenon, <1>1, <2>10, <3>4
            DEF PopEmpty, Fault, TokenInv, ShutdownOrder, NoFaultBeforeShutdown, ReleaseDue
  <2>11. CASE ExtractQueries(w) BY Zenon, <2>1, <2>11 DEF ExtractQueries
  <2>12. CASE ResolveLocally(w) BY Zenon, <2>1, <2>12 DEF ResolveLocally
  <2>13. CASE ResolveThrows(w) BY Zenon, <2>1, <2>13 DEF ResolveThrows
  <2>14. CASE ForwardRequest(w) BY Zenon, <2>1, <2>14 DEF ForwardRequest
  <2>15. CASE SendResponse(w) BY Zenon, <2>1, <2>15 DEF SendResponse
  <2>16. CASE WorkerUsesFreedServer(w)
    BY Zenon, <1>1, <2>16 DEF WorkerUsesFreedServer, Fault, ServerFreed, TokenInv,
                       ShutdownOrder, NoFaultBeforeShutdown, ReleaseDue
  <2>17. CASE UpstreamAnswers(w) BY Zenon, <2>1, <2>17 DEF UpstreamAnswers
  <2>18. CASE UpstreamFails(w) BY Zenon, <2>1, <2>18 DEF UpstreamFails
  <2>19. CASE UpstreamLost(w) BY Zenon, <2>1, <2>19 DEF UpstreamLost
  <2> QED BY Zenon, <1>7, <2>2, <2>3, <2>4, <2>5, <2>6, <2>7, <2>8, <2>9, <2>10, <2>11,
             <2>12, <2>13, <2>14, <2>15, <2>16, <2>17, <2>18, <2>19
          DEF WorkerStep, Resolve, Upstream
<1>8. CASE UNCHANGED vars
  BY Zenon, <1>1, <1>8 DEF TokenInv, ShutdownOrder, NoFaultBeforeShutdown, ReleaseDue
<1> QED BY Zenon, <1>2, <1>3, <1>4, <1>5, <1>6, <1>7, <1>8 DEF Next, Stopped

-----------------------------------------------------------------------------
(* The end of the server.  A worker ends only when isRunning is cleared    *)
(* and it saw the queue empty; what was queued before is then in the hands *)
(* of other workers, which the destructor waits for.                       *)
AllDone == \A w \in Workers : pc[w] = "done"

EndInv ==
  /\ mainPc = "join" => threadsWaiting \in {0, NumThreads}
  /\ mainPc = "return" \/ (mainPc = "join" /\ threadsWaiting = 0) => AllDone
  /\ (\E w \in Workers : pc[w] = "done") =>
       ~isRunning /\ Range(requestQueue) \cap queuedRunning = {}
  /\ queuedRunning \subseteq Range(requestQueue) \cup InService \cup finished

(* The destructor's only turn of its loop waits for every thread. *)
LEMMA OneTurn ==
  ASSUME NumThreads <= MaxWaitObjects, JoinThreads, EndInv, TypeInv
  PROVE  threadsWaiting' = 0 /\ AllDone
<1> USE ConstantsAssumption DEF ConstantsAssumption
<1>1. threadsWaiting = NumThreads /\ threadsWaiting > 0
  BY DEF JoinThreads, Main, EndInv, TypeInv, TypeOK
<1>2. WaitSlice(threadsWaiting) = Workers
  BY <1>1 DEF WaitSlice, Workers, Smaller
<1>3. threadsWaiting' = 0
  BY <1>1 DEF JoinThreads, Smaller
<1> QED BY Zenon, <1>2, <1>3 DEF JoinThreads, WaitOver, AllDone

(* A worker's step that leaves the requests where they are: it ends only   *)
(* when there is no work left.                                             *)
LEMMA WorkerKeepsEnd ==
  ASSUME TypeInv, OnceInv, EndInv, NEW w \in Workers, NEW from, NEW to,
         from # "done", from \in Serving <=> to \in Serving,
         to = "done" => ~WorkLeft,
         Worker(w, from, to), UNCHANGED <<requestQueue, request, finished>>
  PROVE  EndInv'
<1>1. /\ pc[w] = from /\ pc' = [pc EXCEPT ![w] = to]
      /\ UNCHANGED <<mainPc, threadsWaiting, isRunning, queuedRunning>>
  BY Zenon DEF Worker, mainVars, quitVars
<1>2. /\ pc'[w] = to
      /\ \A v \in Workers \ {w} : pc'[v] = pc[v]
  BY Zenon, <1>1 DEF TypeInv, TypeOK
<1>3. ~AllDone BY Zenon, <1>1 DEF AllDone
<1>4. InService' = InService BY Zenon, <1>1, <1>2 DEF InService
<1>5. ~WorkLeft => ~isRunning /\ Range(requestQueue) = {}
  BY DEF WorkLeft, Range
<1> QED BY Zenon, <1>1, <1>2, <1>3, <1>4, <1>5 DEF EndInv

(* Every step keeps the invariant when one wait can cover all threads. *)
LEMMA EndStep ==
  ASSUME NumThreads <= MaxWaitObjects, TypeInv, OnceInv, EndInv, [Next]_vars
  PROVE  EndInv'
<1>1. ASSUME UNCHANGED <<mainPc, threadsWaiting, isRunning, pc, request, requestQueue,
                         finished, queuedRunning>>
      PROVE  EndInv'
  BY SMTT(30), <1>1 DEF EndInv, AllDone, InService
<1>2. ASSUME UNCHANGED <<pc, request, requestQueue, finished, queuedRunning, isRunning>>,
             mainPc' \notin {"join", "return"}
      PROVE  EndInv'
  BY Zenon, <1>2 DEF EndInv, InService
<1>3. ASSUME NEW r \in Requests, Arrive(r) PROVE EndInv'
  BY Zenon, <1>1, <1>3 DEF Arrive, mainVars, quitVars, queueVars, workerVars, localVars
<1>4. ASSUME MainStep PROVE EndInv'
  <2> USE DEF Main, quitVars, queueVars, workerVars, localVars, historyVars
  <2>1. CASE Bind BY Zenon, <1>2, <2>1 DEF Bind
  <2>2. CASE BindFails BY Zenon, <1>2, <2>2 DEF BindFails
  <2>3. CASE RunTest BY Zenon, <1>2, <2>3 DEF RunTest
  <2>4. CASE WaitForDatagram BY Zenon, <1>2, <2>4 DEF WaitForDatagram
  <2>5. CASE ReceiveDatagram BY Zenon, <1>2, <2>5 DEF ReceiveDatagram
  <2>6. CASE PushRequest
    <3>1. /\ mainPc' = "release" /\ UNCHANGED <<pc, finished, isRunning>>
          /\ queuedRunning' = IF isRunning THEN queuedRunning \cup {hand} ELSE queuedRunning
      BY Zenon, <2>6 DEF PushRequest
    <3>2. InService' = InService /\ hand \notin Accepted
      BY Zenon, <2>6, PushKeepsService
    <3>3. Range(requestQueue') = Range(requestQueue) \cup {hand}
      BY <2>6, RangeAppend DEF PushRequest, TypeInv, TypeOK, PacketsInHand
    <3> QED BY <3>1, <3>2, <3>3, SMTT(30) DEF EndInv, Accepted
  <2>7. CASE ReleaseToken BY Zenon, <1>2, <2>7 DEF ReleaseToken
  <2>8. CASE FreeStrings
    <3>1. NumThreads = 0 => Workers = {} BY DEF Workers
    <3> QED BY Zenon, <2>8, <3>1 DEF FreeStrings, EndInv, AllDone, InService
  <2>9. CASE JoinThreads
    <3>1. threadsWaiting' = 0 /\ AllDone BY Zenon, <2>9, OneTurn
    <3>2. mainPc' = "join" /\ UNCHANGED <<pc, request, requestQueue, finished, queuedRunning,
                                         isRunning>>
      BY Zenon, <2>9 DEF JoinThreads, Main, quitVars, queueVars, workerVars, localVars
    <3>3. AllDone' /\ InService' = InService BY Zenon, <3>1, <3>2 DEF AllDone, InService
    <3> QED BY Zenon, <3>1, <3>2, <3>3 DEF EndInv
  <2>10. CASE DeleteServer
    <3>1. mainPc = "join" /\ threadsWaiting = 0 /\ mainPc' = "return"
          /\ UNCHANGED <<pc, request, requestQueue, finished, queuedRunning, isRunning>>
      BY Zenon, <2>10 DEF DeleteServer, Main, quitVars, queueVars, workerVars, localVars
    <3>2. AllDone BY Zenon, <3>1 DEF EndInv
    <3>3. AllDone' /\ InService' = InService BY Zenon, <3>1, <3>2 DEF AllDone, InService
    <3> QED BY Zenon, <3>1, <3>3 DEF EndInv
  <2>11. CASE MainReturns BY Zenon, <1>1, <2>11 DEF MainReturns
  <2> QED BY Zenon, <1>4, <2>1, <2>2, <2>3, <2>4, <2>5, <2>6, <2>7, <2>8, <2>9, <2>10,
             <2>11 DEF MainStep
<1>5. CASE ClearRunning
  BY Zenon, <1>5 DEF ClearRunning, mainVars, queueVars, workerVars, localVars, EndInv, AllDone,
              InService
<1>6. ASSUME SignalQuit \/ HandlerUsesFreedServer PROVE EndInv'
  BY Zenon, <1>1, <1>6 DEF SignalQuit, HandlerUsesFreedServer, Fault, mainVars, quitVars,
                    queueVars, workerVars, localVars
<1>7. ASSUME NEW w \in Workers, StartFails(w) \/ PopEmpty(w) \/ WorkerUsesFreedServer(w)
      PROVE  EndInv'
  BY Zenon, <1>1, <1>7 DEF StartFails, PopEmpty, WorkerUsesFreedServer, Fault, quitVars,
                    queueVars, workerVars, localVars
<1>8. ASSUME NEW w \in Workers, PopRequest(w) PROVE EndInv'
  <2>1. /\ pc[w] = "pop" /\ pc' = [pc EXCEPT ![w] = "extract"]
        /\ requestQueue # << >> /\ requestQueue' = Tail(requestQueue)
        /\ UNCHANGED <<mainPc, threadsWaiting, isRunning, finished, queuedRunning>>
    BY Zenon, <1>8 DEF PopRequest, Popped, Worker, mainVars, quitVars
  <2>2. ~AllDone /\ \A v \in Workers : pc'[v] = "done" => pc[v] = "done"
    BY Zenon, <2>1 DEF AllDone, TypeInv, TypeOK
  <2>3. Range(requestQueue) = Range(requestQueue') \cup {Head(requestQueue)}
    BY Zenon, <2>1, RangeTail DEF TypeInv, TypeOK
  <2>4. InService' = InService \cup {Head(requestQueue)}
    BY Zenon, <1>8, PopKeepsService
  <2> QED BY Zenon, <2>1, <2>2, <2>3, <2>4 DEF EndInv
<1>9. ASSUME NEW w \in Workers, SendResponse(w) PROVE EndInv'
  <2>1. /\ pc[w] = "send" /\ pc' = [pc EXCEPT ![w] = "while"]
        /\ UNCHANGED <<mainPc, threadsWaiting, isRunning, requestQueue, queuedRunning>>
    BY Zenon, <1>9 DEF SendResponse, Worker, mainVars, quitVars, queueVars
  <2>2. ~AllDone /\ \A v \in Workers : pc'[v] = "done" => pc[v] = "done"
    BY Zenon, <2>1 DEF AllDone, TypeInv, TypeOK
  <2>3. /\ InService' = InService \ {request[w]}
        /\ finished' = finished \cup {request[w]}
    BY Zenon, <1>9, SendKeepsService
  <2>4. queuedRunning' \subseteq Range(requestQueue') \cup InService' \cup finished'
    BY Zenon, <2>1, <2>3 DEF EndInv
  <2>5. (\E v \in Workers : pc'[v] = "done") =>
          ~isRunning' /\ Range(requestQueue') \cap queuedRunning' = {}
    BY Zenon, <2>1, <2>2 DEF EndInv
  <2> QED BY Zenon, <2>1, <2>2, <2>4, <2>5 DEF EndInv
<1>10. ASSUME NEW w \in Workers,
              \/ StartWorker(w) \/ LoopTest(w) \/ CacheAndClean(w) \/ CacheFails(w)
              \/ WaitForRequest(w) \/ QuitTest(w) \/ ExtractQueries(w) \/ Resolve(w)
              \/ Upstream(w) \/ UpstreamLost(w)
       PROVE  EndInv'
  <2> USE DEF Serving, queueVars
  <2>1. CASE StartWorker(w) BY Zenon, <2>1, WorkerKeepsEnd DEF StartWorker
  <2>2. CASE LoopTest(w) BY Zenon, <2>2, WorkerKeepsEnd DEF LoopTest
  <2>3. CASE CacheAndClean(w) BY Zenon, <2>3, WorkerKeepsEnd DEF CacheAndClean
  <2>4. CASE CacheFails(w) BY Zenon, <2>4, WorkerKeepsEnd DEF CacheFails
  <2>5. CASE WaitForRequest(w) BY Zenon, <2>5, WorkerKeepsEnd DEF WaitForRequest
  <2>6. CASE QuitTest(w) BY Zenon, <2>6, WorkerKeepsEnd DEF QuitTest
  <2>7. CASE ExtractQueries(w) BY Zenon, <2>7, WorkerKeepsEnd DEF ExtractQueries
  <2>8. CASE ResolveLocally(w) BY Zenon, <2>8, WorkerKeepsEnd DEF ResolveLocally
  <2>9. CASE ResolveThrows(w) BY Zenon, <2>9, WorkerKeepsEnd DEF ResolveThrows
  <2>10. CASE ForwardRequest(w) BY Zenon, <2>10, WorkerKeepsEnd DEF ForwardRequest
  <2>11. CASE UpstreamAnswers(w) BY Zenon, <2>11, WorkerKeepsEnd DEF UpstreamAnswers
  <2>12. CASE UpstreamFails(w) BY Zenon, <2>12, WorkerKeepsEnd DEF UpstreamFails
  <2>13. CASE UpstreamLost(w) BY Zenon, <2>13, WorkerKeepsEnd DEF UpstreamLost
  <2> QED BY Zenon, <1>10, <2>1, <2>2, <2>3, <2>4, <2>5, <2>6, <2>7, <2>8, <2>9, <2>10,
             <2>11, <2>12, <2>13 DEF Resolve, Upstream
<1>11. CASE UNCHANGED vars
  BY Zenon, <1>1, <1>11 DEF vars, mainVars, quitVars, queueVars, localVars, historyVars
<1> QED
  BY Zenon, <1>3, <1>4, <1>5, <1>6, <1>7, <1>8, <1>9, <1>10, <1>11
     DEF Next, WorkerStep, Stopped

(* With no more threads than one wait can cover, ~DNSServer returns with   *)
(* every worker ended, and every request queued before shutdown() answered. *)
THEOREM CleanEnd ==
  ASSUME NumThreads <= MaxWaitObjects
  PROVE  Spec => []CleanExit
<1>1. Init => OnceInv BY Zenon, ServiceInitially
<1>2. Init => EndInv
  BY Zenon DEF Init, EndInv
<1>3. TypeInv /\ OnceInv /\ [Next]_vars => OnceInv'
  BY Zenon, ServiceStep
<1>4. TypeInv /\ OnceInv /\ EndInv /\ [Next]_vars => EndInv'
  BY Zenon, EndStep
<1>5. EndInv => CleanExit
  <2> SUFFICES ASSUME EndInv, mainPc = "return" PROVE CleanExit
    BY Zenon DEF CleanExit
  <2>1. \A w \in Workers : pc[w] = "done" BY Zenon DEF EndInv, AllDone
  <2>2. ASSUME NumThreads > 0 PROVE queuedRunning \subseteq finished
    <3>1. 0 \in Workers
      BY <2>2, ConstantsAssumption DEF ConstantsAssumption, Workers
    <3>2. InService = {} BY SMTT(30), <2>2 DEF EndInv, AllDone, InService, Serving
    <3>3. \E w \in Workers : pc[w] = "done" BY Zenon, <2>2, <3>1 DEF EndInv, AllDone
    <3> QED BY Zenon, <3>2, <3>3 DEF EndInv
  <2> QED BY Zenon, <2>1, <2>2 DEF CleanExit
<1> QED BY <1>1, <1>2, <1>3, <1>4, <1>5, TypeInvariant, PTL DEF Spec

-----------------------------------------------------------------------------
(* The packets: who has one, packet by packet.  A worker between two       *)
(* requests still holds the packet it answered last, which nobody else     *)
(* can: it is finished, and each request is finished once.                 *)
Idle == {"while", "top"}

PacketInv ==
  /\ Range(requestQueue) \subseteq heap
  /\ hand # NULL => mainPc = "push" /\ hand \in heap
  /\ \A w \in Workers :
       /\ pc[w] = "start" => request[w] = NULL
       /\ pc[w] \in Holding => request[w] \in heap \cup {NULL}
       /\ pc[w] \in Idle => request[w] \in finished \cup {NULL}
       /\ pc[w] \in Idle => \A v \in Workers :
            pc[v] \in Idle /\ request[v] = request[w] => v = w \/ request[w] = NULL
  /\ \A r \in heap :
       \/ r \in Range(requestQueue) \/ r = hand
       \/ \E w \in Workers : pc[w] \in Holding \cup {"done"} /\ request[w] = r

(* No two workers hold the same packet. *)
LEMMA HeldByOne ==
  ASSUME OnceInv, PacketInv, NEW w \in Workers, NEW v \in Workers, v # w,
         pc[w] \in Holding, pc[v] \in Holding, request[w] # NULL
  PROVE  request[v] # request[w]
<1>1. \A u \in Workers : pc[u] \in Holding => pc[u] \in Serving \/ pc[u] \in Idle
  BY Zenon DEF Holding, Idle
<1> QED BY Zenon, <1>1 DEF OnceInv, ExclusiveService, PacketInv

(* A step of a worker that leaves the packets where they are: it keeps its *)
(* own until it is freed, or ends with it.                                 *)
LEMMA WorkerKeepsPackets ==
  ASSUME TypeInv, PacketInv, NEW w \in Workers, NEW from, NEW to,
         to # "start",
         from \in Holding => to \in Holding \cup {"done"},
         to \in Holding => from \in Holding \cup {"start"},
         to \in Idle => from \in Idle \cup {"start"},
         from # "done",
         Worker(w, from, to), UNCHANGED <<requestQueue, request, heap, finished>>
  PROVE  PacketInv'
<1>1. /\ pc[w] = from /\ pc' = [pc EXCEPT ![w] = to]
      /\ UNCHANGED <<mainPc, hand>>
  BY Zenon DEF Worker, mainVars
<1>2. /\ pc'[w] = to
      /\ \A v \in Workers \ {w} : pc'[v] = pc[v]
  BY Zenon, <1>1 DEF TypeInv, TypeOK
<1>3. ASSUME NEW v \in Workers
      PROVE  /\ pc'[v] = "start" => request'[v] = NULL
             /\ pc'[v] \in Holding => request'[v] \in heap' \cup {NULL}
             /\ pc'[v] \in Idle => request'[v] \in finished' \cup {NULL}
             /\ pc'[v] \in Idle => \A u \in Workers :
                  pc'[u] \in Idle /\ request'[u] = request'[v] => u = v \/ request'[v] = NULL
  <2>1. pc'[v] = "start" => request'[v] = NULL
    BY Zenon, <1>1, <1>2 DEF PacketInv
  <2>2. pc'[v] \in Holding => request'[v] \in heap' \cup {NULL}
    BY <1>1, <1>2 DEF PacketInv
  <2>3. \A u \in Workers : pc'[u] \in Idle => pc[u] \in Idle \/ request[u] = NULL
    BY <1>1, <1>2 DEF PacketInv
  <2> QED BY Zenon, <2>1, <2>2, <2>3 DEF PacketInv
<1>4. ASSUME NEW r \in heap'
      PROVE  \/ r \in Range(requestQueue') \/ r = hand'
             \/ \E v \in Workers : pc'[v] \in Holding \cup {"done"} /\ request'[v] = r
  BY Zenon, <1>1, <1>2 DEF PacketInv
<1> QED BY Zenon, <1>1, <1>3, <1>4 DEF PacketInv

(* The previous response's packet is freed: nobody else has it. *)
LEMMA CleanKeepsPackets ==
  ASSUME TypeInv, OnceInv, PacketInv, NEW w \in Workers, CacheAndClean(w)
  PROVE  PacketInv'
<1>1. /\ pc[w] = "top" /\ pc' = [pc EXCEPT ![w] = "wait"] /\ heap' = heap \ {request[w]}
      /\ UNCHANGED <<mainPc, hand, requestQueue, request, finished>>
  BY Zenon DEF CacheAndClean, Freed, Worker, mainVars, queueVars
<1>2. /\ pc'[w] = "wait"
      /\ \A v \in Workers \ {w} : pc'[v] = pc[v]
  BY Zenon, <1>1 DEF TypeInv, TypeOK
<1>3. pc[w] \in Idle /\ pc[w] \in Holding /\ pc'[w] \notin Idle \cup Holding
  BY Zenon, <1>1, <1>2 DEF Idle, Holding, Serving
<1>4. request[w] \in finished \cup {NULL}
  BY Zenon, <1>3 DEF PacketInv
<1>5. /\ Range(requestQueue) \subseteq Requests
      /\ NULL \notin Requests
  BY ConstantsAssumption DEF ConstantsAssumption, TypeInv, TypeOK, Range
<1>6. Range(requestQueue') \subseteq heap'
  BY Zenon, <1>1, <1>4, <1>5 DEF PacketInv, OnceInv, ExclusiveService
<1>7. hand' # NULL => mainPc' = "push" /\ hand' \in heap'
  BY Zenon, <1>1, <1>4 DEF PacketInv, OnceInv, Fresh, Accepted
<1>8. ASSUME NEW v \in Workers
      PROVE  /\ pc'[v] = "start" => request'[v] = NULL
             /\ pc'[v] \in Holding => request'[v] \in heap' \cup {NULL}
             /\ pc'[v] \in Idle => request'[v] \in finished' \cup {NULL}
             /\ pc'[v] \in Idle => \A u \in Workers :
                  pc'[u] \in Idle /\ request'[u] = request'[v] => u = v \/ request'[v] = NULL
  <2>1. pc'[v] \in Holding => request'[v] \in heap' \cup {NULL}
    <3>1. v # w /\ pc[v] \in Holding => request[v] # request[w] \/ request[v] = NULL
      BY Zenon, <1>3, HeldByOne
    <3> QED BY Zenon, <1>1, <1>2, <1>3, <3>1 DEF PacketInv
  <2> QED BY Zenon, <1>1, <1>2, <1>3, <2>1 DEF PacketInv
<1>9. ASSUME NEW r \in heap'
      PROVE  \/ r \in Range(requestQueue') \/ r = hand'
             \/ \E v \in Workers : pc'[v] \in Holding \cup {"done"} /\ request'[v] = r
  BY Zenon, <1>1, <1>2 DEF PacketInv
<1> QED BY Zenon, <1>6, <1>7, <1>8, <1>9 DEF PacketInv

(* A packet goes from the queue to a worker. *)
LEMMA PopKeepsPackets ==
  ASSUME TypeInv, PacketInv, NEW w \in Workers, PopRequest(w)
  PROVE  PacketInv'
<1> DEFINE r == Head(requestQueue)
<1>1. /\ requestQueue # << >> /\ requestQueue' = Tail(requestQueue)
      /\ request' = [request EXCEPT ![w] = r] /\ pc' = [pc EXCEPT ![w] = "extract"]
      /\ pc[w] = "pop"
      /\ UNCHANGED <<mainPc, hand, heap, finished>>
  BY Zenon DEF PopRequest, Worker, Oldest, Popped, mainVars, packetVars
<1>2. r \in Range(requestQueue) /\ Range(requestQueue) = Range(requestQueue') \cup {r}
  BY Zenon, <1>1, RangeTail DEF TypeInv, TypeOK
<1>3. /\ pc'[w] = "extract" /\ request'[w] = r
      /\ \A v \in Workers \ {w} : pc'[v] = pc[v] /\ request'[v] = request[v]
  BY Zenon, <1>1 DEF TypeInv, TypeOK
<1> HIDE DEF r
<1>4. /\ pc'[w] \notin Idle \cup {"start"} /\ pc'[w] \in Holding
      /\ pc[w] \notin Holding \cup {"done"}
  BY Zenon, <1>1, <1>3 DEF Idle, Holding, Serving
<1>5. r \in heap /\ Range(requestQueue') \subseteq heap'
  BY Zenon, <1>1, <1>2 DEF PacketInv
<1>6. ASSUME NEW v \in Workers
      PROVE  /\ pc'[v] = "start" => request'[v] = NULL
             /\ pc'[v] \in Holding => request'[v] \in heap' \cup {NULL}
             /\ pc'[v] \in Idle => request'[v] \in finished' \cup {NULL}
             /\ pc'[v] \in Idle => \A u \in Workers :
                  pc'[u] \in Idle /\ request'[u] = request'[v] => u = v \/ request'[v] = NULL
  BY <1>1, <1>3, <1>4, <1>5 DEF PacketInv
<1>7. ASSUME NEW s \in heap'
      PROVE  \/ s \in Range(requestQueue') \/ s = hand'
             \/ \E v \in Workers : pc'[v] \in Holding \cup {"done"} /\ request'[v] = s
  BY <1>1, <1>2, <1>3, <1>4 DEF PacketInv
<1> QED BY Zenon, <1>1, <1>5, <1>6, <1>7 DEF PacketInv

(* A response is sent: its request is finished, and no other worker's. *)
LEMMA SendKeepsPackets ==
  ASSUME TypeInv, OnceInv, PacketInv, NEW w \in Workers, SendResponse(w)
  PROVE  PacketInv'
<1>1. /\ pc[w] = "send" /\ finished' = finished \cup {request[w]} /\ request' = request
      /\ pc' = [pc EXCEPT ![w] = "while"]
      /\ UNCHANGED <<mainPc, hand, requestQueue, heap>>
  BY Zenon DEF SendResponse, Worker, mainVars, queueVars, packetVars
<1>2. /\ pc'[w] = "while"
      /\ \A v \in Workers \ {w} : pc'[v] = pc[v]
  BY Zenon, <1>1 DEF TypeInv, TypeOK
<1>3. /\ pc[w] \in Serving /\ pc[w] \in Holding
      /\ pc'[w] \in Holding /\ pc'[w] # "start"
  BY Zenon, <1>1, <1>2 DEF Serving, Holding
<1>4. request[w] \in Requests /\ request[w] # NULL /\ request[w] \notin finished
  BY Zenon, <1>3, ConstantsAssumption
     DEF ConstantsAssumption, TypeInv, PacketsInHand, OnceInv, ExclusiveService
<1>5. ASSUME NEW v \in Workers
      PROVE  /\ pc'[v] = "start" => request'[v] = NULL
             /\ pc'[v] \in Holding => request'[v] \in heap' \cup {NULL}
             /\ pc'[v] \in Idle => request'[v] \in finished' \cup {NULL}
             /\ pc'[v] \in Idle => \A u \in Workers :
                  pc'[u] \in Idle /\ request'[u] = request'[v] => u = v \/ request'[v] = NULL
  <2>1. \A u \in Workers \ {w} : pc[u] \in Idle => request[u] # request[w]
    BY Zenon, <1>4 DEF PacketInv
  <2>2. pc'[v] \in Idle => \A u \in Workers :
           pc'[u] \in Idle /\ request'[u] = request'[v] => u = v \/ request'[v] = NULL
    BY <1>1, <1>2, <2>1 DEF PacketInv
  <2> QED BY Zenon, <1>1, <1>2, <1>3, <2>2 DEF PacketInv
<1>6. ASSUME NEW r \in heap'
      PROVE  \/ r \in Range(requestQueue') \/ r = hand'
             \/ \E v \in Workers : pc'[v] \in Holding \cup {"done"} /\ request'[v] = r
  BY Zenon, <1>1, <1>2, <1>3 DEF PacketInv
<1> QED BY Zenon, <1>1, <1>5, <1>6 DEF PacketInv

(* run() receives a packet into its hand, and queues the one it has there. *)
LEMMA MainKeepsPackets ==
  ASSUME TypeInv, PacketInv, ReceiveDatagram \/ PushRequest
  PROVE  PacketInv'
<1>1. CASE ReceiveDatagram
  <2>1. /\ mainPc = "recv" /\ sockBuf # << >>
        /\ UNCHANGED <<requestQueue, pc, request, finished>>
        /\ \/ hand' = NULL /\ heap' = heap
           \/ hand' = Head(sockBuf) /\ heap' = heap \cup {Head(sockBuf)} /\ mainPc' = "push"
    BY Zenon, <1>1 DEF ReceiveDatagram, Main, queueVars, localVars, historyVars
  <2>2. hand = NULL BY Zenon, <2>1 DEF PacketInv
  <2>3. NULL \notin heap
    BY Zenon, ConstantsAssumption DEF ConstantsAssumption, TypeInv, TypeOK
  <2> QED BY Zenon, <2>1, <2>2, <2>3 DEF PacketInv
<1>2. CASE PushRequest
  <2>1. /\ mainPc = "push" /\ requestQueue' = Append(requestQueue, hand) /\ hand' = NULL
        /\ UNCHANGED <<heap, pc, request, finished>>
    BY Zenon, <1>2 DEF PushRequest, Main, workerVars, localVars, packetVars
  <2>2. hand \in Requests /\ hand # NULL
    BY Zenon, <2>1, ConstantsAssumption DEF ConstantsAssumption, TypeInv, PacketsInHand
  <2>3. Range(requestQueue') = Range(requestQueue) \cup {hand}
    BY <2>1, <2>2, RangeAppend DEF TypeInv, TypeOK
  <2> QED BY Zenon, <2>1, <2>2, <2>3 DEF PacketInv
<1> QED BY Zenon, <1>1, <1>2

(* Every step keeps the packets accounted for. *)
LEMMA PacketStep ==
  ASSUME TypeInv, OnceInv, PacketInv, [Next]_vars
  PROVE  PacketInv'
<1>1. ASSUME UNCHANGED <<hand, requestQueue, heap, pc, request, finished>>,
             mainPc = "push" => mainPc' = "push"
      PROVE  PacketInv'
  BY Zenon, <1>1 DEF PacketInv
<1>2. ASSUME NEW r \in Requests, Arrive(r) PROVE PacketInv'
  BY Zenon, <1>1, <1>2 DEF Arrive, mainVars, queueVars, workerVars, localVars, packetVars
<1>3. ASSUME Bind \/ BindFails \/ RunTest \/ WaitForDatagram \/ ReleaseToken \/ FreeStrings
             \/ JoinThreads \/ DeleteServer \/ MainReturns
      PROVE  PacketInv'
  <2> USE <1>1 DEF Main, queueVars, workerVars, localVars, packetVars
  <2>1. CASE Bind \/ BindFails \/ RunTest BY Zenon, <2>1 DEF Bind, BindFails, RunTest
  <2>2. CASE WaitForDatagram \/ ReleaseToken BY Zenon, <2>2 DEF WaitForDatagram, ReleaseToken
  <2>3. CASE FreeStrings \/ JoinThreads BY Zenon, <2>3 DEF FreeStrings, JoinThreads
  <2>4. CASE DeleteServer \/ MainReturns BY Zenon, <2>4 DEF DeleteServer, MainReturns
  <2> QED BY Zenon, <1>3, <2>1, <2>2, <2>3, <2>4
<1>4. ASSUME ClearRunning \/ SignalQuit \/ HandlerUsesFreedServer PROVE PacketInv'
  BY Zenon, <1>1, <1>4
     DEF ClearRunning, SignalQuit, HandlerUsesFreedServer, Fault, mainVars,
         queueVars, workerVars, localVars, packetVars
<1>5. ASSUME NEW w \in Workers, StartFails(w) \/ PopEmpty(w) \/ WorkerUsesFreedServer(w)
      PROVE  PacketInv'
  BY Zenon, <1>1, <1>5
     DEF StartFails, PopEmpty, WorkerUsesFreedServer, Fault, queueVars,
         workerVars, localVars, packetVars
<1>6. ASSUME NEW w \in Workers,
             \/ StartWorker(w) \/ LoopTest(w) \/ CacheFails(w) \/ WaitForRequest(w)
             \/ QuitTest(w) \/ ExtractQueries(w) \/ Resolve(w) \/ Upstream(w)
             \/ UpstreamLost(w)
      PROVE  PacketInv'
  <2> USE DEF Serving, Holding, Idle, queueVars, packetVars
  <2>1. CASE StartWorker(w) BY Zenon, <2>1, WorkerKeepsPackets DEF StartWorker
  <2>2. CASE LoopTest(w) BY Zenon, <2>2, WorkerKeepsPackets DEF LoopTest
  <2>3. CASE CacheFails(w) BY Zenon, <2>3, WorkerKeepsPackets DEF CacheFails
  <2>4. CASE WaitForRequest(w) BY Zenon, <2>4, WorkerKeepsPackets DEF WaitForRequest
  <2>5. CASE QuitTest(w) BY Zenon, <2>5, WorkerKeepsPackets DEF QuitTest
  <2>6. CASE ExtractQueries(w) BY Zenon, <2>6, WorkerKeepsPackets DEF ExtractQueries
  <2>7. CASE ResolveLocally(w) BY Zenon, <2>7, WorkerKeepsPackets DEF ResolveLocally
  <2>8. CASE ResolveThrows(w) BY Zenon, <2>8, WorkerKeepsPackets DEF ResolveThrows
  <2>9. CASE ForwardRequest(w) BY Zenon, <2>9, WorkerKeepsPackets DEF ForwardRequest
  <2>10. CASE UpstreamAnswers(w) BY Zenon, <2>10, WorkerKeepsPackets DEF UpstreamAnswers
  <2>11. CASE UpstreamFails(w) BY Zenon, <2>11, WorkerKeepsPackets DEF UpstreamFails
  <2>12. CASE UpstreamLost(w) BY Zenon, <2>12, WorkerKeepsPackets DEF UpstreamLost
  <2> QED BY Zenon, <1>6, <2>1, <2>2, <2>3, <2>4, <2>5, <2>6, <2>7, <2>8, <2>9, <2>10,
             <2>11, <2>12 DEF Resolve, Upstream
<1>7. CASE UNCHANGED vars
  BY Zenon, <1>1, <1>7 DEF vars, mainVars, queueVars, localVars, packetVars, historyVars
<1> QED
  BY Zenon, <1>2, <1>3, <1>4, <1>5, <1>6, <1>7, MainKeepsPackets, CleanKeepsPackets,
     PopKeepsPackets, SendKeepsPackets DEF Next, MainStep, WorkerStep, Stopped

(* The packets, with the types and the owners of requests they rest on. *)
LEMMA PacketInvariant == Spec => [](TypeInv /\ OnceInv /\ PacketInv)
<1>1. Init => OnceInv BY Zenon, ServiceInitially
<1>2. Init => PacketInv
  BY DEF Init, PacketInv, Holding, Serving, Idle, Range
<1>3. TypeInv /\ OnceInv /\ [Next]_vars => OnceInv' BY Zenon, ServiceStep
<1>4. TypeInv /\ OnceInv /\ PacketInv /\ [Next]_vars => PacketInv' BY Zenon, PacketStep
<1> QED BY <1>1, <1>2, <1>3, <1>4, TypeInvariant, PTL DEF Spec

(* Every packet run() allocates has one owner until a worker frees it, and *)
(* nobody uses a freed one: only a worker that ends leaves one behind.     *)
THEOREM PacketsHaveOwners == Spec => []PacketsAccounted
<1>1. TypeInv /\ PacketInv => PacketsAccounted
  BY Zenon DEF PacketInv, PacketsAccounted, InUse, LeftBehind
<1> QED BY <1>1, PacketInvariant, PTL

-----------------------------------------------------------------------------
(* The answers.  From the answer of the recursive server on, a worker whose *)
(* response must be cached holds that answer: what others write or free is *)
(* another packet.                                                         *)
Answered == {"send", "while", "top"}

AnswerInv ==
  \A w \in Workers :
    /\ pc[w] = "start" => ~recursionOccurred[w]
    /\ pc[w] \in Answered /\ MustCache(w) =>
         request[w] \in Requests /\ content[request[w]] = "upstream"

(* A step that changes no packet's content, and lets no worker get to a    *)
(* response it must cache.                                                 *)
LEMMA ContentLeft ==
  ASSUME AnswerInv, UNCHANGED content,
         \A w \in Workers :
           /\ pc'[w] = "start" => pc[w] = "start" /\ recursionOccurred'[w] = recursionOccurred[w]
           /\ pc'[w] \in Answered /\ MustCache(w)' =>
                pc[w] \in Answered /\ MustCache(w) /\ request'[w] = request[w]
  PROVE  AnswerInv'
BY Zenon DEF AnswerInv

(* A step of a worker that writes to the packet it holds. *)
LEMMA ContentWritten ==
  ASSUME TypeInv, OnceInv, PacketInv, AnswerInv, NEW w \in Workers, NEW to, NEW c,
         pc[w] \in Holding, pc' = [pc EXCEPT ![w] = to], to # "start",
         request' = request,
         \A v \in Workers \ {w} : /\ error'[v] = error[v]
                                  /\ recursionOccurred'[v] = recursionOccurred[v],
         \A r \in Requests : content'[r] = IF r = request[w] THEN c ELSE content[r],
         to \in Answered /\ MustCache(w)' => request[w] \in Requests /\ c = "upstream"
  PROVE  AnswerInv'
<1>1. /\ pc'[w] = to
      /\ \A v \in Workers \ {w} : pc'[v] = pc[v]
  BY Zenon DEF TypeInv, TypeOK
<1>2. ASSUME NEW v \in Workers, v # w, pc[v] \in Answered, request[v] \in Requests
      PROVE  request[v] # request[w]
  <2>1. pc[v] \in Holding BY Zenon, <1>2 DEF Answered, Holding, Serving
  <2>2. request[v] # NULL BY Zenon, <1>2, ConstantsAssumption DEF ConstantsAssumption
  <2> QED BY Zenon, <1>2, <2>1, <2>2, HeldByOne
<1>3. ASSUME NEW v \in Workers, v # w
      PROVE  /\ pc'[v] = "start" => ~recursionOccurred'[v]
             /\ pc'[v] \in Answered /\ MustCache(v)' =>
                  request'[v] \in Requests /\ content'[request'[v]] = "upstream"
  <2>1. MustCache(v)' => MustCache(v) BY Zenon, <1>3 DEF MustCache
  <2> QED BY <1>1, <1>2, <1>3, <2>1 DEF AnswerInv
<1>4. pc'[w] \in Answered /\ MustCache(w)' =>
         request'[w] \in Requests /\ content'[request'[w]] = "upstream"
  BY Zenon, <1>1
<1> QED BY Zenon, <1>1, <1>3, <1>4 DEF AnswerInv

(* A step of a worker that writes to no packet. *)
LEMMA WorkerKeepsAnswers ==
  ASSUME TypeInv, AnswerInv, NEW w \in Workers, NEW from, NEW to,
         Worker(w, from, to), to # "start", UNCHANGED content,
         \A v \in Workers \ {w} : /\ request'[v] = request[v] /\ error'[v] = error[v]
                                  /\ recursionOccurred'[v] = recursionOccurred[v],
         to \in Answered /\ MustCache(w)' =>
           from \in Answered /\ MustCache(w) /\ request'[w] = request[w]
  PROVE  AnswerInv'
<1>1. /\ pc[w] = from /\ pc'[w] = to
      /\ \A v \in Workers \ {w} : pc'[v] = pc[v]
  BY Zenon DEF Worker, TypeInv, TypeOK
<1>2. \A v \in Workers \ {w} : MustCache(v)' => MustCache(v) BY Zenon DEF MustCache
<1> QED BY Zenon, <1>1, <1>2, ContentLeft

(* Every step of a server with a recursive server keeps the answers apart. *)
LEMMA AnswerStep ==
  ASSUME HasRecursiveServer, TypeInv, OnceInv, PacketInv, AnswerInv, [Next]_vars
  PROVE  AnswerInv'
<1>1. ASSUME UNCHANGED <<localVars, content>> PROVE AnswerInv'
  BY Zenon, <1>1 DEF AnswerInv, localVars, MustCache
<1>2. ASSUME NEW r \in Requests, Arrive(r) PROVE AnswerInv'
  BY Zenon, <1>1, <1>2 DEF Arrive, workerVars, packetVars
<1>3. ASSUME MainStep PROVE AnswerInv'
  <2> USE <1>1 DEF Main, workerVars, packetVars
  <2>1. CASE Bind \/ BindFails \/ RunTest BY Zenon, <2>1 DEF Bind, BindFails, RunTest
  <2>2. CASE WaitForDatagram \/ ReceiveDatagram BY Zenon, <2>2 DEF WaitForDatagram, ReceiveDatagram
  <2>3. CASE PushRequest \/ ReleaseToken BY Zenon, <2>3 DEF PushRequest, ReleaseToken
  <2>4. CASE FreeStrings \/ JoinThreads BY Zenon, <2>4 DEF FreeStrings, JoinThreads
  <2>5. CASE DeleteServer \/ MainReturns BY Zenon, <2>5 DEF DeleteServer, MainReturns
  <2> QED BY Zenon, <1>3, <2>1, <2>2, <2>3, <2>4, <2>5 DEF MainStep
<1>4. ASSUME ClearRunning \/ SignalQuit \/ HandlerUsesFreedServer PROVE AnswerInv'
  BY Zenon, <1>1, <1>4
     DEF ClearRunning, SignalQuit, HandlerUsesFreedServer, Fault, workerVars, packetVars
<1>5. ASSUME NEW w \in Workers, StartFails(w) \/ PopEmpty(w) \/ WorkerUsesFreedServer(w)
      PROVE  AnswerInv'
  BY Zenon, <1>1, <1>5
     DEF StartFails, PopEmpty, WorkerUsesFreedServer, Fault, workerVars, packetVars
<1>6. ASSUME NEW w \in Workers,
             \/ StartWorker(w) \/ LoopTest(w) \/ CacheFails(w) \/ WaitForRequest(w)
             \/ QuitTest(w) \/ PopRequest(w) \/ ExtractQueries(w) \/ ResolveThrows(w)
             \/ ForwardRequest(w) \/ UpstreamFails(w) \/ UpstreamLost(w) \/ SendResponse(w)
      PROVE  AnswerInv'
  <2> USE WorkerKeepsAnswers DEF Answered, MustCache, packetVars, TypeInv, TypeOK
  <2>1. CASE StartWorker(w)
    <3>1. ~recursionOccurred[w] BY Zenon, <2>1 DEF StartWorker, Worker, AnswerInv
    <3> QED BY Zenon, <2>1, <3>1 DEF StartWorker
  <2>2. CASE LoopTest(w) BY Zenon, <2>2 DEF LoopTest
  <2>3. CASE CacheFails(w) BY Zenon, <2>3 DEF CacheFails, Throw
  <2>4. CASE WaitForRequest(w) BY Zenon, <2>4 DEF WaitForRequest
  <2>5. CASE QuitTest(w) BY Zenon, <2>5 DEF QuitTest
  <2>6. CASE PopRequest(w) BY Zenon, <2>6 DEF PopRequest
  <2>7. CASE ExtractQueries(w) BY Zenon, <2>7 DEF ExtractQueries
  <2>8. CASE ResolveThrows(w) BY Zenon, <2>8 DEF ResolveThrows, Throw
  <2>9. CASE ForwardRequest(w) BY Zenon, <2>9 DEF ForwardRequest
  <2>10. CASE UpstreamFails(w) BY Zenon, <2>10 DEF UpstreamFails, Throw
  <2>11. CASE UpstreamLost(w) BY Zenon, <2>11 DEF UpstreamLost
  <2>12. CASE SendResponse(w) BY Zenon, <2>12 DEF SendResponse
  <2> QED BY Zenon, <1>6, <2>1, <2>2, <2>3, <2>4, <2>5, <2>6, <2>7, <2>8, <2>9, <2>10,
             <2>11, <2>12
<1>7. ASSUME NEW w \in Workers, ResolveLocally(w) PROVE AnswerInv'
  <2>1. /\ pc[w] = "resolve" /\ pc' = [pc EXCEPT ![w] = "send"] /\ UNCHANGED <<request, error>>
        /\ recursionOccurred' = [recursionOccurred EXCEPT ![w] = FALSE]
        /\ content' = [content EXCEPT ![request[w]] = "local"]
    BY Zenon, <1>7 DEF ResolveLocally, Worker
  <2>2. pc[w] \in Holding /\ pc' = [pc EXCEPT ![w] = "send"] /\ request' = request
    BY Zenon, <2>1 DEF Holding, Serving
  <2>3. ~MustCache(w)' BY Zenon, <2>1 DEF MustCache, TypeInv, TypeOK
  <2>4. /\ \A r \in Requests : content'[r] = IF r = request[w] THEN "local" ELSE content[r]
        /\ \A v \in Workers \ {w} : /\ error'[v] = error[v]
                                    /\ recursionOccurred'[v] = recursionOccurred[v]
    BY Zenon, <2>1 DEF TypeInv, TypeOK
  <2> QED BY ZenonT(60), <2>2, <2>3, <2>4, ContentWritten
<1>8. ASSUME NEW w \in Workers, UpstreamAnswers(w) PROVE AnswerInv'
  <2>1. /\ pc[w] = "recurse" /\ pc' = [pc EXCEPT ![w] = "send"] /\ UNCHANGED <<request, error>>
        /\ recursionOccurred' = [recursionOccurred EXCEPT ![w] = TRUE]
        /\ content' = [content EXCEPT ![request[w]] = "upstream"]
    BY Zenon, <1>8 DEF UpstreamAnswers, Worker
  <2>2. pc[w] \in Holding /\ pc' = [pc EXCEPT ![w] = "send"] /\ request' = request
    BY Zenon, <2>1 DEF Holding, Serving
  <2>3. request[w] \in Requests
    BY Zenon, <2>1 DEF Holding, Serving, TypeInv, PacketsInHand
  <2>4. /\ \A r \in Requests : content'[r] = IF r = request[w] THEN "upstream" ELSE content[r]
        /\ \A v \in Workers \ {w} : /\ error'[v] = error[v]
                                    /\ recursionOccurred'[v] = recursionOccurred[v]
    BY Zenon, <2>1 DEF TypeInv, TypeOK
  <2> QED BY ZenonT(60), <2>2, <2>3, <2>4, ContentWritten
<1>9. ASSUME NEW w \in Workers, CacheAndClean(w) PROVE AnswerInv'
  <2>1. /\ pc[w] = "top" /\ pc' = [pc EXCEPT ![w] = "wait"]
        /\ UNCHANGED <<request, recursionOccurred>>
        /\ error' = [error EXCEPT ![w] = FALSE]
        /\ \A r \in Requests : content'[r] = IF r = request[w] THEN "freed" ELSE content[r]
    BY Zenon, <1>9 DEF CacheAndClean, Worker, Freed
  <2>2. pc[w] \in Holding /\ "wait" \notin Answered BY Zenon, <2>1 DEF Holding, Answered
  <2>3. \A v \in Workers \ {w} : /\ error'[v] = error[v]
                                 /\ recursionOccurred'[v] = recursionOccurred[v]
    BY Zenon, <2>1 DEF TypeInv, TypeOK
  <2>4. pc' = [pc EXCEPT ![w] = "wait"] /\ request' = request /\ "wait" # "start" BY Zenon, <2>1
  <2>5. \A r \in Requests : content'[r] = IF r = request[w] THEN "freed" ELSE content[r]
    BY Zenon, <2>1
  <2>6. "wait" \in Answered /\ MustCache(w)' => request[w] \in Requests /\ "freed" = "upstream"
    BY Zenon, <2>2
  <2> QED BY ZenonT(60), <2>2, <2>3, <2>4, <2>5, <2>6, ContentWritten
<1>10. CASE UNCHANGED vars BY Zenon, <1>1, <1>10 DEF vars, packetVars
<1> QED
  BY Zenon, <1>2, <1>3, <1>4, <1>5, <1>6, <1>7, <1>8, <1>9, <1>10
     DEF Next, WorkerStep, Resolve, Upstream, Stopped

(* serviceRequests() caches only what the recursive server answered to the *)
(* request of this very iteration, while its packet is still allocated.    *)
THEOREM OnlyOwnAnswerCached == Spec => []CachesOwnAnswer
<1>1. CASE HasRecursiveServer
  <2>1. Init => AnswerInv BY Zenon DEF Init, AnswerInv, Answered
  <2>2. TypeInv /\ OnceInv /\ PacketInv /\ AnswerInv /\ [Next]_vars => AnswerInv'
    BY Zenon, <1>1, AnswerStep
  <2>3. TypeInv /\ PacketInv /\ AnswerInv => CachesOwnAnswer
    <3> SUFFICES ASSUME TypeInv, PacketInv, AnswerInv,
                        NEW w \in Workers, pc[w] = "top", MustCache(w)
                 PROVE  /\ content[request[w]] = "upstream"
                        /\ request[w] \in heap \cap finished
      BY Zenon DEF CachesOwnAnswer
    <3>1. request[w] \in Requests /\ content[request[w]] = "upstream"
      BY Zenon DEF AnswerInv, Answered
    <3>2. request[w] # NULL BY Zenon, <3>1, ConstantsAssumption DEF ConstantsAssumption
    <3> QED BY Zenon, <3>1, <3>2 DEF PacketInv, Idle, Holding
  <2> QED BY <2>1, <2>2, <2>3, PacketInvariant, PTL DEF Spec
<1>2. CASE ~HasRecursiveServer
  <2>1. CachesOwnAnswer BY Zenon, <1>2 DEF CachesOwnAnswer
  <2> QED BY <2>1, PTL
<1> QED BY Zenon, <1>1, <1>2

-----------------------------------------------------------------------------
(* The tokens.  The library on finite sets is used from here on only.      *)
INSTANCE FiniteSetTheorems

(* The threads are finitely many, so sets of them can be counted. *)
LEMMA WorkersCounted == Counted
<1>1. IsFiniteSet(Workers)
  <2>1. 0 \in Int /\ NumThreads - 1 \in Int
    BY ConstantsAssumption DEF ConstantsAssumption
  <2> QED BY Zenon, <2>1, FS_Interval DEF Workers
<1>2. ASSUME NEW S \in SUBSET Workers
      PROVE  /\ Cardinality(S) \in Nat
             /\ \A w \in Workers \ S : Cardinality(S \cup {w}) = Cardinality(S) + 1
  <2>1. IsFiniteSet(S) BY Zenon, <1>1, <1>2, FS_Subset
  <2>2. Cardinality(S) \in Nat BY Zenon, <2>1, FS_CardinalityType
  <2>3. ASSUME NEW w \in Workers \ S PROVE Cardinality(S \cup {w}) = Cardinality(S) + 1
    BY Zenon, <2>1, <2>3, FS_AddElement
  <2> QED BY Zenon, <2>2, <2>3
<1>3. Cardinality({}) = 0 BY Zenon, FS_EmptySet
<1> QED BY Zenon, <1>2, <1>3 DEF Counted

(* run() pushes before it releases, and a worker takes its token before it *)
(* pops: until the quit event is set every token is backed by a request.   *)
THEOREM TokenInvariant == Spec => []TokenInv
<1>1. Init => TokenInv BY Zenon, WorkersCounted, TokensInitially
<1>2. TypeInv /\ TypeInv' /\ TokenInv /\ [Next]_vars => TokenInv'
  BY Zenon, WorkersCounted, TokenStep
<1> QED BY <1>1, <1>2, TypeInvariant, PTL DEF Spec

(* Before shutdown() no worker pops an empty queue, and only a constructor *)
(* that threw leaves threads in a freed server.                            *)
THEOREM SafeBeforeShutdown == Spec => []NoFaultBeforeShutdown
<1>1. TokenInv => NoFaultBeforeShutdown BY Zenon DEF TokenInv
<1> QED BY <1>1, TokenInvariant, PTL

(* Until the quit event is set, the semaphore's tokens are backed. *)
THEOREM TokensAlwaysCovered == Spec => []TokensCovered
<1>1. TokenInv => TokensCovered BY Zenon DEF TokenInv
<1> QED BY <1>1, TokenInvariant, PTL
=============================================================================
