------------------------------ MODULE DNSServer ------------------------------
(***************************************************************************)
(* The threads of the server: the main thread (main and DNSServer::run),   *)
(* the worker threads (DNSServer::serviceRequests) and the thread on which *)
(* the console control handler calls DNSServer::shutdown.  They share the  *)
(* request queue, the semaphore that counts it, the quit event and the     *)
(* flag isRunning.  An action is one step between two accesses to shared   *)
(* state.  A section under queueCS is one action: the only access outside  *)
(* the section is the read of the queue's size, and it sees the queue as   *)
(* it was before or after.                                                 *)
(*                                                                         *)
(* What resolving a request does (SQL, name coding, the upstream socket)   *)
(* is abstracted to its outcomes: answered from the cache, answered by the *)
(* recursive server, failed with an exception, or no answer ever.  A       *)
(* request is one question here; Response has packets of several, whose    *)
(* answers may come from both sides.                                       *)
(***************************************************************************)
EXTENDS Integers, Sequences, FiniteSets, Functions

CONSTANTS
  Requests,             \* datagrams that clients send; each stands for its packet
  Broken,               \* those for which recvfrom may report an error
  NULL,                 \* no packet
  NumThreads,           \* option threads=, the number of workers
  MaxWaitObjects,       \* MAXIMUM_WAIT_OBJECTS of WaitForMultipleObjects
  SemaphoreMax,         \* maximum count of requestSemaphore, as large as a queue can get
  HasRecursiveServer,   \* is a recursive server configured
  UpstreamMayLose       \* may the recursive server's answer be lost

ASSUME ConstantsAssumption ==
  /\ Broken \subseteq Requests /\ NULL \notin Requests
  /\ NumThreads \in Nat
  /\ MaxWaitObjects \in Nat \ {0} /\ SemaphoreMax \in Nat \ {0}
  /\ HasRecursiveServer \in BOOLEAN /\ UpstreamMayLose \in BOOLEAN

Workers == 0 .. NumThreads - 1          \* indices into the array threads

VARIABLES
  \* the process and its main thread
  process,              \* running, exited, or undefined after a named fault
  mainPc,
  threadsWaiting,       \* the destructor's loop counter
  hand,                 \* packet run() has received and not yet queued
  \* shutdown
  isRunning, quitEvent,
  ctrlPc,               \* where the console handler is inside shutdown()
  \* the listening socket and its FD_READ event
  selected,             \* did WSAEventSelect succeed
  arrived, sockBuf, fdRead, socketEvent,
  \* the queue, its semaphore, the packets allocated and what they hold
  requestQueue, requestSemaphore, heap, content,
  \* locals of each worker
  pc, request, error, recursionOccurred,
  \* history: requests answered, requests queued before the shutdown
  finished, queuedRunning

mainVars == <<process, mainPc, threadsWaiting, hand>>
quitVars == <<isRunning, quitEvent, ctrlPc>>
sockVars == <<selected, arrived, sockBuf, fdRead, socketEvent>>
queueVars == <<requestQueue, requestSemaphore>>
packetVars == <<heap, content>>
localVars == <<pc, request, error, recursionOccurred>>
historyVars == <<finished, queuedRunning>>
workerVars == <<localVars, packetVars, finished>>
vars == <<mainVars, quitVars, sockVars, queueVars, packetVars, localVars, historyVars>>

Faults == {"empty pop", "use after delete"}
MainLabels == {"bind", "while", "wait", "recv", "push", "release", "strings",
               "join", "return", "unwound"}
Serving == {"extract", "resolve", "recurse", "blocked", "send"}
Holding == Serving \cup {"while", "top"}
WorkerLabels == Holding \cup {"start", "wait", "woken", "pop", "done"}

(* Every worker has been created; none has connected to the database. *)
Init ==
  /\ process = "running" /\ mainPc = "bind" /\ threadsWaiting = 0 /\ hand = NULL
  /\ isRunning = TRUE /\ quitEvent = FALSE /\ ctrlPc = "idle"
  /\ selected = FALSE /\ arrived = {} /\ sockBuf = <<>> /\ fdRead = FALSE /\ socketEvent = FALSE
  /\ requestQueue = <<>> /\ requestSemaphore = 0
  /\ heap = {} /\ content = [r \in Requests |-> "query"]
  /\ pc = [w \in Workers |-> "start"]
  /\ request = [w \in Workers |-> NULL]
  /\ error = [w \in Workers |-> FALSE]
  /\ recursionOccurred = [w \in Workers |-> FALSE]
  /\ finished = {} /\ queuedRunning = {}

-----------------------------------------------------------------------------
(* The network, as winsock shows it to the listening socket: a datagram is *)
(* buffered, and FD_READ signals socketEvent once, until recvfrom re-arms  *)
(* it.                                                                     *)
Arrive(r) ==
  /\ process = "running" /\ mainPc \notin {"bind", "return", "unwound"}
  /\ r \notin arrived
  /\ arrived' = arrived \cup {r}
  /\ sockBuf' = Append(sockBuf, r)
  /\ socketEvent' = (socketEvent \/ fdRead)
  /\ fdRead' = FALSE
  /\ UNCHANGED <<mainVars, quitVars, selected, queueVars, workerVars, queuedRunning>>

-----------------------------------------------------------------------------
(* The main thread. *)
Main(from, to) ==
  /\ process = "running"
  /\ mainPc = from /\ mainPc' = to

(* FD_READ is armed when the event could be selected. *)
ArmedMutant(ok) == FALSE        \* another event is selected
Armed(ok) == ok

(* socket, bind, WSAEventSelect, and main's SetConsoleCtrlHandler.  When   *)
(* WSAEventSelect fails the constructor logs it and goes on.               *)
Bind ==
  /\ Main("bind", "while")
  /\ selected' \in BOOLEAN
  /\ fdRead' = Armed(selected')
  /\ UNCHANGED <<process, threadsWaiting, hand, quitVars, arrived, sockBuf,
                 socketEvent, queueVars, workerVars, queuedRunning>>

(* The constructor throws with its threads running; the object is freed. *)
BindFails ==
  /\ Main("bind", "unwound")
  /\ UNCHANGED <<process, threadsWaiting, hand, quitVars, sockVars, queueVars,
                 workerVars, queuedRunning>>

RunTest ==
  /\ Main("while", IF isRunning THEN "wait" ELSE "strings")
  /\ UNCHANGED <<process, threadsWaiting, hand, quitVars, sockVars, queueVars,
                 workerVars, queuedRunning>>

(* Only the main thread sees its own wait end, so the test of isRunning    *)
(* that follows is part of the step.  socketEvent resets itself and comes  *)
(* first when both events are set.                                         *)
WaitForDatagram ==
  /\ Main("wait", IF isRunning THEN "recv" ELSE "strings")
  /\ socketEvent \/ quitEvent
  /\ socketEvent' = FALSE
  /\ UNCHANGED <<process, threadsWaiting, hand, quitVars, selected, arrived, sockBuf, fdRead,
                 queueVars, workerVars, queuedRunning>>

(* recvfrom, and the copy to a new packet.  After an error the datagram is *)
(* gone, and the next iteration begins.                                    *)
ReceiveDatagram ==
  /\ sockBuf # <<>>
  /\ \E failed \in {FALSE, Head(sockBuf) \in Broken} :
       /\ Main("recv", IF failed THEN "while" ELSE "push")
       /\ hand' = IF failed THEN NULL ELSE Head(sockBuf)
       /\ heap' = IF failed THEN heap ELSE heap \cup {Head(sockBuf)}
  /\ sockBuf' = Tail(sockBuf)
  /\ socketEvent' = (socketEvent \/ Tail(sockBuf) # <<>>)
  /\ fdRead' = (Tail(sockBuf) = <<>>)
  /\ UNCHANGED <<process, threadsWaiting, quitVars, selected, arrived, queueVars, content,
                 localVars, historyVars>>

PushRequest ==
  /\ Main("push", "release")
  /\ requestQueue' = Append(requestQueue, hand)
  /\ hand' = NULL
  /\ queuedRunning' = IF isRunning THEN queuedRunning \cup {hand} ELSE queuedRunning
  /\ UNCHANGED <<process, threadsWaiting, quitVars, sockVars, requestSemaphore,
                 workerVars>>

(* ReleaseSemaphore fails, unnoticed, at the maximum count. *)
ReleasedTwice(count) == count + 2
NotReleased(count) == count
Released(count) == IF count < SemaphoreMax THEN count + 1 ELSE count

ReleaseToken ==
  /\ Main("release", "while")
  /\ requestSemaphore' = Released(requestSemaphore)
  /\ UNCHANGED <<process, threadsWaiting, hand, quitVars, sockVars, requestQueue,
                 workerVars, queuedRunning>>

(* run() has returned: main frees connectionString and enters ~DNSServer. *)
FreeStrings ==
  /\ Main("strings", "join")
  /\ threadsWaiting' = NumThreads
  /\ UNCHANGED <<process, hand, quitVars, sockVars, queueVars, workerVars, queuedRunning>>

Smaller(a, b) == IF a < b THEN a ELSE b

(* The handles that one turn of the destructor's loop waits for.  A        *)
(* negative index reads memory before the array: those are not handles.    *)
WaitSlice(waiting) ==
  LET first == waiting - NumThreads
  IN first .. first + Smaller(waiting, MaxWaitObjects) - 1

(* WaitForMultipleObjects fails at once on what is not a handle. *)
WaitOver(slice) ==
  slice \subseteq Workers => \A w \in slice : pc[w] = "done"

JoinThreads ==
  /\ Main("join", "join")
  /\ threadsWaiting > 0
  /\ WaitOver(WaitSlice(threadsWaiting))
  /\ threadsWaiting' = threadsWaiting - Smaller(threadsWaiting, MaxWaitObjects)
  /\ UNCHANGED <<process, hand, quitVars, sockVars, queueVars, workerVars, queuedRunning>>

(* The rest of the destructor: the socket is closed, the object freed.     *)
(* When closesocket fails the destructor throws, which ends the process    *)
(* after the same steps; how it ends is not told apart.                    *)
DeleteServer ==
  /\ Main("join", "return")
  /\ threadsWaiting = 0
  /\ UNCHANGED <<process, threadsWaiting, hand, quitVars, sockVars, queueVars,
                 workerVars, queuedRunning>>

(* main returns, which ends the process and the threads it still has. *)
MainReturns ==
  /\ process = "running" /\ mainPc \in {"return", "unwound"}
  /\ process' = "exited"
  /\ UNCHANGED <<mainPc, threadsWaiting, hand, quitVars, sockVars, queueVars,
                 workerVars, queuedRunning>>

-----------------------------------------------------------------------------
(* shutdown(), called by the console handler on a thread of its own, as    *)
(* often as the user asks.  The handler stays installed after the server   *)
(* is deleted.                                                             *)
ServerFreed == mainPc \in {"return", "unwound"}

Fault(f) ==
  /\ process' = f
  /\ UNCHANGED <<mainPc, threadsWaiting, hand, quitVars, sockVars, queueVars,
                 workerVars, queuedRunning>>

ClearRunning ==
  /\ process = "running" /\ mainPc \notin {"bind", "unwound"}
  /\ ctrlPc = "idle" /\ ctrlPc' = "signal"
  /\ ~ServerFreed
  /\ isRunning' = FALSE
  /\ UNCHANGED <<mainVars, quitEvent, sockVars, queueVars, workerVars, queuedRunning>>

(* The event is manual-reset and never reset. *)
Pulsed(event) == event
Signalled(event) == TRUE

SignalQuit ==
  /\ process = "running"
  /\ ctrlPc = "signal" /\ ctrlPc' = "idle"
  /\ ~ServerFreed
  /\ quitEvent' = Signalled(quitEvent)
  /\ UNCHANGED <<mainVars, isRunning, sockVars, queueVars, workerVars, queuedRunning>>

HandlerUsesFreedServer ==
  /\ process = "running" /\ mainPc = "return"
  /\ Fault("use after delete")

-----------------------------------------------------------------------------
(* The worker threads. *)
Worker(w, from, to) ==
  /\ process = "running" /\ ~ServerFreed
  /\ pc[w] = from /\ pc' = [pc EXCEPT ![w] = to]
  /\ UNCHANGED <<mainVars, quitVars, sockVars, queuedRunning>>

Throw(w) == error' = [error EXCEPT ![w] = TRUE]

(* new DNSResolver: connects with connectionString, freed or not. *)
StartWorker(w) ==
  /\ Worker(w, "start", "while")
  /\ UNCHANGED <<queueVars, packetVars, request, error, recursionOccurred, finished>>

(* A worker that cannot connect calls exit(ERR_CONNECT_ODBC). *)
StartFails(w) ==
  /\ process = "running" /\ ~ServerFreed /\ pc[w] = "start"
  /\ process' = "exited"
  /\ UNCHANGED <<mainPc, threadsWaiting, hand, quitVars, sockVars, queueVars,
                 workerVars, queuedRunning>>

(* isRunning is never set again, so reading it and then the size is one step. *)
WorkLeftMutant == isRunning     \* the queue is not drained
WorkLeft == isRunning \/ requestQueue # <<>>

LoopTest(w) ==
  /\ Worker(w, "while", IF WorkLeft THEN "top" ELSE "done")
  /\ UNCHANGED <<queueVars, packetVars, request, error, recursionOccurred, finished>>

(* The error of this iteration is not looked at. *)
MustCacheMutant(w) == recursionOccurred[w]

MustCache(w) == ~error[w] /\ recursionOccurred[w]

(* What free() is called on. *)
FreedMutant(w) == IF error[w] THEN {} ELSE {request[w]}
Freed(w) == {request[w]}

(* The previous response is cached when it must be, then its packet freed. *)
(* The pointer to the freed packet stays in request.                       *)
CacheAndClean(w) ==
  /\ Worker(w, "top", "wait")
  /\ error' = [error EXCEPT ![w] = FALSE]
  /\ heap' = heap \ Freed(w)
  /\ content' = [r \in Requests |-> IF r \in Freed(w) THEN "freed" ELSE content[r]]
  /\ UNCHANGED <<queueVars, request, recursionOccurred, finished>>

(* cacheResponse throws: nothing is cleaned, the loop starts over. *)
CacheFails(w) ==
  /\ Worker(w, "top", "while")
  /\ MustCache(w)
  /\ Throw(w)
  /\ UNCHANGED <<queueVars, packetVars, request, recursionOccurred, finished>>

(* The semaphore is the first handle: its token is taken when there is one. *)
NotAcquired(count) == count             \* an event in place of the semaphore
AcquiredAlways(count) == count - 1      \* every wake-up counted as a token
Acquired(count) == IF count > 0 THEN count - 1 ELSE 0

WaitForRequest(w) ==
  /\ Worker(w, "wait", "woken")
  /\ requestSemaphore > 0 \/ quitEvent
  /\ requestSemaphore' = Acquired(requestSemaphore)
  /\ UNCHANGED <<requestQueue, packetVars, request, error, recursionOccurred, finished>>

QuitTest(w) ==
  /\ Worker(w, "woken", IF WorkLeft THEN "pop" ELSE "done")
  /\ UNCHANGED <<queueVars, packetVars, request, error, recursionOccurred, finished>>

(* std::queue: front() and pop(). *)
Newest(q) == q[Len(q)]                  \* a stack in place of the queue
Oldest(q) == Head(q)
NotPopped(q) == q                       \* front() without pop()
Popped(q) == Tail(q)

PopRequest(w) ==
  /\ Worker(w, "pop", "extract")
  /\ requestQueue # <<>>
  /\ request' = [request EXCEPT ![w] = Oldest(requestQueue)]
  /\ requestQueue' = Popped(requestQueue)
  /\ UNCHANGED <<requestSemaphore, packetVars, error, recursionOccurred, finished>>

(* front() and pop() of an empty std::queue are undefined. *)
PopEmpty(w) ==
  /\ process = "running" /\ ~ServerFreed /\ pc[w] = "pop"
  /\ requestQueue = <<>>
  /\ Fault("empty pop")

(* A question that cannot be extracted is an error, and is resolved anyway. *)
ExtractQueries(w) ==
  /\ Worker(w, "extract", "resolve")
  /\ \E failed \in BOOLEAN : error' = [error EXCEPT ![w] = failed]
  /\ UNCHANGED <<queueVars, packetVars, request, recursionOccurred, finished>>

(* Answered from the cache, with no answer, or not implemented. *)
ResolveLocally(w) ==
  /\ Worker(w, "resolve", "send")
  /\ recursionOccurred' = [recursionOccurred EXCEPT ![w] = FALSE]
  /\ content' = [content EXCEPT ![request[w]] = "local"]
  /\ UNCHANGED <<queueVars, heap, request, error, finished>>

(* An exception leaves responseInfo as the previous request set it. *)
ResolveThrows(w) ==
  /\ Worker(w, "resolve", "send")
  /\ Throw(w)
  /\ UNCHANGED <<queueVars, packetVars, request, recursionOccurred, finished>>

(* recursiveResolve: the packet is sent on, or left as it is when there is *)
(* no recursive server; then, too, recursion is said to have occurred.     *)
ForwardRequest(w) ==
  /\ Worker(w, "resolve", IF HasRecursiveServer THEN "recurse" ELSE "send")
  /\ recursionOccurred' = [recursionOccurred EXCEPT ![w] = @ \/ ~HasRecursiveServer]
  /\ UNCHANGED <<queueVars, packetVars, request, error, finished>>

UpstreamAnswers(w) ==
  /\ Worker(w, "recurse", "send")
  /\ recursionOccurred' = [recursionOccurred EXCEPT ![w] = TRUE]
  /\ content' = [content EXCEPT ![request[w]] = "upstream"]
  /\ UNCHANGED <<queueVars, heap, request, error, finished>>

(* sendto, select or recv fails, or the identifier does not match.  What   *)
(* recv has then written over the packet is not told apart from the query: *)
(* with error set it is sent and freed, never cached.                      *)
UpstreamFails(w) ==
  /\ Worker(w, "recurse", "send")
  /\ Throw(w)
  /\ UNCHANGED <<queueVars, packetVars, request, recursionOccurred, finished>>

(* select() has no timeout: without an answer it never returns. *)
UpstreamLost(w) ==
  /\ UpstreamMayLose
  /\ Worker(w, "recurse", "blocked")
  /\ UNCHANGED <<queueVars, packetVars, request, error, recursionOccurred, finished>>

(* sendto; its failure, or the error rethrown after it, ends the iteration. *)
SendResponse(w) ==
  /\ Worker(w, "send", "while")
  /\ \E failed \in BOOLEAN : error' = [error EXCEPT ![w] = @ \/ failed]
  /\ finished' = finished \cup {request[w]}
  /\ UNCHANGED <<queueVars, packetVars, request, recursionOccurred>>

(* A worker that main did not wait for runs on in a freed object. *)
WorkerUsesFreedServer(w) ==
  /\ process = "running" /\ ServerFreed
  /\ pc[w] \notin {"done", "blocked"}
  /\ pc[w] = "wait" => requestSemaphore > 0 \/ quitEvent
  /\ Fault("use after delete")

-----------------------------------------------------------------------------
MainStep ==
  \/ Bind \/ BindFails \/ RunTest \/ WaitForDatagram \/ ReceiveDatagram
  \/ PushRequest \/ ReleaseToken \/ FreeStrings \/ JoinThreads \/ DeleteServer
  \/ MainReturns

Resolve(w) ==
  \/ ResolveLocally(w) \/ ResolveThrows(w) \/ ForwardRequest(w)

WorkerStep(w) ==
  \/ StartWorker(w) \/ StartFails(w) \/ LoopTest(w) \/ CacheAndClean(w) \/ CacheFails(w)
  \/ WaitForRequest(w) \/ QuitTest(w) \/ PopRequest(w) \/ PopEmpty(w)
  \/ ExtractQueries(w) \/ Resolve(w) \/ SendResponse(w) \/ WorkerUsesFreedServer(w)

Upstream(w) == UpstreamAnswers(w) \/ UpstreamFails(w)

(* The process is gone, or nothing is known of it any more. *)
Stopped == process # "running" /\ UNCHANGED vars

Next ==
  \/ \E r \in Requests : Arrive(r)
  \/ MainStep
  \/ ClearRunning \/ SignalQuit \/ HandlerUsesFreedServer
  \/ \E w \in Workers : WorkerStep(w) \/ Upstream(w) \/ UpstreamLost(w)
  \/ Stopped

Spec == Init /\ [][Next]_vars

(* Threads that can run are scheduled, and an upstream answer that is not  *)
(* lost arrives; a worker waits for one or takes its next step, never      *)
(* both.  Clients and the user owe nothing.                                *)
Fairness ==
  /\ WF_vars(MainStep) /\ WF_vars(SignalQuit)
  /\ \A w \in Workers : WF_vars(WorkerStep(w) \/ Upstream(w))

FairSpec == Spec /\ Fairness

-----------------------------------------------------------------------------
(* The values each variable takes: the program counters of main() and      *)
(* serviceRequests(), the semaphore within its maximum, packets and flags. *)
TypeOK ==
  /\ process \in {"running", "exited"} \cup Faults
  /\ mainPc \in MainLabels
  /\ threadsWaiting \in 0 .. NumThreads
  /\ hand \in Requests \cup {NULL}
  /\ isRunning \in BOOLEAN /\ quitEvent \in BOOLEAN
  /\ ctrlPc \in {"idle", "signal"}
  /\ selected \in BOOLEAN /\ fdRead \in BOOLEAN /\ socketEvent \in BOOLEAN
  /\ arrived \in SUBSET Requests
  /\ sockBuf \in Seq(Requests) /\ requestQueue \in Seq(Requests)
  /\ requestSemaphore \in 0 .. SemaphoreMax
  /\ heap \in SUBSET Requests
  /\ content \in [Requests -> {"query", "local", "upstream", "freed"}]
  /\ pc \in [Workers -> WorkerLabels]
  /\ request \in [Workers -> Requests \cup {NULL}]
  /\ error \in [Workers -> BOOLEAN]
  /\ recursionOccurred \in [Workers -> BOOLEAN]
  /\ finished \in SUBSET Requests /\ queuedRunning \in SUBSET Requests

(* Until shutdown() is called, no worker pops an empty queue although      *)
(* serviceRequests() tests nothing under the lock, and no thread uses a    *)
(* freed server unless the constructor threw.                              *)
NoFaultBeforeShutdown ==
  process \in Faults => ~isRunning \/ mainPc = "unwound"

(* Why it is so: until the quit event is set, the tokens of                *)
(* requestSemaphore, those that workers have taken and not yet turned into *)
(* a pop, and the one run() is about to release, never exceed the queue.   *)
Claimants == {w \in Workers : pc[w] \in {"woken", "pop"}}
ReleaseDue == IF mainPc = "release" THEN 1 ELSE 0
TokensCovered ==
  ~quitEvent =>
    requestSemaphore + Cardinality(Claimants) + ReleaseDue <= Len(requestQueue)

InService == {request[w] : w \in {v \in Workers : pc[v] \in Serving}}

(* No request is in two hands: the packets in the queue are distinct,      *)
(* no two workers work on the same one, none that a worker works on is     *)
(* still queued, and none queued or worked on has been answered already.   *)
ExclusiveService ==
  /\ IsInjective(requestQueue)
  /\ \A w \in Workers : pc[w] \in Serving =>
       /\ request[w] \notin Range(requestQueue)
       /\ request[w] \notin finished
       /\ \A v \in Workers : pc[v] \in Serving /\ request[v] = request[w] => v = w
  /\ Range(requestQueue) \cap finished = {}

(* Every packet of run()'s malloc has one owner: one that is queued, in    *)
(* run()'s hand or used by a worker is allocated, and one that is          *)
(* allocated has such an owner, or was left behind by a worker that ended. *)
InUse == Range(requestQueue) \cup {hand} \cup
         {request[w] : w \in {v \in Workers : pc[v] \in Holding}}
LeftBehind == {request[w] : w \in {v \in Workers : pc[v] = "done"}}
PacketsAccounted ==
  /\ InUse \ {NULL} \subseteq heap
  /\ heap \subseteq InUse \cup LeftBehind

(* run() never waits with a datagram in the socket and no event to wake    *)
(* it, and never calls recvfrom with nothing to receive.                   *)
NoLostDatagram ==
  /\ mainPc = "wait" /\ selected /\ sockBuf # <<>> => socketEvent
  /\ mainPc = "recv" => sockBuf # <<>>

(* serviceRequests() caches what the recursive server answered to the      *)
(* request it has just finished, never a packet that an earlier request's  *)
(* responseInfo speaks of, and never a freed one.                          *)
CachesOwnAnswer ==
  HasRecursiveServer => \A w \in Workers :
    process = "running" /\ pc[w] = "top" /\ MustCache(w) =>
      /\ content[request[w]] = "upstream"
      /\ request[w] \in heap \cap finished

(* ~DNSServer returns with every worker ended and, as the workers drain    *)
(* the queue first, with every request queued before shutdown() answered.  *)
CleanExit ==
  mainPc = "return" =>
    /\ \A w \in Workers : pc[w] = "done"
    /\ NumThreads > 0 => queuedRunning \subseteq finished

(* Every datagram that arrives while the server runs is answered, even     *)
(* when the recursive server's answers get lost: a lost answer costs the   *)
(* request it belongs to and its worker, until no worker is left, and one  *)
(* that recvfrom refuses costs itself.  A request that is answered or      *)
(* excused stays so, and there are finitely many: each is served if and    *)
(* only if again and again none is waiting.                                *)
Excused(r) ==
  \/ ~isRunning \/ process # "running" \/ ~selected
  \/ \E w \in Workers : pc[w] = "blocked" /\ request[w] = r
  \/ \A w \in Workers : pc[w] = "blocked"
Refused(r) ==
  r \in Broken /\ r \notin Range(sockBuf) \cup {hand} \cup Range(requestQueue) \cup InService
Unserved == {r \in arrived \ finished : ~Excused(r) /\ ~Refused(r)}
EveryRequestServed == []<>(Unserved = {})

(* After shutdown() every thread that waits is woken, the queue is drained *)
(* and main returns: the server never hangs.  Two things excuse it.  A     *)
(* lost answer leaves a worker in select() for ever; and a fault, an empty *)
(* pop or a use of the freed server, leaves nothing known of the process.  *)
ShutdownCompletes ==
  ~isRunning ~> \/ process = "exited"
                \/ process \in Faults
                \/ \E w \in Workers : pc[w] = "blocked"

(* The server implements the service its clients rely on. *)
Service == INSTANCE RequestService
  WITH pending <- requestQueue,
       serving <- InService
ImplementsService == Service!ServiceSpec

-----------------------------------------------------------------------------
(* "Shuts down the server cleanly" (DNSServer.h): shutdown() never makes a *)
(* worker pop an empty queue.  It does; see the README.                     *)
NoEmptyPop == process # "empty pop"
=============================================================================
