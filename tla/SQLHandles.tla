----------------------------- MODULE SQLHandles -----------------------------
(***************************************************************************)
(* The ODBC handles of the server: one environment, a connection for each  *)
(* worker, and the statements of DNSResolver::resolveA and cacheResponse,  *)
(* with an error possible at every call.  handleErrors turns SQL_ERROR     *)
(* into an exception; the statements of the scope are then destroyed, the  *)
(* transaction (autocommit is off) stays as it is, and the worker goes on  *)
(* with its next request.                                                  *)
(*                                                                         *)
(* The driver manager is external: a connection with an open transaction   *)
(* cannot be disconnected, a connection that is still connected and an     *)
(* environment that still has connections cannot be freed.                 *)
(***************************************************************************)
EXTENDS Naturals

CONSTANTS
  Workers,
  MaxTurns    \* bound: lookups and cachings of each worker

ASSUME HandlesAssumption == MaxTurns \in Nat

VARIABLES
  henv,        \* is the environment allocated
  hdbc,        \* each worker's connection: "none", "allocated" or "connected"
  hstmt,       \* its allocated statements
  open,        \* does its connection have an open transaction
  pc,          \* its next call
  failed,      \* history: did its last lookup or caching throw
  turns,
  isRunning,
  exited       \* the process: "no", "exit" by a worker, "return" from main

connVars == <<henv, hdbc>>
vars == <<connVars, hstmt, open, pc, failed, turns, isRunning, exited>>

Init ==
  /\ henv = TRUE
  /\ hdbc = [w \in Workers |-> "none"] /\ hstmt = [w \in Workers |-> {}]
  /\ open = [w \in Workers |-> FALSE] /\ pc = [w \in Workers |-> "start"]
  /\ failed = [w \in Workers |-> FALSE] /\ turns = [w \in Workers |-> 0]
  /\ isRunning = TRUE /\ exited = "no"

(* What the calls of a worker do, apart from moving on to the next one. *)
Goto(w, from, to) == exited = "no" /\ pc[w] = from /\ pc' = [pc EXCEPT ![w] = to]
Allocated(w, s) == hstmt' = [hstmt EXCEPT ![w] = @ \cup {s}]
Freed(w) == hstmt' = [hstmt EXCEPT ![w] = {}]

Only(w, from, to) ==
  Goto(w, from, to) /\ UNCHANGED <<connVars, hstmt, open, failed, turns, isRunning, exited>>
-----------------------------------------------------------------------------
(* The constructors of the worker's resolver and of its connection; any    *)
(* error there ends the process.                                           *)
AllocConnection(w) ==
  /\ Goto(w, "start", "setAutocommit")
  /\ hdbc' = [hdbc EXCEPT ![w] = "allocated"]
  /\ UNCHANGED <<henv, hstmt, open, failed, turns, isRunning, exited>>

SetAutocommit(w) == Only(w, "setAutocommit", "connect")

Connect(w) ==
  /\ Goto(w, "connect", "wait")
  /\ hdbc' = [hdbc EXCEPT ![w] = "connected"]
  /\ UNCHANGED <<henv, hstmt, open, failed, turns, isRunning, exited>>

StartFails(w) ==
  /\ exited = "no" /\ pc[w] \in {"start", "setAutocommit", "connect"}
  /\ exited' = "exit"
  /\ UNCHANGED <<connVars, hstmt, open, pc, failed, turns, isRunning>>

(* A statement's constructor. *)
AllocStatement(w, s, from, to) ==
  /\ Goto(w, from, to) /\ Allocated(w, s)
  /\ UNCHANGED <<connVars, open, failed, turns, isRunning, exited>>

(* SQLExecute, which begins a transaction if there is none. *)
Execute(w, from, to) ==
  /\ Goto(w, from, to)
  /\ open' = [open EXCEPT ![w] = TRUE]
  /\ UNCHANGED <<connVars, hstmt, failed, turns, isRunning, exited>>

EndWithoutCommit(w, from, to) ==
  /\ Goto(w, from, to)
  /\ UNCHANGED <<connVars, hstmt, open, failed, turns, isRunning, exited>>

(* SQLEndTran. *)
EndTran(w, from, to) ==
  /\ Goto(w, from, to)
  /\ open' = [open EXCEPT ![w] = FALSE]
  /\ UNCHANGED <<connVars, hstmt, failed, turns, isRunning, exited>>

(* A turn of the loop begins with the caching of the last answer, if there *)
(* is one, or with a lookup.                                               *)
Begin(w) ==
  /\ turns[w] < MaxTurns
  /\ Goto(w, "wait", "allocSelect") \/ Goto(w, "wait", "allocInsert")
  /\ turns' = [turns EXCEPT ![w] = @ + 1]
  /\ UNCHANGED <<connVars, hstmt, open, failed, isRunning, exited>>

(* resolveA: bind, prepare and execute, then fetch rows and their columns  *)
(* until there are no more, and commit; on a miss the recursive server is  *)
(* asked before the statement goes.                                        *)
Lookup(w) ==
  \/ AllocStatement(w, "select", "allocSelect", "prepareSelect")
  \/ Only(w, "prepareSelect", "executeSelect")
  \/ Execute(w, "executeSelect", "fetch")
  \/ Only(w, "fetch", "fetch") \/ Only(w, "fetch", "commitSelect")
  \/ EndTran(w, "commitSelect", "return") \/ EndTran(w, "commitSelect", "recurse")
  \/ Only(w, "recurse", "return")

(* cacheResponse: two statements, for every record a DELETE and an INSERT, *)
(* and a commit through each statement.                                    *)
Cache(w) ==
  \/ AllocStatement(w, "insert", "allocInsert", "allocDelete")
  \/ AllocStatement(w, "delete", "allocDelete", "prepareDelete")
  \/ Only(w, "prepareDelete", "prepareInsert")
  \/ Only(w, "prepareInsert", "executeDelete")
  \/ Execute(w, "executeDelete", "executeInsert")
  \/ Execute(w, "executeInsert", "executeDelete")
  \/ Only(w, "executeDelete", "commitDelete")
  \/ EndTran(w, "commitDelete", "commitInsert")
  \/ EndTran(w, "commitInsert", "return")

InTurn == {"allocSelect", "prepareSelect", "executeSelect", "fetch", "commitSelect", "recurse",
           "allocInsert", "allocDelete", "prepareDelete", "prepareInsert",
           "executeDelete", "executeInsert", "commitDelete", "commitInsert"}

(* The function returns, or a call in it fails (so may recursiveResolve,   *)
(* and the decoding of a record): the statements of the scope are          *)
(* destroyed.  A failing SQLExecute may have begun a transaction.          *)
Return(w) ==
  /\ Goto(w, "return", "wait")
  /\ Freed(w) /\ failed' = [failed EXCEPT ![w] = FALSE]
  /\ UNCHANGED <<connVars, open, turns, isRunning, exited>>

Throw(w) ==
  /\ pc[w] \in InTurn
  /\ Goto(w, pc[w], "wait")
  /\ Freed(w) /\ failed' = [failed EXCEPT ![w] = TRUE]
  /\ \/ UNCHANGED open
     \/ /\ pc[w] \in {"executeSelect", "executeDelete", "executeInsert"}
        /\ open' = [open EXCEPT ![w] = TRUE]
  /\ UNCHANGED <<connVars, turns, isRunning, exited>>

(* shutdown(), after which the workers end: the resolver is deleted, and   *)
(* its connection is disconnected and freed if the driver manager can.     *)
Shutdown ==
  /\ exited = "no" /\ isRunning /\ isRunning' = FALSE
  /\ UNCHANGED <<connVars, hstmt, open, pc, failed, turns, exited>>

NotFreed(w) == IF open[w] THEN "connected" ELSE "allocated"
Disconnected(w) == IF open[w] THEN "connected" ELSE "none"

EndWorker(w) ==
  /\ ~isRunning /\ Goto(w, "wait", "done")
  /\ hdbc' = [hdbc EXCEPT ![w] = Disconnected(w)]
  /\ UNCHANGED <<henv, hstmt, open, failed, turns, isRunning, exited>>

(* ~DNSServer has waited for the workers; its environment is freed last. *)
DeleteServer ==
  /\ exited = "no" /\ \A w \in Workers : pc[w] = "done"
  /\ henv' = (\E w \in Workers : hdbc[w] # "none")
  /\ exited' = "return"
  /\ UNCHANGED <<hdbc, hstmt, open, pc, failed, turns, isRunning>>

WorkerStep(w) ==
  \/ AllocConnection(w) \/ SetAutocommit(w) \/ Connect(w) \/ StartFails(w)
  \/ Begin(w) \/ Lookup(w) \/ Cache(w) \/ Return(w) \/ Throw(w) \/ EndWorker(w)

Next == Shutdown \/ DeleteServer \/ \E w \in Workers : WorkerStep(w)

Spec == Init /\ [][Next]_vars
-----------------------------------------------------------------------------
(* A lookup or a caching that returns has ended the transaction, its own   *)
(* and any that an earlier exception left open: a worker waits inside a    *)
(* transaction only after its last turn threw.                             *)
ReturnsCommitted == \A w \in Workers : pc[w] = "wait" /\ open[w] => failed[w]

(* When main returns, every connection is disconnected and freed and so is *)
(* the environment, unless the last turn of some worker threw.             *)
HandlesFreed ==
  exited = "return" /\ (\A w \in Workers : ~failed[w]) =>
    ~henv /\ \A w \in Workers : hdbc[w] = "none" /\ hstmt[w] = {}
=============================================================================
