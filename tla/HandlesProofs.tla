---------------------------- MODULE HandlesProofs ----------------------------
(***************************************************************************)
(* SQLHandles' invariants for any number of workers and of turns.  Each    *)
(* needs to know what holds between the calls: HInv says at which of them  *)
(* a worker can have a statement or an open transaction, and what the end  *)
(* of a worker leaves of its connection.                                   *)
(***************************************************************************)
EXTENDS SQLHandles, TLAPS

Starting == {"start", "setAutocommit", "connect"}
Places == Starting \cup InTurn \cup {"wait", "return", "done"}

HType ==
  /\ hdbc \in [Workers -> {"none", "allocated", "connected"}]
  /\ hstmt \in [Workers -> SUBSET {"select", "insert", "delete"}]
  /\ open \in [Workers -> BOOLEAN] /\ failed \in [Workers -> BOOLEAN]
  /\ pc \in [Workers -> Places]

(* One worker between two calls. *)
WorkerInv(w) ==
  /\ pc[w] \in Starting \cup {"wait", "done"} => hstmt[w] = {}
  /\ pc[w] \in Starting \cup {"recurse", "return"} => open[w] = FALSE
  /\ pc[w] \in {"wait", "done"} /\ open[w] = TRUE => failed[w] = TRUE
  /\ pc[w] = "done" /\ open[w] = FALSE => hdbc[w] = "none"

(* After main has returned: henv is what ~SQLEnvironment left. *)
ReturnInv ==
  exited = "return" =>
    /\ \A w \in Workers : pc[w] = "done"
    /\ henv => \E w \in Workers : hdbc[w] # "none"

HInv == HType /\ (\A w \in Workers : WorkerInv(w)) /\ ReturnInv

(* A step of worker w that moves it from one call to the next and changes  *)
(* nothing of the others keeps HInv if it keeps w's own part.              *)
LEMMA OneWorker ==
  ASSUME HInv, HType', NEW w \in Workers, WorkerInv(w)', exited = "no", exited' # "return",
         \A v \in Workers \ {w} : /\ pc'[v] = pc[v] /\ hdbc'[v] = hdbc[v]
                                  /\ hstmt'[v] = hstmt[v] /\ open'[v] = open[v]
                                  /\ failed'[v] = failed[v]
  PROVE  HInv'
<1>1. ASSUME NEW v \in Workers PROVE WorkerInv(v)'
  <2>1. CASE v = w BY Zenon, <2>1
  <2>2. CASE v # w BY Zenon, <2>2 DEF HInv, WorkerInv
  <2> QED BY Zenon, <2>1, <2>2
<1> QED BY Zenon, <1>1 DEF HInv, ReturnInv

(* A call within a turn keeps HInv, whatever it does to w's statements and *)
(* transaction, if the turn goes on to commit; after the commit there is   *)
(* no transaction.                                                         *)
LEMMA TurnStep ==
  ASSUME HInv, NEW w \in Workers, NEW from, NEW to \in InTurn \cup {"return"},
         Goto(w, from, to), hdbc' = hdbc, failed' = failed, exited' = exited,
         hstmt' \in [Workers -> SUBSET {"select", "insert", "delete"}],
         open' \in [Workers -> BOOLEAN],
         \A v \in Workers \ {w} : hstmt'[v] = hstmt[v] /\ open'[v] = open[v],
         to \in {"recurse", "return"} => open'[w] = FALSE
  PROVE  HInv'
<1>1. to \in Places /\ to \notin Starting \cup {"wait", "done"}
  BY Zenon DEF Places, InTurn, Starting
<1>2. pc' = [pc EXCEPT ![w] = to] /\ pc \in [Workers -> Places] /\ exited = "no"
  BY Zenon DEF Goto, HInv, HType
<1>3. pc' \in [Workers -> Places] /\ pc'[w] = to /\ \A v \in Workers \ {w} : pc'[v] = pc[v]
  BY Zenon, <1>1, <1>2
<1>4. HType' BY Zenon, <1>3 DEF HInv, HType
<1>5. WorkerInv(w)' BY Zenon, <1>1, <1>3 DEF WorkerInv
<1> QED BY Zenon, <1>2, <1>3, <1>4, <1>5, OneWorker

(* The four kinds of call in a turn. *)
Underway == InTurn \ {"recurse"}

(* A step that only moves the worker on. *)
LEMMA OnlyStep ==
  ASSUME HInv, NEW w \in Workers, NEW from, NEW to \in Underway, Only(w, from, to)
  PROVE  HInv'
BY Zenon, TurnStep DEF Only, connVars, Underway, InTurn, HInv, HType

(* SQLAllocHandle of a statement. *)
LEMMA AllocStep ==
  ASSUME HInv, NEW w \in Workers, NEW from, NEW to \in Underway,
         NEW s \in {"select", "insert", "delete"}, AllocStatement(w, s, from, to)
  PROVE  HInv'
<1>1. hstmt' \in [Workers -> SUBSET {"select", "insert", "delete"}]
  BY Zenon DEF AllocStatement, Allocated, HInv, HType
<1>2. \A v \in Workers \ {w} : hstmt'[v] = hstmt[v]
  BY Zenon DEF AllocStatement, Allocated, HInv, HType
<1> QED BY Zenon, <1>1, <1>2, TurnStep DEF AllocStatement, connVars, Underway, InTurn, HInv, HType

(* A statement executed, which opens a transaction. *)
LEMMA ExecuteStep ==
  ASSUME HInv, NEW w \in Workers, NEW from, NEW to \in Underway, Execute(w, from, to)
  PROVE  HInv'
<1>1. open' \in [Workers -> BOOLEAN] /\ \A v \in Workers \ {w} : open'[v] = open[v]
  BY Zenon DEF Execute, HInv, HType
<1> QED BY Zenon, <1>1, TurnStep DEF Execute, connVars, Underway, InTurn, HInv, HType

(* SQLEndTran closes the transaction. *)
LEMMA EndTranStep ==
  ASSUME HInv, NEW w \in Workers, NEW from, NEW to \in InTurn \cup {"return"},
         EndTran(w, from, to)
  PROVE  HInv'
<1>1. open' \in [Workers -> BOOLEAN] /\ open'[w] = FALSE
  BY Zenon DEF EndTran, HInv, HType
<1>2. \A v \in Workers \ {w} : open'[v] = open[v]
  BY Zenon DEF EndTran, HInv, HType
<1> QED BY Zenon, <1>1, <1>2, TurnStep DEF EndTran, connVars, HInv, HType

(* The workers start with nothing allocated. *)
LEMMA HInit == Init => HInv
BY DEF Init, HInv, HType, WorkerInv, ReturnInv, Places, Starting, InTurn

(* Every step of a worker and of the server keeps the invariant. *)
LEMMA HNext == HInv /\ [Next]_vars => HInv'
<1> SUFFICES ASSUME HInv, [Next]_vars PROVE HInv'
  BY Zenon
<1>1. CASE Shutdown
  BY Zenon, <1>1 DEF Shutdown, connVars, HInv, HType, WorkerInv, ReturnInv
<1>2. CASE DeleteServer
  BY Zenon, <1>2 DEF DeleteServer, HInv, HType, WorkerInv, ReturnInv
<1>3. CASE UNCHANGED vars
  BY Zenon, <1>3 DEF vars, connVars, HInv, HType, WorkerInv, ReturnInv
<1>4. ASSUME NEW w \in Workers, WorkerStep(w) PROVE HInv'
  <2>1. CASE AllocConnection(w)
    <3>1. exited = "no" /\ exited' = exited
      BY Zenon, <2>1 DEF AllocConnection, Goto
    <3>2. HType'
      BY Zenon, <2>1 DEF AllocConnection, Goto, connVars, HInv, HType, Places, Starting, InTurn
    <3>3. WorkerInv(w)'
      BY Zenon, <2>1 DEF AllocConnection, Goto, connVars, HInv, HType, WorkerInv, Starting, InTurn
    <3>4. \A v \in Workers \ {w} :
            /\ pc'[v] = pc[v] /\ hdbc'[v] = hdbc[v]
            /\ hstmt'[v] = hstmt[v] /\ open'[v] = open[v] /\ failed'[v] = failed[v]
      BY Zenon, <2>1 DEF AllocConnection, Goto, connVars, HInv, HType
    <3> QED BY Zenon, <3>1, <3>2, <3>3, <3>4, OneWorker
  <2>2. CASE SetAutocommit(w)
    <3>1. exited = "no" /\ exited' = exited
      BY Zenon, <2>2 DEF SetAutocommit, Only, Goto
    <3>2. HType'
      BY Zenon, <2>2 DEF SetAutocommit, Only, Goto, connVars, HInv, HType, Places, Starting, InTurn
    <3>3. WorkerInv(w)'
      BY Zenon, <2>2 DEF SetAutocommit, Only, Goto, connVars, HInv, HType, WorkerInv, Starting, InTurn
    <3>4. \A v \in Workers \ {w} :
            /\ pc'[v] = pc[v] /\ hdbc'[v] = hdbc[v]
            /\ hstmt'[v] = hstmt[v] /\ open'[v] = open[v] /\ failed'[v] = failed[v]
      BY Zenon, <2>2 DEF SetAutocommit, Only, Goto, connVars, HInv, HType
    <3> QED BY Zenon, <3>1, <3>2, <3>3, <3>4, OneWorker
  <2>3. CASE Connect(w)
    <3>1. exited = "no" /\ exited' = exited
      BY Zenon, <2>3 DEF Connect, Goto
    <3>2. HType'
      BY Zenon, <2>3 DEF Connect, Goto, connVars, HInv, HType, Places, Starting, InTurn
    <3>3. WorkerInv(w)'
      BY Zenon, <2>3 DEF Connect, Goto, connVars, HInv, HType, WorkerInv, Starting, InTurn
    <3>4. \A v \in Workers \ {w} :
            /\ pc'[v] = pc[v] /\ hdbc'[v] = hdbc[v]
            /\ hstmt'[v] = hstmt[v] /\ open'[v] = open[v] /\ failed'[v] = failed[v]
      BY Zenon, <2>3 DEF Connect, Goto, connVars, HInv, HType
    <3> QED BY Zenon, <3>1, <3>2, <3>3, <3>4, OneWorker
  <2>4. CASE StartFails(w)
    BY Zenon, <2>4, OneWorker DEF StartFails,
      Goto, connVars, HInv, HType, WorkerInv, Places, Starting, InTurn
  <2>5. CASE Begin(w)
    <3>1. CASE Goto(w, "wait", "allocSelect")
      BY Zenon, <2>5, <3>1, TurnStep DEF Begin, connVars, InTurn, HInv, HType
    <3>2. CASE Goto(w, "wait", "allocInsert")
      BY Zenon, <2>5, <3>2, TurnStep DEF Begin, connVars, InTurn, HInv, HType
    <3> QED BY Zenon, <2>5, <3>1, <3>2 DEF Begin
  <2>6. CASE Lookup(w)
    <3>1. CASE AllocStatement(w, "select", "allocSelect", "prepareSelect")
      BY Zenon, <3>1, AllocStep DEF Underway, InTurn
    <3>2. CASE Only(w, "prepareSelect", "executeSelect") BY Zenon, <3>2, OnlyStep DEF Underway, InTurn
    <3>3. CASE Execute(w, "executeSelect", "fetch") BY Zenon, <3>3, ExecuteStep DEF Underway, InTurn
    <3>4. CASE Only(w, "fetch", "fetch") BY Zenon, <3>4, OnlyStep DEF Underway, InTurn
    <3>5. CASE Only(w, "fetch", "commitSelect") BY Zenon, <3>5, OnlyStep DEF Underway, InTurn
    <3>6. CASE EndTran(w, "commitSelect", "return") BY Zenon, <3>6, EndTranStep DEF InTurn
    <3>7. CASE EndTran(w, "commitSelect", "recurse") BY Zenon, <3>7, EndTranStep DEF InTurn
    <3>8. CASE Only(w, "recurse", "return")
      BY Zenon, <3>8, TurnStep DEF Only, Goto, connVars, HInv, HType, WorkerInv
    <3> QED BY Zenon, <2>6, <3>1, <3>2, <3>3, <3>4, <3>5, <3>6, <3>7, <3>8 DEF Lookup
  <2>7. CASE Cache(w)
    <3>1. CASE AllocStatement(w, "insert", "allocInsert", "allocDelete")
      BY Zenon, <3>1, AllocStep DEF Underway, InTurn
    <3>2. CASE AllocStatement(w, "delete", "allocDelete", "prepareDelete")
      BY Zenon, <3>2, AllocStep DEF Underway, InTurn
    <3>3. CASE Only(w, "prepareDelete", "prepareInsert") BY Zenon, <3>3, OnlyStep DEF Underway, InTurn
    <3>4. CASE Only(w, "prepareInsert", "executeDelete") BY Zenon, <3>4, OnlyStep DEF Underway, InTurn
    <3>5. CASE Execute(w, "executeDelete", "executeInsert") BY Zenon, <3>5, ExecuteStep DEF Underway, InTurn
    <3>6. CASE Execute(w, "executeInsert", "executeDelete") BY Zenon, <3>6, ExecuteStep DEF Underway, InTurn
    <3>7. CASE Only(w, "executeDelete", "commitDelete") BY Zenon, <3>7, OnlyStep DEF Underway, InTurn
    <3>8. CASE EndTran(w, "commitDelete", "commitInsert") BY Zenon, <3>8, EndTranStep DEF InTurn
    <3>9. CASE EndTran(w, "commitInsert", "return") BY Zenon, <3>9, EndTranStep DEF InTurn
    <3> QED BY Zenon, <2>7, <3>1, <3>2, <3>3, <3>4, <3>5, <3>6, <3>7, <3>8, <3>9 DEF Cache
  <2>8. CASE Return(w)
    <3>1. exited = "no" /\ exited' = exited
      BY Zenon, <2>8 DEF Return, Freed, Goto
    <3>2. HType'
      BY Zenon, <2>8 DEF Return, Freed, Goto, connVars, HInv, HType, Places, Starting, InTurn
    <3>3. WorkerInv(w)'
      BY Zenon, <2>8 DEF Return, Freed, Goto, connVars, HInv, HType, WorkerInv, Starting, InTurn
    <3>4. \A v \in Workers \ {w} :
            /\ pc'[v] = pc[v] /\ hdbc'[v] = hdbc[v]
            /\ hstmt'[v] = hstmt[v] /\ open'[v] = open[v] /\ failed'[v] = failed[v]
      BY Zenon, <2>8 DEF Return, Freed, Goto, connVars, HInv, HType
    <3> QED BY Zenon, <3>1, <3>2, <3>3, <3>4, OneWorker
  <2>9. CASE Throw(w)
    <3>1. exited = "no" /\ exited' = exited
      BY Zenon, <2>9 DEF Throw, Freed, Goto
    <3>2. HType'
      BY Zenon, <2>9 DEF Throw, Freed, Goto, connVars, HInv, HType, Places, Starting, InTurn
    <3>3. WorkerInv(w)'
      BY Zenon, <2>9 DEF Throw, Freed, Goto, connVars, HInv, HType, WorkerInv, Starting, InTurn
    <3>4. \A v \in Workers \ {w} :
            /\ pc'[v] = pc[v] /\ hdbc'[v] = hdbc[v]
            /\ hstmt'[v] = hstmt[v] /\ open'[v] = open[v] /\ failed'[v] = failed[v]
      BY Zenon, <2>9 DEF Throw, Freed, Goto, connVars, HInv, HType
    <3> QED BY Zenon, <3>1, <3>2, <3>3, <3>4, OneWorker
  <2>10. CASE EndWorker(w)
    <3>1. exited = "no" /\ exited' = exited
      BY Zenon, <2>10 DEF EndWorker, Disconnected, Goto
    <3>2. HType'
      BY Zenon, <2>10 DEF EndWorker, Disconnected, Goto, connVars, HInv, HType, Places, Starting, InTurn
    <3>3. WorkerInv(w)'
      BY Zenon, <2>10 DEF EndWorker, Disconnected, Goto, connVars, HInv, HType, WorkerInv, Starting, InTurn
    <3>4. \A v \in Workers \ {w} :
            /\ pc'[v] = pc[v] /\ hdbc'[v] = hdbc[v]
            /\ hstmt'[v] = hstmt[v] /\ open'[v] = open[v] /\ failed'[v] = failed[v]
      BY Zenon, <2>10 DEF EndWorker, Disconnected, Goto, connVars, HInv, HType
    <3> QED BY Zenon, <3>1, <3>2, <3>3, <3>4, OneWorker
  <2> QED
    BY Zenon, <1>4, <2>1, <2>2, <2>3, <2>4, <2>5, <2>6, <2>7, <2>8, <2>9, <2>10 DEF WorkerStep
<1> QED BY Zenon, <1>1, <1>2, <1>3, <1>4 DEF Next

(* At every step of resolveA and cacheResponse a worker holds exactly the  *)
(* handles and the transaction the code has at that line.                  *)
THEOREM HInvariant == Spec => []HInv
BY HInit, HNext, PTL DEF Spec

(* A worker waits inside a transaction only after an exception. *)
THEOREM NoSilentTransaction == Spec => []ReturnsCommitted
<1>1. HInv => ReturnsCommitted BY Zenon DEF HInv, HType, WorkerInv, ReturnsCommitted
<1> QED BY <1>1, HInvariant, PTL

(* main leaves no handle behind unless some worker's last turn threw. *)
THEOREM NoHandleKept == Spec => []HandlesFreed
<1>1. HInv => HandlesFreed
  BY Zenon DEF HInv, HType, WorkerInv, ReturnInv, HandlesFreed
<1> QED BY <1>1, HInvariant, PTL
=============================================================================
