----------------------------- MODULE Hierarchy ------------------------------
(***************************************************************************)
(* The tree of loggers.  The server's threads ask for loggers by name all  *)
(* the time (each DNSQuery and each DNSUtil call does), and log to them    *)
(* while other threads' requests are still linking new loggers in.         *)
(* getLogger holds the hierarchy's mutex; callAppenders walks the parents  *)
(* without it, so every assignment to a parent is a step of its own.       *)
(*                                                                         *)
(* A name is the sequence of its labels: "w.x.y" is <<"w", "x", "y">>.     *)
(***************************************************************************)
EXTENDS Integers, Sequences, Functions

CONSTANTS
  Threads,
  Names,     \* the names loggers are asked for
  RootLike,  \* the names that the root logger's own name, "root", starts with
  MaxLogs    \* bound: calls each thread logs

Root == << >>
NoParent == << "null" >>

ASSUME HierarchyAssumption ==
  /\ Names \subseteq Seq(STRING)
  /\ Root \notin Names /\ NoParent \notin Names /\ RootLike \subseteq Names
  /\ MaxLogs \in Nat

(* The names of a logger's possible ancestors, below the root. *)
Above(n) == {SubSeq(n, 1, i) : i \in 1 .. Len(n) - 1}
Nearest(ns) == IF ns = {} THEN Root ELSE CHOOSE n \in ns : \A m \in ns : Len(m) <= Len(n)

VARIABLES
  loggers,         \* the names in the LoggerMap
  provisionNodes,  \* for each missing ancestor, the loggers below it
  parent,          \* each logger's parent
  pc,              \* where each thread is
  name,            \* the logger it is making, or logging to
  child,           \* its place in the provision node
  visited,         \* the loggers its event has been handed to
  expected,        \* history: the ancestors there were when it began to log
  logs             \* how often it has logged

treeVars == <<loggers, provisionNodes, parent>>
walkVars == <<visited, expected, logs>>
vars == <<treeVars, pc, name, child, walkVars>>

Missing == (UNION {Above(n) : n \in Names}) \cup Names

Init ==
  /\ loggers = {} /\ provisionNodes = [n \in Missing |-> << >>]
  /\ parent = [n \in Names |-> NoParent]
  /\ pc = [t \in Threads |-> "idle"] /\ name = [t \in Threads |-> Root]
  /\ child = [t \in Threads |-> 1]
  /\ visited = [t \in Threads |-> << >>] /\ expected = [t \in Threads |-> {}]
  /\ logs = [t \in Threads |-> 0]

Building == {t \in Threads : pc[t] \in {"children", "link", "parents"}}
Ready == loggers \ {name[t] : t \in Building}

Goto(t, from, to) == pc[t] = from /\ pc' = [pc EXCEPT ![t] = to]

(* getLogger takes the mutex and enters the new logger in the map.  (For a *)
(* name it finds there it returns the logger and changes nothing.)         *)
GetLogger(t, n) ==
  /\ Building = {} /\ n \notin loggers
  /\ Goto(t, "idle", "children")
  /\ loggers' = loggers \cup {n}
  /\ name' = [name EXCEPT ![t] = n]
  /\ UNCHANGED <<provisionNodes, parent, child, walkVars>>

(* StringHelper::startsWith on the names of two loggers: of two ancestors  *)
(* of one logger, or of the root and a logger.                             *)
StartsWith(p, n) ==
  IF p = Root THEN n \in RootLike
  ELSE Len(n) <= Len(p) /\ SubSeq(p, 1, Len(n)) = n

Child(t) == provisionNodes[name[t]][child[t]]
MoreChildren(t) == child[t] <= Len(provisionNodes[name[t]])
NextChild(t) == child' = [child EXCEPT ![t] = @ + 1]

LinkFirst(t) ==
  /\ pc[t] = "children" /\ MoreChildren(t)
  /\ Goto(t, "children", "children") /\ NextChild(t)
  /\ parent' = [parent EXCEPT ![Child(t)] = name[t]]
  /\ UNCHANGED <<loggers, provisionNodes, name, walkVars>>

(* updateChildren, one child: unless it has a lower parent already, the    *)
(* new logger takes over its parent ...                                    *)
TakeParent(t) ==
  /\ pc[t] = "children" /\ MoreChildren(t)
  /\ IF StartsWith(parent[Child(t)], name[t])
       THEN /\ Goto(t, "children", "children")
            /\ NextChild(t) /\ UNCHANGED parent
       ELSE /\ Goto(t, "children", "link")
            /\ parent' = [parent EXCEPT ![name[t]] = parent[Child(t)]]
            /\ UNCHANGED child
  /\ UNCHANGED <<loggers, provisionNodes, name, walkVars>>

(* ... and then becomes its parent. *)
LinkChild(t) ==
  /\ Goto(t, "link", "children")
  /\ parent' = [parent EXCEPT ![Child(t)] = name[t]]
  /\ NextChild(t)
  /\ UNCHANGED <<loggers, provisionNodes, name, walkVars>>

(* The provision node is erased once its children are linked. *)
EraseNode(t) ==
  /\ pc[t] = "children" /\ ~MoreChildren(t)
  /\ Goto(t, "children", "parents")
  /\ provisionNodes' = [provisionNodes EXCEPT ![name[t]] = << >>]
  /\ UNCHANGED <<loggers, parent, name, child, walkVars>>

WaitInLowest(t) ==
  LET n == name[t]
      p == Nearest(Above(n) \cap loggers)
  IN  /\ Goto(t, "parents", "idle")
      /\ parent' = [parent EXCEPT ![n] = p]
      /\ provisionNodes' = [m \in Missing |->
           IF m = Nearest(Above(n)) /\ m # p THEN Append(provisionNodes[m], n)
           ELSE provisionNodes[m]]
      /\ name' = [name EXCEPT ![t] = Root] /\ child' = [child EXCEPT ![t] = 1]
      /\ UNCHANGED <<loggers, walkVars>>

(* updateParents: the nearest existing ancestor is the parent, and the     *)
(* logger waits in the provision node of every missing one before it.      *)
(* Only the parent is seen outside the mutex, which is released.           *)
UpdateParents(t) ==
  LET n == name[t]
      p == Nearest(Above(n) \cap loggers)
  IN  /\ Goto(t, "parents", "idle")
      /\ parent' = [parent EXCEPT ![n] = p]
      /\ provisionNodes' = [m \in Missing |->
           IF m \in Above(n) /\ Len(m) > Len(p) THEN Append(provisionNodes[m], n)
           ELSE provisionNodes[m]]
      /\ name' = [name EXCEPT ![t] = Root] /\ child' = [child EXCEPT ![t] = 1]
      /\ UNCHANGED <<loggers, walkVars>>

(* callAppenders begins at a logger some getLogger has returned. *)
StartLog(t, n) ==
  /\ n \in Ready /\ logs[t] < MaxLogs
  /\ Goto(t, "idle", "walk")
  /\ logs' = [logs EXCEPT ![t] = @ + 1]
  /\ name' = [name EXCEPT ![t] = n]
  /\ visited' = [visited EXCEPT ![t] = << n >>]
  /\ expected' = [expected EXCEPT ![t] = Above(n) \cap Ready]
  /\ UNCHANGED <<treeVars, child>>

(* The logger callAppenders is at. *)
Here(t) == visited[t][Len(visited[t])]

(* The event goes on to the parent's appenders, every logger being         *)
(* additive as it is made: only a configuration clears the flag, after     *)
(* which the walk would stop at that logger ...                            *)
Walk(t) ==
  /\ pc[t] = "walk" /\ Here(t) \notin {Root, NoParent}
  /\ Goto(t, "walk", "walk")
  /\ visited' = [visited EXCEPT ![t] = Append(@, parent[Here(t)])]
  /\ UNCHANGED <<treeVars, name, child, expected, logs>>

(* ... until there is none. *)
EndLog(t) ==
  /\ pc[t] = "walk" /\ Here(t) \in {Root, NoParent}
  /\ Goto(t, "walk", "idle")
  /\ visited' = [visited EXCEPT ![t] = << >>] /\ expected' = [expected EXCEPT ![t] = {}]
  /\ name' = [name EXCEPT ![t] = Root]
  /\ UNCHANGED <<treeVars, child, logs>>

ThreadStep(t) ==
  \/ TakeParent(t) \/ LinkChild(t) \/ EraseNode(t) \/ UpdateParents(t)
  \/ Walk(t) \/ EndLog(t)

Next ==
  \/ \E t \in Threads : ThreadStep(t)
  \/ \E t \in Threads, n \in Names : GetLogger(t, n) \/ StartLog(t, n)

Spec == Init /\ [][Next]_vars
-----------------------------------------------------------------------------
(* When no getLogger is under way every logger's parent is its nearest     *)
(* existing ancestor, in whatever order the loggers were asked for; except *)
(* below a logger whose name "root" starts with, as updateChildren takes   *)
(* the root for a lower parent there.                                      *)
ParentNearest ==
  Building = {} =>
    \A n \in loggers : Above(n) \cap RootLike = {} =>
      parent[n] = Nearest(Above(n) \cap loggers)

(* Each logger is above the one before it. *)
Upwards(v) ==
  \A i \in 1 .. Len(v) - 1 : v[i] # Root /\ v[i + 1] \in Above(v[i]) \cup {Root}

(* An event reaches the appenders of every ancestor its logger had when it *)
(* was logged and of the root, lower ones first and none twice, so that    *)
(* its walk ends, whatever is being linked in while it is on its way; as   *)
(* long as no configuration has made one of them non-additive.             *)
WalkCovers ==
  \A t \in Threads : pc[t] = "walk" =>
    LET v == visited[t] IN
    /\ Upwards(v)
    /\ Here(t) = Root /\ Above(name[t]) \cap RootLike = {}
         => expected[t] \subseteq Range(v)
=============================================================================
