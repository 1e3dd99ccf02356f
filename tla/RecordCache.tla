----------------------------- MODULE RecordCache -----------------------------
(***************************************************************************)
(* The RECORD table as the workers' cache: the SELECT of                   *)
(* DNSResolver::resolveA and, for every record of a recursive answer, the  *)
(* DELETE and the IF NOT EXISTS ... INSERT of DNSResolver::cacheResponse,  *)
(* each worker in one transaction of its own connection (autocommit off).  *)
(*                                                                         *)
(* The database is external: SQL Server's default isolation, in which a    *)
(* statement waits for the rows of its name that another transaction has   *)
(* changed, the engine breaks a circle of waits by rolling one transaction *)
(* back, and IF NOT EXISTS and INSERT are two statements.                  *)
(***************************************************************************)
EXTENDS Naturals, Sequences, FiniteSets

CONSTANTS
  Workers, Names, Addresses,
  Answers,              \* the answers of the recursive server: sequences of records
  Nobody,               \* no transaction, no name
  MayFail,              \* may an exception interrupt cacheResponse and resolveA
  MaxTime, MaxExits,    \* bounds: clock, ends of the process
  MaxFetches            \* bound on recursive answers

Record == [name : Names, value : Addresses \cup Names, ttl : Nat]

ASSUME CacheAssumption ==
  /\ IsFiniteSet(Workers) /\ Nobody \notin Workers \cup Names
  /\ Names \cap Addresses = {}
  /\ \A a \in Answers : a \in Seq(Record)
  /\ MayFail \in BOOLEAN /\ MaxTime \in Nat /\ MaxExits \in Nat /\ MaxFetches \in Nat

VARIABLES
  now,                  \* {fn NOW()}
  table,                \* rows of RECORD, with the transactions that changed them
  pc, key,              \* each worker's statement, and the name it is about
  todo,                 \* records of the answer still to be cached
  torn,                 \* an exception left the worker's transaction open
  fetches, exits

vars == <<now, table, pc, key, todo, torn, fetches, exits>>

Init ==
  /\ now = 0 /\ table = {}
  /\ pc = [w \in Workers |-> "idle"] /\ key = [w \in Workers |-> Nobody]
  /\ todo = [w \in Workers |-> <<>>] /\ torn = [w \in Workers |-> FALSE]
  /\ fetches = 0 /\ exits = 0

-----------------------------------------------------------------------------
(* The database. *)
ExpiredRow(r, w) == [name |-> r.name, value |-> r.value, expires |-> now - r.ttl,
                     by |-> w, open |-> TRUE, deleter |-> Nobody]
Row(r, w) == [name |-> r.name, value |-> r.value, expires |-> now + r.ttl,
              by |-> w, open |-> TRUE, deleter |-> Nobody]

(* The transaction that holds a row's exclusive lock. *)
Holds(v, row) == (row.open /\ row.by = v) \/ row.deleter = v

Visible(w) == {row \in table : row.deleter # w}

(* The rows the SELECT of resolveA reads: those of the name, and of the    *)
(* names its CNAME values lead to.  The chain is followed while the rows   *)
(* have not expired.                                                       *)
Live(row) == row.expires > now

Reached(w, n) ==
  LET step[i \in 0 .. Cardinality(Names)] ==
        IF i = 0 THEN {n}
        ELSE step[i - 1] \cup
             {row.value : row \in {x \in Visible(w) : Live(x) /\ x.name \in step[i - 1]}}
  IN  step[Cardinality(Names)] \cap Names

Results(w, n) == {row \in Visible(w) : Live(row) /\ row.name \in Reached(w, n)}

(* The names read by the statement the worker is about to execute. *)
Reads(w) ==
  CASE pc[w] = "lookup" -> Reached(w, key[w])
    [] pc[w] \in {"delete", "check"} /\ todo[w] # <<>> -> {Head(todo[w]).name}
    [] OTHER -> {}

WaitsFor(w, v) ==
  v # w /\ \E row \in table : row.name \in Reads(w) /\ Holds(v, row)

Blocked(w) == \E v \in Workers : WaitsFor(w, v)

Deadlocked(w) ==
  \E S \in SUBSET Workers :
    w \in S /\ \A v \in S : \E u \in S : WaitsFor(v, u)

(* SQLEndTran(SQL_COMMIT), and what a rollback leaves. *)
NotCommitted(w) == table
Committed(w) ==
  {[row EXCEPT !.open = (row.open /\ row.by # w)] : row \in {x \in table : x.deleter # w}}

RolledBack(W) ==
  {[row EXCEPT !.deleter = IF row.deleter \in W THEN Nobody ELSE row.deleter]
     : row \in {x \in table : ~(x.open /\ x.by \in W)}}

-----------------------------------------------------------------------------
(* resolveA. *)
Query(w, n) ==
  /\ pc[w] = "idle"
  /\ pc' = [pc EXCEPT ![w] = "lookup"] /\ key' = [key EXCEPT ![w] = n]
  /\ UNCHANGED <<now, table, todo, torn, fetches, exits>>

(* CNAME rows that lead back to a name: the recursive SELECT ends with an  *)
(* error at the engine's recursion limit.                                  *)
Circular(w, n) ==
  \E S \in SUBSET (Reached(w, n)) \ {{}} :
    \A a \in S : \E row \in Results(w, n) : row.name = a /\ row.value \in S

Hit(w) == \E row \in Results(w, key[w]) : row.value \in Addresses

Lookup(w) ==
  /\ pc[w] = "lookup" /\ key' = [key EXCEPT ![w] = Nobody]
  /\ ~Blocked(w) /\ ~Circular(w, key[w])
  /\ table' = Committed(w)
  /\ torn' = [torn EXCEPT ![w] = FALSE]
  /\ \/ pc' = [pc EXCEPT ![w] = "idle"]                    \* a hit, or no recursion desired
     \/ ~Hit(w) /\ pc' = [pc EXCEPT ![w] = "fetch"]
  /\ UNCHANGED <<now, todo, fetches, exits>>

LookupFails(w) ==
  /\ pc[w] = "lookup" /\ pc' = [pc EXCEPT ![w] = "idle"]
  /\ key' = [key EXCEPT ![w] = Nobody]
  /\ ~Blocked(w) /\ (Circular(w, key[w]) \/ MayFail)
  /\ torn' = [torn EXCEPT ![w] = TRUE]
  /\ UNCHANGED <<now, table, todo, fetches, exits>>

(* A query of another type goes to the recursive server without a lookup. *)
ForwardOther(w) ==
  /\ pc[w] = "idle"
  /\ pc' = [pc EXCEPT ![w] = "fetch"]
  /\ UNCHANGED <<now, table, key, todo, torn, fetches, exits>>

(* recursiveResolve: an answer, which the next turn of the worker's loop   *)
(* caches, or an exception.                                                *)
Fetch(w, a) ==
  /\ pc[w] = "fetch" /\ fetches < MaxFetches
  /\ fetches' = fetches + 1
  /\ todo' = [todo EXCEPT ![w] = a] /\ pc' = [pc EXCEPT ![w] = "delete"]
  /\ UNCHANGED <<now, table, key, torn, exits>>

FetchFails(w) ==
  /\ pc[w] = "fetch"
  /\ pc' = [pc EXCEPT ![w] = "idle"]
  /\ UNCHANGED <<now, table, key, todo, torn, fetches, exits>>

-----------------------------------------------------------------------------
(* cacheResponse. *)
DeleteEvenLive(row) == TRUE
DeleteExpired(row) == row.expires <= now

Delete(w) ==
  /\ pc[w] = "delete" /\ pc' = [pc EXCEPT ![w] = "check"]
  /\ todo[w] # <<>> /\ ~Blocked(w)
  /\ table' = {[row EXCEPT !.deleter =
                  IF row.name = Head(todo[w]).name /\ row.deleter = Nobody /\ DeleteExpired(row)
                  THEN w ELSE row.deleter] : row \in table}
  /\ UNCHANGED <<now, key, todo, torn, fetches, exits>>

ExistsNever(w, r) == FALSE
Exists(w, r) ==
  \E row \in Visible(w) : row.name = r.name /\ row.value = r.value /\ row.expires >= now

Check(w) ==
  /\ pc[w] = "check" /\ ~Blocked(w)
  /\ IF Exists(w, Head(todo[w]))
     THEN pc' = [pc EXCEPT ![w] = "delete"] /\ todo' = [todo EXCEPT ![w] = Tail(@)]
     ELSE pc' = [pc EXCEPT ![w] = "insert"] /\ UNCHANGED todo
  /\ UNCHANGED <<now, table, key, torn, fetches, exits>>

Insert(w) ==
  /\ pc[w] = "insert"
  /\ table' = table \cup {Row(Head(todo[w]), w)}
  /\ pc' = [pc EXCEPT ![w] = "delete"] /\ todo' = [todo EXCEPT ![w] = Tail(@)]
  /\ UNCHANGED <<now, key, torn, fetches, exits>>

Commit(w) ==
  /\ pc[w] = "delete" /\ todo[w] = <<>>
  /\ table' = Committed(w)
  /\ pc' = [pc EXCEPT ![w] = "idle"] /\ torn' = [torn EXCEPT ![w] = FALSE]
  /\ UNCHANGED <<now, key, todo, fetches, exits>>

(* A record that cannot be decoded, or a statement or the first commit     *)
(* that fails: the exception leaves the transaction as it is.  When only   *)
(* the second commit fails there is nothing left to commit, as in Commit.  *)
CacheFails(w) ==
  /\ MayFail
  /\ pc[w] \in {"delete", "check", "insert"}
  /\ pc' = [pc EXCEPT ![w] = "idle"] /\ todo' = [todo EXCEPT ![w] = <<>>]
  /\ torn' = [torn EXCEPT ![w] = TRUE]
  /\ UNCHANGED <<now, table, key, fetches, exits>>

(* The engine chose this worker's transaction as the deadlock victim: the  *)
(* statement throws.                                                       *)
Victim(w) ==
  /\ pc[w] # "idle" /\ pc' = [pc EXCEPT ![w] = "idle"]
  /\ Deadlocked(w)
  /\ table' = RolledBack({w})
  /\ todo' = [todo EXCEPT ![w] = <<>>]
  /\ torn' = [torn EXCEPT ![w] = FALSE] /\ key' = [key EXCEPT ![w] = Nobody]
  /\ UNCHANGED <<now, fetches, exits>>

(* The process ends, by exit() or otherwise, and is started again. *)
Exit ==
  /\ exits < MaxExits
  /\ exits' = exits + 1
  /\ table' = RolledBack(Workers)
  /\ pc' = [w \in Workers |-> "idle"] /\ todo' = [w \in Workers |-> <<>>]
  /\ torn' = [w \in Workers |-> FALSE] /\ key' = [w \in Workers |-> Nobody]
  /\ UNCHANGED <<now, fetches>>

Tick ==
  /\ now < MaxTime
  /\ now' = now + 1
  /\ UNCHANGED <<table, pc, key, todo, torn, fetches, exits>>

Caching(w) == Delete(w) \/ Check(w) \/ Insert(w) \/ Commit(w) \/ Victim(w)

Resolving(w) == Lookup(w) \/ LookupFails(w) \/ FetchFails(w) \/ \E a \in Answers : Fetch(w, a)

Asked(w) == ForwardOther(w) \/ \E n \in Names : Query(w, n)

Next ==
  \/ \E w \in Workers : Caching(w) \/ CacheFails(w) \/ Resolving(w) \/ Asked(w)
  \/ Exit \/ Tick

Spec == Init /\ [][Next]_vars

(* A worker in the middle of a request goes on; nobody need ask anything. *)
FairSpec == Spec /\ \A w \in Workers : WF_vars(Caching(w) \/ Resolving(w))

-----------------------------------------------------------------------------
(* The rows of the table and the locals of the workers. *)
TypeOK ==
  /\ now \in Nat /\ fetches \in Nat /\ exits \in Nat
  /\ table \subseteq [name : Names, value : Addresses \cup Names, expires : Nat,
                      by : Workers, open : BOOLEAN, deleter : Workers \cup {Nobody}]
  /\ pc \in [Workers -> {"idle", "lookup", "fetch", "delete", "check", "insert"}]
  /\ key \in [Workers -> Names \cup {Nobody}]
  /\ todo \in [Workers -> Seq(Record)] /\ torn \in [Workers -> BOOLEAN]

(* The race between IF NOT EXISTS and INSERT lets several workers cache    *)
(* the same record, but none adds a second copy of its own: the table has  *)
(* at most one live copy for each worker.  A lookup joins the copies of a  *)
(* CNAME with those of its target, and may return more rows than that.     *)
OneLiveCopyPerWorker ==
  \A x, y \in table :
    /\ x.by = y.by /\ x.name = y.name /\ x.value = y.value
    /\ Live(x) /\ Live(y)
    => x = y

(* "The cache remains intact when the program exits" (README): no step,    *)
(* the end of the process and a deadlock's rollback included, takes a      *)
(* committed row that has not expired out of the cache.                    *)
Same(x, y) == x.name = y.name /\ x.value = y.value /\ x.expires = y.expires /\ x.by = y.by
LiveRowsKept ==
  [][\A x \in table : ~x.open /\ Live(x) => \E y \in table' : Same(x, y) /\ ~y.open]_vars

(* A worker that is not in cacheResponse holds no lock, unless an          *)
(* exception has interrupted its transaction.                              *)
NoForgottenTransaction ==
  \A w \in Workers : \A row \in table :
    Holds(w, row) => pc[w] \in {"delete", "check", "insert"} \/ torn[w]

(* Every lookup and every caching ends, although workers wait for each     *)
(* other's rows, unless a transaction that an exception left open stands   *)
(* in the way for ever.                                                    *)
Standing == \E v \in Workers : torn[v] /\ \E row \in table : Holds(v, row)
EveryCachingEnds ==
  \A w \in Workers : []<>(pc[w] \in {"idle", "fetch"}) \/ <>[]Standing
=============================================================================
