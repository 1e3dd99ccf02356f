---------------------------- MODULE CacheProofs -----------------------------
(***************************************************************************)
(* RecordCache's safety for any workers, names, answers and times.  What   *)
(* makes it work is that a row is only ever marked as deleted when it has  *)
(* expired: a commit then removes nothing that is live, and what a         *)
(* rollback brings back is not a second live copy.                         *)
(***************************************************************************)
EXTENDS RecordCache, SequenceTheorems, TLAPS

USE CacheAssumption

RowType == [name : Names, value : Addresses \cup Names, expires : Nat,
            by : Workers, open : BOOLEAN, deleter : Workers \cup {Nobody}]

(* How the database's operations change the table: a row of the new one is *)
(* a row of the old, with another lock.                                    *)
Commits(x, w) == [x EXCEPT !.open = (x.open /\ x.by # w)]
Returns(x, W) == [x EXCEPT !.deleter = IF x.deleter \in W THEN Nobody ELSE x.deleter]
Doomed(w, x) == x.name = Head(todo[w]).name /\ x.deleter = Nobody /\ DeleteExpired(x)
Marks(x, w) == [x EXCEPT !.deleter = IF Doomed(w, x) THEN w ELSE x.deleter]

(* A commit opens no row, and changes nothing else of it.                  *)
LEMMA CommitsRow ==
  ASSUME NEW x \in RowType, NEW w \in Workers
  PROVE  /\ Commits(x, w) \in RowType /\ Same(x, Commits(x, w))
         /\ Commits(x, w).open = (x.open /\ x.by # w) /\ Commits(x, w).deleter = x.deleter
BY Zenon DEF Commits, RowType, Same

(* A rollback takes the mark of deletion off a row, and nothing else.      *)
LEMMA ReturnsRow ==
  ASSUME NEW x \in RowType, NEW W \in SUBSET Workers
  PROVE  /\ Returns(x, W) \in RowType /\ Same(x, Returns(x, W)) /\ Returns(x, W).open = x.open
         /\ Returns(x, W).deleter = IF x.deleter \in W THEN Nobody ELSE x.deleter
BY Zenon DEF Returns, RowType, Same

(* The DELETE marks a row, and changes nothing else of it.                 *)
LEMMA MarksRow ==
  ASSUME NEW x \in RowType, NEW w \in Workers
  PROVE  /\ Marks(x, w) \in RowType /\ Same(x, Marks(x, w)) /\ Marks(x, w).open = x.open
         /\ Marks(x, w).deleter = IF Doomed(w, x) THEN w ELSE x.deleter
<1> HIDE DEF Doomed
<1> QED BY Zenon DEF Marks, RowType, Same
-----------------------------------------------------------------------------
(* A worker that has checked a record has it still before it. *)
TypeInv ==
  TypeOK /\ \A w \in Workers : pc[w] \in {"check", "insert"} => todo[w] # <<>>

(* The row a worker inserts is a row of the table.                         *)
LEMMA NewRow ==
  ASSUME TypeInv, NEW w \in Workers, pc[w] \in {"check", "insert"}
  PROVE  /\ Head(todo[w]) \in Record /\ Tail(todo[w]) \in Seq(Record)
         /\ Row(Head(todo[w]), w) \in RowType
<1>1. todo[w] \in Seq(Record) /\ todo[w] # <<>> BY Zenon DEF TypeInv, TypeOK
<1>2. Head(todo[w]) \in Record /\ Tail(todo[w]) \in Seq(Record)
  BY Zenon, <1>1, HeadTailProperties
<1>3. now + Head(todo[w]).ttl \in Nat
  BY <1>2 DEF Record, TypeInv, TypeOK
<1> QED BY Zenon, <1>2, <1>3 DEF Row, Record, RowType

(* The table after each of the operations, in those terms. *)
LEMMA CommittedRows ==
  ASSUME NEW w \in Workers
  PROVE  /\ \A y \in Committed(w) : \E x \in table : x.deleter # w /\ y = Commits(x, w)
         /\ \A x \in table : x.deleter # w => Commits(x, w) \in Committed(w)
BY Zenon DEF Committed, Commits

(* The same for the rollback of some workers' transactions.                *)
LEMMA RolledBackRows ==
  ASSUME NEW W \in SUBSET Workers
  PROVE  /\ \A y \in RolledBack(W) :
              \E x \in table : ~(x.open /\ x.by \in W) /\ y = Returns(x, W)
         /\ \A x \in table : ~(x.open /\ x.by \in W) => Returns(x, W) \in RolledBack(W)
BY Zenon DEF RolledBack, Returns

(* The same for the DELETE of cacheResponse.                               *)
LEMMA DeletedRows ==
  ASSUME NEW w \in Workers, Delete(w)
  PROVE  /\ \A y \in table' : \E x \in table : y = Marks(x, w)
         /\ \A x \in table : Marks(x, w) \in table'
BY Zenon DEF Delete, Marks, Doomed

(* Every step of the workers and the database keeps TypeInv.               *)
LEMMA TypeNext == TypeInv /\ [Next]_vars => TypeInv'
<1> SUFFICES ASSUME TypeInv, [Next]_vars PROVE TypeInv'
  BY Zenon
<1> DEFINE Local == /\ pc' \in [Workers -> {"idle", "lookup", "fetch", "delete", "check", "insert"}]
                    /\ key' \in [Workers -> Names \cup {Nobody}]
                    /\ todo' \in [Workers -> Seq(Record)] /\ torn' \in [Workers -> BOOLEAN]
                    /\ \A w \in Workers : pc'[w] \in {"check", "insert"} => todo'[w] # <<>>
                    /\ now' \in Nat /\ fetches' \in Nat /\ exits' \in Nat
<1>0. table \subseteq RowType /\ (table' \subseteq RowType /\ Local => TypeInv')
  BY Zenon DEF TypeInv, TypeOK, RowType
<1>1. ASSUME NEW w \in Workers PROVE Committed(w) \subseteq RowType
  BY <1>0, CommittedRows, CommitsRow
<1>2. ASSUME NEW W \in SUBSET Workers PROVE RolledBack(W) \subseteq RowType
  BY <1>0, RolledBackRows, ReturnsRow
<1>3. ASSUME NEW w \in Workers, Delete(w) PROVE TypeInv'
  <2>1. table' \subseteq RowType BY <1>0, <1>3, DeletedRows, MarksRow
  <2>2. /\ pc' = [pc EXCEPT ![w] = "check"] /\ todo[w] # <<>>
        /\ UNCHANGED <<now, key, todo, torn, fetches, exits>>
    BY Zenon, <1>3 DEF Delete
  <2>3. Local BY Zenon, <2>2 DEF TypeInv, TypeOK
  <2> QED BY Zenon, <1>0, <2>1, <2>3
<1>4. ASSUME NEW w \in Workers, Check(w) PROVE TypeInv'
  <2>1. Tail(todo[w]) \in Seq(Record) BY Zenon, <1>4, NewRow DEF Check
  <2>2. pc[w] = "check" /\ UNCHANGED <<now, table, key, torn, fetches, exits>>
    BY Zenon, <1>4 DEF Check
  <2>3. CASE pc' = [pc EXCEPT ![w] = "delete"] /\ todo' = [todo EXCEPT ![w] = Tail(@)]
    <3>1. Local BY Zenon, <2>1, <2>2, <2>3 DEF TypeInv, TypeOK
    <3> QED BY Zenon, <1>0, <2>2, <3>1
  <2>4. CASE pc' = [pc EXCEPT ![w] = "insert"] /\ todo' = todo
    <3>1. Local BY Zenon, <2>2, <2>4 DEF TypeInv, TypeOK
    <3> QED BY Zenon, <1>0, <2>2, <3>1
  <2> QED BY Zenon, <1>4, <2>3, <2>4 DEF Check
<1>5. ASSUME NEW w \in Workers, Insert(w) PROVE TypeInv'
  <2>1. Tail(todo[w]) \in Seq(Record) /\ Row(Head(todo[w]), w) \in RowType
    BY Zenon, <1>5, NewRow DEF Insert
  <2>2. table' \subseteq RowType BY Zenon, <1>0, <1>5, <2>1 DEF Insert
  <2>3. Local BY Zenon, <1>5, <2>1 DEF Insert, TypeInv, TypeOK
  <2> QED BY Zenon, <1>0, <2>2, <2>3
<1>6. ASSUME NEW w \in Workers, Commit(w) PROVE TypeInv'
  <2>1. Local BY Zenon, <1>6 DEF Commit, TypeInv, TypeOK
  <2> QED BY Zenon, <1>0, <1>1, <1>6, <2>1 DEF Commit
<1>7. ASSUME NEW w \in Workers, Victim(w) PROVE TypeInv'
  <2>1. Local BY Zenon, <1>7, EmptySeq DEF Victim, TypeInv, TypeOK
  <2>2. table' \subseteq RowType BY Zenon, <1>2, <1>7 DEF Victim
  <2> QED BY Zenon, <1>0, <2>1, <2>2
<1>8. ASSUME NEW w \in Workers, CacheFails(w) PROVE TypeInv'
  <2>1. Local BY Zenon, <1>8, EmptySeq DEF CacheFails, TypeInv, TypeOK
  <2> QED BY Zenon, <1>0, <1>8, <2>1 DEF CacheFails
<1>9. ASSUME NEW w \in Workers, Lookup(w) PROVE TypeInv'
  <2>1. Local BY Zenon, <1>9 DEF Lookup, TypeInv, TypeOK
  <2> QED BY Zenon, <1>0, <1>1, <1>9, <2>1 DEF Lookup
<1>10. ASSUME NEW w \in Workers, LookupFails(w) \/ FetchFails(w) \/ ForwardOther(w) PROVE TypeInv'
  <2>1. Local BY Zenon, <1>10 DEF LookupFails, FetchFails, ForwardOther, TypeInv, TypeOK
  <2> QED BY Zenon, <1>0, <1>10, <2>1 DEF LookupFails, FetchFails, ForwardOther
<1>11. ASSUME NEW w \in Workers, NEW a \in Answers, Fetch(w, a) PROVE TypeInv'
  <2>1. Local BY <1>11 DEF Fetch, TypeInv, TypeOK
  <2> QED BY Zenon, <1>0, <1>11, <2>1 DEF Fetch
<1>12. ASSUME NEW w \in Workers, NEW n \in Names, Query(w, n) PROVE TypeInv'
  <2>1. Local BY Zenon, <1>12 DEF Query, TypeInv, TypeOK
  <2> QED BY Zenon, <1>0, <1>12, <2>1 DEF Query
<1>13. CASE Exit
  <2>1. Local BY <1>13, EmptySeq DEF Exit, TypeInv, TypeOK
  <2> QED BY Zenon, <1>0, <1>2, <1>13, <2>1 DEF Exit
<1>14. CASE Tick
  BY <1>14 DEF Tick, TypeInv, TypeOK
<1>15. CASE UNCHANGED vars
  BY Zenon, <1>15 DEF vars, TypeInv, TypeOK
<1> QED
  BY Zenon, <1>3, <1>4, <1>5, <1>6, <1>7, <1>8, <1>9, <1>10, <1>11, <1>12, <1>13, <1>14, <1>15
  DEF Next, Caching, Resolving, Asked

(* The table and the workers' locals keep their types. *)
THEOREM TypeCorrect == Spec => []TypeOK
<1>1. Init => TypeInv BY EmptySeq DEF Init, TypeInv, TypeOK
<1>2. TypeInv => TypeOK BY Zenon DEF TypeInv
<1> QED BY <1>1, <1>2, TypeNext, PTL DEF Spec
-----------------------------------------------------------------------------
(* Only an expired row is marked as deleted. *)
DeletedExpired == \A x \in table : x.deleter # Nobody => x.expires <= now

(* A step that leaves the table alone, or changes it by one of the         *)
(* operations, and what it means for the locals of the worker.             *)
LEMMA TableSteps ==
  ASSUME TypeInv, [Next]_vars
  PROVE  \/ table' = table /\ now' >= now /\ now' \in Nat
         \/ \E w \in Workers : table' = Committed(w) /\ now' = now
         \/ \E W \in SUBSET Workers : table' = RolledBack(W) /\ now' = now
         \/ \E w \in Workers : Delete(w) /\ now' = now
         \/ \E w \in Workers : Insert(w) /\ now' = now
<1>0. now \in Nat BY Zenon DEF TypeInv, TypeOK
<1>1. ASSUME NEW w \in Workers, Lookup(w) \/ Commit(w) PROVE table' = Committed(w) /\ now' = now
  BY Zenon, <1>1 DEF Lookup, Commit
<1>2. ASSUME NEW w \in Workers, Victim(w)
      PROVE  \E W \in SUBSET Workers : table' = RolledBack(W) /\ now' = now
  <2>1. {w} \in SUBSET Workers /\ table' = RolledBack({w}) /\ now' = now BY Zenon, <1>2 DEF Victim
  <2> QED BY Zenon, <2>1
<1>3. ASSUME Exit PROVE \E W \in SUBSET Workers : table' = RolledBack(W) /\ now' = now
  <2>1. table' = RolledBack(Workers) /\ now' = now BY Zenon, <1>3 DEF Exit
  <2> QED BY Zenon, <2>1
<1>4. ASSUME NEW w \in Workers, Delete(w) \/ Insert(w) PROVE now' = now
  BY Zenon, <1>4 DEF Delete, Insert
<1>5. ASSUME NEW w \in Workers, Check(w) \/ CacheFails(w) \/ LookupFails(w) \/ FetchFails(w)
                                 \/ Asked(w) \/ \E a \in Answers : Fetch(w, a)
      PROVE  table' = table /\ now' = now
  BY Zenon, <1>5 DEF Check, CacheFails, LookupFails, FetchFails, Asked, ForwardOther, Query, Fetch
<1>6. ASSUME Tick \/ UNCHANGED vars PROVE table' = table /\ now' >= now /\ now' \in Nat
  BY <1>0, <1>6 DEF Tick, vars
<1>7. CASE \E w \in Workers : Caching(w) \/ CacheFails(w) \/ Resolving(w) \/ Asked(w)
  <2>1. PICK w \in Workers : Caching(w) \/ CacheFails(w) \/ Resolving(w) \/ Asked(w)
    BY Zenon, <1>7
  <2>2. CASE Lookup(w) \/ Commit(w) BY Zenon, <1>1, <2>2
  <2>3. CASE Victim(w) BY Zenon, <1>2, <2>3
  <2>4. CASE Delete(w) \/ Insert(w) BY Zenon, <1>4, <2>4
  <2>5. CASE Check(w) \/ CacheFails(w) \/ LookupFails(w) \/ FetchFails(w)
               \/ Asked(w) \/ \E a \in Answers : Fetch(w, a)
    BY <1>0, <1>5, <2>5
  <2> QED BY Zenon, <2>1, <2>2, <2>3, <2>4, <2>5 DEF Caching, Resolving
<1> QED BY Zenon, <1>3, <1>6, <1>7 DEF Next

(* The DELETE marks expired rows only, and time does not go back.          *)
LEMMA DeletedNext == TypeInv /\ DeletedExpired /\ [Next]_vars => DeletedExpired'
<1> SUFFICES ASSUME TypeInv, DeletedExpired, [Next]_vars,
                    NEW y \in table', y.deleter # Nobody
             PROVE  y.expires <= now'
  BY Zenon DEF DeletedExpired
<1>0. table \subseteq RowType /\ now \in Nat BY Zenon DEF TypeInv, TypeOK, RowType
<1>9. \A x \in table : x.expires \in Nat BY Zenon, <1>0 DEF RowType
<1>1. CASE table' = table /\ now' >= now /\ now' \in Nat
  BY <1>0, <1>9, <1>1 DEF DeletedExpired
<1>2. ASSUME NEW w \in Workers, table' = Committed(w), now' = now PROVE y.expires <= now'
  BY <1>0, <1>2, CommittedRows, CommitsRow DEF DeletedExpired, Same
<1>3. ASSUME NEW W \in SUBSET Workers, table' = RolledBack(W), now' = now PROVE y.expires <= now'
  BY <1>0, <1>3, RolledBackRows, ReturnsRow DEF DeletedExpired, Same
<1>4. ASSUME NEW w \in Workers, Delete(w), now' = now PROVE y.expires <= now'
  <2>1. PICK x \in table : y = Marks(x, w) BY Zenon, <1>4, DeletedRows
  <2>2. y.expires = x.expires /\ y.deleter = IF Doomed(w, x) THEN w ELSE x.deleter
    BY Zenon, <1>0, <2>1, MarksRow DEF Same
  <2> QED BY Zenon, <1>4, <2>2 DEF Doomed, DeleteExpired, DeletedExpired
<1>5. ASSUME NEW w \in Workers, Insert(w), now' = now PROVE y.expires <= now'
  <2>1. y \in table \/ y.deleter = Nobody BY <1>5 DEF Insert, Row
  <2> QED BY Zenon, <1>5, <2>1 DEF DeletedExpired
<1> QED BY Zenon, <1>1, <1>2, <1>3, <1>4, <1>5, TableSteps

(* No step takes a committed row that has not expired out of the cache.    *)
LEMMA KeptNext ==
  ASSUME TypeInv, DeletedExpired, [Next]_vars, NEW x \in table, ~x.open, Live(x)
  PROVE  \E y \in table' : Same(x, y) /\ ~y.open
<1>0. x \in RowType /\ now \in Nat BY Zenon DEF TypeInv, TypeOK, RowType
<1>9. x.deleter = Nobody BY <1>0 DEF DeletedExpired, Live, RowType
<1>1. CASE table' = table
  BY Zenon, <1>1 DEF Same
<1>2. ASSUME NEW w \in Workers, table' = Committed(w) PROVE \E y \in table' : Same(x, y) /\ ~y.open
  <2>1. Commits(x, w) \in table' BY Zenon, <1>9, <1>2, CommittedRows
  <2> QED BY Zenon, <1>0, <2>1, CommitsRow
<1>3. ASSUME NEW W \in SUBSET Workers, table' = RolledBack(W)
      PROVE  \E y \in table' : Same(x, y) /\ ~y.open
  <2>1. Returns(x, W) \in table' BY Zenon, <1>3, RolledBackRows
  <2> QED BY Zenon, <1>0, <2>1, ReturnsRow
<1>4. ASSUME NEW w \in Workers, Delete(w) PROVE \E y \in table' : Same(x, y) /\ ~y.open
  <2>1. Marks(x, w) \in table' BY Zenon, <1>4, DeletedRows
  <2> QED BY Zenon, <1>0, <2>1, MarksRow
<1>5. ASSUME NEW w \in Workers, Insert(w) PROVE \E y \in table' : Same(x, y) /\ ~y.open
  BY Zenon, <1>5 DEF Insert, Same
<1> QED BY Zenon, <1>1, <1>2, <1>3, <1>4, <1>5, TableSteps

(* "The cache remains intact": not even a rollback or the end of the       *)
(* process takes out a committed row that has not expired.                 *)
THEOREM CacheIntact == Spec => LiveRowsKept
<1>1. Init => TypeInv /\ DeletedExpired
  BY EmptySeq DEF Init, TypeInv, TypeOK, DeletedExpired
<1>2. TypeInv /\ DeletedExpired /\ [Next]_vars
        => [\A x \in table : ~x.open /\ Live(x) => \E y \in table' : Same(x, y) /\ ~y.open]_vars
  BY Zenon, KeptNext
<1> QED BY <1>1, <1>2, TypeNext, DeletedNext, PTL DEF Spec, LiveRowsKept
-----------------------------------------------------------------------------
(* A worker about to insert a record has no live copy of it. *)
NoCopyYet ==
  \A w \in Workers : pc[w] = "insert" =>
    \A x \in table :
      x.by = w /\ x.name = Head(todo[w]).name /\ x.value = Head(todo[w]).value => ~Live(x)
CopyInv == OneLiveCopyPerWorker /\ NoCopyYet

(* Of two live copies one would be the row just inserted, and the worker   *)
(* that inserts it has none yet.                                           *)
LEMMA OneCopyNext ==
  ASSUME TypeInv, CopyInv, [Next]_vars
  PROVE  OneLiveCopyPerWorker'
<1> SUFFICES ASSUME NEW y1 \in table', NEW y2 \in table', y1.by = y2.by,
                    y1.name = y2.name, y1.value = y2.value, Live(y1)', Live(y2)'
             PROVE  y1 = y2
  BY Zenon DEF OneLiveCopyPerWorker
<1>0. table \subseteq RowType /\ now \in Nat BY Zenon DEF TypeInv, TypeOK, RowType
<1>1. CASE table' = table /\ now' >= now /\ now' \in Nat
  <2>1. y1.expires \in Nat /\ y2.expires \in Nat BY Zenon, <1>0, <1>1 DEF RowType
  <2>2. Live(y1) /\ Live(y2) BY <1>0, <1>1, <2>1 DEF Live
  <2> QED BY Zenon, <1>1, <2>2 DEF CopyInv, OneLiveCopyPerWorker
<1>2. ASSUME NEW w \in Workers, table' = Committed(w), now' = now PROVE y1 = y2
  <2>1. PICK x1 \in table : y1 = Commits(x1, w) BY Zenon, <1>2, CommittedRows
  <2>2. PICK x2 \in table : y2 = Commits(x2, w) BY Zenon, <1>2, CommittedRows
  <2>3. Same(x1, y1) /\ Same(x2, y2) BY Zenon, <1>0, <2>1, <2>2, CommitsRow
  <2>4. x1 = x2 BY Zenon, <1>2, <2>3 DEF CopyInv, OneLiveCopyPerWorker, Same, Live
  <2> QED BY Zenon, <2>1, <2>2, <2>4
<1>3. ASSUME NEW W \in SUBSET Workers, table' = RolledBack(W), now' = now PROVE y1 = y2
  <2>1. PICK x1 \in table : y1 = Returns(x1, W) BY Zenon, <1>3, RolledBackRows
  <2>2. PICK x2 \in table : y2 = Returns(x2, W) BY Zenon, <1>3, RolledBackRows
  <2>3. Same(x1, y1) /\ Same(x2, y2) BY Zenon, <1>0, <2>1, <2>2, ReturnsRow
  <2>4. x1 = x2 BY Zenon, <1>3, <2>3 DEF CopyInv, OneLiveCopyPerWorker, Same, Live
  <2> QED BY Zenon, <2>1, <2>2, <2>4
<1>4. ASSUME NEW w \in Workers, Delete(w), now' = now PROVE y1 = y2
  <2>1. PICK x1 \in table : y1 = Marks(x1, w) BY Zenon, <1>4, DeletedRows
  <2>2. PICK x2 \in table : y2 = Marks(x2, w) BY Zenon, <1>4, DeletedRows
  <2>3. Same(x1, y1) /\ Same(x2, y2) BY Zenon, <1>0, <2>1, <2>2, MarksRow
  <2>4. x1 = x2 BY Zenon, <1>4, <2>3 DEF CopyInv, OneLiveCopyPerWorker, Same, Live
  <2> QED BY Zenon, <2>1, <2>2, <2>4
<1>5. ASSUME NEW w \in Workers, Insert(w), now' = now PROVE y1 = y2
  <2> DEFINE new == Row(Head(todo[w]), w)
  <2>1. table' = table \cup {new} /\ pc[w] = "insert" BY Zenon, <1>5 DEF Insert
  <2>2. new.by = w /\ new.name = Head(todo[w]).name /\ new.value = Head(todo[w]).value
    BY Zenon DEF Row
  <2>3. Live(y1) /\ Live(y2) BY Zenon, <1>5 DEF Live
  <2> HIDE DEF new
  <2>4. \A x \in table : x.by = w /\ x.name = new.name /\ x.value = new.value => ~Live(x)
    BY Zenon, <2>1, <2>2 DEF CopyInv, NoCopyYet
  <2>5. CASE y1 \in table /\ y2 \in table
    BY Zenon, <2>3, <2>5 DEF CopyInv, OneLiveCopyPerWorker
  <2>6. CASE y1 = new \/ y2 = new
    BY Zenon, <2>1, <2>2, <2>3, <2>4, <2>6
  <2> QED BY Zenon, <2>1, <2>5, <2>6
<1> QED BY Zenon, <1>1, <1>2, <1>3, <1>4, <1>5, TableSteps

(* A worker is about to insert because it was before, or its check found   *)
(* no row.                                                                 *)
LEMMA AboutToInsert ==
  ASSUME TypeInv, [Next]_vars, NEW v \in Workers, pc'[v] = "insert"
  PROVE  \/ /\ pc[v] = "insert" /\ todo'[v] = todo[v]
            /\ \A w \in Workers : Insert(w) => w # v
         \/ ~Exists(v, Head(todo[v])) /\ UNCHANGED <<todo, table, now>>
<1>0. pc \in [Workers -> {"idle", "lookup", "fetch", "delete", "check", "insert"}]
      /\ todo \in [Workers -> Seq(Record)]
  BY Zenon DEF TypeInv, TypeOK
<1>1. ASSUME NEW w \in Workers, Insert(w) PROVE w # v /\ todo'[v] = todo[v] /\ pc'[v] = pc[v]
  BY Zenon, <1>0, <1>1 DEF Insert
<1>2. ASSUME NEW w \in Workers, Check(w), w # v PROVE todo'[v] = todo[v] /\ pc'[v] = pc[v]
  BY Zenon, <1>0, <1>2 DEF Check
<1>3. ASSUME Check(v) PROVE ~Exists(v, Head(todo[v])) /\ UNCHANGED <<todo, table, now>>
  BY Zenon, <1>0, <1>3 DEF Check
<1>4. ASSUME NEW w \in Workers, Delete(w) \/ Commit(w) \/ Victim(w) \/ CacheFails(w)
      PROVE  todo'[v] = todo[v] /\ pc'[v] = pc[v]
  BY Zenon, <1>0, <1>4 DEF Delete, Commit, Victim, CacheFails
<1>5. ASSUME NEW w \in Workers, Lookup(w) \/ LookupFails(w) \/ FetchFails(w) \/ ForwardOther(w)
      PROVE  todo'[v] = todo[v] /\ pc'[v] = pc[v]
  BY Zenon, <1>0, <1>5 DEF Lookup, LookupFails, FetchFails, ForwardOther
<1>6. ASSUME NEW w \in Workers, NEW n, Query(w, n) \/ Fetch(w, n)
      PROVE  todo'[v] = todo[v] /\ pc'[v] = pc[v]
  BY Zenon, <1>0, <1>6 DEF Query, Fetch
<1>7. ~Exit BY Zenon DEF Exit
<1>8. ASSUME Tick \/ UNCHANGED vars PROVE todo'[v] = todo[v] /\ pc'[v] = pc[v]
  BY Zenon, <1>8 DEF Tick, vars
<1> QED
  BY SMTT(30), <1>1, <1>2, <1>3, <1>4, <1>5, <1>6, <1>7, <1>8 DEF Next, Caching, Resolving, Asked

(* Between IF NOT EXISTS and INSERT no step brings a worker a live copy of *)
(* the record: what a rollback returns has expired.                        *)
LEMMA NoCopyNext ==
  ASSUME TypeInv, DeletedExpired, CopyInv, [Next]_vars
  PROVE  NoCopyYet'
<1> SUFFICES ASSUME NEW v \in Workers, pc'[v] = "insert", NEW y \in table', y.by = v,
                    y.name = Head(todo'[v]).name, y.value = Head(todo'[v]).value
             PROVE  ~Live(y)'
  BY Zenon DEF NoCopyYet
<1>0. table \subseteq RowType /\ now \in Nat BY Zenon DEF TypeInv, TypeOK, RowType
<1>9. \A x \in table : x.expires \in Nat BY Zenon, <1>0 DEF RowType
<1>1. CASE ~Exists(v, Head(todo[v])) /\ UNCHANGED <<todo, table, now>>
  <2>1. y \in table /\ y.name = Head(todo[v]).name /\ y.value = Head(todo[v]).value
    BY Zenon, <1>1
  <2>2. CASE y.deleter = v
    BY <1>0, <1>1, <1>9, <2>1, <2>2 DEF DeletedExpired, Live
  <2>3. CASE y.deleter # v
    <3>1. ~(y.expires >= now) BY Zenon, <1>1, <2>1, <2>3 DEF Exists, Visible
    <3> QED BY <1>0, <1>1, <1>9, <2>1, <3>1 DEF Live
  <2> QED BY Zenon, <2>2, <2>3
<1>2. CASE pc[v] = "insert" /\ todo'[v] = todo[v] /\ \A w \in Workers : Insert(w) => w # v
  <2>0. \A x \in table : Same(x, y) => ~Live(x)
    BY Zenon, <1>2 DEF CopyInv, NoCopyYet, Same
  <2>1. CASE table' = table /\ now' >= now /\ now' \in Nat
    BY <1>0, <1>9, <2>0, <2>1 DEF Same, Live
  <2>2. ASSUME NEW w \in Workers, table' = Committed(w), now' = now PROVE ~Live(y)'
    <3>1. PICK x \in table : y = Commits(x, w) BY Zenon, <2>2, CommittedRows
    <3> QED BY <1>0, <2>0, <2>2, <3>1, CommitsRow DEF Same, Live
  <2>3. ASSUME NEW W \in SUBSET Workers, table' = RolledBack(W), now' = now PROVE ~Live(y)'
    <3>1. PICK x \in table : y = Returns(x, W) BY Zenon, <2>3, RolledBackRows
    <3> QED BY <1>0, <2>0, <2>3, <3>1, ReturnsRow DEF Same, Live
  <2>4. ASSUME NEW w \in Workers, Delete(w), now' = now PROVE ~Live(y)'
    <3>1. PICK x \in table : y = Marks(x, w) BY Zenon, <2>4, DeletedRows
    <3> QED BY Zenon, <1>0, <2>0, <2>4, <3>1, MarksRow DEF Same, Live
  <2>5. ASSUME NEW w \in Workers, Insert(w), now' = now PROVE ~Live(y)'
    <3>1. y \in table \/ y.by = w BY <2>5 DEF Insert, Row
    <3>2. y \in table BY Zenon, <1>2, <2>5, <3>1
    <3> QED BY Zenon, <2>0, <2>5, <3>2 DEF Same, Live
  <2> QED BY Zenon, <2>1, <2>2, <2>3, <2>4, <2>5, TableSteps
<1> QED BY Zenon, <1>1, <1>2, AboutToInsert

(* No worker caches a record of which it already has a live copy, however  *)
(* the statements, rollbacks and ends of the process fall: the race of IF  *)
(* NOT EXISTS and INSERT leaves at most one live copy for each worker.     *)
THEOREM NoSecondCopy == Spec => []OneLiveCopyPerWorker
<1>1. Init => TypeInv /\ DeletedExpired /\ CopyInv
  BY EmptySeq DEF Init, TypeInv, TypeOK, DeletedExpired, CopyInv, OneLiveCopyPerWorker, NoCopyYet
<1>2. TypeInv /\ DeletedExpired /\ CopyInv /\ [Next]_vars => CopyInv'
  BY Zenon, OneCopyNext, NoCopyNext DEF CopyInv
<1>3. CopyInv => OneLiveCopyPerWorker BY Zenon DEF CopyInv
<1> QED BY <1>1, <1>2, <1>3, TypeNext, DeletedNext, PTL DEF Spec
-----------------------------------------------------------------------------
Busy(w) == pc[w] \in {"delete", "check", "insert"} \/ torn[w]

(* Who holds a row's lock afterwards held it before, or is the worker that *)
(* takes the step; the operations release the locks of the transactions    *)
(* they end.                                                               *)
LEMMA CommitReleases ==
  ASSUME table \subseteq RowType, NEW w \in Workers, NEW v \in Workers,
         NEW y \in Committed(w), Holds(v, y)
  PROVE  v # w /\ \E x \in table : Holds(v, x)
<1>1. PICK x \in table : x.deleter # w /\ y = Commits(x, w) BY Zenon, CommittedRows
<1>2. /\ y.by = x.by /\ y.deleter = x.deleter
      /\ y.open = (x.open /\ x.by # w)
  BY Zenon, <1>1, CommitsRow DEF Same
<1>3. y.open => x.open /\ x.by # w
  BY Zenon, <1>2, Zenon
<1> QED BY Zenon, <1>1, <1>2, <1>3 DEF Holds

(* The same for a rollback.                                                *)
LEMMA RollbackReleases ==
  ASSUME table \subseteq RowType, NEW W \in SUBSET Workers, NEW v \in Workers,
         NEW y \in RolledBack(W), Holds(v, y)
  PROVE  v \notin W /\ \E x \in table : Holds(v, x)
<1>1. PICK x \in table : ~(x.open /\ x.by \in W) /\ y = Returns(x, W) BY Zenon, RolledBackRows
<1>2. /\ y.by = x.by /\ y.open = x.open
      /\ y.deleter = IF x.deleter \in W THEN Nobody ELSE x.deleter
  BY Zenon, <1>1, ReturnsRow DEF Same
<1>3. y.deleter = v => x.deleter = v /\ v \notin W BY Zenon, <1>2
<1> QED BY Zenon, <1>1, <1>2, <1>3 DEF Holds

(* A DELETE gives locks to nobody but the worker that runs it.             *)
LEMMA DeleteLocks ==
  ASSUME table \subseteq RowType, NEW w \in Workers, NEW v \in Workers, Delete(w),
         NEW y \in table', Holds(v, y), v # w
  PROVE  \E x \in table : Holds(v, x)
<1>1. PICK x \in table : y = Marks(x, w) BY Zenon, DeletedRows
<1>2. /\ y.by = x.by /\ y.open = x.open
      /\ y.deleter = w \/ y.deleter = x.deleter
  BY Zenon, <1>1, MarksRow DEF Same
<1>3. y.deleter = v => x.deleter = v BY Zenon, <1>2
<1>4. Holds(v, x) BY Zenon, <1>2, <1>3 DEF Holds
<1> QED BY Zenon, <1>4

(* A worker leaves cacheResponse by a commit, a rollback or an exception.  *)
LEMMA LocksNext == TypeInv /\ NoForgottenTransaction /\ [Next]_vars => NoForgottenTransaction'
<1> SUFFICES ASSUME TypeInv, NoForgottenTransaction, [Next]_vars,
                    NEW v \in Workers, NEW y \in table', Holds(v, y)
             PROVE  Busy(v)'
  BY Zenon DEF NoForgottenTransaction, Busy, Holds
<1>0. /\ table \subseteq RowType
      /\ pc \in [Workers -> {"idle", "lookup", "fetch", "delete", "check", "insert"}]
      /\ torn \in [Workers -> BOOLEAN]
  BY Zenon DEF TypeInv, TypeOK, RowType
<1>9. (\E x \in table : Holds(v, x)) => Busy(v)
  BY Zenon DEF NoForgottenTransaction, Busy
<1>1. ASSUME NEW w \in Workers, Lookup(w) \/ Commit(w) PROVE Busy(v)'
  <2>1. v # w /\ Busy(v) BY SMTT(30), <1>0, <1>1, <1>9, CommitReleases DEF Lookup, Commit
  <2> QED BY SMTT(30), <1>0, <1>1, <2>1 DEF Lookup, Commit, Busy
<1>2. ASSUME NEW w \in Workers, Victim(w) PROVE Busy(v)'
  <2>1. v \notin {w} /\ Busy(v) BY <1>0, <1>2, <1>9, RollbackReleases DEF Victim
  <2> QED BY Zenon, <1>0, <1>2, <2>1 DEF Victim, Busy
<1>3. ~Exit
  BY <1>0, RollbackReleases DEF Exit
<1>4. ASSUME NEW w \in Workers, Delete(w) PROVE Busy(v)'
  <2>1. pc' = [pc EXCEPT ![w] = "check"] /\ torn' = torn BY Zenon, <1>4 DEF Delete
  <2>2. v # w => Busy(v) BY Zenon, <1>0, <1>4, <1>9, DeleteLocks
  <2> QED BY Zenon, <1>0, <2>1, <2>2 DEF Busy
<1>5. ASSUME NEW w \in Workers, Insert(w) PROVE Busy(v)'
  <2>1. pc' = [pc EXCEPT ![w] = "delete"] /\ torn' = torn BY Zenon, <1>5 DEF Insert
  <2>2. y \in table \/ (y.by = w /\ y.deleter = Nobody) BY <1>5 DEF Insert, Row
  <2>3. v # w => Busy(v) BY <1>9, <2>2 DEF Holds
  <2> QED BY Zenon, <1>0, <2>1, <2>3 DEF Busy
<1>6. ASSUME table' = table PROVE Busy(v)
  BY Zenon, <1>6, <1>9
<1>7. ASSUME NEW w \in Workers, Check(w) PROVE Busy(v)'
  <2>1. table' = table /\ torn' = torn BY Zenon, <1>7 DEF Check
  <2>2. pc' = [pc EXCEPT ![w] = "delete"] \/ pc' = [pc EXCEPT ![w] = "insert"] BY Zenon, <1>7 DEF Check
  <2> QED BY Zenon, <1>0, <1>6, <2>1, <2>2 DEF Busy
<1>8. ASSUME NEW w \in Workers, CacheFails(w) \/ LookupFails(w) PROVE Busy(v)'
  <2>1. table' = table /\ torn' = [torn EXCEPT ![w] = TRUE] /\ pc' = [pc EXCEPT ![w] = "idle"]
    BY Zenon, <1>8 DEF CacheFails, LookupFails
  <2> QED BY Zenon, <1>0, <1>6, <2>1 DEF Busy
<1>10. ASSUME NEW w \in Workers, FetchFails(w) \/ ForwardOther(w) PROVE Busy(v)'
  <2>1. table' = table /\ torn' = torn /\ pc[w] \in {"fetch", "idle"}
        /\ \E to \in {"fetch", "idle"} : pc' = [pc EXCEPT ![w] = to]
    BY Zenon, <1>10 DEF FetchFails, ForwardOther
  <2> QED BY Zenon, <1>0, <1>6, <2>1 DEF Busy
<1>11. ASSUME NEW w \in Workers, NEW n, Query(w, n) \/ Fetch(w, n) PROVE Busy(v)'
  <2>1. table' = table /\ torn' = torn /\ pc[w] \in {"fetch", "idle"}
        /\ \E to \in {"lookup", "delete"} : pc' = [pc EXCEPT ![w] = to]
    BY Zenon, <1>11 DEF Query, Fetch
  <2> QED BY Zenon, <1>0, <1>6, <2>1 DEF Busy
<1>12. ASSUME Tick \/ UNCHANGED vars PROVE Busy(v)'
  BY Zenon, <1>6, <1>12 DEF Tick, vars, Busy
<1> QED
  BY Zenon, <1>1, <1>2, <1>3, <1>4, <1>5, <1>7, <1>8, <1>10, <1>11, <1>12
  DEF Next, Caching, Resolving, Asked

(* A worker outside cacheResponse holds no lock, unless an exception has   *)
(* left its transaction open.                                              *)
THEOREM LocksReleased == Spec => []NoForgottenTransaction
<1>1. Init => TypeInv /\ NoForgottenTransaction
  BY EmptySeq DEF Init, TypeInv, TypeOK, NoForgottenTransaction
<1> QED BY <1>1, TypeNext, LocksNext, PTL DEF Spec
=============================================================================
