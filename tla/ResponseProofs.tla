--------------------------- MODULE ResponseProofs ---------------------------
(***************************************************************************)
(* Response for any names, packet length below 65536, rows and packets of  *)
(* the recursive server.  That encode() never aborts over a record that    *)
(* fits is proved for any number of questions; the other properties are    *)
(* about one question, as in the runs, because a second answer is written  *)
(* over the first.                                                         *)
(***************************************************************************)
EXTENDS Response, TLAPS

Room == MaxPacket - HeaderLen

TypeInv ==
  /\ questions \in Seq([name : Names, type : {"A", "other"}])
  /\ ptr \in Nat /\ remLen \in Int /\ i \in Nat \ {0} /\ rows \in Seq(Row)
  /\ DOMAIN pointerLocations \subseteq Names

(* What is left of the packet is what the header and the records leave. *)
RoomInv ==
  /\ pc \in {"rows", "aborted"} => remLen = Room - ptr
  /\ pc = "rows" => remLen > 0
  /\ pc = "aborted" => rows # << >> /\ EncodeAborts(Head(rows))

-----------------------------------------------------------------------------
(* responseInfo. *)
Infos == [answers : Int, rcode : {"no_error", "not_implemented"},
          length : Int, recursion : BOOLEAN, truncation : BOOLEAN]

(* One question, for the name q, and the records W: the place holds the    *)
(* name n (NameAt), the records end before a place, and their compressed   *)
(* names point to those names.                                             *)
Asked == questions[1].name

Holds(q, W, n, place) ==
  \/ n = q /\ place = HeaderLen
  \/ \E w \in W : w.row.value = n /\ place = w.start + w.size - Encoded(n)

Before(W, end) == \A w \in W : w.start \in Int /\ w.size \in Nat /\ w.start + w.size <= end

PointersRight(q, W) == \A w \in W : w.pointer # 0 => Holds(q, W, w.row.name, w.pointer)

SavedRight(q, W, saved) == \A n \in DOMAIN saved : Holds(q, W, n, saved[n])

(* Before the SELECT nothing is written. *)
Fresh ==
  /\ written = {} /\ received = 0
  /\ info.answers = 0 /\ ~info.recursion /\ ~info.truncation
  /\ SavedRight(Asked, {}, pointerLocations)

(* While the rows are fetched the records stand one after the other up to  *)
(* ptr, none shorter than 15 bytes, and there are as many as are counted:  *)
(* a count of 2^16 would take more than the packet has.  Every place saved *)
(* for compression holds its name.                                         *)
Answering ==
  /\ received = 0 /\ ~info.recursion /\ ~info.truncation
  /\ IsFiniteSet(written) /\ info.answers = Cardinality(written) /\ 15 * info.answers <= ptr
  /\ Before(written, ResponseStart + ptr)
  /\ PointersRight(Asked, written)
  /\ SavedRight(Asked, written, pointerLocations)

(* Once the question is resolved the packet is the recursive server's, or  *)
(* it has our records, all of them counted unless it was truncated.        *)
Finished ==
  /\ received # 0 => /\ info.recursion /\ received \in ReplyLengths
                     /\ info.length = received - ResponseStart
  /\ ~info.recursion => PointersRight(Asked, written)
  /\ ~info.recursion /\ ~info.truncation =>
       /\ info.answers = Cardinality(written)
       /\ written = {} \/ Before(written, ResponseStart + info.length)

OneInv ==
  Len(questions) = 1 =>
    /\ info \in Infos /\ ResponseStart <= MaxPacket
    /\ pc = "resolve" => (i = 1 /\ Fresh) \/ (i = 2 /\ Finished)
    /\ pc = "rows" => i = 1 /\ Answering
    /\ pc = "resolved" => Finished
    /\ pc = "sent" => FittingAnswersCounted /\ SinglePointersRight /\ RecursiveReplyWhole

-----------------------------------------------------------------------------
(* The lengths the packet and its names have. *)
LEMMA Lengths ==
  /\ HeaderLen = 12 /\ MaxPacket \in Nat /\ Room \in Nat
  /\ Room > 0 /\ Room < UShort /\ MaxPacket = Room + 12
<1>1. MaxPacket \in Nat /\ HeaderLen < MaxPacket /\ MaxPacket < UShort BY Zenon, ResponseAssumption
<1> QED BY <1>1 DEF HeaderLen, UShort, Room

(* encodeName writes two bytes more than the name has. *)
LEMMA NameLengths ==
  ASSUME NEW n \in Names
  PROVE  NameLen[n] \in Nat /\ NameLen[n] \in 1 .. 63 /\ Encoded(n) \in Nat /\ Encoded(n) = NameLen[n] + 2
<1>1. NameLen[n] \in 1 .. 63 BY Zenon, ResponseAssumption
<1> QED BY <1>1 DEF Encoded

(* The size of the two parts of a record that vary. *)
LEMMA NameSizes ==
  ASSUME NEW r \in Row
  PROVE  /\ r.name \in Names /\ NameSize(r) \in 2 .. 65
         /\ r.name \in DOMAIN pointerLocations => NameSize(r) = 2
         /\ r.name \notin DOMAIN pointerLocations => NameSize(r) = NameLen[r.name] + 2
<1>1. r.name \in Names BY DEF Row
<1>2. NameLen[r.name] \in 1 .. 63 /\ Encoded(r.name) = NameLen[r.name] + 2 BY Zenon, <1>1, NameLengths
<1>3. CASE r.name \in DOMAIN pointerLocations
  <2>1. NameSize(r) = 2 BY Zenon, <1>3 DEF NameSize
  <2> QED BY <1>1, <1>3, <2>1
<1>4. CASE r.name \notin DOMAIN pointerLocations
  <2>1. NameSize(r) = NameLen[r.name] + 2 BY Zenon, <1>2, <1>4 DEF NameSize
  <2> QED BY <1>1, <1>2, <1>4, <2>1
<1> QED BY Zenon, <1>3, <1>4

(* The rdata is four octets or an encoded name. *)
LEMMA DataSizes ==
  ASSUME NEW r \in Row
  PROVE  /\ DataSize(r) \in 3 .. 65
         /\ r.value = Address => DataSize(r) = 4
         /\ r.value # Address => r.value \in Names /\ DataSize(r) = NameLen[r.value] + 2
<1>1. r.value \in Names \cup {Address} BY DEF Row
<1>2. CASE r.value = Address
  <2>1. DataSize(r) = 4 BY Zenon, <1>2 DEF DataSize
  <2> QED BY <1>2, <2>1
<1>3. CASE r.value # Address
  <2>1. r.value \in Names BY Zenon, <1>1, <1>3
  <2>2. NameLen[r.value] \in 1 .. 63 /\ Encoded(r.value) = NameLen[r.value] + 2
    BY Zenon, <2>1, NameLengths
  <2>3. DataSize(r) = NameLen[r.value] + 2 BY Zenon, <1>3, <2>2 DEF DataSize
  <2> QED BY <1>3, <2>1, <2>2, <2>3
<1> QED BY Zenon, <1>2, <1>3

(* No record is shorter than 15 bytes. *)
LEMMA Sizes ==
  ASSUME NEW r \in Row
  PROVE  /\ NameSize(r) \in Nat /\ DataSize(r) \in Nat /\ RecordSize(r) \in Nat
         /\ RecordSize(r) = NameSize(r) + 10 + DataSize(r) /\ RecordSize(r) >= 15
<1>1. NameSize(r) \in 2 .. 65 BY Zenon, NameSizes
<1>2. DataSize(r) \in 3 .. 65 BY Zenon, DataSizes
<1>3. RecordSize(r) = NameSize(r) + 10 + DataSize(r) BY Zenon DEF RecordSize
<1> QED BY <1>1, <1>2, <1>3

(* encode() has enough room for each of its copies of a record that fits. *)
LEMMA FittingFits ==
  ASSUME NEW r \in Row, remLen \in Int, RecordSize(r) <= remLen
  PROVE  ~EncodeAborts(r)
<1> DEFINE N == NameSize(r)  D == DataSize(r)
<1>1. N \in Nat /\ D \in Nat /\ N + 10 + D <= remLen BY Zenon, Sizes
<1>2. ~TooSmall(remLen, IF r.name \in DOMAIN pointerLocations THEN 2 ELSE NameLen[r.name])
  <2>1. CASE r.name \in DOMAIN pointerLocations
    <3>1. N = 2 BY Zenon, <2>1, NameSizes
    <3> HIDE DEF N, D
    <3>2. ~TooSmall(remLen, 2) BY <1>1, <3>1 DEF TooSmall
    <3> QED BY Zenon, <2>1, <3>2
  <2>2. CASE r.name \notin DOMAIN pointerLocations
    <3>1. NameLen[r.name] \in Nat BY Zenon, NameSizes, NameLengths
    <3>2. N = NameLen[r.name] + 2 BY Zenon, <2>2, NameSizes
    <3> HIDE DEF N, D
    <3>3. ~TooSmall(remLen, NameLen[r.name]) BY <1>1, <3>1, <3>2 DEF TooSmall
    <3> QED BY Zenon, <2>2, <3>3
  <2> QED BY Zenon, <2>1, <2>2
<1>3. ~TooSmall((remLen - N) - 10, IF r.value = Address THEN 4 ELSE NameLen[r.value])
  <2>1. CASE r.value = Address
    <3>1. D = 4 BY Zenon, <2>1, DataSizes
    <3> HIDE DEF N, D
    <3>2. ~TooSmall((remLen - N) - 10, 4) BY <1>1, <3>1 DEF TooSmall
    <3> QED BY Zenon, <2>1, <3>2
  <2>2. CASE r.value # Address
    <3>1. NameLen[r.value] \in Nat BY Zenon, <2>2, DataSizes, NameLengths
    <3>2. D = NameLen[r.value] + 2 BY Zenon, <2>2, DataSizes
    <3> HIDE DEF N, D
    <3>3. ~TooSmall((remLen - N) - 10, NameLen[r.value]) BY <1>1, <3>1, <3>2 DEF TooSmall
    <3> QED BY Zenon, <2>2, <3>3
  <2> QED BY Zenon, <2>1, <2>2
<1>4. ~TooSmall((remLen - N) - D, 10)
  <2> HIDE DEF N, D
  <2> QED BY <1>1 DEF TooSmall
<1> QED BY Zenon, <1>2, <1>3, <1>4 DEF EncodeAborts

(* The rows of a SELECT, one after the other. *)
LEMMA RowsAre ==
  ASSUME NEW s \in Seq(Row), s # << >>
  PROVE  Head(s) \in Row /\ Tail(s) \in Seq(Row)
OBVIOUS

(* Bounded sequences are sequences. *)
LEMMA UptoSeq ==
  ASSUME NEW S, NEW n
  PROVE  Upto(S, n) \subseteq Seq(S)
<1>1. ASSUME NEW s \in Upto(S, n) PROVE s \in Seq(S)
  <2>1. PICK k \in 0 .. n : s \in [1 .. k -> S] BY Zenon DEF Upto
  <2>2. k \in Nat BY <2>1
  <2> QED BY <2>1, <2>2
<1> QED BY Zenon, <1>1

(* What a SELECT returns is a sequence of rows. *)
LEMMA ResultsAre ==
  ASSUME NEW n \in Names
  PROVE  Results[n] \subseteq Seq(Row)
<1>1. Results[n] \subseteq Upto(Row, MaxRows) BY Zenon DEF Results
<1> QED BY Zenon, <1>1, UptoSeq

(* The record written for the first row. *)
LEMMA FirstRow ==
  ASSUME TypeInv, rows # << >>
  PROVE  LET r == Head(rows) IN
         /\ r \in Row /\ Tail(rows) \in Seq(Row) /\ RecordSize(r) \in Nat /\ RecordSize(r) >= 15
         /\ Placed(r).size = RecordSize(r) /\ Placed(r).start = ResponseStart + ptr
         /\ Placed(r).row = r /\ Placed(r).pointer = PointsTo(r)
<1>1. Head(rows) \in Row /\ Tail(rows) \in Seq(Row) BY Zenon, RowsAre DEF TypeInv
<1>2. RecordSize(Head(rows)) \in Nat /\ RecordSize(Head(rows)) >= 15 BY Zenon, <1>1, Sizes
<1> QED BY Zenon, <1>1, <1>2 DEF Placed

-----------------------------------------------------------------------------
(* The worker starts with its types right and no row fetched. *)
LEMMA TypeInitially == Init => TypeInv /\ RoomInv
<1> SUFFICES ASSUME Init PROVE TypeInv /\ RoomInv BY Zenon
<1> DEFINE Q == [name : Names, type : {"A", "other"}]
<1>1. questions \in Seq(Q) BY Zenon, UptoSeq DEF Init
<1>2. DOMAIN pointerLocations \subseteq Names
  <2> HIDE DEF Q
  <2>1. ASSUME NEW k \in DOMAIN questions PROVE questions[k].name \in Names
    <3>1. questions[k] \in Q BY <1>1
    <3> QED BY <3>1 DEF Q
  <2>2. DOMAIN pointerLocations = {questions[k].name : k \in DOMAIN questions} BY Zenon DEF Init
  <2> QED BY Zenon, <2>1, <2>2
<1>3. ptr = 0 /\ remLen = 0 /\ i = 1 /\ rows = << >> /\ pc = "resolve" BY Zenon DEF Init
<1>4. ptr \in Nat /\ remLen \in Int /\ i \in Nat \ {0} /\ rows \in Seq(Row) BY <1>3
<1>5. TypeInv BY Zenon, <1>1, <1>2, <1>4 DEF TypeInv
<1>6. RoomInv BY <1>3 DEF RoomInv
<1> QED BY Zenon, <1>5, <1>6

(* Every step keeps remLen what ptr leaves of the packet. *)
LEMMA TypeStep == TypeInv /\ RoomInv /\ [Next]_vars => TypeInv' /\ RoomInv'
<1> SUFFICES ASSUME TypeInv, RoomInv, [Next]_vars PROVE TypeInv' /\ RoomInv' BY Zenon
<1>1. CASE ResolveA
  <2>1. questions[i].name \in Names
    <3> DEFINE Q == [name : Names, type : {"A", "other"}]
    <3>1. questions \in Seq(Q) /\ i \in Nat \ {0} /\ i <= Len(questions)
      BY Zenon, <1>1 DEF TypeInv, ResolveA
    <3> HIDE DEF Q
    <3>2. questions[i] \in Q BY <3>1
    <3> QED BY <3>2 DEF Q
  <2>2. rows' \in Seq(Row) BY Zenon, <1>1, <2>1, ResultsAre DEF ResolveA
  <2>3. ptr' = 0 /\ remLen' = Room /\ pc' = "rows" BY Zenon, <1>1 DEF ResolveA, Room
  <2>4. ptr' \in Nat /\ remLen' \in Int /\ remLen' > 0 /\ remLen' = Room - ptr' BY <2>3, Lengths
  <2>5. TypeInv' BY Zenon, <1>1, <2>2, <2>4 DEF TypeInv, ResolveA
  <2>6. RoomInv' BY <2>3, <2>4 DEF RoomInv, Room
  <2> QED BY Zenon, <2>5, <2>6
<1>2. CASE Aborts
  <2>1. TypeInv' BY Zenon, <1>2 DEF TypeInv, Aborts
  <2>2. pc = "rows" /\ pc' = "aborted" /\ rows' # << >> /\ EncodeAborts(Head(rows))'
    BY Zenon, <1>2 DEF Aborts, EncodeAborts, NameSize, DataSize
  <2>3. remLen' = remLen /\ ptr' = ptr BY Zenon, <1>2 DEF Aborts
  <2>4. RoomInv' BY <2>2, <2>3 DEF RoomInv, Room
  <2> QED BY Zenon, <2>1, <2>4
<1>3. CASE EncodeRow
  <2> DEFINE r == Head(rows)  z == RecordSize(Head(rows))
  <2>1. pc = "rows" /\ rows # << >> BY Zenon, <1>3 DEF EncodeRow
  <2>2. r \in Row /\ Tail(rows) \in Seq(Row) /\ z \in Nat /\ Placed(r).size = z
    BY Zenon, <2>1, FirstRow
  <2>3. r.value \in Names \cup {Address} BY <2>2 DEF Row
  <2>4. DOMAIN pointerLocations' \subseteq Names
    <3>1. CASE r.value = Address \/ r.value \in DOMAIN pointerLocations
      BY Zenon, <1>3, <3>1 DEF EncodeRow, TypeInv
    <3>2. CASE ~(r.value = Address \/ r.value \in DOMAIN pointerLocations)
      <4>1. DOMAIN pointerLocations' = DOMAIN pointerLocations \cup {r.value}
        BY Zenon, <1>3, <3>2 DEF EncodeRow
      <4> QED BY Zenon, <2>3, <3>2, <4>1 DEF TypeInv
    <3> QED BY Zenon, <3>1, <3>2
  <2>5. remLen' = remLen - z BY Zenon, <1>3, <2>2 DEF EncodeRow
  <2>6. questions' = questions BY Zenon, <1>3 DEF EncodeRow
  <2>7. CASE Full(remLen')
    <3>1. i' = i + 1 /\ pc' = "resolve" /\ rows' = << >> /\ ptr' = ptr
      BY Zenon, <1>3, <2>7 DEF EncodeRow
    <3>2. i' \in Nat \ {0} /\ remLen' \in Int /\ rows' \in Seq(Row)
      <4> HIDE DEF z
      <4> QED BY <2>2, <2>5, <3>1 DEF TypeInv
    <3>3. TypeInv' BY Zenon, <2>4, <2>6, <3>1, <3>2 DEF TypeInv
    <3>4. RoomInv' BY <3>1 DEF RoomInv
    <3> QED BY Zenon, <3>3, <3>4
  <2>8. CASE ~Full(remLen')
    <3>1. i' = i /\ pc' = pc /\ rows' = Tail(rows) /\ ptr' = ptr + z
      BY Zenon, <1>3, <2>2, <2>8 DEF EncodeRow
    <3>2. ptr' \in Nat /\ remLen' \in Int /\ remLen' > 0 /\ remLen' = Room - ptr'
      <4>1. ptr \in Nat /\ remLen \in Int /\ remLen = Room - ptr
        BY Zenon, <2>1 DEF TypeInv, RoomInv
      <4> HIDE DEF z
      <4> QED BY <2>2, <2>5, <2>8, <3>1, <4>1, Lengths DEF Full
    <3>3. TypeInv' BY Zenon, <2>2, <2>4, <2>6, <3>1, <3>2 DEF TypeInv
    <3>4. RoomInv' BY <2>1, <3>1, <3>2 DEF RoomInv, Room
    <3> QED BY Zenon, <3>3, <3>4
  <2> QED BY Zenon, <2>7, <2>8
<1>4. ASSUME UNCHANGED <<questions, rows, ptr, remLen, pointerLocations>>, i' \in Nat \ {0},
             pc' \notin {"rows", "aborted"}
      PROVE  TypeInv' /\ RoomInv'
  <2>1. TypeInv' BY Zenon, <1>4 DEF TypeInv
  <2>2. RoomInv' BY Zenon, <1>4 DEF RoomInv
  <2> QED BY Zenon, <2>1, <2>2
<1>5. i \in Nat \ {0} /\ i + 1 \in Nat \ {0} BY DEF TypeInv
<1>6. CASE CacheHit
  <2>1. pc' \notin {"rows", "aborted"} BY <1>6 DEF CacheHit
  <2> QED BY Zenon, <1>4, <1>5, <1>6, <2>1 DEF CacheHit
<1>7. CASE \E n \in ReplyLengths : CacheMiss(n)
  <2>1. pc' \notin {"rows", "aborted"} BY <1>7 DEF CacheMiss
  <2> QED BY Zenon, <1>4, <1>5, <1>7, <2>1 DEF CacheMiss
<1>8. CASE \E n \in ReplyLengths : OtherType(n)
  <2>1. pc' \notin {"rows", "aborted"} BY <1>8 DEF OtherType
  <2> QED BY Zenon, <1>4, <1>5, <1>8, <2>1 DEF OtherType
<1>9. CASE Resolved
  <2>1. pc' \notin {"rows", "aborted"} BY <1>9 DEF Resolved
  <2> QED BY Zenon, <1>4, <1>5, <1>9, <2>1 DEF Resolved
<1>10. CASE \E n \in ReplyLengths : RecursionThrows(n)
  <2>1. pc' \notin {"rows", "aborted"} BY <1>10 DEF RecursionThrows
  <2> QED BY Zenon, <1>4, <1>5, <1>10, <2>1 DEF RecursionThrows
<1>11. CASE Send
  <2>1. pc' \notin {"rows", "aborted"} BY <1>11 DEF Send
  <2> QED BY Zenon, <1>4, <1>5, <1>11, <2>1 DEF Send
<1>12. CASE UNCHANGED vars
  BY Zenon, <1>12 DEF vars, TypeInv, RoomInv, EncodeAborts, NameSize, DataSize
<1> QED BY Zenon, <1>1, <1>2, <1>3, <1>6, <1>7, <1>8, <1>9, <1>10, <1>11, <1>12 DEF Next

(* The types, and the room that is left. *)
LEMMA TypeInvariant == Spec => [](TypeInv /\ RoomInv)
BY TypeInitially, TypeStep, PTL DEF Spec

(* For any number of questions, the runtime ends the process only over a   *)
(* record that exceeds what the header leaves of the packet: whatever the  *)
(* rows, encode() has room for every record that fits.                     *)
THEOREM FittingRecordsEncoded == Spec => []FittingNeverAborts
<1>1. TypeInv /\ RoomInv => FittingNeverAborts
  <2> SUFFICES ASSUME TypeInv, RoomInv, pc = "aborted"
               PROVE  ptr + RecordSize(Head(rows)) > MaxPacket - HeaderLen
    BY Zenon DEF FittingNeverAborts
  <2> DEFINE z == RecordSize(Head(rows))
  <2>1. rows # << >> /\ EncodeAborts(Head(rows)) /\ remLen = Room - ptr BY DEF RoomInv
  <2>2. Head(rows) \in Row /\ z \in Nat BY Zenon, <2>1, FirstRow
  <2>3. ptr \in Nat /\ remLen \in Int BY Zenon DEF TypeInv
  <2>4. ~(z <= remLen) BY Zenon, <2>1, <2>2, <2>3, FittingFits
  <2> HIDE DEF z
  <2>5. ptr + z > Room BY <2>1, <2>2, <2>3, <2>4, Lengths
  <2> QED BY Zenon, <2>5 DEF z, Room
<1> QED BY <1>1, TypeInvariant, PTL

-----------------------------------------------------------------------------
(* One question: it stands right after the header, its reply after it. *)
LEMMA StartsAre ==
  ASSUME TypeInv, Len(questions) = 1
  PROVE  /\ questions[1].name \in Names /\ DOMAIN questions = {1}
         /\ Start(1) = HeaderLen /\ ResponseStart \in Nat
<1> DEFINE Q == [name : Names, type : {"A", "other"}]
           E == Encoded(questions[1].name)
           Def(s) == s = [j \in 1 .. Len(questions) + 1 |->
                            IF j = 1 THEN HeaderLen
                            ELSE s[j - 1] + Encoded(questions[j - 1].name) + 4]
           f == [j \in 1 .. Len(questions) + 1 |-> IF j = 1 THEN HeaderLen ELSE HeaderLen + E + 4]
           c == CHOOSE s : Def(s)
<1>1. questions[1] \in Q /\ DOMAIN questions = {1}
  <2>1. questions \in Seq(Q) BY Zenon DEF TypeInv
  <2> HIDE DEF Q
  <2> QED BY <2>1
<1>2. questions[1].name \in Names BY <1>1
<1>3. E \in Nat BY Zenon, <1>2, NameLengths
<1>4. Def(f)
  <2> HIDE DEF E
  <2>1. ASSUME NEW j \in 1 .. Len(questions) + 1, j # 1
        PROVE  f[j] = f[j - 1] + Encoded(questions[j - 1].name) + 4
    <3>1. j = 2 /\ j - 1 = 1 BY <2>1
    <3>2. 1 \in 1 .. Len(questions) + 1 OBVIOUS
    <3>3. f[j] = HeaderLen + E + 4 /\ f[1] = HeaderLen BY Zenon, <2>1, <3>2
    <3> QED BY Zenon, <3>1, <3>3 DEF E
  <2> QED BY Zenon, <2>1
<1>5. Def(c)
  <2> HIDE DEF Def, f
  <2> QED BY Zenon, <1>4
<1>6. Start(1) = c[1] /\ ResponseStart = c[2]
  <2>1. Len(questions) + 1 = 2 OBVIOUS
  <2>2. ASSUME NEW k PROVE Start(k) = c[k] BY DEF Start
  <2> HIDE DEF c
  <2> QED BY Zenon, <2>1, <2>2 DEF ResponseStart
<1>7. c[1] = HeaderLen /\ c[2] = HeaderLen + E + 4
  <2> HIDE DEF c, E
  <2>1. 1 \in 1 .. Len(questions) + 1 /\ 2 \in 1 .. Len(questions) + 1 /\ 2 # 1 /\ 2 - 1 = 1 OBVIOUS
  <2>2. c[1] = HeaderLen BY Zenon, <1>5, <2>1
  <2>3. c[2] = c[1] + Encoded(questions[1].name) + 4 BY Zenon, <1>5, <2>1
  <2> QED BY Zenon, <2>2, <2>3 DEF E
<1> HIDE DEF E, c
<1>8. HeaderLen + E + 4 \in Nat BY <1>3, Lengths
<1> QED BY Zenon, <1>1, <1>2, <1>6, <1>7, <1>8

INSTANCE FiniteSetTheorems

(* What each assignment to responseInfo does. *)
LEMMA LengthSet ==
  ASSUME NEW f \in Infos, NEW l \in Int
  PROVE  LET g == [f EXCEPT !.length = l] IN
         /\ g \in Infos /\ g.length = l /\ g.answers = f.answers
         /\ g.recursion = f.recursion /\ g.truncation = f.truncation
BY DEF Infos

(* recursiveResolve gives the length and says that it was recursive. *)
LEMMA RecursionSet ==
  ASSUME NEW f \in Infos, NEW l \in Int
  PROVE  LET g == [f EXCEPT !.length = l, !.recursion = TRUE] IN
         g \in Infos /\ g.length = l /\ g.recursion
BY Zenon DEF Infos

(* resolveA truncates. *)
LEMMA TruncationSet ==
  ASSUME NEW f \in Infos, NEW l \in Int
  PROVE  LET g == [f EXCEPT !.truncation = TRUE, !.length = l, !.answers = (@ - 1) % UShort] IN
         g \in Infos /\ g.truncation /\ g.recursion = f.recursion
<1>1. ASSUME NEW a \in Int
      PROVE  LET g == [f EXCEPT !.truncation = TRUE, !.length = l, !.answers = a] IN
             g \in Infos /\ g.truncation /\ g.recursion = f.recursion
  BY Zenon DEF Infos
<1>2. (f.answers - 1) % UShort \in Int
  <2>1. f.answers \in Int BY DEF Infos
  <2>2. UShort \in Nat /\ UShort > 0 BY DEF UShort
  <2> QED BY <2>1, <2>2
<1> QED BY Zenon, <1>1, <1>2

(* resolveA counts an answer. *)
LEMMA AnswersSet ==
  ASSUME NEW f \in Infos, NEW a \in Int
  PROVE  LET g == [f EXCEPT !.answers = a] IN
         /\ g \in Infos /\ g.answers = a /\ g.length = f.length
         /\ g.recursion = f.recursion /\ g.truncation = f.truncation
BY DEF Infos

(* resolve does not implement the type. *)
LEMMA RcodeSet ==
  ASSUME NEW f \in Infos
  PROVE  LET g == [f EXCEPT !.rcode = "not_implemented"] IN
         /\ g \in Infos /\ g.answers = f.answers /\ g.length = f.length
         /\ g.recursion = f.recursion /\ g.truncation = f.truncation
BY DEF Infos

(* The question stays. *)
LEMMA QuestionKept ==
  ASSUME questions' = questions
  PROVE  ResponseStart' = ResponseStart /\ Asked' = Asked /\ \A k : Start(k)' = Start(k)
<1>1. \A k : Start(k)' = Start(k) BY Zenon DEF Start
<1>2. ResponseStart' = ResponseStart BY Zenon DEF ResponseStart, Start
<1>3. Asked' = Asked BY Zenon DEF Asked
<1> QED BY Zenon, <1>1, <1>2, <1>3

(* A name the packet holds is one NameAt finds. *)
LEMMA HeldAt ==
  ASSUME TypeInv, Len(questions) = 1
  PROVE  \A n, place : Holds(Asked, written, n, place) => NameAt(n, place)
<1> SUFFICES ASSUME NEW n, NEW place, Holds(Asked, written, n, place) PROVE NameAt(n, place)
  BY Zenon
<1>1. CASE n = Asked /\ place = HeaderLen
  <2>1. 1 \in DOMAIN questions /\ Start(1) = HeaderLen BY Zenon, StartsAre
  <2> QED BY Zenon, <1>1, <2>1 DEF NameAt, Asked
<1>2. CASE \E w \in written : w.row.value = n /\ place = w.start + w.size - Encoded(n)
  BY Zenon, <1>2 DEF NameAt
<1> QED BY Zenon, <1>1, <1>2 DEF Holds

(* A name the packet holds stays where it is when records are added. *)
LEMMA HeldStill ==
  ASSUME NEW q, NEW W, NEW V, W \subseteq V, NEW n, NEW place, Holds(q, W, n, place)
  PROVE  Holds(q, V, n, place)
BY Zenon DEF Holds

(* A record placed after all the others overwrites none of them. *)
LEMMA OneMoreRecord ==
  ASSUME NEW W, NEW end \in Int, NEW P, Before(W, end), IsFiniteSet(W),
         P.start = end, P.size \in Nat, P.size >= 15
  PROVE  /\ Clear(W, P.start, P.start + P.size) = W
         /\ Before(W \cup {P}, end + P.size)
         /\ IsFiniteSet(W \cup {P}) /\ Cardinality(W \cup {P}) = Cardinality(W) + 1
<1>1. Clear(W, P.start, P.start + P.size) = W BY Zenon DEF Clear, Before
<1>2. P \notin W
  <2>1. SUFFICES ASSUME P \in W PROVE FALSE BY Zenon
  <2>2. P.start + P.size <= end BY Zenon, <2>1 DEF Before
  <2> QED BY <2>2
<1>3. Before(W \cup {P}, end + P.size)
  <2>1. ASSUME NEW w \in W \cup {P}
        PROVE  w.start \in Int /\ w.size \in Nat /\ w.start + w.size <= end + P.size
    <3>1. CASE w \in W
      <4>1. w.start \in Int /\ w.size \in Nat /\ w.start + w.size <= end BY Zenon, <3>1 DEF Before
      <4> QED BY <4>1
    <3>2. CASE w = P
      <4>1. P.start \in Int /\ P.start + P.size <= end + P.size OBVIOUS
      <4> QED BY Zenon, <3>2, <4>1
    <3> QED BY Zenon, <3>1, <3>2
  <2> QED BY Zenon, <2>1 DEF Before
<1>4. IsFiniteSet(W \cup {P}) /\ Cardinality(W \cup {P}) = Cardinality(W) + 1
  BY Zenon, <1>2, FS_AddElement
<1> QED BY Zenon, <1>1, <1>3, <1>4

-----------------------------------------------------------------------------
(* A row encoded: a record more, and the place of the name it holds. *)
LEMMA RowEncoded ==
  ASSUME TypeInv, Len(questions) = 1, Answering, EncodeRow
  PROVE  /\ IsFiniteSet(written') /\ Cardinality(written') = Cardinality(written) + 1
         /\ Before(written', ResponseStart + ptr + RecordSize(Head(rows)))
         /\ PointersRight(Asked, written')
         /\ SavedRight(Asked, written', pointerLocations')
<1> DEFINE r == Head(rows)  P == Placed(r)  z == RecordSize(r)  end == ResponseStart + ptr
<1>1. r \in Row /\ z \in Nat /\ z >= 15 /\ P.size = z /\ P.start = end /\ P.row = r
      /\ P.pointer = PointsTo(r)
  BY Zenon, FirstRow DEF EncodeRow
<1>2. ResponseStart \in Nat /\ ptr \in Nat BY Zenon, StartsAre DEF TypeInv
<1>3. end \in Int BY <1>2
<1>4. Before(written, end) /\ IsFiniteSet(written) BY Zenon DEF Answering
<1>5. written' = Clear(written, P.start, P.start + P.size) \cup {P} BY Zenon DEF EncodeRow
<1>6. pointerLocations' = IF r.value = Address \/ r.value \in DOMAIN pointerLocations
                          THEN pointerLocations
                          ELSE [n \in DOMAIN pointerLocations \cup {r.value} |->
                                  IF n = r.value THEN SavedPointer(r) ELSE pointerLocations[n]]
  BY Zenon DEF EncodeRow
<1>7. r.value # Address => SavedPointer(r) = P.start + P.size - Encoded(r.value)
  <2>1. SUFFICES ASSUME r.value # Address
                 PROVE  SavedPointer(r) = P.start + P.size - Encoded(r.value)
    BY Zenon
  <2>2. r.value \in Names BY Zenon, <1>1, <2>1, DataSizes
  <2>3. NameLen[r.value] \in Nat /\ Encoded(r.value) = NameLen[r.value] + 2
    BY Zenon, <2>2, NameLengths
  <2>4. SavedPointer(r) = end + z - NameLen[r.value] - 2 BY Zenon DEF SavedPointer
  <2> HIDE DEF r, z, end, P
  <2> QED BY <1>1, <1>3, <2>3, <2>4
<1>8. PointsTo(r) # 0 => r.name \in DOMAIN pointerLocations /\ PointsTo(r) = pointerLocations[r.name]
  BY Zenon DEF PointsTo
<1> HIDE DEF r, z, end, P
<1>9. /\ written' = written \cup {P} /\ Before(written', end + z)
      /\ IsFiniteSet(written') /\ Cardinality(written') = Cardinality(written) + 1
  BY Zenon, <1>1, <1>3, <1>4, <1>5, OneMoreRecord
<1>10. ASSUME NEW n \in DOMAIN pointerLocations
       PROVE  Holds(Asked, written', n, pointerLocations[n])
  <2>1. Holds(Asked, written, n, pointerLocations[n]) BY Zenon DEF Answering, SavedRight
  <2>2. written \subseteq written' BY Zenon, <1>9
  <2> QED BY Zenon, <2>1, <2>2, HeldStill
<1>11. PointersRight(Asked, written')
  <2>1. ASSUME NEW w \in written', w.pointer # 0
        PROVE  Holds(Asked, written', w.row.name, w.pointer)
    <3>1. CASE w \in written
      <4>1. Holds(Asked, written, w.row.name, w.pointer)
        BY Zenon, <2>1, <3>1 DEF Answering, PointersRight
      <4>2. written \subseteq written' BY Zenon, <1>9
      <4> QED BY Zenon, <4>1, <4>2, HeldStill
    <3>2. CASE w = P
      <4>1. r.name \in DOMAIN pointerLocations /\ w.pointer = pointerLocations[r.name]
            /\ w.row.name = r.name
        BY Zenon, <1>1, <1>8, <2>1, <3>2
      <4> QED BY Zenon, <1>10, <4>1
    <3> QED BY Zenon, <1>9, <3>1, <3>2
  <2> QED BY Zenon, <2>1 DEF PointersRight
<1>12. SavedRight(Asked, written', pointerLocations')
  <2>1. CASE r.value = Address \/ r.value \in DOMAIN pointerLocations
    BY Zenon, <1>6, <1>10, <2>1 DEF SavedRight
  <2>2. CASE ~(r.value = Address \/ r.value \in DOMAIN pointerLocations)
    <3>1. P \in written' /\ P.row.value = r.value BY Zenon, <1>1, <1>9
    <3>2. Holds(Asked, written', r.value, SavedPointer(r))
      BY Zenon, <1>7, <2>2, <3>1 DEF Holds
    <3>3. pointerLocations' = [n \in DOMAIN pointerLocations \cup {r.value} |->
                                 IF n = r.value THEN SavedPointer(r) ELSE pointerLocations[n]]
      BY Zenon, <1>6, <2>2
    <3>4. ASSUME NEW n \in DOMAIN pointerLocations'
          PROVE  Holds(Asked, written', n, pointerLocations'[n])
      <4>1. n \in DOMAIN pointerLocations \cup {r.value} BY Zenon, <3>3
      <4>2. CASE n = r.value
        <5>1. pointerLocations'[n] = SavedPointer(r) BY Zenon, <3>3, <4>1, <4>2
        <5> QED BY Zenon, <3>2, <4>2, <5>1
      <4>3. CASE n # r.value
        <5>1. pointerLocations'[n] = pointerLocations[n] BY Zenon, <3>3, <4>1, <4>3
        <5> QED BY Zenon, <1>10, <4>1, <4>3, <5>1
      <4> QED BY Zenon, <4>2, <4>3
    <3> QED BY Zenon, <3>4 DEF SavedRight
  <2> QED BY Zenon, <2>1, <2>2
<1> QED BY Zenon, <1>9, <1>11, <1>12 DEF end, z, r

(* A recursive answer. *)
LEMMA RecursiveDone ==
  ASSUME info \in Infos, ResponseStart \in Nat, questions' = questions, received = 0,
         NEW n \in ReplyLengths, Recursive(n)
  PROVE  info' \in Infos /\ Finished'
<1>1. n \in Int
  <2>1. n \in HeaderLen .. MaxPacket BY Zenon, ResponseAssumption
  <2> QED BY <2>1, Lengths
<1>2. ResponseStart' = ResponseStart BY Zenon, QuestionKept
<1>3. CASE ~hasServer
  <2>1. info' = [info EXCEPT !.length = ResponseStart, !.recursion = TRUE] /\ received' = received
    BY Zenon, <1>3 DEF Recursive
  <2>2. ResponseStart \in Int OBVIOUS
  <2>3. info' \in Infos /\ info'.recursion BY Zenon, <2>1, <2>2, RecursionSet
  <2> QED BY Zenon, <2>1, <2>3 DEF Finished
<1>4. CASE hasServer
  <2>1. info' = [info EXCEPT !.length = n - ResponseStart, !.recursion = TRUE] /\ received' = n
    BY Zenon, <1>4 DEF Recursive
  <2>2. n - ResponseStart \in Int BY <1>1
  <2>3. info' \in Infos /\ info'.recursion /\ info'.length = n - ResponseStart
    BY Zenon, <2>1, <2>2, RecursionSet
  <2> QED BY Zenon, <1>2, <2>1, <2>3 DEF Finished
<1> QED BY Zenon, <1>3, <1>4

(* What sendto is given. *)
LEMMA SentRight ==
  ASSUME TypeInv, Len(questions) = 1, info \in Infos, Finished, Send
  PROVE  FittingAnswersCounted' /\ SinglePointersRight' /\ RecursiveReplyWhole'
<1> DEFINE l == info.length  sent == SentLength(info.length)
<1>1. reply' = [length |-> sent, tc |-> info.truncation, ours |-> ~info.recursion,
                ancount |-> IF info.recursion THEN 0 ELSE info.answers]
  BY Zenon DEF Send
<1>2. /\ reply'.length = sent /\ (reply'.tc <=> info.truncation) /\ (reply'.ours <=> ~info.recursion)
      /\ ~info.recursion => reply'.ancount = info.answers
  BY Zenon, <1>1
<1>3. questions' = questions /\ written' = written /\ received' = received /\ info' = info
  BY Zenon DEF Send
<1>4. ResponseStart' = ResponseStart /\ (\A k : Start(k)' = Start(k)) BY Zenon, <1>3, QuestionKept
<1>5. Included' = {w \in written : w.start + w.size <= sent} BY Zenon, <1>2, <1>3 DEF Included
<1>6. ResponseStart \in Nat /\ MaxPacket \in Nat BY Zenon, StartsAre, ResponseAssumption
<1>7. l \in Int BY DEF Infos
<1>8. sent = IF ResponseStart + l < MaxPacket THEN ResponseStart + l ELSE MaxPacket
  BY Zenon DEF SentLength
<1>9. FittingAnswersCounted'
  <2> SUFFICES ASSUME OwnReply', ~reply'.tc, ~Cut'
               PROVE  reply'.ancount = Cardinality(Included')
    BY Zenon DEF FittingAnswersCounted
  <2>1. ~info.recursion /\ ~info.truncation /\ ~(ResponseStart + l > MaxPacket)
    BY Zenon, <1>2, <1>3, <1>4 DEF OwnReply, Cut
  <2>2. /\ info.answers = Cardinality(written)
        /\ written = {} \/ Before(written, ResponseStart + l)
    BY Zenon, <2>1 DEF Finished
  <2>3. sent = ResponseStart + l
    <3> HIDE DEF l, sent
    <3> QED BY <1>6, <1>7, <1>8, <2>1
  <2>4. Included' = written BY Zenon, <1>5, <2>2, <2>3 DEF Before
  <2> QED BY Zenon, <1>2, <2>1, <2>2, <2>4
<1>10. SinglePointersRight'
  <2> SUFFICES ASSUME OwnReply', NEW w \in Included', w.pointer # 0
               PROVE  NameAt(w.row.name, w.pointer)'
    BY Zenon DEF SinglePointersRight
  <2>1. ~info.recursion /\ w \in written BY Zenon, <1>2, <1>5 DEF OwnReply
  <2>2. Holds(Asked, written, w.row.name, w.pointer) BY Zenon, <2>1 DEF Finished, PointersRight
  <2>3. NameAt(w.row.name, w.pointer) BY Zenon, <2>2, HeldAt
  <2> QED BY Zenon, <1>3, <1>4, <2>3 DEF NameAt
<1>11. RecursiveReplyWhole'
  <2> SUFFICES ASSUME received # 0
               PROVE  reply'.length = received /\ ~reply'.ours /\ info.recursion
    BY Zenon, <1>3 DEF RecursiveReplyWhole
  <2>1. info.recursion /\ received \in ReplyLengths /\ l = received - ResponseStart
    BY Zenon DEF Finished
  <2>2. received \in HeaderLen .. MaxPacket BY Zenon, <2>1, ResponseAssumption
  <2>3. sent = received
    <3> HIDE DEF l, sent
    <3>1. received \in Int /\ received <= MaxPacket BY <1>6, <2>2, Lengths
    <3>2. ResponseStart + l = received BY <1>6, <2>1, <3>1
    <3> QED BY <1>6, <1>8, <3>1, <3>2
  <2> QED BY Zenon, <1>2, <2>1, <2>3
<1> QED BY Zenon, <1>9, <1>10, <1>11

(* Before the one question is resolved nothing is written. *)
LEMMA OneInitially == Init /\ TypeInv => OneInv
<1> SUFFICES ASSUME Init, TypeInv, Len(questions) = 1
             PROVE  /\ info \in Infos /\ i = 1 /\ Fresh /\ pc = "resolve"
                    /\ ResponseStart <= MaxPacket
  BY DEF OneInv
<1>1. info \in [answers : {0}, rcode : {"no_error"}, length : {0, MaxPacket},
                recursion : {FALSE}, truncation : {FALSE}]
  BY Zenon DEF Init
<1>2. MaxPacket \in Nat BY Zenon, ResponseAssumption
<1>3. info \in Infos
  <2> DEFINE A == {0}  C == {"no_error"}  L == {0, MaxPacket}  B == {FALSE}
             X == {"no_error", "not_implemented"}
  <2>1. A \subseteq Int /\ L \subseteq Int BY <1>2
  <2>2. C \subseteq X /\ B \subseteq BOOLEAN BY Zenon
  <2>3. info \in [answers : A, rcode : C, length : L, recursion : B, truncation : B] BY Zenon, <1>1
  <2> HIDE DEF A, C, L, B, X
  <2>4. info \in [answers : Int, rcode : X, length : Int, recursion : BOOLEAN, truncation : BOOLEAN]
    BY Zenon, <2>1, <2>2, <2>3
  <2> QED BY Zenon, <2>4 DEF Infos, X
<1>4. info.answers = 0 /\ ~info.recursion /\ ~info.truncation BY Zenon, <1>1
<1>5. SavedRight(Asked, {}, pointerLocations)
  <2>1. pointerLocations = [n \in {questions[k].name : k \in DOMAIN questions} |-> HeaderLen]
    BY Zenon DEF Init
  <2>2. DOMAIN questions = {1} BY Zenon, StartsAre
  <2>3. ASSUME NEW n \in DOMAIN pointerLocations
        PROVE  n = Asked /\ pointerLocations[n] = HeaderLen
    BY Zenon, <2>1, <2>2 DEF Asked
  <2> QED BY Zenon, <2>3 DEF SavedRight, Holds
<1> QED BY Zenon, <1>3, <1>4, <1>5 DEF Init, Fresh

-----------------------------------------------------------------------------
(* What sendto is given when recursiveResolve has thrown. *)
LEMMA FailureRight ==
  ASSUME Len(questions) = 1, ResponseStart \in Nat, ResponseStart <= MaxPacket,
         ResponseStart' = ResponseStart, received = 0, ~info.recursion,
         NEW n \in ReplyLengths, RecursionThrows(n)
  PROVE  FittingAnswersCounted' /\ SinglePointersRight' /\ RecursiveReplyWhole'
<1>1. info' = info /\ reply' = [NoReply EXCEPT !.length = SentLength(0)]
  BY Zenon DEF RecursionThrows
<1>2. ~reply'.ours /\ reply'.length = SentLength(0) BY <1>1 DEF NoReply
<1>3. SentLength(0) = ResponseStart
  <2>1. MaxPacket \in Nat BY Zenon, ResponseAssumption
  <2> QED BY <2>1 DEF SentLength
<1>4. RecursiveReplyWhole' BY Zenon, <1>1, <1>2, <1>3 DEF RecursiveReplyWhole
<1> QED BY Zenon, <1>2, <1>4 DEF FittingAnswersCounted, SinglePointersRight, OwnReply

(* Every step, for one question. *)
LEMMA OneStep == TypeInv /\ RoomInv /\ OneInv /\ [Next]_vars => OneInv'
<1> SUFFICES ASSUME TypeInv, RoomInv, OneInv, [Next]_vars, Len(questions') = 1 PROVE OneInv'
  BY Zenon DEF OneInv
<1>1. questions' = questions
  BY Zenon DEF Next, vars, ResolveA, Aborts, EncodeRow, CacheHit, Resolved, RecursionThrows, Send,
               CacheMiss, OtherType
<1>2. Len(questions) = 1 BY Zenon, <1>1
<1>3. ResponseStart \in Nat /\ ResponseStart' = ResponseStart /\ Asked' = Asked
  BY Zenon, <1>1, <1>2, StartsAre, QuestionKept
<1>4. /\ info \in Infos /\ (pc = "resolve" => (i = 1 /\ Fresh) \/ (i = 2 /\ Finished))
      /\ pc = "rows" => i = 1 /\ Answering
      /\ pc = "resolved" => Finished
  BY Zenon, <1>2 DEF OneInv
<1>a. ResponseStart <= MaxPacket /\ (ResponseStart <= MaxPacket)'
  BY Zenon, <1>2, <1>3 DEF OneInv
<1>5. ASSUME info' \in Infos, pc' = "resolve", i' = 2, Finished' PROVE OneInv'
  BY <1>a, <1>5 DEF OneInv
<1>6. ASSUME info' \in Infos, pc' = "resolved", Finished' PROVE OneInv'
  BY <1>a, <1>6 DEF OneInv
<1>7. pc = "resolve" /\ i <= Len(questions) => i = 1 /\ Fresh BY <1>2, <1>4
<1>8. IsFiniteSet({}) /\ Cardinality({}) = 0 BY Zenon, FS_EmptySet
<1>9. CASE ResolveA
  <2>1. i = 1 /\ Fresh BY Zenon, <1>7, <1>9 DEF ResolveA
  <2>2. /\ pc' = "rows" /\ i' = i /\ ptr' = 0 /\ info' = info /\ written' = written
        /\ received' = received /\ pointerLocations' = pointerLocations
    BY Zenon, <1>9 DEF ResolveA
  <2>3. info'.answers = Cardinality(written') /\ IsFiniteSet(written') BY Zenon, <1>8, <2>1, <2>2 DEF Fresh
  <2>4. 15 * info'.answers <= ptr'
    <3>1. info'.answers = 0 BY Zenon, <2>1, <2>2 DEF Fresh
    <3> QED BY <2>2, <3>1
  <2>5. Answering'
    BY Zenon, <1>3, <2>1, <2>2, <2>3, <2>4 DEF Answering, Fresh, Before, PointersRight
  <2> QED BY <1>4, <1>a, <2>1, <2>2, <2>5 DEF OneInv
<1>10. CASE Aborts
  <2>1. pc' = "aborted" /\ info' = info BY Zenon, <1>10 DEF Aborts
  <2> QED BY <1>4, <1>a, <2>1 DEF OneInv
<1>11. CASE EncodeRow
  <2> DEFINE z == RecordSize(Head(rows))  a == info.answers
  <2>1. pc = "rows" /\ rows # << >> /\ i = 1 /\ Answering BY Zenon, <1>4, <1>11 DEF EncodeRow
  <2>2. /\ IsFiniteSet(written') /\ Cardinality(written') = Cardinality(written) + 1
        /\ Before(written', ResponseStart + ptr + z)
        /\ PointersRight(Asked, written')
        /\ SavedRight(Asked, written', pointerLocations')
    BY Zenon, <1>2, <1>11, <2>1, RowEncoded
  <2>3. z \in Nat /\ z >= 15 /\ Placed(Head(rows)).size = z BY Zenon, <2>1, FirstRow
  <2>4. remLen' = remLen - z /\ received' = received BY Zenon, <1>11, <2>3 DEF EncodeRow
  <2>5. ptr \in Nat /\ remLen \in Int BY Zenon DEF TypeInv
  <2>6. received = 0 /\ ~info.recursion /\ ~info.truncation BY Zenon, <2>1 DEF Answering
  <2>7. CASE Full(remLen')
    <3>1. /\ info' = [info EXCEPT !.truncation = TRUE, !.length = ptr, !.answers = (@ - 1) % UShort]
          /\ i' = i + 1 /\ pc' = "resolve"
      BY Zenon, <1>11, <2>7 DEF EncodeRow
    <3>2. i' = 2 /\ ptr \in Int BY <2>1, <2>5, <3>1
    <3>3. info' \in Infos /\ info'.truncation /\ info'.recursion = info.recursion
      BY Zenon, <1>4, <3>1, <3>2, TruncationSet
    <3>4. Finished' BY Zenon, <1>3, <2>2, <2>4, <2>6, <3>3 DEF Finished
    <3> QED BY Zenon, <1>5, <3>1, <3>2, <3>3, <3>4
  <2>8. CASE ~Full(remLen')
    <3>1. info' = [info EXCEPT !.answers = Counted(a)] /\ ptr' = ptr + z /\ i' = i /\ pc' = pc
      BY Zenon, <1>11, <2>3, <2>8 DEF EncodeRow
    <3>2. a = Cardinality(written) /\ a \in Nat /\ 15 * a <= ptr
      BY Zenon, <2>1, FS_CardinalityType DEF Answering
    <3>3. 15 * (a + 1) <= ptr + z /\ a + 1 < UShort
      <4>1. remLen = Room - ptr BY Zenon, <2>1 DEF RoomInv
      <4>2. UShort \in Nat BY DEF UShort
      <4> HIDE DEF z, a
      <4>3. 15 * (a + 1) <= ptr + z BY <2>3, <2>5, <3>2
      <4>4. ptr + z < Room BY <2>3, <2>4, <2>5, <2>8, <4>1, Lengths DEF Full
      <4> QED BY <2>3, <2>5, <3>2, <4>2, <4>3, <4>4, Lengths
    <3>4. Counted(a) = a + 1 /\ a + 1 \in Int
      <4> HIDE DEF a
      <4>1. UShort \in Nat /\ UShort > 0 BY DEF UShort
      <4> QED BY <3>2, <3>3, <4>1 DEF Counted
    <3>5. /\ info' \in Infos /\ info'.answers = a + 1
          /\ info'.recursion = info.recursion /\ info'.truncation = info.truncation
      BY Zenon, <1>4, <3>1, <3>4, AnswersSet
    <3>6. Before(written', ResponseStart' + ptr')
      <4>1. ResponseStart + ptr + z = ResponseStart' + ptr'
        <5> HIDE DEF z
        <5> QED BY <1>3, <2>3, <2>5, <3>1
      <4> QED BY Zenon, <2>2, <4>1
    <3>7. 15 * info'.answers <= ptr' BY Zenon, <3>1, <3>3, <3>5
    <3>8. info'.answers = Cardinality(written') BY Zenon, <2>2, <3>2, <3>5
    <3>9. Answering' BY Zenon, <1>3, <2>2, <2>4, <2>6, <3>5, <3>6, <3>7, <3>8 DEF Answering
    <3> QED BY <1>a, <2>1, <3>1, <3>5, <3>9 DEF OneInv
  <2> QED BY Zenon, <2>7, <2>8
<1>12. CASE CacheHit
  <2>1. i = 1 /\ Answering BY Zenon, <1>4, <1>12 DEF CacheHit
  <2>2. info' = [info EXCEPT !.length = ptr] /\ i' = i + 1 /\ pc' = "resolve"
        /\ written' = written /\ received' = received
    BY Zenon, <1>12 DEF CacheHit
  <2>3. i' = 2 /\ ptr \in Int BY <2>1, <2>2 DEF TypeInv
  <2>4. /\ info' \in Infos /\ info'.length = ptr /\ info'.answers = info.answers
        /\ info'.recursion = info.recursion /\ info'.truncation = info.truncation
    BY Zenon, <1>4, <2>2, <2>3, LengthSet
  <2>5. Finished' BY Zenon, <1>3, <2>1, <2>2, <2>4 DEF Finished, Answering
  <2> QED BY Zenon, <1>5, <2>2, <2>3, <2>4, <2>5
<1>13. ASSUME NEW n \in ReplyLengths, CacheMiss(n) PROVE OneInv'
  <2>1. i = 1 /\ Answering BY Zenon, <1>4, <1>13 DEF CacheMiss
  <2>2. Recursive(n) /\ i' = i + 1 /\ pc' = "resolve" BY Zenon, <1>13 DEF CacheMiss
  <2>3. i' = 2 BY <2>1, <2>2
  <2>4. info' \in Infos /\ Finished'
    BY Zenon, <1>1, <1>3, <1>4, <2>1, <2>2, RecursiveDone DEF Answering
  <2> QED BY Zenon, <1>5, <2>2, <2>3, <2>4
<1>14. ASSUME NEW n \in ReplyLengths, OtherType(n) PROVE OneInv'
  <2>1. Fresh /\ pc' = "resolved" BY Zenon, <1>7, <1>14 DEF OtherType
  <2>2. CASE rd
    <3>1. Recursive(n) BY Zenon, <1>14, <2>2 DEF OtherType
    <3>2. info' \in Infos /\ Finished' BY Zenon, <1>1, <1>3, <1>4, <2>1, <3>1, RecursiveDone DEF Fresh
    <3> QED BY Zenon, <1>6, <2>1, <3>2
  <2>3. CASE ~rd
    <3>1. /\ info' = [info EXCEPT !.rcode = "not_implemented"]
          /\ written' = written /\ received' = received
      BY Zenon, <1>14, <2>3 DEF OtherType
    <3>2. info' \in Infos /\ info'.answers = info.answers BY Zenon, <1>4, <3>1, RcodeSet
    <3>3. Finished' BY Zenon, <1>8, <2>1, <3>1, <3>2 DEF Finished, Fresh, PointersRight
    <3> QED BY Zenon, <1>6, <2>1, <3>2, <3>3
  <2> QED BY Zenon, <2>2, <2>3
<1>15. CASE Resolved
  <2>1. pc = "resolve" /\ i > Len(questions) BY Zenon, <1>15 DEF Resolved
  <2>2. Finished
    <3>1. i # 1 BY <1>2, <2>1
    <3> QED BY Zenon, <1>4, <2>1, <3>1
  <2>3. pc' = "resolved" /\ info' = info /\ written' = written /\ received' = received
    BY Zenon, <1>15 DEF Resolved
  <2>4. Finished' BY Zenon, <1>3, <2>2, <2>3 DEF Finished
  <2> QED BY Zenon, <1>4, <1>6, <2>3, <2>4
<1>16. ASSUME NEW n \in ReplyLengths, RecursionThrows(n) PROVE OneInv'
  <2>1. received = 0 /\ ~info.recursion
    BY Zenon, <1>4, <1>7, <1>16 DEF RecursionThrows, Fresh, Answering
  <2>2. pc' = "sent" /\ info' = info BY Zenon, <1>16 DEF RecursionThrows
  <2>3. FittingAnswersCounted' /\ SinglePointersRight' /\ RecursiveReplyWhole'
    BY Zenon, <1>2, <1>3, <1>a, <1>16, <2>1, FailureRight
  <2> QED BY <1>4, <1>a, <2>2, <2>3 DEF OneInv
<1>17. CASE Send
  <2>1. Finished /\ pc' = "sent" /\ info' = info BY Zenon, <1>4, <1>17 DEF Send
  <2>2. FittingAnswersCounted' /\ SinglePointersRight' /\ RecursiveReplyWhole'
    BY Zenon, <1>2, <1>4, <1>17, <2>1, SentRight
  <2> QED BY <1>4, <1>a, <2>1, <2>2 DEF OneInv
<1>18. CASE UNCHANGED vars
  <2>1. UNCHANGED <<pc, i, questions, info, written, received, reply, ptr, pointerLocations>>
    BY Zenon, <1>18 DEF vars
  <2>2. (Fresh => Fresh') /\ (Answering => Answering') /\ (Finished => Finished')
    BY Zenon, <1>3, <2>1 DEF Fresh, Answering, Finished
  <2>3. pc = "sent" => FittingAnswersCounted' /\ SinglePointersRight' /\ RecursiveReplyWhole'
    <3>1. \A k : Start(k)' = Start(k) BY Zenon, <1>1, QuestionKept
    <3>2. pc = "sent" => FittingAnswersCounted /\ SinglePointersRight /\ RecursiveReplyWhole
      BY Zenon, <1>2 DEF OneInv
    <3>3. FittingAnswersCounted => FittingAnswersCounted'
      BY Zenon, <1>3, <2>1 DEF FittingAnswersCounted, OwnReply, Cut, Included
    <3>4. SinglePointersRight => SinglePointersRight'
      BY Zenon, <2>1, <3>1 DEF SinglePointersRight, OwnReply, Included, NameAt
    <3>5. RecursiveReplyWhole => RecursiveReplyWhole' BY Zenon, <1>3, <2>1 DEF RecursiveReplyWhole
    <3> QED BY Zenon, <3>2, <3>3, <3>4, <3>5
  <2> QED BY Zenon, <1>2, <1>4, <1>a, <2>1, <2>2, <2>3 DEF OneInv
<1> QED BY Zenon, <1>9, <1>10, <1>11, <1>12, <1>13, <1>14, <1>15, <1>16, <1>17, <1>18 DEF Next

(* The invariant for one question. *)
LEMMA OneInvariant == Spec => []OneInv
BY TypeInitially, TypeInvariant, OneInitially, OneStep, PTL DEF Spec

(* Whatever rows a SELECT returns, in whatever order, the header of the    *)
(* reply to one question counts exactly the records the datagram holds,    *)
(* unless the answer was cut or truncated: resolveA() counts no record     *)
(* twice and encode() overwrites none.                                     *)
THEOREM AnswersCounted == Spec => []FittingAnswersCounted
<1>1. OneInv => FittingAnswersCounted BY Zenon DEF OneInv, FittingAnswersCounted, OwnReply
<1> QED BY <1>1, OneInvariant, PTL

(* In the reply to one question every compressed name points to that name: *)
(* the places encode() saves stay those of the names it saved them for.    *)
THEOREM PointersToNames == Spec => []SinglePointersRight
<1>1. OneInv => SinglePointersRight BY Zenon DEF OneInv, SinglePointersRight, OwnReply
<1> QED BY <1>1, OneInvariant, PTL

(* For one question, a packet of the recursive server that fits ours goes  *)
(* to the client at its full length, with the server's header: the         *)
(* difference recursiveResolve returns and the sum serviceRequests takes   *)
(* cancel, also when the server's packet is shorter than the query.  After *)
(* an exception the client gets as many bytes as its query has, also when  *)
(* recv had put a foreign answer in their place.                           *)
THEOREM RecursiveRepliesWhole == Spec => []RecursiveReplyWhole
<1>1. OneInv => RecursiveReplyWhole BY Zenon DEF OneInv, RecursiveReplyWhole
<1> QED BY <1>1, OneInvariant, PTL
=============================================================================
