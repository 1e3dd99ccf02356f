------------------------------ MODULE Response ------------------------------
(***************************************************************************)
(* How a worker makes the reply to one packet: DNSResolver::extractQueries,*)
(* resolve, resolveA and recursiveResolve, DNSResourceRecord::encode, and  *)
(* the part of DNSServer::serviceRequests that sets the header and sends.  *)
(* Lengths are the code's, in bytes; the contents of a record are its      *)
(* place, its size and the place its compressed name points to.            *)
(***************************************************************************)
EXTENDS Integers, Sequences, FiniteSets

CONSTANTS
  Names,                \* the names of queries and CNAME records, one label each
  NameLen,              \* strlen of each
  Address,              \* the value of an A record
  MaxPacket,            \* MAX_DNS_PACKET_LENGTH
  MaxQuestions, MaxRows,\* bounds: questions in the packet, rows of a SELECT
  ReplyLengths          \* lengths of packets of the recursive server

HeaderLen == 12                                \* sizeof(DNSHeader)
UShort == 65536                                \* the counts are u_short

ASSUME ResponseAssumption ==
  /\ NameLen \in [Names -> 1 .. 63] /\ Address \notin Names
  /\ MaxPacket \in Nat /\ HeaderLen < MaxPacket /\ MaxPacket < UShort
  /\ MaxQuestions \in Nat /\ MaxRows \in Nat
  /\ ReplyLengths \subseteq HeaderLen .. MaxPacket

VARIABLES
  hasServer,            \* is a recursive server configured
  questions, rd,        \* the packet received
  pc, i,                \* where the worker is; the question it resolves
  rows,                 \* results of the SELECT not yet fetched
  ptr, remLen, numARecords,
  pointerLocations,     \* where the packet holds a name
  info,                 \* responseInfo
  written,              \* the records in the packet
  received,             \* length of the packet recv wrote over ours, or 0
  reply                 \* the datagram sent

vars == <<hasServer, questions, rd, pc, i, rows, ptr, remLen, numARecords, pointerLocations,
          info, written, received, reply>>

Encoded(n) == NameLen[n] + 2                   \* what encodeName writes
Row == [name : Names, value : Names \cup {Address}]
Upto(S, n) == UNION {[1 .. k -> S] : k \in 0 .. n}

(* Where question k starts; the code after the last one is responseData. *)
Start(k) ==
  LET s[j \in 1 .. Len(questions) + 1] ==
        IF j = 1 THEN HeaderLen ELSE s[j - 1] + Encoded(questions[j - 1].name) + 4
  IN  s[k]
ResponseStart == Start(Len(questions) + 1)     \* also packetLen

NoReply == [length |-> 0, tc |-> FALSE, ancount |-> 0, ours |-> FALSE]

(* extractQueries has filled pointerLocations: &packet->data[0] for every  *)
(* name.  responseInfo.length has no initial value.                        *)
Init ==
  /\ questions \in Upto([name : Names, type : {"A", "other"}], MaxQuestions)
  /\ ResponseStart <= MaxPacket
  /\ rd \in BOOLEAN /\ hasServer \in BOOLEAN
  /\ pc = "resolve" /\ i = 1 /\ rows = <<>> /\ ptr = 0 /\ remLen = 0 /\ numARecords = 0
  /\ pointerLocations = [n \in {questions[k].name : k \in DOMAIN questions} |-> HeaderLen]
  /\ info \in [answers : {0}, rcode : {"no_error"}, length : {0, MaxPacket},
               recursion : {FALSE}, truncation : {FALSE}]
  /\ written = {} /\ received = 0 /\ reply = NoReply

-----------------------------------------------------------------------------
(* resolveA: the SELECT.  Its rows, in no particular order, are those of   *)
(* the name and of the names their CNAME values lead to; a circle is an    *)
(* error of the engine (RecordCache).                                      *)
Chain(s, n) ==
  \E depth \in [Names -> 0 .. Cardinality(Names)] :
    \A k \in DOMAIN s :
      /\ s[k].name = n \/ \E j \in DOMAIN s : s[j].value = s[k].name
      /\ s[k].value # Address => depth[s[k].name] < depth[s[k].value]

Results == [n \in Names |-> {s \in Upto(Row, MaxRows) : Chain(s, n)}]

ResolveA ==
  /\ pc = "resolve" /\ i <= Len(questions) /\ questions[i].type = "A"
  /\ rows' \in Results[questions[i].name]
  /\ ptr' = 0 /\ remLen' = MaxPacket - HeaderLen /\ numARecords' = 0
  /\ pc' = "rows"
  /\ UNCHANGED <<hasServer, questions, rd, i, pointerLocations, info, written, received, reply>>

(* DNSResourceRecord::encode: the length of a record, and the memcpy_s     *)
(* that does not fit, at which the C runtime ends the process.  A negative *)
(* room is a huge size_t.                                                  *)
NameSize(r) == IF r.name \in DOMAIN pointerLocations THEN 2 ELSE Encoded(r.name)
DataSize(r) == IF r.value = Address THEN 4 ELSE Encoded(r.value)
RecordSize(r) == NameSize(r) + 10 + DataSize(r)

TooSmall(room, n) == 0 <= room /\ room < n

InfoCountedFirst(r) ==
  TooSmall(remLen - RecordSize(r), 10)

EncodeAborts(r) ==
  LET room == remLen - NameSize(r) IN
  \/ TooSmall(remLen, IF r.name \in DOMAIN pointerLocations THEN 2 ELSE NameLen[r.name])
  \/ TooSmall(room - 10, IF r.value = Address THEN 4 ELSE NameLen[r.value])
  \/ TooSmall(room - DataSize(r), 10)

Aborts ==
  /\ pc = "rows" /\ rows # <<>> /\ EncodeAborts(Head(rows))
  /\ pc' = "aborted"
  /\ UNCHANGED <<hasServer, questions, rd, i, rows, ptr, remLen, numARecords, pointerLocations,
                 info, written, received, reply>>

(* The place a compressed name of the record points to; 0 for none. *)
PointsTo(r) == IF r.name \in DOMAIN pointerLocations THEN pointerLocations[r.name] ELSE 0

Clear(S, from, to) == {w \in S : w.start + w.size <= from \/ to <= w.start}
Placed(r) == [start |-> ResponseStart + ptr, size |-> RecordSize(r), row |-> r,
              pointer |-> PointsTo(r)]

SavedPointerMutant(r) == ResponseStart + ptr + RecordSize(r) - NameLen[r.value]
SavedPointer(r) == ResponseStart + ptr + RecordSize(r) - NameLen[r.value] - 2

Uncounted(answers) == answers
Counted(answers) == (answers + 1) % UShort

Full(left) == left <= 0

EncodeRow ==
  /\ pc = "rows" /\ rows # <<>> /\ ~EncodeAborts(Head(rows))
  /\ LET r == Head(rows)
         p == Placed(r)
     IN  /\ written' = Clear(written, p.start, p.start + p.size) \cup {p}
         /\ numARecords' = IF r.value = Address THEN numARecords + 1 ELSE numARecords
         /\ pointerLocations' =
              IF r.value = Address \/ r.value \in DOMAIN pointerLocations THEN pointerLocations
              ELSE [n \in DOMAIN pointerLocations \cup {r.value} |->
                      IF n = r.value THEN SavedPointer(r) ELSE pointerLocations[n]]
         /\ remLen' = remLen - p.size
         /\ IF Full(remLen')
            THEN /\ info' = [info EXCEPT !.truncation = TRUE, !.length = ptr,
                                         !.answers = (@ - 1) % UShort]
                 /\ i' = i + 1 /\ pc' = "resolve" /\ rows' = <<>> /\ UNCHANGED ptr
            ELSE /\ info' = [info EXCEPT !.answers = Counted(@)]
                 /\ ptr' = ptr + p.size /\ rows' = Tail(rows) /\ UNCHANGED <<i, pc>>
  /\ UNCHANGED <<hasServer, questions, rd, received, reply>>

(* The last row: a hit, or a miss of a client that wants no recursion. *)
CacheHit ==
  /\ pc = "rows" /\ rows = <<>> /\ ~(numARecords <= 0 /\ rd)
  /\ info' = [info EXCEPT !.length = ptr]
  /\ i' = i + 1 /\ pc' = "resolve"
  /\ UNCHANGED <<hasServer, questions, rd, rows, ptr, remLen, numARecords, pointerLocations,
                 written, received, reply>>

RecursiveUnmarked(n) ==
  /\ info' = [info EXCEPT !.length = n - ResponseStart]
  /\ written' = {} /\ received' = n

(* recursiveResolve: without a recursive server it returns packetLen,      *)
(* otherwise the received packet replaces ours and it returns how much     *)
(* longer that is (the sum is taken again modulo 2^64).                    *)
Recursive(n) ==
  IF ~hasServer
  THEN /\ info' = [info EXCEPT !.length = ResponseStart, !.recursion = TRUE]
       /\ UNCHANGED <<written, received>>
  ELSE /\ info' = [info EXCEPT !.length = n - ResponseStart, !.recursion = TRUE]
       /\ written' = {} /\ received' = n

CacheMiss(n) ==
  /\ pc = "rows" /\ rows = <<>> /\ numARecords <= 0 /\ rd
  /\ Recursive(n)
  /\ i' = i + 1 /\ pc' = "resolve"
  /\ UNCHANGED <<hasServer, questions, rd, rows, ptr, remLen, numARecords, pointerLocations, reply>>

(* Any other type: resolve() forwards the packet or gives up, and returns. *)
OtherType(n) ==
  /\ pc = "resolve" /\ i <= Len(questions) /\ questions[i].type = "other"
  /\ IF rd THEN Recursive(n)
     ELSE /\ info' = [info EXCEPT !.rcode = "not_implemented"]
          /\ UNCHANGED <<written, received>>
  /\ pc' = "resolved"
  /\ UNCHANGED <<hasServer, questions, rd, i, rows, ptr, remLen, numARecords, pointerLocations, reply>>

Resolved ==
  /\ pc = "resolve" /\ i > Len(questions)
  /\ pc' = "resolved"
  /\ UNCHANGED <<hasServer, questions, rd, i, rows, ptr, remLen, numARecords, pointerLocations,
                 info, written, received, reply>>

SentLength(n) == IF ResponseStart + n < MaxPacket THEN ResponseStart + n ELSE MaxPacket

(* recursiveResolve throws: sendto, select or recv has failed, or recv has *)
(* put another query's answer of n bytes in the place of the packet before *)
(* the identifiers are compared.  The server failure goes out, in whatever *)
(* the packet then holds, at the length of the questions.                  *)
Overwritten(n) == written' = {} /\ received' = n

RecursionThrows(n) ==
  /\ hasServer /\ rd
  /\ \/ pc = "rows" /\ rows = <<>> /\ numARecords <= 0
     \/ pc = "resolve" /\ i <= Len(questions) /\ questions[i].type = "other"
  /\ pc' = "sent"
  /\ reply' = [NoReply EXCEPT !.length = SentLength(0)]
  /\ UNCHANGED <<written, received>> \/ Overwritten(n)
  /\ UNCHANGED <<hasServer, questions, rd, i, rows, ptr, remLen, numARecords, pointerLocations,
                 info>>

(* serviceRequests: tc, the header unless recursion occurred, and sendto. *)
Send ==
  /\ pc = "resolved"
  /\ reply' = [length |-> SentLength(info.length),
               tc |-> info.truncation,
               ours |-> ~info.recursion,
               ancount |-> IF info.recursion THEN 0 ELSE info.answers]
  /\ pc' = "sent"
  /\ UNCHANGED <<hasServer, questions, rd, i, rows, ptr, remLen, numARecords, pointerLocations,
                 info, written, received>>

Next ==
  \/ ResolveA \/ Aborts \/ EncodeRow \/ CacheHit \/ Resolved \/ Send
  \/ \E n \in ReplyLengths : CacheMiss(n) \/ OtherType(n) \/ RecursionThrows(n)

Spec == Init /\ [][Next]_vars

-----------------------------------------------------------------------------
Cut == ResponseStart + info.length > MaxPacket
Included == {w \in written : w.start + w.size <= reply.length}
OwnReply == pc = "sent" /\ reply.ours

(* The reply to one question whose answer fits holds as many records as    *)
(* its header counts: resolve() "returns a ResponseInfo struct that        *)
(* contains the number of responses that were generated of each type".     *)
FittingAnswersCounted ==
  OwnReply /\ Len(questions) = 1 /\ ~reply.tc /\ ~Cut
    => reply.ancount = Cardinality(Included)

(* The runtime ends the process only over a record that exceeds what the   *)
(* header leaves of the packet: the rooms encode() computes for its three  *)
(* copies, part of them from the back, are enough for all that fits.       *)
FittingNeverAborts ==
  pc = "aborted" => ptr + RecordSize(Head(rows)) > MaxPacket - HeaderLen

(* The names at a place of the packet: the questions', and those that      *)
(* CNAME records hold as data.                                             *)
NameAt(n, place) ==
  \/ \E k \in DOMAIN questions : questions[k].name = n /\ place = Start(k)
  \/ \E w \in written : w.row.value = n /\ place = w.start + w.size - Encoded(n)

(* encode() "uses pointer locations to enable DNS compression": in the     *)
(* reply to one question every compressed name points to that name,        *)
(* whatever chain of CNAME records the cache returns, in whatever order,   *)
(* and wherever it is truncated.                                           *)
SinglePointersRight ==
  OwnReply /\ Len(questions) = 1 =>
    \A w \in Included : w.pointer # 0 => NameAt(w.row.name, w.pointer)

(* For one question, the packet of the recursive server reaches the client *)
(* at its full length and with the header the server gave it.  When        *)
(* recursiveResolve has thrown, what the client gets has the length of its *)
(* own query, also when another query's answer is what the packet holds.   *)
RecursiveReplyWhole ==
  pc = "sent" /\ Len(questions) = 1 /\ received # 0
    => /\ ~reply.ours
       /\ reply.length = IF info.recursion THEN received ELSE ResponseStart
=============================================================================
