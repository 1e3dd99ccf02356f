---------------------------- MODULE PacketReader ----------------------------
(***************************************************************************)
(* How a packet is read: DNSResolver::extractQueries and, on a recursive   *)
(* answer, the loop of cacheResponse, with DNSQuery, DNSResourceRecord,    *)
(* DNSRDataA and DNSRDataCNAME decoding the entries and                    *)
(* DNSUtil::decodeName reading one label or pointer at a time; and the     *)
(* encoders that write cached names and addresses back.  The reference is  *)
(* the packet format itself, read from the same bytes.                     *)
(*                                                                         *)
(* cacheResponse starts where extractQueries got to in the client's query. *)
(* An answer repeats the question, so one packet stands for both: its      *)
(* questions are extracted and the records behind them cached.             *)
(***************************************************************************)
EXTENDS Integers, Sequences, SequencesExt, FiniteSets

CONSTANTS
  Packets,     \* the packets read: [bytes, questions, answers]
  MaxName,     \* MAX_DNS_NAME_LENGTH
  MaxPacket    \* MAX_DNS_PACKET_LENGTH

Dot == 46
Zero == 48
HeaderLen == 12
BufLen == MaxName + 1

ASSUME ReaderAssumption ==
  /\ MaxName \in Nat /\ MaxPacket \in Nat
  /\ \A p \in Packets : /\ p.questions \in Nat /\ p.answers \in Nat
                        /\ \A k \in DOMAIN p.bytes : p.bytes[k] \in 0 .. 255

VARIABLES
  packet,
  pc,
  ptr,         \* the entry being read
  reading,     \* which name: "question", "owner" or "value"
  start,       \* where that name starts
  srcLoc, out, \* decodeName: the byte it is at, and outputBuffer
  queries,     \* the questions extracted
  count,       \* the records read
  owner,       \* the name of the record being read
  rows         \* what cacheResponse puts into the table

nameVars == <<reading, start, srcLoc, out>>
resultVars == <<queries, count, owner, rows>>
vars == <<packet, pc, ptr, nameVars, resultVars>>

Byte(loc) == packet.bytes[loc + 1]
Size == Len(packet.bytes)
Short(loc) == Byte(loc) * 256 + Byte(loc + 1)
IsPointer(loc) == Byte(loc) >= 192

StandsStill(loc) == loc
(* uint16_t ptr = srcLoc[1] | srcLoc[0] << 8; ptr &= 0x3FFF: char is       *)
(* signed, so a low byte from 128 on sets every higher bit.                *)
Target(loc) ==
  IF Byte(loc + 1) >= 128 THEN 63 * 256 + Byte(loc + 1)
  ELSE (Byte(loc) % 64) * 256 + Byte(loc + 1)

Init ==
  /\ packet \in Packets
  /\ pc = "entry" /\ ptr = HeaderLen
  /\ reading = "question" /\ start = HeaderLen /\ srcLoc = HeaderLen /\ out = << >>
  /\ queries = << >> /\ count = 0 /\ owner = << >> /\ rows = << >>
-----------------------------------------------------------------------------
(* A caller of decodeName: it follows a pointer at the start of the name   *)
(* itself.  Only DNSResourceRecord::decode checks where that leads, and    *)
(* extractQueries gives DNSQuery the address of its own variable for the   *)
(* packet, so that a question's pointer leads out of it, here and in       *)
(* decodeName.                                                             *)
BeginName(what, at) ==
  LET loc == IF IsPointer(at) THEN Target(at) ELSE at IN
  /\ reading' = what /\ start' = at /\ srcLoc' = loc /\ out' = << >>
  /\ pc' = IF what = "owner" /\ loc > MaxPacket THEN "thrown"
           ELSE IF what = "question" /\ IsPointer(at) THEN "undefined" ELSE "check"

More == Len(queries) < packet.questions \/ count < packet.answers

NextEntry ==
  /\ pc = "entry" /\ More /\ ptr + 1 < Size
  /\ BeginName(IF Len(queries) < packet.questions THEN "question" ELSE "owner", ptr)
  /\ UNCHANGED <<packet, ptr, resultVars>>

Finish ==
  /\ pc = "entry" /\ ~More /\ pc' = "end"
  /\ UNCHANGED <<packet, ptr, nameVars, resultVars>>

(* What lies behind the packet's bytes is not defined. *)
Inside ==
  /\ srcLoc < Size
  /\ IsPointer(srcLoc) => srcLoc + 1 < Size
  /\ Byte(srcLoc) < 64 => srcLoc + Byte(srcLoc) < Size

LeavePacket ==
  /\ \/ pc = "entry" /\ More /\ ptr + 1 >= Size
     \/ pc = "check" /\ srcLoc >= Size
     \/ pc = "loop" /\ ~Inside
  /\ pc' = "undefined"
  /\ UNCHANGED <<packet, ptr, nameVars, resultVars>>

(* strlen(srcLoc) > 255: either, when no null byte follows in the packet. *)
Nulls == {e \in srcLoc .. Size - 1 : Byte(e) = 0}
CheckLength ==
  /\ pc = "check" /\ srcLoc < Size
  /\ \/ /\ Nulls = {} \/ \E e \in Nulls : e - srcLoc <= MaxName
        /\ pc' = "loop"
     \/ /\ \A e \in Nulls : e - srcLoc > MaxName
        /\ pc' = "thrown"
  /\ UNCHANGED <<packet, ptr, nameVars, resultVars>>

FollowPointer ==
  /\ pc = "loop" /\ Inside /\ IsPointer(srcLoc)
  /\ srcLoc' = Target(srcLoc)
  /\ pc' = IF reading = "question" THEN "undefined" ELSE pc
  /\ UNCHANGED <<packet, ptr, reading, start, out, resultVars>>

(* The root's name is ended at outputBuffer[-1]. *)
Label(n) == SubSeq(packet.bytes, srcLoc + 2, srcLoc + 1 + n)
BufferFull(n) == Len(out) + n + 1 > BufLen

ReadLabel ==
  /\ pc = "loop" /\ Inside /\ ~IsPointer(srcLoc)
  /\ LET n == Byte(srcLoc) IN
     IF n > 63 \/ BufferFull(n)
       THEN pc' = "thrown" /\ UNCHANGED <<srcLoc, out>>
       ELSE /\ out' = out \o Label(n) \o << Dot >>
            /\ srcLoc' = srcLoc + n + 1
            /\ pc' = IF n > 0 THEN "loop" ELSE IF out = << >> THEN "undefined" ELSE "named"
  /\ UNCHANGED <<packet, ptr, reading, start, resultVars>>

DotKept == SubSeq(out, 1, Len(out) - 1)
(* outputBuffer[dstLoc - 2] = '\0' *)
Decoded == SubSeq(out, 1, Len(out) - 2)

(* Where the caller goes on: after a leading pointer, or as many bytes on  *)
(* as decodeName returned, which counts the characters it wrote.           *)
AfterName == IF IsPointer(start) THEN start + 2 ELSE start + Len(out)
-----------------------------------------------------------------------------
(* DNSQuery: (TYPE)*(srcLoc + 1), a signed char made uint16_t. *)
Qtype(loc) == IF Byte(loc + 1) >= 128 THEN 255 * 256 + Byte(loc + 1) ELSE Byte(loc + 1)

ReadQuery ==
  /\ pc = "named" /\ reading = "question"
  /\ queries' = Append(queries, [name |-> Decoded, type |-> Qtype(AfterName)])
  /\ ptr' = AfterName + 4 /\ pc' = "entry"
  /\ UNCHANGED <<packet, nameVars, count, owner, rows>>

(* DNSRDataA::decode: the octets in decimal, one by one, into 16 bytes.    *)
(* remLen is what is left of them; strcat_s is called with what is left    *)
(* after the digits but with the digits' start.                            *)
ShortValue == 15
ValueLen == 16
Digits(n) ==
  IF n > 99 THEN <<Zero + n \div 100, Zero + ((n \div 10) % 10), Zero + (n % 10)>>
  ELSE IF n > 9 THEN <<Zero + n \div 10, Zero + (n % 10)>> ELSE <<Zero + n>>
Width(n) == IF n > 99 THEN 3 ELSE IF n > 9 THEN 2 ELSE 1

RemLen(octets) ==
  LET rem[i \in 1 .. 4] == IF i = 1 THEN ValueLen ELSE rem[i - 1] - Width(octets[i - 1]) - 1
  IN  rem
Fits(octets) ==
  \A i \in 1 .. 4 :
    /\ Len(Digits(octets[i])) + 1 <= RemLen(octets)[i]
    /\ i < 4 => Len(Digits(octets[i])) + 2 <= RemLen(octets)[i] - Width(octets[i])
AddressText(octets) ==
  LET value[i \in 0 .. 4] ==
        IF i = 0 THEN << >>
        ELSE SubSeq(value[i - 1], 1, ValueLen - RemLen(octets)[i]) \o Digits(octets[i])
               \o (IF i < 4 THEN << Dot >> ELSE << >>)
  IN  value[4]

(* DNSRDataA's constructor: up to the next dot or the end, by atoi. *)
NextDot(text, from) ==
  LET dots == {k \in from .. Len(text) : text[k] = Dot}
  IN  IF dots = {} THEN Len(text) + 1 ELSE CHOOSE k \in dots : \A j \in dots : k <= j
Atoi(s) ==
  LET n[k \in 0 .. Len(s)] == IF k = 0 THEN 0 ELSE 10 * n[k - 1] + s[k] - Zero IN n[Len(s)]
ParseAtDot(text) ==
  LET from[i \in 1 .. 4] == IF i = 1 THEN 1 ELSE NextDot(text, from[i - 1])
  IN  [i \in 1 .. 4 |-> Atoi(SubSeq(text, from[i], NextDot(text, from[i]) - 1)) % 256]
ParseAddress(text) ==
  LET from[i \in 1 .. 4] == IF i = 1 THEN 1 ELSE NextDot(text, from[i - 1]) + 1
  IN  [i \in 1 .. 4 |-> Atoi(SubSeq(text, from[i], NextDot(text, from[i]) - 1)) % 256]

(* DNSUtil::encodeName: up to the next dot, or to the end. *)
RECURSIVE EncodeName(_)
EncodeName(text) ==
  LET end == NextDot(text, 1)
      label == << (end - 1) % 256 >> \o SubSeq(text, 1, end - 1)
  IN  IF end > Len(text) THEN label \o << 0 >>
      ELSE label \o EncodeName(SubSeq(text, end + 1, Len(text)))
-----------------------------------------------------------------------------
TypeA == 1
TypeCNAME == 5

Row(name, type, value) == [name |-> name, type |-> type, value |-> value]

(* The fixed part of a record: type at its start, the length of the data   *)
(* in its last two bytes, the data behind it.  memcpy_s ends the process   *)
(* on more than four octets, and fewer leave some of addr undefined.       *)
Type == Short(AfterName)
RDLength == Short(AfterName + 8)
RData == AfterName + 10
Octets == SubSeq(packet.bytes, RData + 1, RData + 4)

HasData ==
  /\ RData <= Size
  /\ Type = TypeA => RDLength > 3 /\ RData + 4 <= Size
  /\ Type = TypeCNAME => RData + 1 < Size

ReadAddress ==
  IF RDLength > 4 \/ ~Fits(Octets)
    THEN pc' = "aborted" /\ UNCHANGED <<ptr, count, rows>>
    ELSE /\ rows' = Append(rows, Row(Decoded, TypeA, AddressText(Octets)))
         /\ pc' = "entry" /\ ptr' = RData + RDLength /\ count' = count + 1

(* Types other than A and CNAME have no rdata: continue. *)
ReadRecord ==
  /\ pc = "named" /\ reading = "owner"
  /\ \/ /\ ~HasData
        /\ pc' = "undefined" /\ UNCHANGED <<ptr, nameVars, count, owner, rows>>
     \/ /\ HasData /\ Type = TypeA
        /\ ReadAddress /\ UNCHANGED <<nameVars, owner>>
     \/ /\ HasData /\ Type = TypeCNAME
        /\ BeginName("value", RData)
        /\ owner' = Decoded /\ ptr' = RData + RDLength /\ UNCHANGED <<count, rows>>
     \/ /\ HasData /\ Type \notin {TypeA, TypeCNAME}
        /\ pc' = "entry" /\ ptr' = RData + RDLength /\ count' = count + 1
        /\ UNCHANGED <<nameVars, owner, rows>>
  /\ UNCHANGED <<packet, queries>>

ReadValue ==
  /\ pc = "named" /\ reading = "value"
  /\ rows' = Append(rows, Row(owner, TypeCNAME, Decoded))
  /\ count' = count + 1 /\ pc' = "entry"
  /\ UNCHANGED <<packet, ptr, nameVars, queries, owner>>

Next ==
  \/ NextEntry \/ Finish \/ LeavePacket \/ CheckLength \/ FollowPointer \/ ReadLabel
  \/ ReadQuery \/ ReadRecord \/ ReadValue

Spec == Init /\ [][Next]_vars /\ WF_vars(Next)
-----------------------------------------------------------------------------
(* The packet format: a name is its labels up to a null byte or to a       *)
(* pointer, whose fourteen bits are the offset where it goes on.           *)
TrueTarget(loc) == (Byte(loc) % 64) * 256 + Byte(loc + 1)

RECURSIVE TrueName(_)
TrueName(loc) ==
  IF Byte(loc) = 0 THEN << >>
  ELSE IF IsPointer(loc) THEN TrueName(TrueTarget(loc))
  ELSE << SubSeq(packet.bytes, loc + 2, loc + 1 + Byte(loc)) >> \o TrueName(loc + Byte(loc) + 1)

RECURSIVE TrueEnd(_)
TrueEnd(loc) ==
  IF Byte(loc) = 0 THEN loc + 1 ELSE IF IsPointer(loc) THEN loc + 2
  ELSE TrueEnd(loc + Byte(loc) + 1)

TrueRData(loc) == TrueEnd(loc) + 10
TrueType(loc) == Short(TrueEnd(loc))

(* Where the questions and the records start. *)
QuestionAt ==
  LET at[k \in 1 .. packet.questions + 1] ==
        IF k = 1 THEN HeaderLen ELSE TrueEnd(at[k - 1]) + 4
  IN  at
RecordAt ==
  LET at[k \in 1 .. packet.answers + 1] ==
        IF k = 1 THEN QuestionAt[packet.questions + 1]
        ELSE TrueRData(at[k - 1]) + Short(TrueRData(at[k - 1]) - 2)
  IN  at

TrueValue(loc) ==
  IF TrueType(loc) = TypeA THEN SubSeq(packet.bytes, TrueRData(loc) + 1, TrueRData(loc) + 4)
  ELSE TrueName(TrueRData(loc))

Cached == SelectSeq([k \in 1 .. packet.answers |-> RecordAt[k]],
                    LAMBDA loc : TrueType(loc) \in {TypeA, TypeCNAME})

Text(name) == FlattenSeq([k \in DOMAIN name |-> IF k = 1 THEN name[k] ELSE << Dot >> \o name[k]])
Wire(name) == FlattenSeq([k \in DOMAIN name |-> << Len(name[k]) >> \o name[k]]) \o << 0 >>

(* The names decodeName is called for, and the pointers in them. *)
NamesAt ==
  {QuestionAt[k] : k \in 1 .. packet.questions} \cup {RecordAt[k] : k \in 1 .. packet.answers}
    \cup {TrueRData(loc) : loc \in {l \in Range(Cached) : TrueType(l) = TypeCNAME}}

RECURSIVE PointersFrom(_)
PointersFrom(loc) ==
  IF Byte(loc) = 0 THEN {}
  ELSE IF IsPointer(loc) THEN {loc} \cup PointersFrom(TrueTarget(loc))
  ELSE PointersFrom(loc + Byte(loc) + 1)

(* What the code can read of the format: questions in full and of a type   *)
(* below 128, owners in full or a pointer only, addresses of four octets,  *)
(* no pointer with a low byte from 128 on, no name that is the root's, no  *)
(* dot or null in a label, and a null byte that follows each name in time. *)
PlainName(loc) ==
  /\ TrueName(loc) # << >>
  /\ \A label \in Range(TrueName(loc)) : Len(label) < 64 /\ Range(label) \cap {0, Dot} = {}
  /\ \A p \in PointersFrom(loc) : TrueTarget(p) % 256 < 128
  /\ LET from == IF IsPointer(loc) THEN TrueTarget(loc) ELSE loc
     IN  \E e \in from .. Size - 1 : e - from <= MaxName /\ Byte(e) = 0

PlainQuestion(loc) == PointersFrom(loc) = {} /\ TrueType(loc) < 128

PlainRecord(loc) ==
  /\ IsPointer(loc) \/ PointersFrom(loc) = {}
  /\ TrueType(loc) = TypeA => Short(TrueRData(loc) - 2) = 4

LongName == \E loc \in NamesAt : Len(Wire(TrueName(loc))) > MaxName

Plain ==
  /\ \A k \in 1 .. packet.questions : PlainQuestion(QuestionAt[k])
  /\ \A k \in 1 .. packet.answers : PlainRecord(RecordAt[k])
  /\ \A loc \in NamesAt : PlainName(loc) \/ Len(Wire(TrueName(loc))) > MaxName

(* A plain packet is read to its end within its bytes, without the runtime *)
(* ending the process; decodeName refuses it only for a name that exceeds  *)
(* the buffer.                                                             *)
PlainReadable ==
  Plain => pc \notin {"undefined", "aborted"} /\ (pc = "thrown" => LongName)

(* The questions answered are those of a plain packet, and the rows cached *)
(* are its address and alias records, in their order: names with their     *)
(* compressed tails, records of other types skipped over.                  *)
RowsRight ==
  pc = "end" /\ Plain =>
    /\ queries = [k \in 1 .. packet.questions |->
                    [name |-> Text(TrueName(QuestionAt[k])), type |-> TrueType(QuestionAt[k])]]
    /\ rows = [k \in DOMAIN Cached |->
                 Row(Text(TrueName(Cached[k])), TrueType(Cached[k]),
                     IF TrueType(Cached[k]) = TypeA THEN AddressText(TrueValue(Cached[k]))
                     ELSE Text(TrueValue(Cached[k])))]

(* A cached record of a plain packet is served as it was received: its     *)
(* name and alias have the wire format they had uncompressed, its address  *)
(* the same octets.                                                        *)
ServedAsReceived ==
  pc = "end" /\ Plain =>
    \A k \in DOMAIN Cached :
      /\ EncodeName(rows[k].name) = Wire(TrueName(Cached[k]))
      /\ IF rows[k].type = TypeA THEN ParseAddress(rows[k].value) = TrueValue(Cached[k])
         ELSE EncodeName(rows[k].value) = Wire(TrueValue(Cached[k]))

(* From every byte of the packet, labels and pointers lead to a null byte, *)
(* to what is no label, or out of the packet: the pointers form no circle. *)
Places == 0 .. Size - 1
Leads(loc) == loc + 1 < Size /\ (IsPointer(loc) \/ Byte(loc) \in 1 .. 63)
Onward(loc) == IF IsPointer(loc) THEN TrueTarget(loc) ELSE loc + Byte(loc) + 1

RECURSIVE Ending(_)
Ending(known) ==
  LET more == {loc \in Places : Leads(loc) => Onward(loc) \in known \/ Onward(loc) >= Size}
  IN  IF more = known THEN known ELSE Ending(more)
NoCircle == Ending({}) = Places

(* A packet whose pointers form no circle, forward or back as they lead,   *)
(* is read in finitely many steps, also where the reader has lost its      *)
(* place.  decodeName counts no pointers: a circle it would not leave.     *)
ReadEnds == NoCircle => <>(pc \in {"end", "thrown", "aborted", "undefined"})

(* "returns the number of bytes read": wherever an owner's name is         *)
(* compressed, its record is found behind it.                              *)
AllRecordsFound ==
  pc = "named" /\ reading = "owner" => AfterName = TrueEnd(start)
=============================================================================
