--------------------------- MODULE MCPacketReader ---------------------------
(* Answers for TLC: one or two questions, up to two records in every form  *)
(* of owner and data, and every width of an octet; questions of high types *)
(* and compressed ones, and owners that point forward.                     *)
EXTENDS PacketReader

LabelA == << 97 >>
LabelBC == << 98, 99 >>
LabelOf(n) == [k \in 1 .. n |-> 120]
Pointer(place) == << 192 + place \div 256, place % 256 >>
Labels(name) == FlattenSeq([k \in DOMAIN name |-> << Len(name[k]) >> \o name[k]])

Header == [k \in 1 .. HeaderLen |-> 0]
Question(name, type) == Wire(name) \o << type \div 256, type % 256, 0, 1 >>
Record(own, type, data) ==
  own \o << 0, type, 0, 1, 0, 0, 0, 60, Len(data) \div 256, Len(data) % 256 >> \o data
Answer(question, records) ==
  [bytes |-> Header \o question \o FlattenSeq(records), questions |-> 1, answers |-> Len(records)]

(* A name in full, the question's, and a label before the question's. *)
Forms == {Wire(<< LabelBC >>), Pointer(HeaderLen), Labels(<< LabelBC >>) \o Pointer(HeaderLen)}
Address(o) == Record(Pointer(HeaderLen), TypeA, o)
Records ==
  {Record(own, TypeA, << 10, 0, 200, 7 >>) : own \in Forms}
    \cup {Record(own, TypeCNAME, alias) : own \in Forms, alias \in Forms}
    \cup {Record(own, 28, [k \in 1 .. 16 |-> 254]) : own \in Forms}

(* An alias, and the address of the name that its data is. *)
Chain(question, alias) ==
  LET first == Record(Pointer(HeaderLen), TypeCNAME, alias)
      place == HeaderLen + Len(question) + 12
  IN  Answer(question, << first, Record(Pointer(place), TypeA, << 1, 2, 3, 4 >>) >>)

(* The owner of an address is the alias in the record behind it. *)
Forward(question) ==
  LET place == HeaderLen + Len(question) + 2 * (2 + 10) + 4
  IN  Answer(question, << Record(Pointer(place), TypeA, << 1, 2, 3, 4 >>),
                          Record(Pointer(HeaderLen), TypeCNAME, Wire(<< LabelBC >>)) >>)

(* Two questions, the second compressed. *)
Compressed(form) ==
  [bytes |-> Header \o Question(<< LabelA >>, 1) \o form \o << 0, 1, 0, 1 >>,
   questions |-> 2, answers |-> 0]

Short1 == Question(<< LabelA >>, 1)
Short2 == Question(<< LabelBC, LabelA >>, 28)
Long == Question(<< LabelOf(60), LabelOf(60) >>, 1)
TooLong == Question(<< LabelOf(63), LabelOf(63), LabelOf(63), LabelOf(63), LabelA >>, 1)

MCPackets ==
  {Answer(Short1, << Address(o) >>) : o \in [1 .. 4 -> {0, 9, 10, 99, 100, 255}]}
    \cup {Answer(q, << r1, r2 >>) : q \in {Short1, Short2}, r1 \in Records, r2 \in Records}
    \cup {Chain(q, alias) : q \in {Short1, Short2, Long}, alias \in Forms}
    \cup {Answer(Long, << r >>) : r \in Records}
    \cup {Forward(q) : q \in {Short1, Short2, Long}}
    \cup {Compressed(form) : form \in Forms}
    \cup {Answer(Question(<< LabelA >>, type), << >>) : type \in {127, 128, 255, 257}}
    \cup {Answer(TooLong, << >>), Answer(Question(<< >>, 2), << >>)}
    \cup {[bytes |-> Header \o Short1 \o Short2 \o r, questions |-> 2, answers |-> 1] : r \in Records}
=============================================================================
