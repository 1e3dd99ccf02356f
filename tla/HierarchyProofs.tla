--------------------------- MODULE HierarchyProofs ---------------------------
(* Proofs about the tree of loggers, for any number of threads and names:  *)
(* parents are right whenever no getLogger is under way, and an event on   *)
(* its way up reaches every ancestor it should whatever is under way.      *)
EXTENDS Hierarchy, SequenceTheorems, WellFoundedInduction, TLAPS

-----------------------------------------------------------------------------
(* Names and the names above them. *)
NameSeq == Seq(STRING)

(* A name has a length, and only the root has none. *)
LEMMA LenNat == \A n \in NameSeq : Len(n) \in Nat /\ (n # Root => Len(n) >= 1)
BY LenProperties, EmptySeq DEF NameSeq, Root

(* A beginning of a name is a name, and is told by its length. *)
LEMMA Beginning ==
  ASSUME NEW n \in NameSeq, NEW i \in 0 .. Len(n)
  PROVE  /\ SubSeq(n, 1, i) \in NameSeq /\ Len(SubSeq(n, 1, i)) = i
         /\ \A j \in 1 .. i : SubSeq(n, 1, i)[j] = n[j]
<1>1. Len(n) \in Nat /\ \A j \in 1 .. i : n[j] \in STRING
  BY LenProperties, ElementOfSeq DEF NameSeq
<1>2. /\ SubSeq(n, 1, i) \in NameSeq /\ Len(SubSeq(n, 1, i)) = IF 1 <= i THEN i - 1 + 1 ELSE 0
      /\ \A j \in 1 .. i - 1 + 1 : SubSeq(n, 1, i)[j] = n[1 + j - 1]
  BY <1>1, SubSeqProperties DEF NameSeq
<1> QED BY <1>1, <1>2

(* The beginnings of a beginning are the name's own. *)
LEMMA BeginningOfBeginning ==
  ASSUME NEW n \in NameSeq, NEW i \in 0 .. Len(n), NEW j \in 0 .. i
  PROVE  SubSeq(SubSeq(n, 1, i), 1, j) = SubSeq(n, 1, j)
<1> DEFINE m == SubSeq(n, 1, i)  a == SubSeq(m, 1, j)  b == SubSeq(n, 1, j)
<1>1. Len(n) \in Nat /\ j \in 0 .. Len(n) BY LenNat
<1>2. m \in NameSeq /\ Len(m) = i /\ \A k \in 1 .. i : m[k] = n[k] BY Zenon, Beginning
<1>3. a \in NameSeq /\ Len(a) = j /\ \A k \in 1 .. j : a[k] = m[k] BY Zenon, <1>2, Beginning
<1>4. b \in NameSeq /\ Len(b) = j /\ \A k \in 1 .. j : b[k] = n[k] BY Zenon, <1>1, Beginning
<1> HIDE DEF m, a, b
<1>5. \A k \in 1 .. j : a[k] = b[k] BY <1>1, <1>2, <1>3, <1>4
<1>6. a = b BY Zenon, <1>3, <1>4, <1>5, SeqEqual DEF NameSeq
<1> QED BY Zenon, <1>6 DEF a, b, m

(* What it is to be above a name. *)
LEMMA AboveIs ==
  ASSUME NEW n \in NameSeq
  PROVE  \A m : m \in Above(n) <=>
           /\ m \in NameSeq /\ Len(m) \in 1 .. Len(n) - 1
           /\ m = SubSeq(n, 1, Len(m))
<1>1. Len(n) \in Nat BY Zenon, LenNat
<1>2. ASSUME NEW i \in 1 .. Len(n) - 1
      PROVE  SubSeq(n, 1, i) \in NameSeq /\ Len(SubSeq(n, 1, i)) = i
  BY <1>1, Beginning
<1> QED BY Zenon, <1>1, <1>2 DEF Above

(* Of two names above a third, or of one above another above a third. *)
LEMMA AboveChain ==
  ASSUME NEW n \in NameSeq, NEW m \in Above(n)
  PROVE  /\ m \in NameSeq /\ Len(m) \in Nat /\ Len(n) \in Nat /\ 1 <= Len(m) /\ Len(m) < Len(n)
         /\ \A p \in Above(m) : p \in Above(n)
         /\ \A p \in Above(n) : Len(p) = Len(m) => p = m
         /\ \A p \in Above(n) : Len(p) < Len(m) => p \in Above(m)
<1>1. /\ Len(n) \in Nat /\ m \in NameSeq /\ Len(m) \in 1 .. Len(n) - 1
      /\ m = SubSeq(n, 1, Len(m))
  BY Zenon, AboveIs, LenNat
<1>2. ASSUME NEW p \in Above(m) PROVE p \in Above(n)
  <2>1. p \in NameSeq /\ Len(p) \in 1 .. Len(m) - 1 /\ p = SubSeq(m, 1, Len(p))
    BY Zenon, <1>1, AboveIs
  <2>2. Len(p) \in 0 .. Len(m) /\ Len(m) \in 0 .. Len(n) BY <1>1, <2>1
  <2>3. p = SubSeq(n, 1, Len(p)) BY Zenon, <1>1, <2>1, <2>2, BeginningOfBeginning
  <2> QED BY <1>1, <2>1, <2>3, AboveIs
<1>3. ASSUME NEW p \in Above(n), Len(p) = Len(m) PROVE p = m
  BY Zenon, <1>1, <1>3, AboveIs
<1>4. ASSUME NEW p \in Above(n), Len(p) < Len(m) PROVE p \in Above(m)
  <2>1. p \in NameSeq /\ Len(p) \in 1 .. Len(n) - 1 /\ p = SubSeq(n, 1, Len(p))
    BY Zenon, AboveIs
  <2>2. Len(p) \in 0 .. Len(m) /\ Len(m) \in 0 .. Len(n) BY <1>1, <1>4, <2>1
  <2>3. p = SubSeq(m, 1, Len(p)) BY Zenon, <1>1, <2>1, <2>2, BeginningOfBeginning
  <2>4. Len(p) \in 1 .. Len(m) - 1 BY <1>1, <1>4, <2>1
  <2> QED BY Zenon, <1>1, <2>1, <2>3, <2>4, AboveIs
<1> QED BY <1>1, <1>2, <1>3, <1>4

(* Of two names above another the longer starts with the shorter. *)
LEMMA PrefixByLength ==
  ASSUME NEW n \in NameSeq, NEW m \in Above(n), NEW p \in Above(n), Len(m) <= Len(p)
  PROVE  SubSeq(p, 1, Len(m)) = m
<1>1. p \in NameSeq /\ m \in NameSeq /\ Len(p) \in Nat /\ Len(m) \in Nat
  BY Zenon, AboveChain
<1>2. CASE Len(m) = Len(p)
  <2>1. m = p BY Zenon, <1>2, AboveChain
  <2> QED BY Zenon, <1>1, <2>1, SubSeqFull DEF NameSeq
<1>3. CASE Len(m) < Len(p)
  <2>1. m \in Above(p) BY Zenon, <1>3, AboveChain
  <2> QED BY Zenon, <1>1, <2>1, AboveIs
<1> QED BY <1>1, <1>2, <1>3

(* What is in a sequence once an element is appended to it. *)
LEMMA RangeOfAppend ==
  ASSUME NEW S, NEW s \in Seq(S), NEW e \in S
  PROVE  Range(Append(s, e)) = Range(s) \cup {e}
<1> DEFINE a == Append(s, e)
<1>1. /\ Len(s) \in Nat /\ DOMAIN s = 1 .. Len(s) /\ DOMAIN a = 1 .. Len(s) + 1
      /\ \A i \in 1 .. Len(s) : a[i] = s[i]
      /\ a[Len(s) + 1] = e
  BY AppendProperties, LenProperties
<1> HIDE DEF a
<1>2. \A i \in 1 .. Len(s) + 1 : i \in 1 .. Len(s) \/ i = Len(s) + 1 BY <1>1
<1>3. ASSUME NEW y \in Range(a) PROVE y \in Range(s) \cup {e}
  BY Zenon, <1>1, <1>2 DEF Range
<1>4. ASSUME NEW y \in Range(s) PROVE y \in Range(a)
  <2>1. PICK i \in 1 .. Len(s) : y = s[i] BY Zenon, <1>1 DEF Range
  <2>2. i \in 1 .. Len(s) + 1 BY <1>1
  <2> QED BY Zenon, <1>1, <2>1, <2>2 DEF Range
<1>5. e \in Range(a)
  <2>1. Len(s) + 1 \in 1 .. Len(s) + 1 BY <1>1
  <2> QED BY Zenon, <1>1, <2>1 DEF Range
<1> QED BY Zenon, <1>3, <1>4, <1>5 DEF a

(* A set of numbers has a least one. *)
LEMMA LeastNat ==
  ASSUME NEW S, S \subseteq Nat, S # {}
  PROVE  \E g \in S : \A h \in S : g <= h
<1> DEFINE Lt == {ss \in Nat \X Nat : ss[1] < ss[2]}
<1>1. \A h, g \in Nat : h < g => <<h, g>> \in Lt BY Zenon
<1>2. IsWellFoundedOn(Lt, Nat) BY Zenon, NatLessThanWellFounded DEF OpToRel
<1> HIDE DEF Lt
<1>3. PICK g \in S : \A h \in S : ~(<<h, g>> \in Lt) BY Zenon, <1>2, WFMin
<1>4. ASSUME NEW h \in S PROVE g <= h
  <2>1. g \in Nat /\ h \in Nat BY Zenon
  <2>2. ~(h < g) BY Zenon, <1>1, <1>3, <2>1
  <2> QED BY <2>1, <2>2
<1> QED BY Zenon, <1>4

(* Among names above one name there is a nearest. *)
LEMMA NearestIs ==
  ASSUME NEW n \in NameSeq, NEW ns, ns \subseteq Above(n), ns # {}
  PROVE  Nearest(ns) \in ns /\ \A m \in ns : Len(m) <= Len(Nearest(ns))
<1> DEFINE Gap == {Len(n) - Len(m) : m \in ns}
<1>1. Len(n) \in Nat /\ \A m \in ns : Len(m) \in Nat /\ Len(m) < Len(n)
  BY Zenon, AboveChain, LenNat
<1>2. PICK g \in Gap : \A h \in Gap : g <= h
  <2>1. ASSUME NEW g \in Gap PROVE g \in Nat
    <3>1. PICK m \in ns : g = Len(n) - Len(m) BY Zenon
    <3> QED BY <1>1, <3>1
  <2>2. Gap # {} BY Zenon
  <2> HIDE DEF Gap
  <2> QED BY Zenon, <2>1, <2>2, LeastNat
<1>3. PICK k \in ns : g = Len(n) - Len(k) BY Zenon
<1>4. ASSUME NEW m \in ns PROVE Len(m) <= Len(k)
  <2>1. Len(n) - Len(m) \in Gap BY Zenon
  <2>2. Len(n) - Len(k) <= Len(n) - Len(m) BY Zenon, <1>2, <1>3, <2>1
  <2> QED BY <1>1, <2>2
<1> QED BY Zenon, <1>3, <1>4 DEF Nearest
-----------------------------------------------------------------------------
(* The loggers being made, those that an event can reach, and what is      *)
(* right about the parent of such a logger: it is above it, and no logger  *)
(* that is ready is between the two, except for those "root" starts with.  *)
Made == {name[t] : t \in Building}

Linked == Ready \cup {n \in Made : \E c \in Ready : parent[c] = n}

GoodFor(n, p) ==
  /\ p \in (Above(n) \cap loggers) \cup {Root}
  /\ \A m \in (Above(n) \cap Ready) \ RootLike : Len(m) <= Len(p)
Good(n) == GoodFor(n, parent[n])

Labels == {"idle", "children", "link", "parents", "walk"}

TypeInv ==
  /\ loggers \subseteq Names
  /\ provisionNodes \in [Missing -> Seq(Names)]
  /\ parent \in [Names -> Names \cup {Root, NoParent}]
  /\ pc \in [Threads -> Labels]
  /\ name \in [Threads -> Names \cup {Root}]
  /\ child \in [Threads -> Nat \ {0}]
  /\ visited \in [Threads -> Seq(Names \cup {Root, NoParent})]
  /\ expected \in [Threads -> SUBSET Missing]
  /\ logs \in [Threads -> Nat]

(* The tree.  One getLogger at a time is under way.  A logger waits in the *)
(* provision node of every missing logger between it and its parent; of    *)
(* one that is being made, in the part still to be gone through.  The new  *)
(* logger's own parent is right from its first child on.                   *)
TreeInv ==
  /\ \A t, u \in Building : t = u
  /\ \A t \in Building : name[t] \in loggers
  /\ \A t \in Threads \ Building : child[t] = 1
  /\ \A m \in Missing : \A c \in Range(provisionNodes[m]) : c \in Ready /\ m \in Above(c)
  /\ \A n \in Linked : Good(n)
  /\ \A n \in Ready : \A m \in Above(n) \ loggers :
       Len(m) > Len(parent[n]) => n \in Range(provisionNodes[m])
  /\ \A t \in Building, n \in Ready :
       name[t] \in Above(n) \ RootLike /\ Len(name[t]) > Len(parent[n]) =>
         \E i \in child[t] .. Len(provisionNodes[name[t]]) : provisionNodes[name[t]][i] = n
  /\ \A t \in Threads : pc[t] = "link" =>
       MoreChildren(t) /\ Good(name[t]) /\ Len(parent[Child(t)]) < Len(name[t])
  /\ \A t \in Threads : pc[t] = "parents" => provisionNodes[name[t]] = << >>

(* An event on its way is at a logger whose parent is right, and what it   *)
(* has yet to reach is above that logger.                                  *)
WalkInv ==
  \A t \in Threads : pc[t] = "walk" =>
    /\ visited[t] # << >> /\ Here(t) \in Linked \cup {Root}
    /\ Upwards(visited[t])
    /\ expected[t] \subseteq Above(name[t]) \cap Ready
    /\ Above(name[t]) \cap RootLike = {} =>
         \A m \in expected[t] : m \in Range(visited[t]) \/ m \in Above(Here(t))

(* A name asked for is not the root, and what is above it may be missing. *)
LEMMA NamesAre ==
  ASSUME NEW n \in Names
  PROVE  n \in NameSeq /\ n # Root /\ n # NoParent /\ n \in Missing /\ Above(n) \subseteq Missing
BY Zenon, HierarchyAssumption DEF HierarchyAssumption, NameSeq, Missing

(* The thread that is making a logger is alone in it. *)
LEMMA Alone ==
  ASSUME TreeInv, NEW t \in Building
  PROVE  Building = {t} /\ Made = {name[t]} /\ Ready = loggers \ {name[t]}
<1>1. Building = {t} BY Zenon DEF TreeInv
<1>2. Made = {name[t]} BY Zenon, <1>1 DEF Made
<1> QED BY Zenon, <1>1, <1>2 DEF Ready, Made

(* A step of a thread that only logs leaves the tree as it is. *)
OnlyReads ==
  /\ UNCHANGED <<treeVars, child>>
  /\ \A u \in Threads : \/ pc'[u] = pc[u] /\ name'[u] = name[u]
                        \/ pc[u] \in {"idle", "walk"} /\ pc'[u] \in {"idle", "walk"}

(* Threads that only log change nothing in the tree. *)
LEMMA ReadersKeepTree ==
  ASSUME TreeInv, OnlyReads
  PROVE  TreeInv' /\ Ready' = Ready /\ Linked' = Linked
<1>1. /\ UNCHANGED <<treeVars, child>>
      /\ \A u \in Threads : \/ pc'[u] = pc[u] /\ name'[u] = name[u]
                            \/ pc[u] \in {"idle", "walk"} /\ pc'[u] \in {"idle", "walk"}
  BY Zenon DEF OnlyReads
<1>2. Building' = Building BY Zenon, <1>1 DEF Building
<1>3. \A u \in Building : u \in Threads /\ name'[u] = name[u] BY Zenon, <1>1 DEF Building
<1>4. UNCHANGED <<loggers, provisionNodes, parent, child>> BY Zenon, <1>1 DEF treeVars
<1>5. Made' = Made BY Zenon, <1>2, <1>3 DEF Made
<1>6. Ready' = Ready BY Zenon, <1>4, <1>5 DEF Ready, Made
<1>7. Linked' = Linked BY Zenon, <1>4, <1>5, <1>6 DEF Linked
<1>8. \A n, p : GoodFor(n, p)' <=> GoodFor(n, p) BY Zenon, <1>4, <1>6 DEF GoodFor
<1>9. \A n : Good(n)' <=> Good(n) BY Zenon, <1>4, <1>8 DEF Good
<1>10. ASSUME NEW u \in Threads, pc'[u] \in {"link", "parents"}
       PROVE  pc[u] = pc'[u] /\ name'[u] = name[u]
  BY Zenon, <1>1, <1>10
<1>11. /\ \A u, v \in Building' : u = v
       /\ \A u \in Building' : name'[u] \in loggers'
       /\ \A u \in Threads \ Building' : child'[u] = 1
  BY Zenon, <1>2, <1>3, <1>4 DEF TreeInv
<1>12. /\ \A m \in Missing : \A c \in Range(provisionNodes'[m]) : c \in Ready' /\ m \in Above(c)
       /\ \A n \in Linked' : Good(n)'
       /\ \A n \in Ready' : \A m \in Above(n) \ loggers' :
            Len(m) > Len(parent'[n]) => n \in Range(provisionNodes'[m])
  BY Zenon, <1>4, <1>6, <1>7, <1>9 DEF TreeInv
<1>13. \A u \in Building', n \in Ready' :
         name'[u] \in Above(n) \ RootLike /\ Len(name'[u]) > Len(parent'[n]) =>
           \E i \in child'[u] .. Len(provisionNodes'[name'[u]]) : provisionNodes'[name'[u]][i] = n
  BY <1>2, <1>3, <1>4, <1>6 DEF TreeInv
<1>14. ASSUME NEW u \in Threads
       PROVE  /\ pc'[u] = "link" => /\ MoreChildren(u)' /\ Good(name[u])'
                                   /\ Len(parent'[Child(u)']) < Len(name'[u])
              /\ pc'[u] = "parents" => provisionNodes'[name'[u]] = << >>
  BY Zenon, <1>4, <1>9, <1>10 DEF TreeInv, MoreChildren, Child
<1>15. TreeInv'
  BY Zenon, <1>10, <1>11, <1>12, <1>13, <1>14 DEF TreeInv
<1> QED BY Zenon, <1>6, <1>7, <1>15

(* A step of getLogger only adds to what an event can rely on. *)
LEMMA BuildersKeepWalk ==
  ASSUME WalkInv, UNCHANGED <<visited, expected>>, Ready \subseteq Ready', Linked \subseteq Linked',
         \A u \in Threads : pc'[u] = "walk" => pc[u] = "walk" /\ name'[u] = name[u]
  PROVE  WalkInv'
BY Zenon DEF WalkInv, Here

(* A step inside getLogger: the same logger is being made before and after. *)
Busy == {"children", "link", "parents"}

(* The thread that is making a logger goes on, alone, with the same        *)
(* logger.                                                                 *)
LEMMA StillBuilding ==
  ASSUME TypeInv, TreeInv, NEW t \in Threads, NEW to, pc[t] \in Busy, to \in Busy,
         pc' = [pc EXCEPT ![t] = to], UNCHANGED <<loggers, name>>
  PROVE  /\ t \in Building /\ Building = {t} /\ Building' = {t}
         /\ Made = {name[t]} /\ Made' = Made /\ Ready' = Ready /\ Ready = loggers \ {name[t]}
         /\ name[t] \in loggers /\ name[t] \in Names
         /\ pc'[t] = to /\ \A u \in Threads : pc'[u] \in Busy => u = t
<1>1. pc'[t] = to /\ \A u \in Threads \ {t} : pc'[u] = pc[u] BY Zenon DEF TypeInv
<1>2. t \in Building BY Zenon DEF Building, Busy
<1>3. Building = {t} /\ Made = {name[t]} /\ Ready = loggers \ {name[t]} BY Zenon, <1>2, Alone
<1>4. Building' = {t} BY Zenon, <1>1, <1>3 DEF Building, Busy
<1>5. Made' = Made BY Zenon, <1>3, <1>4 DEF Made
<1>6. Ready' = Ready BY Zenon, <1>5 DEF Ready, Made
<1>7. name[t] \in loggers /\ name[t] \in Names BY Zenon, <1>2 DEF TreeInv, TypeInv
<1>8. \A u \in Threads : pc'[u] \in Busy => u = t BY Zenon, <1>4 DEF Building, Busy
<1> QED BY Zenon, <1>1, <1>2, <1>3, <1>4, <1>5, <1>6, <1>7, <1>8

(* A child in the provision node of the logger being made. *)
LEMMA ChildIs ==
  ASSUME TypeInv, TreeInv, NEW t \in Building, MoreChildren(t)
  PROVE  /\ Child(t) \in Ready /\ Child(t) \in Names /\ Child(t) # name[t]
         /\ name[t] \in Above(Child(t)) /\ Good(Child(t))
         /\ child[t] \in 1 .. Len(provisionNodes[name[t]])
         /\ provisionNodes[name[t]] \in Seq(Names)
<1> DEFINE node == provisionNodes[name[t]]
<1>1. t \in Threads /\ name[t] \in Names BY Zenon DEF Building, TreeInv, TypeInv
<1>2. name[t] \in Missing /\ node \in Seq(Names) BY Zenon, <1>1, NamesAre DEF TypeInv
<1>3. Len(node) \in Nat /\ DOMAIN node = 1 .. Len(node) BY Zenon, <1>2, LenProperties
<1>4. child[t] \in 1 .. Len(node) BY <1>1, <1>3 DEF MoreChildren, TypeInv
<1>5. Child(t) \in Range(node) BY Zenon, <1>3, <1>4 DEF Child, Range
<1>6. Child(t) \in Ready /\ name[t] \in Above(Child(t)) BY Zenon, <1>2, <1>5 DEF TreeInv
<1>7. Child(t) \in Names BY Zenon, <1>6 DEF Ready, TypeInv
<1>8. Child(t) # name[t] BY Zenon, <1>6, Alone
<1>9. Good(Child(t)) BY Zenon, <1>6 DEF TreeInv, Linked
<1> QED BY Zenon, <1>2, <1>4, <1>6, <1>7, <1>8, <1>9

(* The parents a step may leave a logger that is being made with. *)
LEMMA TreeKept ==
  ASSUME TypeInv, TreeInv, NEW t \in Threads, pc[t] \in Busy, pc'[t] \in Busy,
         UNCHANGED <<loggers, name>>,
         Building' = {t}, Ready' = Ready, Made' = Made, Made = {name[t]}, name[t] \in loggers,
         \A u \in Threads : pc'[u] \in Busy => u = t,
         \A u \in Threads \ {t} : child'[u] = child[u],
         \A m \in Missing : provisionNodes'[m] = provisionNodes[m] \/
                            (m = name[t] /\ provisionNodes'[m] = << >>),
         \A n \in Ready : /\ Good(n)'
                          /\ Len(parent[n]) <= Len(parent'[n]),
         \A n \in Ready : parent'[n] = name[t] => Good(name[t])',
         \A n \in Ready :
           name[t] \in Above(n) \ RootLike /\ Len(name[t]) > Len(parent'[n]) =>
             \E i \in child'[t] .. Len(provisionNodes'[name[t]]) :
                provisionNodes'[name[t]][i] = n,
         pc'[t] = "link" => /\ MoreChildren(t)' /\ Good(name[t])'
                           /\ Len(parent'[Child(t)']) < Len(name[t]),
         pc'[t] = "parents" => provisionNodes'[name[t]] = << >>
  PROVE  TreeInv'
<1>1. /\ \A u, v \in Building' : u = v
      /\ \A u \in Building' : name'[u] \in loggers'
      BY Zenon
<1>2. Building = {t} BY Zenon, Alone DEF Building, Busy
<1>3. \A u \in Threads \ Building' : child'[u] = 1 BY Zenon, <1>2 DEF TreeInv
<1>4. \A m \in Missing : \A c \in Range(provisionNodes'[m]) : c \in Ready' /\ m \in Above(c)
  <2>1. Range(<< >>) = {} BY DEF Range
  <2> QED BY Zenon, <2>1 DEF TreeInv
<1>5. \A n \in Linked' : Good(n)'
  BY Zenon DEF Linked
<1>6. ASSUME NEW n \in Ready', NEW m \in Above(n) \ loggers', Len(m) > Len(parent'[n])
      PROVE  n \in Range(provisionNodes'[m])
  <2>1. n \in Names /\ n \in Ready BY Zenon DEF Ready, TypeInv
  <2>2. m \in Missing /\ Len(m) \in Nat BY Zenon, <2>1, NamesAre, AboveChain
  <2>3. Good(n) BY Zenon, <2>1 DEF TreeInv, Linked
  <2>4. Len(parent[n]) \in Nat /\ Len(parent'[n]) \in Nat
    <3>1. \A q \in Above(n) \cup {Root} : Len(q) \in Nat
      BY <2>1, NamesAre, AboveChain, EmptySeq DEF Root
    <3>2. Good(n)' BY Zenon, <2>1
    <3> QED BY Zenon, <2>3, <3>1, <3>2 DEF Good, GoodFor
  <2>5. Len(m) > Len(parent[n]) BY <1>6, <2>1, <2>2, <2>4
  <2>6. n \in Range(provisionNodes[m]) BY Zenon, <2>1, <2>5 DEF TreeInv
  <2>7. provisionNodes'[m] = provisionNodes[m] BY Zenon, <2>2
  <2> QED BY Zenon, <2>6, <2>7
<1>7. \A u \in Building', n \in Ready' :
         name'[u] \in Above(n) \ RootLike /\ Len(name'[u]) > Len(parent'[n]) =>
           \E i \in child'[u] .. Len(provisionNodes'[name'[u]]) : provisionNodes'[name'[u]][i] = n
  OBVIOUS
<1>8. ASSUME NEW u \in Threads
      PROVE  /\ pc'[u] = "link" => /\ MoreChildren(u)' /\ Good(name[u])'
                                  /\ Len(parent'[Child(u)']) < Len(name'[u])
             /\ pc'[u] = "parents" => provisionNodes'[name'[u]] = << >>
  BY Zenon DEF Busy
<1> QED BY Zenon, <1>1, <1>3, <1>4, <1>5, <1>6, <1>7, <1>8 DEF TreeInv

(* Lengths can be compared, whatever the parent. *)
LEMMA ParentLength ==
  ASSUME NEW n \in Names, NEW p, GoodFor(n, p)
  PROVE  Len(p) \in Nat
BY NamesAre, AboveChain, EmptySeq DEF GoodFor, Root

(* What StringHelper::startsWith tells of a child's parent: when it does   *)
(* not start with the new name it is above the new logger.                 *)
LEMMA StartsWithTells ==
  ASSUME NEW c \in Names, NEW x \in Names, x \in Above(c), NEW p \in Above(c) \cup {Root}
  PROVE  /\ StartsWith(p, x) => x \in RootLike \/ Len(x) <= Len(p)
         /\ ~StartsWith(p, x) => p \in Above(x) \cup {Root} /\ Len(p) < Len(x)
<1>1. c \in NameSeq /\ Len(x) \in Nat /\ Len(x) >= 1 BY Zenon, NamesAre, AboveChain
<1>2. CASE p = Root
  BY <1>1, <1>2, EmptySeq DEF StartsWith, Root
<1>3. CASE p # Root
  <2>1. p \in Above(c) /\ Len(p) \in Nat BY Zenon, <1>1, <1>3, AboveChain
  <2>2. StartsWith(p, x) => Len(x) <= Len(p) BY Zenon, <1>3 DEF StartsWith
  <2>3. ~StartsWith(p, x) => Len(p) < Len(x)
    BY <1>1, <1>3, <2>1, PrefixByLength DEF StartsWith
  <2>4. Len(p) < Len(x) => p \in Above(x) BY Zenon, <1>1, <2>1, AboveChain
  <2> QED BY Zenon, <2>2, <2>3, <2>4
<1> QED BY Zenon, <1>2, <1>3

(* updateChildren: the new logger takes the parent of a child. *)
LEMMA TakeKeepsTree ==
  ASSUME TypeInv, TreeInv, NEW t \in Threads, TakeParent(t)
  PROVE  TreeInv' /\ Ready' = Ready /\ Linked' = Linked
<1> DEFINE x == name[t]  c == Child(t)  node == provisionNodes[x]
<1>1. /\ pc[t] = "children" /\ MoreChildren(t)
      /\ UNCHANGED <<loggers, provisionNodes, name, walkVars>>
  BY Zenon DEF TakeParent
<1>2. PICK to \in {"children", "link"} : pc' = [pc EXCEPT ![t] = to]
  BY Zenon DEF TakeParent, Goto
<1>3. /\ t \in Building /\ Building = {t} /\ Building' = {t}
      /\ Made = {x} /\ Made' = Made /\ Ready' = Ready /\ Ready = loggers \ {x}
      /\ x \in loggers /\ x \in Names
      /\ pc'[t] = to /\ \A u \in Threads : pc'[u] \in Busy => u = t
  BY Zenon, <1>1, <1>2, StillBuilding DEF Busy
<1>4. /\ c \in Ready /\ c \in Names /\ c # x /\ x \in Above(c) /\ Good(c)
      /\ child[t] \in 1 .. Len(node) /\ node \in Seq(Names)
  BY Zenon, <1>1, <1>3, ChildIs
<1>5. c = node[child[t]] BY Zenon DEF Child
<1>6. parent[c] \in Above(c) \cup {Root} BY Zenon, <1>4 DEF Good, GoodFor
<1>7. /\ StartsWith(parent[c], x) => x \in RootLike \/ Len(x) <= Len(parent[c])
      /\ ~StartsWith(parent[c], x) => parent[c] \in Above(x) \cup {Root} /\ Len(parent[c]) < Len(x)
  BY Zenon, <1>3, <1>4, <1>6, StartsWithTells
<1>8. \A n \in Ready : n \in Names /\ Good(n) /\ Len(parent[n]) \in Nat
  BY Zenon, ParentLength DEF Ready, TypeInv, TreeInv, Linked, Good
<1>9. Len(node) \in Nat /\ Len(x) \in Nat BY Zenon, <1>3, <1>4, LenProperties, LenNat, NamesAre
<1>10. \A n, p : GoodFor(n, p)' <=> GoodFor(n, p) BY Zenon, <1>1, <1>3 DEF GoodFor
<1>11. CASE StartsWith(parent[c], x)
  <2>1. UNCHANGED parent /\ child' = [child EXCEPT ![t] = @ + 1] /\ pc'[t] = "children"
    BY Zenon, <1>11, <1>3 DEF TakeParent, NextChild, Goto, TypeInv
  <2>2. child'[t] = child[t] + 1 /\ \A u \in Threads \ {t} : child'[u] = child[u]
    BY Zenon, <2>1 DEF TypeInv
  <2>3. \A n : Good(n)' <=> Good(n) BY Zenon, <1>10, <2>1 DEF Good
  <2>4. ASSUME NEW n \in Ready, x \in Above(n) \ RootLike, Len(x) > Len(parent[n])
        PROVE  \E i \in child'[t] .. Len(node) : node[i] = n
    <3>1. PICK i \in child[t] .. Len(node) : node[i] = n BY Zenon, <1>3, <2>4 DEF TreeInv
    <3>2. n # c BY <1>7, <1>8, <1>9, <1>11, <2>4
    <3>3. i # child[t] BY Zenon, <1>5, <3>1, <3>2
    <3>4. i \in child'[t] .. Len(node) BY <1>4, <1>9, <2>2, <3>1, <3>3
    <3> QED BY Zenon, <3>1, <3>4
  <2>5. \A n \in Ready : parent'[n] = x => Good(x)'
    BY Zenon, <1>1, <1>3, <2>1, <2>3 DEF TreeInv, Linked
  <2>6. Linked' = Linked BY Zenon, <1>3, <2>1 DEF Linked
  <2>7. \A n \in Ready : Good(n)' /\ Len(parent[n]) <= Len(parent'[n]) BY <1>8, <2>1, <2>3
  <2> HIDE DEF c, node
  <2>8. TreeInv' BY Zenon, <1>1, <1>3, <2>1, <2>2, <2>4, <2>5, <2>7, TreeKept DEF Busy, node
  <2> QED BY Zenon, <1>3, <2>6, <2>8
<1>12. CASE ~StartsWith(parent[c], x)
  <2>1. /\ UNCHANGED child /\ pc'[t] = "link"
        /\ parent' = [parent EXCEPT ![x] = parent[c]]
    BY Zenon, <1>12, <1>3 DEF TakeParent, Goto, TypeInv
  <2>2. parent'[x] = parent[c] /\ \A n \in Names \ {x} : parent'[n] = parent[n]
    BY Zenon, <1>3, <2>1 DEF TypeInv
  <2>3. \A n \in Ready : parent'[n] = parent[n] BY Zenon, <1>3, <1>8, <2>2
  <2>4. \A n \in Ready : Good(n)' BY Zenon, <1>8, <1>10, <2>3 DEF Good
  <2>5. GoodFor(x, parent[c])
    <3>1. parent[c] \in (Above(x) \cap loggers) \cup {Root}
      BY Zenon, <1>4, <1>7, <1>12 DEF Good, GoodFor
    <3>2. \A m \in Above(x) : m \in Above(c) BY Zenon, <1>4, NamesAre, AboveChain
    <3> QED BY Zenon, <1>4, <3>1, <3>2 DEF Good, GoodFor
  <2>6. Good(x)' BY Zenon, <1>1, <1>10, <2>2, <2>5 DEF Good
  <2>7. Child(t)' = c /\ MoreChildren(t)' BY Zenon, <1>1, <2>1 DEF Child, MoreChildren
  <2>8. Len(parent'[Child(t)']) < Len(x) BY Zenon, <1>4, <1>7, <1>12, <2>3, <2>7
  <2>9. Linked' = Linked BY Zenon, <1>3, <2>3 DEF Linked
  <2>10. \A n \in Ready : Good(n)' /\ Len(parent[n]) <= Len(parent'[n]) BY <1>8, <2>3, <2>4
  <2>11. \A n \in Ready :
           x \in Above(n) \ RootLike /\ Len(x) > Len(parent'[n]) =>
             \E i \in child'[t] .. Len(provisionNodes'[x]) : provisionNodes'[x][i] = n
    BY <1>1, <1>3, <2>1, <2>3 DEF TreeInv
  <2> HIDE DEF c, node
  <2>12. TreeInv'
    BY Zenon, <1>1, <1>3, <2>1, <2>6, <2>7, <2>8, <2>10, <2>11, TreeKept DEF Busy
  <2> QED BY Zenon, <1>3, <2>9, <2>12
<1> QED BY Zenon, <1>11, <1>12

(* updateChildren: the child takes the new logger for its parent. *)
LEMMA LinkKeepsTree ==
  ASSUME TypeInv, TreeInv, NEW t \in Threads, LinkChild(t)
  PROVE  TreeInv' /\ Ready' = Ready /\ Linked \subseteq Linked'
<1> DEFINE x == name[t]  c == Child(t)  node == provisionNodes[x]
<1>1. /\ pc[t] = "link" /\ pc' = [pc EXCEPT ![t] = "children"]
      /\ parent' = [parent EXCEPT ![c] = x] /\ child' = [child EXCEPT ![t] = @ + 1]
      /\ UNCHANGED <<loggers, provisionNodes, name, walkVars>>
  BY Zenon DEF LinkChild, Goto, NextChild
<1>2. MoreChildren(t) /\ Good(x) /\ Len(parent[c]) < Len(x) BY Zenon, <1>1 DEF TreeInv
<1>3. /\ t \in Building /\ Building = {t} /\ Building' = {t}
      /\ Made = {x} /\ Made' = Made /\ Ready' = Ready /\ Ready = loggers \ {x}
      /\ x \in loggers /\ x \in Names
      /\ pc'[t] = "children" /\ \A u \in Threads : pc'[u] \in Busy => u = t
  BY Zenon, <1>1, StillBuilding DEF Busy
<1>4. /\ c \in Ready /\ c \in Names /\ c # x /\ x \in Above(c) /\ Good(c)
      /\ child[t] \in 1 .. Len(node) /\ node \in Seq(Names)
  BY Zenon, <1>2, <1>3, ChildIs
<1>5. c = node[child[t]] BY Zenon DEF Child
<1>6. \A n \in Ready : n \in Names /\ Good(n) /\ Len(parent[n]) \in Nat
  BY Zenon, ParentLength DEF Ready, TypeInv, TreeInv, Linked, Good
<1>7. Len(node) \in Nat /\ Len(x) \in Nat BY Zenon, <1>3, <1>4, LenProperties, LenNat, NamesAre
<1>8. \A n, p : GoodFor(n, p)' <=> GoodFor(n, p) BY Zenon, <1>1, <1>3 DEF GoodFor
<1>9. parent'[c] = x /\ \A n \in Names \ {c} : parent'[n] = parent[n]
  BY Zenon, <1>1, <1>4 DEF TypeInv
<1>10. child'[t] = child[t] + 1 /\ \A u \in Threads \ {t} : child'[u] = child[u]
  BY Zenon, <1>1 DEF TypeInv
<1>11. GoodFor(c, x)
  <2>1. \A m \in Above(c) : Len(m) \in Nat BY Zenon, <1>4, NamesAre, AboveChain
  <2>2. \A m \in (Above(c) \cap Ready) \ RootLike : Len(m) <= Len(x)
    BY <1>2, <1>4, <1>6, <1>7, <2>1 DEF Good, GoodFor
  <2> QED BY Zenon, <1>3, <1>4, <2>2 DEF GoodFor
<1>12. ASSUME NEW n \in Ready PROVE Good(n)' /\ Len(parent[n]) <= Len(parent'[n])
  <2>1. CASE n = c
    <3>1. GoodFor(n, x)' BY Zenon, <1>1, <1>8, <1>11, <2>1
    <3>2. Good(n)' BY Zenon, <1>1, <1>9, <2>1, <3>1 DEF Good
    <3> QED BY <1>2, <1>6, <1>7, <1>9, <2>1, <3>2
  <2>2. CASE n # c BY <1>6, <1>8, <1>9, <2>2 DEF Good
  <2> QED BY Zenon, <2>1, <2>2
<1>13. Good(x)' BY Zenon, <1>1, <1>2, <1>3, <1>4, <1>8, <1>9 DEF Good
<1>14. ASSUME NEW n \in Ready, x \in Above(n) \ RootLike, Len(x) > Len(parent'[n])
       PROVE  \E i \in child'[t] .. Len(provisionNodes'[x]) : provisionNodes'[x][i] = n
  <2>1. n # c BY <1>7, <1>9, <1>14
  <2>2. Len(x) > Len(parent[n]) BY Zenon, <1>6, <1>9, <1>14, <2>1
  <2>3. PICK i \in child[t] .. Len(node) : node[i] = n BY Zenon, <1>3, <1>14, <2>2 DEF TreeInv
  <2>4. i # child[t] BY Zenon, <1>5, <2>1, <2>3
  <2>5. child[t] \in Nat /\ i \in Nat /\ child[t] <= i /\ i <= Len(node) BY <1>4, <1>7, <2>3
  <2>6. i \in child'[t] .. Len(node) BY <1>7, <1>10, <2>4, <2>5
  <2> QED BY Zenon, <1>1, <2>3, <2>6
<1>15. Linked \subseteq Linked'
  <2>1. x \in Linked' BY Zenon, <1>3, <1>4, <1>9 DEF Linked
  <2> QED BY Zenon, <1>3, <2>1 DEF Linked
<1> HIDE DEF c, node
<1>16. TreeInv' BY Zenon, <1>1, <1>3, <1>10, <1>12, <1>13, <1>14, TreeKept DEF Busy
<1> QED BY Zenon, <1>3, <1>15, <1>16

(* The provision node is erased when all its children are linked. *)
LEMMA EraseKeepsTree ==
  ASSUME TypeInv, TreeInv, NEW t \in Threads, EraseNode(t)
  PROVE  TreeInv' /\ Ready' = Ready /\ Linked' = Linked
<1> DEFINE x == name[t]
<1>1. /\ pc[t] = "children" /\ pc' = [pc EXCEPT ![t] = "parents"] /\ ~MoreChildren(t)
      /\ provisionNodes' = [provisionNodes EXCEPT ![x] = << >>]
      /\ UNCHANGED <<loggers, parent, name, child, walkVars>>
  BY Zenon DEF EraseNode, Goto
<1>2. /\ t \in Building /\ Building = {t} /\ Building' = {t}
      /\ Made = {x} /\ Made' = Made /\ Ready' = Ready /\ Ready = loggers \ {x}
      /\ x \in loggers /\ x \in Names
      /\ pc'[t] = "parents" /\ \A u \in Threads : pc'[u] \in Busy => u = t
  BY Zenon, <1>1, StillBuilding DEF Busy
<1>3. x \in Missing /\ provisionNodes[x] \in Seq(Names) BY Zenon, <1>2, NamesAre DEF TypeInv
<1>4. child[t] \in Nat /\ Len(provisionNodes[x]) \in Nat /\ child[t] > Len(provisionNodes[x])
  BY <1>1, <1>3, LenProperties DEF MoreChildren, TypeInv
<1>5. /\ provisionNodes'[x] = << >>
      /\ \A m \in Missing \ {x} : provisionNodes'[m] = provisionNodes[m]
  BY Zenon, <1>1, <1>3 DEF TypeInv
<1>6. \A n \in Ready : n \in Names /\ Good(n) /\ Len(parent[n]) \in Nat
  BY Zenon, ParentLength DEF Ready, TypeInv, TreeInv, Linked, Good
<1>7. \A n : Good(n)' <=> Good(n) BY Zenon, <1>1, <1>2 DEF Good, GoodFor
<1>8. ASSUME NEW n \in Ready, x \in Above(n) \ RootLike, Len(x) > Len(parent'[n])
      PROVE  FALSE
  <2>1. PICK i \in child[t] .. Len(provisionNodes[x]) : provisionNodes[x][i] = n
    BY Zenon, <1>1, <1>2, <1>8 DEF TreeInv
  <2> QED BY <1>4
<1>9. Linked' = Linked BY Zenon, <1>1, <1>2 DEF Linked
<1>10. \A n \in Ready : parent'[n] = x => Good(x)'
  BY Zenon, <1>1, <1>2, <1>7 DEF TreeInv, Linked
<1>11. \A n \in Ready : Good(n)' /\ Len(parent[n]) <= Len(parent'[n]) BY <1>1, <1>6, <1>7
<1>12. TreeInv' BY Zenon, <1>1, <1>2, <1>5, <1>8, <1>10, <1>11, TreeKept DEF Busy
<1> QED BY Zenon, <1>2, <1>9, <1>12

(* updateParents: the new logger gets its parent, and waits for those      *)
(* still missing.                                                          *)
LEMMA UpdateKeepsTree ==
  ASSUME TypeInv, TreeInv, NEW t \in Threads, UpdateParents(t)
  PROVE  TreeInv' /\ Ready' = loggers /\ Ready \subseteq Ready' /\ Linked \subseteq Linked'
<1> DEFINE x == name[t]  p == Nearest(Above(x) \cap loggers)
<1>1. /\ pc[t] = "parents" /\ pc' = [pc EXCEPT ![t] = "idle"]
      /\ parent' = [parent EXCEPT ![x] = p]
      /\ provisionNodes' = [m \in Missing |->
           IF m \in Above(x) /\ Len(m) > Len(p) THEN Append(provisionNodes[m], x)
           ELSE provisionNodes[m]]
      /\ child' = [child EXCEPT ![t] = 1] /\ UNCHANGED <<loggers, walkVars>>
  BY Zenon DEF UpdateParents, Goto
<1>2. t \in Building /\ x \in loggers /\ x \in Names
  BY Zenon, <1>1 DEF Building, TreeInv, TypeInv
<1>3. Building = {t} /\ Made = {x} /\ Ready = loggers \ {x} BY Zenon, <1>2, Alone
<1>4. pc'[t] = "idle" /\ \A u \in Threads \ {t} : pc'[u] = pc[u] BY Zenon, <1>1 DEF TypeInv
<1>5. Building' = {} BY Zenon, <1>3, <1>4 DEF Building
<1>6. Made' = {} /\ Ready' = loggers BY Zenon, <1>1, <1>5 DEF Made, Ready
<1>7. Linked' = loggers /\ Linked \subseteq loggers
  BY Zenon, <1>2, <1>3, <1>6 DEF Linked
<1>8. parent'[x] = p /\ \A n \in Names \ {x} : parent'[n] = parent[n]
  BY Zenon, <1>1, <1>2 DEF TypeInv
<1>9. p \in (Above(x) \cap loggers) \cup {Root} /\ \A m \in Above(x) \cap loggers : Len(m) <= Len(p)
  <2>1. x \in NameSeq BY Zenon, <1>2, NamesAre
  <2>2. CASE Above(x) \cap loggers = {} BY Zenon, <2>2 DEF Nearest
  <2>3. CASE Above(x) \cap loggers # {} BY Zenon, <2>1, <2>3, NearestIs
  <2> QED BY Zenon, <2>2, <2>3
<1> HIDE DEF p
<1>10. ASSUME NEW m \in Missing
       PROVE  /\ provisionNodes[m] \in Seq(Names)
              /\ Range(provisionNodes'[m]) = Range(provisionNodes[m]) \cup
                   (IF m \in Above(x) /\ Len(m) > Len(p) THEN {x} ELSE {})
  <2>1. provisionNodes[m] \in Seq(Names) BY Zenon DEF TypeInv
  <2>2. CASE m \in Above(x) /\ Len(m) > Len(p)
    <3>1. provisionNodes'[m] = Append(provisionNodes[m], x) BY Zenon, <1>1, <2>2
    <3>2. Range(provisionNodes'[m]) = Range(provisionNodes[m]) \cup {x}
      BY <1>2, <2>1, <3>1, RangeOfAppend
    <3> QED BY Zenon, <2>1, <2>2, <3>2
  <2>3. CASE ~(m \in Above(x) /\ Len(m) > Len(p)) BY Zenon, <1>1, <2>1, <2>3
  <2> QED BY Zenon, <2>2, <2>3
<1>11. ASSUME NEW n \in loggers PROVE n \in Names /\ Good(n)'
  <2>1. n \in Names BY Zenon DEF TypeInv
  <2>2. CASE n = x
    <3>1. GoodFor(n, parent[n])' BY Zenon, <1>1, <1>6, <1>8, <1>9, <2>2 DEF GoodFor
    <3> QED BY Zenon, <2>1, <3>1 DEF Good
  <2>3. CASE n # x
    <3>1. n \in Ready /\ Good(n) /\ parent'[n] = parent[n]
      BY Zenon, <1>3, <1>8, <2>1, <2>3 DEF TreeInv, Linked
    <3>2. Len(parent[n]) \in Nat /\ Len(x) \in Nat
      BY Zenon, <1>2, <2>1, <3>1, ParentLength, NamesAre, LenNat DEF Good
    <3>3. x \in Above(n) \ RootLike => Len(x) <= Len(parent[n])
      <4>1. provisionNodes[x] = << >> BY Zenon, <1>1 DEF TreeInv
      <4>2. child[t] \in Nat \ {0} /\ Len(<< >>) = 0 BY Zenon, EmptySeq DEF TypeInv
      <4>3. child[t] .. Len(provisionNodes[x]) = {} BY <4>1, <4>2
      <4> QED BY <1>2, <3>1, <3>2, <4>3 DEF TreeInv
    <3>4. \A m \in (Above(n) \cap loggers) \ RootLike : Len(m) <= Len(parent[n])
      BY Zenon, <1>3, <3>1, <3>3 DEF Good, GoodFor
    <3>5. GoodFor(n, parent[n])' BY Zenon, <1>1, <1>6, <3>1, <3>4 DEF Good, GoodFor
    <3> QED BY Zenon, <2>1, <3>5 DEF Good
  <2> QED BY Zenon, <2>2, <2>3
<1>12. ASSUME NEW n \in loggers, NEW m \in Above(n) \ loggers, Len(m) > Len(parent'[n])
       PROVE  n \in Range(provisionNodes'[m])
  <2>1. n \in Names /\ m \in Missing BY Zenon, <1>11, NamesAre
  <2>2. CASE n = x BY Zenon, <1>8, <1>10, <1>12, <2>1, <2>2
  <2>3. CASE n # x
    <3>1. n \in Ready /\ Len(m) > Len(parent[n]) BY Zenon, <1>3, <1>8, <1>12, <2>1, <2>3
    <3>2. n \in Range(provisionNodes[m]) BY Zenon, <3>1 DEF TreeInv
    <3> QED BY Zenon, <1>10, <2>1, <3>2
  <2> QED BY Zenon, <2>2, <2>3
<1>13. ASSUME NEW m \in Missing, NEW c \in Range(provisionNodes'[m])
       PROVE  c \in loggers /\ m \in Above(c)
  <2>1. CASE c \in Range(provisionNodes[m]) BY Zenon, <1>3, <2>1 DEF TreeInv
  <2>2. CASE c \notin Range(provisionNodes[m]) BY Zenon, <1>2, <1>10, <2>2
  <2> QED BY Zenon, <2>1, <2>2
<1>14. \A u \in Threads : child'[u] = 1
  BY <1>1, <1>3 DEF TreeInv, TypeInv
<1>15. \A u \in Threads : pc'[u] \notin {"link", "parents"} BY Zenon, <1>5 DEF Building
<1>16. TreeInv'
  BY Zenon, <1>1, <1>5, <1>6, <1>7, <1>11, <1>12, <1>13, <1>14, <1>15 DEF TreeInv
<1> QED BY Zenon, <1>3, <1>6, <1>7, <1>16

(* getLogger enters a new logger in the map: it is nobody's parent yet. *)
LEMMA GetKeepsTree ==
  ASSUME TypeInv, TreeInv, NEW t \in Threads, NEW n \in Names, GetLogger(t, n)
  PROVE  TreeInv' /\ Ready' = Ready /\ Linked' = Linked
<1>1. /\ Building = {} /\ n \notin loggers /\ pc[t] = "idle"
      /\ pc' = [pc EXCEPT ![t] = "children"]
      /\ loggers' = loggers \cup {n} /\ name' = [name EXCEPT ![t] = n]
      /\ UNCHANGED <<provisionNodes, parent, child, walkVars>>
  BY Zenon DEF GetLogger, Goto
<1>2. /\ pc'[t] = "children" /\ \A u \in Threads \ {t} : pc'[u] = pc[u]
      /\ name'[t] = n
  BY Zenon, <1>1 DEF TypeInv
<1>3. Building' = {t} BY Zenon, <1>1, <1>2 DEF Building
<1>4. Made = {} /\ Made' = {n} /\ Ready = loggers /\ Ready' = loggers
  BY Zenon, <1>1, <1>2, <1>3 DEF Made, Ready
<1>5. \A c \in loggers : c \in Names /\ Good(c) /\ parent[c] # n
  <2>1. \A c \in loggers : c \in Names /\ Good(c) BY Zenon, <1>4 DEF TypeInv, TreeInv, Linked
  <2> QED BY Zenon, <1>1, <2>1, NamesAre DEF Good, GoodFor
<1>6. Linked = loggers /\ Linked' = loggers BY Zenon, <1>1, <1>4, <1>5 DEF Linked
<1>7. \A c \in loggers : Good(c)' BY Zenon, <1>1, <1>4, <1>5 DEF Good, GoodFor
<1>8. child[t] = 1 BY Zenon, <1>1 DEF TreeInv
<1>9. ASSUME NEW c \in loggers, n \in Above(c), Len(n) > Len(parent[c])
      PROVE  \E i \in 1 .. Len(provisionNodes[n]) : provisionNodes[n][i] = c
  <2>1. c \in Range(provisionNodes[n]) BY Zenon, <1>1, <1>4, <1>9 DEF TreeInv
  <2>2. provisionNodes[n] \in Seq(Names) BY Zenon, NamesAre DEF TypeInv
  <2>3. DOMAIN provisionNodes[n] = 1 .. Len(provisionNodes[n]) BY Zenon, <2>2, LenProperties
  <2> QED BY Zenon, <2>1, <2>3 DEF Range
<1>10. \A u \in Threads : pc'[u] \notin {"link", "parents"}
  BY Zenon, <1>1, <1>2 DEF Building
<1>11. TreeInv'
  <2>1. \A u \in Threads \ Building' : child'[u] = 1 BY Zenon, <1>1, <1>3 DEF TreeInv
  <2>2. /\ \A m \in Missing : \A c \in Range(provisionNodes'[m]) : c \in Ready' /\ m \in Above(c)
        /\ \A c \in Linked' : Good(c)'
        /\ \A c \in Ready' : \A m \in Above(c) \ loggers' :
             Len(m) > Len(parent'[c]) => c \in Range(provisionNodes'[m])
    BY Zenon, <1>1, <1>4, <1>6, <1>7 DEF TreeInv
  <2>3. \A u \in Building', c \in Ready' :
          name'[u] \in Above(c) \ RootLike /\ Len(name'[u]) > Len(parent'[c]) =>
            \E i \in child'[u] .. Len(provisionNodes'[name'[u]]) : provisionNodes'[name'[u]][i] = c
    <3>1. ASSUME NEW u \in Building'
          PROVE  u = t /\ name'[u] = n /\ child'[u] = 1 /\ provisionNodes' = provisionNodes
      BY Zenon, <1>1, <1>2, <1>3, <1>8
    <3>2. Ready' = loggers /\ parent' = parent BY Zenon, <1>1, <1>4
    <3> QED BY Zenon, <1>9, <3>1, <3>2
  <2>4. (\A u, v \in Building' : u = v) /\ \A u \in Building' : name'[u] \in loggers'
    BY <1>1, <1>2, <1>3
  <2> QED BY Zenon, <1>10, <2>1, <2>2, <2>3, <2>4 DEF TreeInv
<1> QED BY Zenon, <1>4, <1>6, <1>11

(* The parent of a logger an event can reach is one it can reach. *)
LEMMA ParentReached ==
  ASSUME TypeInv, TreeInv, NEW l \in Linked
  PROVE  /\ l \in Names /\ parent[l] \in (Above(l) \cap loggers) \cup {Root}
         /\ parent[l] \in Linked \cup {Root}
<1>1. l \in Names /\ Good(l)
  <2>1. Made \subseteq Names BY DEF Made, TreeInv, TypeInv
  <2> QED BY Zenon, <2>1 DEF Linked, Ready, TreeInv, TypeInv
<1>2. parent[l] \in (Above(l) \cap loggers) \cup {Root} BY Zenon, <1>1 DEF Good, GoodFor
<1>3. ASSUME parent[l] \in loggers, parent[l] \in Above(l) PROVE parent[l] \in Linked
  <2>1. CASE parent[l] \in Ready BY Zenon, <2>1 DEF Linked
  <2>2. CASE parent[l] \notin Ready
    <3>1. parent[l] \in Made BY Zenon, <1>3, <2>2 DEF Ready, Made
    <3>2. parent[l] # l BY <1>1, <1>3, NamesAre, AboveChain
    <3>3. l \notin Made
      <4>1. PICK t \in Building : parent[l] = name[t] BY Zenon, <3>1 DEF Made
      <4>2. Made = {name[t]} BY Zenon, Alone
      <4> QED BY Zenon, <3>2, <4>1, <4>2
    <3>4. l \in Ready BY Zenon, <3>3 DEF Linked
    <3> QED BY Zenon, <3>1, <3>4 DEF Linked
  <2> QED BY Zenon, <2>1, <2>2
<1> QED BY Zenon, <1>1, <1>2, <1>3

(* An event goes on: nothing it should reach is passed by. *)
LEMMA WalkKeepsWalk ==
  ASSUME TypeInv, TreeInv, WalkInv, NEW t \in Threads, Walk(t)
  PROVE  TreeInv' /\ WalkInv' /\ visited' \in [Threads -> Seq(Names \cup {Root, NoParent})]
<1> DEFINE v == visited[t]  l == Here(t)  p == parent[l]  V == Names \cup {Root, NoParent}
<1>1. /\ pc[t] = "walk" /\ pc' = [pc EXCEPT ![t] = "walk"] /\ l # Root
      /\ visited' = [visited EXCEPT ![t] = Append(v, p)]
      /\ UNCHANGED <<treeVars, name, child, expected, logs>>
  BY Zenon DEF Walk, Goto
<1>2. TreeInv' /\ Ready' = Ready /\ Linked' = Linked
  <2>1. OnlyReads BY Zenon, <1>1 DEF OnlyReads, TypeInv
  <2> QED BY Zenon, <2>1, ReadersKeepTree
<1>3. /\ v # << >> /\ l \in Linked
      /\ Upwards(v)
      /\ expected[t] \subseteq Above(name[t]) \cap Ready
      /\ Above(name[t]) \cap RootLike = {} =>
           \A m \in expected[t] : m \in Range(v) \/ m \in Above(l)
  BY Zenon, <1>1 DEF WalkInv
<1>4. l \in Names /\ p \in (Above(l) \cap loggers) \cup {Root} /\ p \in Linked \cup {Root}
  BY Zenon, <1>3, ParentReached
<1>5. v \in Seq(V) /\ p \in V BY Zenon, <1>4 DEF TypeInv
<1>6. visited'[t] = Append(v, p) /\ \A u \in Threads \ {t} : visited'[u] = visited[u]
  BY Zenon, <1>1 DEF TypeInv
<1>7. /\ Append(v, p) \in Seq(V) /\ Append(v, p) # << >> /\ Len(Append(v, p)) = Len(v) + 1
      /\ \A i \in 1 .. Len(v) : Append(v, p)[i] = v[i]
      /\ Append(v, p)[Len(v) + 1] = p
      /\ Len(v) \in Nat \ {0} /\ DOMAIN v = 1 .. Len(v)
      /\ DOMAIN Append(v, p) = 1 .. Len(v) + 1
  BY <1>3, <1>5, AppendProperties, LenProperties, EmptySeq
<1>8. Here(t)' = p BY Zenon, <1>6, <1>7 DEF Here
<1>9. v[Len(v)] = l BY Zenon DEF Here
<1>10. Range(v) \subseteq Range(Append(v, p)) /\ p \in Range(Append(v, p))
  BY <1>5, RangeOfAppend
<1>11. l # Root /\ p \in Above(l) \cup {Root} BY Zenon, <1>1, <1>4
<1>12. l \in NameSeq /\ Good(l) BY Zenon, <1>3, <1>4, NamesAre DEF TreeInv
<1> HIDE DEF l, p, V
<1>13. Upwards(Append(v, p))
  <2>1. SUFFICES ASSUME NEW i \in 1 .. Len(v)
                 PROVE  /\ Append(v, p)[i] # Root
                        /\ Append(v, p)[i + 1] \in Above(Append(v, p)[i]) \cup {Root}
    BY <1>7 DEF Upwards
  <2>2. CASE i = Len(v) BY Zenon, <1>7, <1>9, <1>11, <2>2
  <2>3. CASE i # Len(v)
    <3>1. i \in 1 .. Len(v) - 1 /\ i + 1 \in 1 .. Len(v) BY <1>7, <2>3
    <3>2. v[i] # Root /\ v[i + 1] \in Above(v[i]) \cup {Root} BY Zenon, <1>3, <3>1 DEF Upwards
    <3> QED BY Zenon, <1>7, <3>1, <3>2
  <2> QED BY Zenon, <2>2, <2>3
<1>14. ASSUME Above(name[t]) \cap RootLike = {}, NEW m \in expected[t]
       PROVE  m \in Range(Append(v, p)) \/ m \in Above(p)
  <2>1. CASE m \in Range(v) BY Zenon, <1>10, <2>1
  <2>2. CASE m \notin Range(v)
    <3>1. m \in Above(l) /\ m \in Ready /\ m \notin RootLike BY Zenon, <1>3, <1>14, <2>2
    <3>2. Len(m) <= Len(p) BY Zenon, <1>12, <3>1 DEF Good, GoodFor, p
    <3>3. Len(m) \in Nat /\ 1 <= Len(m) BY Zenon, <1>12, <3>1, AboveChain
    <3>4. CASE p = Root BY <3>2, <3>3, <3>4, EmptySeq DEF Root
    <3>5. CASE p # Root
      <4>1. p \in Above(l) /\ Len(p) \in Nat BY Zenon, <1>4, <1>12, <3>5, AboveChain
      <4>2. CASE Len(m) = Len(p)
        <5>1. m = p BY Zenon, <1>12, <3>1, <4>1, <4>2, AboveChain
        <5> QED BY Zenon, <1>10, <5>1
      <4>3. CASE Len(m) < Len(p) BY Zenon, <1>12, <3>1, <4>1, <4>3, AboveChain
      <4> QED BY <3>2, <3>3, <4>1, <4>2, <4>3
    <3> QED BY Zenon, <3>4, <3>5
  <2> QED BY Zenon, <2>1, <2>2
<1>15. /\ visited'[t] # << >> /\ Here(t)' \in Linked' \cup {Root}
       /\ Upwards(visited'[t])
       /\ expected'[t] \subseteq Above(name'[t]) \cap Ready'
       /\ Above(name'[t]) \cap RootLike = {} =>
            \A m \in expected'[t] : m \in Range(visited'[t]) \/ m \in Above(Here(t)')
  <2>1. visited'[t] # << >> /\ Here(t)' \in Linked' \cup {Root}
    BY Zenon, <1>2, <1>4, <1>6, <1>7, <1>8
  <2>2. Upwards(visited'[t]) BY Zenon, <1>6, <1>13
  <2> QED BY Zenon, <1>1, <1>2, <1>3, <1>6, <1>8, <1>14, <2>1, <2>2
<1>16. ASSUME NEW u \in Threads \ {t}, pc'[u] = "walk"
       PROVE  pc[u] = "walk" /\ UNCHANGED <<visited[u], expected[u], name[u]>>
  BY Zenon, <1>1, <1>6, <1>16 DEF TypeInv
<1>17. WalkInv' BY Zenon, <1>2, <1>15, <1>16 DEF WalkInv, Here
<1>18. visited' \in [Threads -> Seq(Names \cup {Root, NoParent})]
  BY Zenon, <1>1, <1>7 DEF TypeInv, V
<1> QED BY Zenon, <1>2, <1>17, <1>18

(* An event sets out with every ancestor still above it, and ends. *)
LEMMA StartKeepsWalk ==
  ASSUME TypeInv, TreeInv, WalkInv, NEW t \in Threads, NEW n \in Names, StartLog(t, n)
  PROVE  TreeInv' /\ WalkInv'
<1>1. /\ n \in Ready /\ pc[t] = "idle" /\ pc' = [pc EXCEPT ![t] = "walk"]
      /\ name' = [name EXCEPT ![t] = n]
      /\ visited' = [visited EXCEPT ![t] = << n >>]
      /\ expected' = [expected EXCEPT ![t] = Above(n) \cap Ready]
      /\ UNCHANGED <<treeVars, child>>
  BY Zenon DEF StartLog, Goto
<1>2. /\ name'[t] = n /\ visited'[t] = << n >> /\ expected'[t] = Above(n) \cap Ready
      /\ \A u \in Threads \ {t} : UNCHANGED <<name[u], visited[u], expected[u], pc[u]>>
  BY Zenon, <1>1 DEF TypeInv
<1>3. TreeInv' /\ Ready' = Ready /\ Linked' = Linked
  <2>1. OnlyReads BY Zenon, <1>1, <1>2 DEF OnlyReads, TypeInv
  <2> QED BY Zenon, <2>1, ReadersKeepTree
<1>4. n \in Linked BY Zenon, <1>1 DEF Linked
<1>5. Len(<< n >>) = 1 /\ Here(t)' = n /\ << n >> # << >> /\ Upwards(<< n >>)
  BY <1>2 DEF Here, Upwards
<1>6. /\ visited'[t] # << >> /\ Here(t)' \in Linked' \cup {Root}
      /\ Upwards(visited'[t])
      /\ expected'[t] \subseteq Above(name'[t]) \cap Ready'
      /\ \A m \in expected'[t] : m \in Above(Here(t)')
  BY Zenon, <1>2, <1>3, <1>4, <1>5
<1>7. WalkInv' BY Zenon, <1>2, <1>3, <1>6 DEF WalkInv, Here
<1> QED BY Zenon, <1>3, <1>7

(* A walk that has reached the end of the chain. *)
LEMMA EndKeepsWalk ==
  ASSUME TypeInv, TreeInv, WalkInv, NEW t \in Threads, EndLog(t)
  PROVE  TreeInv' /\ WalkInv'
<1>1. /\ pc[t] = "walk" /\ pc' = [pc EXCEPT ![t] = "idle"]
      /\ name' = [name EXCEPT ![t] = Root]
      /\ visited' = [visited EXCEPT ![t] = << >>] /\ expected' = [expected EXCEPT ![t] = {}]
      /\ UNCHANGED <<treeVars, child>>
  BY Zenon DEF EndLog, Goto
<1>2. /\ pc'[t] = "idle"
      /\ \A u \in Threads \ {t} : UNCHANGED <<name[u], visited[u], expected[u], pc[u]>>
  BY Zenon, <1>1 DEF TypeInv
<1>3. TreeInv' /\ Ready' = Ready /\ Linked' = Linked
  <2>1. OnlyReads BY Zenon, <1>1, <1>2 DEF OnlyReads, TypeInv
  <2> QED BY Zenon, <2>1, ReadersKeepTree
<1>4. WalkInv' BY Zenon, <1>2, <1>3 DEF WalkInv, Here
<1> QED BY Zenon, <1>3, <1>4

(* A step of getLogger, for the tree and for the events on their way. *)
LEMMA BuilderStep ==
  ASSUME TypeInv, TreeInv, WalkInv, NEW t \in Threads,
         \/ TakeParent(t) \/ LinkChild(t) \/ EraseNode(t) \/ UpdateParents(t)
         \/ \E n \in Names : GetLogger(t, n)
  PROVE  TreeInv' /\ WalkInv'
<1>1. /\ pc[t] # "walk" /\ (\E to \in Labels \ {"walk"} : pc' = [pc EXCEPT ![t] = to])
      /\ (name' = name \/ \E n : name' = [name EXCEPT ![t] = n])
      /\ UNCHANGED <<visited, expected>>
  <2> USE DEF Goto, Labels, walkVars
  <2>1. CASE TakeParent(t) BY Zenon, <2>1 DEF TakeParent
  <2>2. CASE LinkChild(t) BY Zenon, <2>2 DEF LinkChild
  <2>3. CASE EraseNode(t) BY Zenon, <2>3 DEF EraseNode
  <2>4. CASE UpdateParents(t) BY Zenon, <2>4 DEF UpdateParents
  <2>5. CASE \E n \in Names : GetLogger(t, n) BY Zenon, <2>5 DEF GetLogger
  <2> QED BY Zenon, <2>1, <2>2, <2>3, <2>4, <2>5
<1>2. \A u \in Threads : pc'[u] = "walk" => pc[u] = "walk" /\ name'[u] = name[u]
  BY Zenon, <1>1 DEF TypeInv
<1>3. TreeInv' /\ Ready \subseteq Ready' /\ Linked \subseteq Linked'
  BY Zenon, TakeKeepsTree, LinkKeepsTree, EraseKeepsTree, UpdateKeepsTree, GetKeepsTree
<1> QED BY Zenon, <1>1, <1>2, <1>3, BuildersKeepWalk

(* Every step keeps the types. *)
LEMMA TypeStep ==
  ASSUME TypeInv, TreeInv, WalkInv, Next
  PROVE  TypeInv'
<1>1. ASSUME NEW t \in Threads, TakeParent(t) PROVE TypeInv'
  <2>1. t \in Building /\ MoreChildren(t) BY Zenon, <1>1 DEF TakeParent, Building
  <2>2. Child(t) \in Names BY Zenon, <2>1, ChildIs
  <2>3. parent[Child(t)] \in Names \cup {Root, NoParent} BY Zenon, <2>2 DEF TypeInv
  <2>4. pc' \in [Threads -> Labels] BY Zenon, <1>1 DEF TakeParent, Goto, TypeInv, Labels
  <2>5. parent' \in [Names -> Names \cup {Root, NoParent}]
    BY Zenon, <1>1, <2>3 DEF TakeParent, TypeInv
  <2>6. child' = child \/ child' = [child EXCEPT ![t] = @ + 1]
    BY Zenon, <1>1 DEF TakeParent, NextChild
  <2>7. child' \in [Threads -> Nat \ {0}]
    <3>1. CASE child' = child BY Zenon, <3>1 DEF TypeInv
    <3>2. CASE child' = [child EXCEPT ![t] = @ + 1] BY <3>2 DEF TypeInv
    <3> QED BY Zenon, <2>6, <3>1, <3>2
  <2> QED BY Zenon, <1>1, <2>4, <2>5, <2>7 DEF TakeParent, walkVars, TypeInv
<1>2. ASSUME NEW t \in Threads, LinkChild(t) PROVE TypeInv'
  <2>1. t \in Building BY Zenon, <1>2 DEF LinkChild, Goto, Building
  <2>2. name[t] \in Names BY Zenon, <2>1 DEF TreeInv, TypeInv
  <2>3. pc' \in [Threads -> Labels] BY Zenon, <1>2 DEF LinkChild, Goto, TypeInv, Labels
  <2>4. parent' \in [Names -> Names \cup {Root, NoParent}]
    BY Zenon, <1>2, <2>2 DEF LinkChild, TypeInv
  <2>5. child' \in [Threads -> Nat \ {0}] BY <1>2 DEF LinkChild, NextChild, TypeInv
  <2> QED BY Zenon, <1>2, <2>3, <2>4, <2>5 DEF LinkChild, walkVars, TypeInv
<1>3. ASSUME NEW t \in Threads, EraseNode(t) PROVE TypeInv'
  <2>1. << >> \in Seq(Names) BY Zenon, EmptySeq
  <2> QED BY Zenon, <1>3, <2>1 DEF EraseNode, Goto, walkVars, TypeInv, Labels
<1>4. ASSUME NEW t \in Threads, UpdateParents(t) PROVE TypeInv'
  <2> DEFINE x == name[t]  p == Nearest(Above(x) \cap loggers)
  <2>1. t \in Building BY Zenon, <1>4 DEF UpdateParents, Goto, Building
  <2>2. x \in Names /\ x \in NameSeq BY Zenon, <2>1, NamesAre DEF TreeInv, TypeInv
  <2>3. p \in Names \cup {Root}
    <3>1. CASE Above(x) \cap loggers = {} BY Zenon, <3>1 DEF Nearest
    <3>2. CASE Above(x) \cap loggers # {}
      <4>1. p \in Above(x) \cap loggers BY Zenon, <2>2, <3>2, NearestIs
      <4> HIDE DEF p
      <4> QED BY Zenon, <4>1 DEF TypeInv
    <3> QED BY Zenon, <3>1, <3>2
  <2> HIDE DEF p
  <2>4. ASSUME NEW m \in Missing PROVE Append(provisionNodes[m], x) \in Seq(Names)
    BY Zenon, <2>2, AppendProperties DEF TypeInv
  <2>5. provisionNodes' \in [Missing -> Seq(Names)]
    BY Zenon, <1>4, <2>4 DEF UpdateParents, TypeInv, p
  <2>6. parent' = [parent EXCEPT ![x] = p] BY Zenon, <1>4 DEF UpdateParents, p
  <2>7. parent' \in [Names -> Names \cup {Root, NoParent}] BY Zenon, <2>3, <2>6 DEF TypeInv
  <2>8. /\ pc' \in [Threads -> Labels] /\ name' \in [Threads -> Names \cup {Root}]
        /\ child' \in [Threads -> Nat \ {0}]
    BY <1>4 DEF UpdateParents, Goto, TypeInv, Labels
  <2> QED BY Zenon, <1>4, <2>5, <2>7, <2>8 DEF UpdateParents, walkVars, TypeInv
<1>5. ASSUME NEW t \in Threads, Walk(t) PROVE TypeInv'
  BY Zenon, <1>5, WalkKeepsWalk DEF Walk, Goto, treeVars, TypeInv, Labels
<1>6. ASSUME NEW t \in Threads, EndLog(t) PROVE TypeInv'
  <2>1. << >> \in Seq(Names \cup {Root, NoParent}) BY Zenon, EmptySeq
  <2> QED BY Zenon, <1>6, <2>1 DEF EndLog, Goto, treeVars, TypeInv, Labels
<1>7. ASSUME NEW t \in Threads, NEW n \in Names, GetLogger(t, n) PROVE TypeInv'
  BY Zenon, <1>7 DEF GetLogger, Goto, walkVars, TypeInv, Labels
<1>8. ASSUME NEW t \in Threads, NEW n \in Names, StartLog(t, n) PROVE TypeInv'
  <2>1. << n >> \in Seq(Names \cup {Root, NoParent}) OBVIOUS
  <2>2. Above(n) \cap Ready \in SUBSET Missing BY Zenon, NamesAre
  <2> QED BY <1>8, <2>1, <2>2 DEF StartLog, Goto, treeVars, TypeInv, Labels
<1> QED BY Zenon, <1>1, <1>2, <1>3, <1>4, <1>5, <1>6, <1>7, <1>8 DEF Next, ThreadStep

-----------------------------------------------------------------------------
(* The types, the tree and the walks. *)
LEMMA HierarchyInvariant == Spec => [](TypeInv /\ TreeInv /\ WalkInv)
<1>1. Init => TypeInv /\ TreeInv /\ WalkInv
  <2> SUFFICES ASSUME Init PROVE TypeInv /\ TreeInv /\ WalkInv
    BY Zenon
  <2>1. TypeInv BY EmptySeq DEF Init, TypeInv, Labels
  <2>2. Building = {} /\ Ready = {} /\ Linked = {}
    BY Zenon DEF Init, Building, Ready, Made, Linked
  <2>3. \A m \in Missing : Range(provisionNodes[m]) = {} BY DEF Init, Range
  <2>4. TreeInv BY Zenon, <2>2, <2>3 DEF Init, TreeInv
  <2>5. WalkInv BY Zenon DEF Init, WalkInv
  <2> QED BY Zenon, <2>1, <2>4, <2>5
<1>2. TypeInv /\ TreeInv /\ WalkInv /\ [Next]_vars => (TypeInv /\ TreeInv /\ WalkInv)'
  <2> SUFFICES ASSUME TypeInv, TreeInv, WalkInv, [Next]_vars
               PROVE  (TypeInv /\ TreeInv /\ WalkInv)'
    BY Zenon
  <2>1. CASE Next
    <3>1. TypeInv' BY Zenon, <2>1, TypeStep
    <3>2. TreeInv' /\ WalkInv'
      BY Zenon, <2>1, BuilderStep, WalkKeepsWalk, StartKeepsWalk, EndKeepsWalk DEF Next, ThreadStep
    <3> QED BY Zenon, <3>1, <3>2
  <2>2. CASE UNCHANGED vars
    <3>1. UNCHANGED <<treeVars, pc, name, child, visited, expected, logs>>
      BY Zenon, <2>2 DEF vars, walkVars
    <3>2. TypeInv' BY Zenon, <3>1 DEF TypeInv, treeVars
    <3>3. TreeInv' /\ Ready' = Ready /\ Linked' = Linked
      <4>1. OnlyReads BY Zenon, <3>1 DEF OnlyReads
      <4> QED BY Zenon, <4>1, ReadersKeepTree
    <3>4. WalkInv' BY Zenon, <3>1, <3>3, BuildersKeepWalk
    <3> QED BY Zenon, <3>2, <3>3, <3>4
  <2> QED BY Zenon, <2>1, <2>2
<1> QED BY <1>1, <1>2, PTL DEF Spec

(* In whatever order threads ask for loggers, and whatever they are named, *)
(* getLogger leaves every logger with its nearest existing ancestor as its *)
(* parent, except below a name that "root" starts with.                    *)
THEOREM ParentsNearest == Spec => []ParentNearest
<1>1. TypeInv /\ TreeInv => ParentNearest
  <2> SUFFICES ASSUME TypeInv, TreeInv, Building = {}, NEW n \in loggers,
                      Above(n) \cap RootLike = {}
               PROVE  parent[n] = Nearest(Above(n) \cap loggers)
    BY Zenon DEF ParentNearest
  <2> DEFINE ns == Above(n) \cap loggers
  <2>1. n \in Names /\ n \in NameSeq BY Zenon, NamesAre DEF TypeInv
  <2>2. Ready = loggers BY Zenon DEF Ready
  <2>3. Good(n) BY Zenon, <2>2 DEF TreeInv, Linked
  <2>4. parent[n] \in ns \cup {Root} /\ \A m \in ns : Len(m) <= Len(parent[n])
    BY Zenon, <2>2, <2>3 DEF Good, GoodFor
  <2>5. CASE ns = {} BY Zenon, <2>4, <2>5 DEF Nearest
  <2>6. CASE ns # {}
    <3>1. Nearest(ns) \in ns /\ \A m \in ns : Len(m) <= Len(Nearest(ns))
      BY Zenon, <2>1, <2>6, NearestIs
    <3>2. Len(Nearest(ns)) \in Nat /\ Len(Nearest(ns)) >= 1 BY Zenon, <2>1, <3>1, AboveChain
    <3>3. parent[n] # Root BY <2>4, <3>1, <3>2, EmptySeq DEF Root
    <3>4. parent[n] \in ns /\ Len(parent[n]) \in Nat BY Zenon, <2>1, <2>4, <3>3, AboveChain
    <3>5. Len(parent[n]) <= Len(Nearest(ns)) /\ Len(Nearest(ns)) <= Len(parent[n])
      BY Zenon, <2>4, <3>1, <3>4
    <3>6. Len(parent[n]) = Len(Nearest(ns)) BY <3>2, <3>4, <3>5
    <3> QED BY Zenon, <2>1, <3>1, <3>4, <3>6, AboveChain
  <2> QED BY Zenon, <2>5, <2>6
<1> QED BY <1>1, HierarchyInvariant, PTL

(* callAppenders, which takes no mutex, hands an event to every ancestor   *)
(* there was when it began, lower ones first, none twice, and gets to the  *)
(* root by ever shorter names, whatever getLogger is changing meanwhile.   *)
THEOREM WalksCover == Spec => []WalkCovers
<1>1. TypeInv /\ WalkInv => WalkCovers
  <2> SUFFICES ASSUME TypeInv, WalkInv, NEW t \in Threads, pc[t] = "walk"
               PROVE  LET v == visited[t] IN
                      /\ Upwards(v)
                      /\ Here(t) = Root /\ Above(name[t]) \cap RootLike = {}
                           => expected[t] \subseteq Range(v)
    BY Zenon DEF WalkCovers
  <2>1. Above(Root) = {} BY EmptySeq DEF Above, Root
  <2> QED BY Zenon, <2>1 DEF WalkInv
<1> QED BY <1>1, HierarchyInvariant, PTL
=============================================================================
