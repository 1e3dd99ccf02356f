----------------------------- MODULE LogProofs ------------------------------
(***************************************************************************)
(* RollingLog for any sizes, numbers of backups, events and faults: the    *)
(* count of the active file's length, the order of the events in the       *)
(* files, and what the log may lack.  The count must be right also while   *)
(* no stream writes to the file: a rollover that fails opens it again      *)
(* without taking its length anew.  The order rests on the window having a *)
(* free index above every file it renames, and on the stream writing to    *)
(* the last file there is, also when it could not be closed.               *)
(***************************************************************************)
EXTENDS RollingLog, TLAPS

USE RollingAssumption

Contents == Seq(Nat) \cup {NoFile}

LogType ==
  /\ files \in [Files -> Contents] /\ buffer \in Seq(Nat)
  /\ fileLength \in Nat /\ next \in Nat
  /\ index \in Int /\ index <= MaxIndex
  /\ writer \in Files \cup {NoStream, Unlinked}

(* The file a stream writes to is there, and the active file is counted    *)
(* whether or not a stream writes to it.                                   *)
Open == writer \in Files => Exists(writer)
Counted == Exists(Active) => fileLength >= Len(files[Active])

(* The inductive invariant.  After the active file was renamed no stream   *)
(* writes to its name: one that could not be closed followed the rename.   *)
LenInv ==
  /\ LogType /\ Open
  /\ pc # "down" => Counted
  /\ pc = "down" => writer = NoStream /\ buffer = << >>
  /\ pc = "truncate" => writer # Active

(* Sequences of events. *)
LEMMA EmptyIs == << >> \in Seq(Nat) /\ Len(<< >>) = 0
OBVIOUS

(* The elements of a sequence of events. *)
LEMMA LenIs ==
  \A s \in Seq(Nat) : /\ Len(s) \in Nat /\ DOMAIN s = 1 .. Len(s)
                     /\ \A a \in 1 .. Len(s) : s[a] \in Nat
OBVIOUS

(* An event put behind the others. *)
LEMMA AppendIs ==
  \A s \in Seq(Nat), n \in Nat :
    LET t == Append(s, n)
    IN  /\ t \in Seq(Nat) /\ Len(t) = Len(s) + 1 /\ t[Len(s) + 1] = n
        /\ \A a \in 1 .. Len(s) : t[a] = s[a]
OBVIOUS

(* A buffer put behind a file. *)
LEMMA ConcatIs ==
  \A s, t \in Seq(Nat) :
    /\ s \o t \in Seq(Nat) /\ Len(s \o t) = Len(s) + Len(t)
    /\ \A a \in 1 .. Len(s) + Len(t) : (s \o t)[a] = IF a <= Len(s) THEN s[a] ELSE t[a - Len(s)]
OBVIOUS

(* What a failing write has put into the file is the beginning of what it  *)
(* was given.                                                              *)
Beginning(p, s) ==
  /\ p \in Seq(Nat) /\ Len(p) <= Len(s)
  /\ \A c \in 1 .. Len(p) : p[c] = s[c]

LEMMA PartialIs ==
  ASSUME NEW s \in Seq(Nat), NEW p \in Partial(s)
  PROVE  Beginning(p, s)
<1>1. Len(s) \in Nat OBVIOUS
<1>2. PICK k \in 0 .. Len(s) - 1 : p = SubSeq(s, 1, k) BY Zenon DEF Partial
<1>3. k \in Nat /\ k <= Len(s) BY <1>1
<1>4. p \in Seq(Nat) /\ Len(p) = k BY <1>1, <1>2, <1>3
<1>5. \A c \in 1 .. k : p[c] = s[c] BY <1>1, <1>2, <1>3
<1> QED BY <1>3, <1>4, <1>5 DEF Beginning

(* The window's indices, and the values that stand for no file and stream. *)
LEMMA Indices == /\ MaxIndex \in Nat /\ MaxIndex >= 1 /\ Active = 0 /\ Active \in Files
                 /\ Files = 0 .. MaxIndex /\ MinIndex = 1
                 /\ NoFile \notin Seq(Nat) /\ NoStream \notin Files /\ Unlinked = MaxIndex + 1
BY DEF MaxIndex, MinIndex, Active, Files, NoFile, NoStream, Unlinked

(* Writing events to the stream keeps the files' contents, and the count   *)
(* grows by as much as the active file at least.                           *)
LEMMA WrittenCounts ==
  ASSUME LogType, Open, Counted, NEW e \in Seq(Nat)
  PROVE  /\ Written(files, e) \in [Files -> Contents]
         /\ \A i \in Files : Written(files, e)[i] # NoFile <=> files[i] # NoFile
         /\ Exists(Active) => fileLength + Len(e) >= Len(Written(files, e)[Active])
         /\ fileLength + Len(e) \in Nat
<1>0. Len(e) \in Nat /\ fileLength \in Nat /\ DOMAIN files = Files /\ Active \in Files
  BY Indices DEF LogType
<1>1. CASE writer \in Files
  <2> DEFINE more == files[writer] \o e
  <2>1. files[writer] \in Seq(Nat) BY Zenon, <1>1 DEF LogType, Contents, Exists, Open
  <2>2. more \in Seq(Nat) /\ Len(more) = Len(files[writer]) + Len(e)
    BY Zenon, <2>1, ConcatIs
  <2>3. more # NoFile /\ more \in Contents BY Zenon, <2>2, Indices DEF Contents
  <2>4. Written(files, e) = [files EXCEPT ![writer] = more]
    BY Zenon, <1>0, <1>1 DEF Written
  <2>5. files[writer] # NoFile BY Zenon, <1>1 DEF Open, Exists
  <2>6. Len(files[writer]) \in Nat BY <2>1
  <2> HIDE DEF more
  <2>7. Written(files, e) \in [Files -> Contents]
    BY Zenon, <1>1, <2>3, <2>4 DEF LogType
  <2>8. \A i \in Files : Written(files, e)[i] = IF i = writer THEN more ELSE files[i]
    BY Zenon, <1>0, <1>1, <2>4
  <2>9. ASSUME Exists(Active) PROVE fileLength + Len(e) >= Len(Written(files, e)[Active])
    <3>1. fileLength >= Len(files[Active]) BY Zenon, <2>9 DEF Counted
    <3>2. CASE Active = writer BY <1>0, <2>2, <2>6, <2>8, <3>1, <3>2
    <3>3. CASE Active # writer
      <4>1. files[Active] \in Seq(Nat) BY Zenon, <1>0, <2>9 DEF LogType, Contents, Exists
      <4>2. Len(files[Active]) \in Nat BY <4>1
      <4> QED BY <1>0, <2>8, <3>1, <3>3, <4>2
    <3> QED BY Zenon, <3>2, <3>3
  <2> QED BY <1>0, <2>3, <2>5, <2>7, <2>8, <2>9
<1>2. CASE writer \notin Files
  <2>1. Written(files, e) = files BY Zenon, <1>0, <1>2 DEF Written
  <2>2. ASSUME Exists(Active) PROVE Len(files[Active]) \in Nat
    <3>1. files[Active] \in Seq(Nat) BY Zenon, <1>0, <2>2 DEF LogType, Contents, Exists
    <3> QED BY <3>1
  <2> QED BY <1>0, <2>1, <2>2 DEF LogType, Counted
<1> QED BY Zenon, <1>1, <1>2

(* A renamed file takes its stream along. *)
LEMMA RenamedFiles ==
  ASSUME LogType, Open, NEW i \in Files
  PROVE  /\ Renamed(files, i) \in [Files -> Contents]
         /\ Follow(writer, i) \in Files \cup {NoStream, Unlinked}
         /\ Follow(writer, i) \in Files => Renamed(files, i)[Follow(writer, i)] # NoFile
         /\ i # Active => Renamed(files, i)[Active] = files[Active]
         /\ i = Active => Renamed(files, i)[Active] = NoFile /\ Follow(writer, i) # Active
<1>1. files \in [Files -> Contents] /\ NoFile \in Contents /\ i \in Nat
  BY Indices DEF LogType, Contents
<1>2. \A j \in Files : Renamed(files, i)[j] =
          IF j = i THEN NoFile ELSE IF j = i + 1 THEN files[i] ELSE files[j]
  BY Zenon, <1>1 DEF Renamed
<1>3. Renamed(files, i) \in [Files -> Contents] BY Zenon, <1>1 DEF Renamed
<1>4. writer \in Files \cup {NoStream, Unlinked} BY Zenon DEF LogType
<1>5. Follow(writer, i) \in Files \cup {NoStream, Unlinked}
  BY <1>1, <1>4, Indices DEF Follow
<1>6. ASSUME Follow(writer, i) \in Files PROVE Renamed(files, i)[Follow(writer, i)] # NoFile
  BY <1>1, <1>2, <1>4, <1>6, Indices DEF Follow, Open, Exists
<1> QED BY <1>1, <1>2, <1>3, <1>4, <1>5, <1>6, Indices DEF Follow
-----------------------------------------------------------------------------
(* closeWriter keeps the count right, whether or not the flush succeeds.   *)
LEMMA CloseCounts ==
  ASSUME LogType, Open, Counted, CloseWriter, UNCHANGED <<next, index>>
  PROVE  LogType' /\ Open' /\ Counted'
<1>0. buffer \in Seq(Nat) /\ << >> \in Seq(Nat) BY Zenon, EmptyIs DEF LogType
<1>1. PICK e \in Seq(Nat) :
        /\ files' = Written(files, e) /\ fileLength' = fileLength + Len(e)
        /\ writer' \in {writer, NoStream} /\ buffer' \in {buffer, << >>}
  <2>1. \A part \in Partial(buffer) : part \in Seq(Nat)
    BY Zenon, <1>0, PartialIs DEF Beginning
  <2> QED BY Zenon, <1>0, <2>1 DEF CloseWriter
<1>2. /\ files' \in [Files -> Contents] /\ fileLength' \in Nat
      /\ \A i \in Files : files'[i] # NoFile <=> files[i] # NoFile
      /\ Exists(Active) => fileLength' >= Len(files'[Active])
  BY Zenon, <1>1, WrittenCounts
<1> QED BY Zenon, <1>0, <1>1, <1>2, Indices DEF LogType, Open, Counted, Exists

(* Every step of an append, a rollover, a shutdown or a crash keeps LenInv.*)
LEMMA LenNext == LenInv /\ [Next]_vars => LenInv'
<1> SUFFICES ASSUME LenInv, [Next]_vars PROVE LenInv'
  BY Zenon
<1>0. LogType /\ Open BY Zenon DEF LenInv
<1>1. CASE Activate
  <2>1. pc = "down" /\ pc' = "idle" /\ UNCHANGED <<buffer, index, next>>
    BY Zenon, <1>1 DEF Activate, historyVars
  <2>2. writer = NoStream BY Zenon, <2>1 DEF LenInv
  <2>3. files[Active] \in Contents BY Zenon, <1>0, Indices DEF LogType
  <2>4. Exists(Active) => Len(files[Active]) \in Nat
    <3>1. Exists(Active) => files[Active] \in Seq(Nat) BY Zenon, <2>3 DEF Contents, Exists
    <3> QED BY <3>1
  <2>5. fileLength' = IF Exists(Active) THEN Len(files[Active]) ELSE 0
    BY Zenon, <1>1 DEF Activate
  <2>6. fileLength' \in Nat BY Zenon, <2>4, <2>5
  <2>7. CASE UNCHANGED <<files, writer>>
    BY <1>0, <2>1, <2>2, <2>4, <2>5, <2>6, <2>7 DEF LenInv, LogType, Open, Counted, Exists
  <2>8. CASE /\ writer' = Active
             /\ files' = [files EXCEPT ![Active] = IF Exists(Active) THEN @ ELSE << >>]
    <3>1. << >> \in Contents /\ << >> # NoFile /\ Len(<< >>) = 0
      BY Zenon, EmptyIs, Indices DEF Contents
    <3>2. files'[Active] = IF Exists(Active) THEN files[Active] ELSE << >>
      BY Zenon, <1>0, <2>8, Indices DEF LogType
    <3>3. files' \in [Files -> Contents] BY Zenon, <1>0, <2>3, <2>8, <3>1 DEF LogType
    <3>4. Open' BY Zenon, <2>8, <3>1, <3>2 DEF Open, Exists
    <3>5. Counted' BY <2>4, <2>5, <3>1, <3>2 DEF Counted, Exists
    <3>6. LogType' BY Zenon, <1>0, <2>1, <2>6, <2>8, <3>3, Indices DEF LogType
    <3> QED BY Zenon, <2>1, <3>4, <3>5, <3>6 DEF LenInv
  <2> QED BY Zenon, <1>1, <2>7, <2>8 DEF Activate
<1>2. CASE DoAppend
  <2>1. UNCHANGED <<files, streamVars, index>> /\ next' \in Nat
    BY <1>0, <1>2 DEF DoAppend, historyVars, LogType
  <2>2. pc # "down" /\ pc' \in {"idle", "purge", "write"}
    BY Zenon, <1>2 DEF DoAppend
  <2> QED BY Zenon, <2>1, <2>2 DEF LenInv, LogType, Open, Counted, Exists, streamVars
<1>3. CASE Purge
  <2>1. pc = "purge" /\ pc' \in {"rename", "write"} /\ UNCHANGED <<buffer, fileLength, next>>
    BY Zenon, <1>3 DEF Purge, historyVars
  <2>2. index' \in Int /\ index' <= MaxIndex
    BY <1>0, <1>3, Indices DEF Purge, LogType
  <2>3. CASE UNCHANGED <<files, writer>>
    BY Zenon, <2>1, <2>2, <2>3 DEF LenInv, LogType, Open, Counted, Exists
  <2>4. CASE /\ files' = [files EXCEPT ![MaxIndex] = NoFile]
             /\ writer' = IF writer = MaxIndex THEN Unlinked ELSE writer
    <3>1. files'[Active] = files[Active] /\ files' \in [Files -> Contents]
      BY <1>0, <2>4, Indices DEF LogType, Contents
    <3>2. \A i \in Files : i # MaxIndex => files'[i] = files[i]
      BY Zenon, <1>0, <2>4 DEF LogType
    <3>3. Open' BY <1>0, <2>4, <3>2, Indices DEF Open, Exists
    <3>4. Counted' BY Zenon, <2>1, <3>1 DEF LenInv, Counted, Exists
    <3>5. LogType' BY Zenon, <1>0, <2>1, <2>2, <2>4, <3>1 DEF LogType
    <3> QED BY Zenon, <2>1, <3>3, <3>4, <3>5 DEF LenInv
  <2> QED BY Zenon, <1>3, <2>3, <2>4 DEF Purge
<1>4. CASE RenameBackup
  <2>1. /\ pc = "rename" /\ pc' \in {"rename", "write"} /\ index >= 1
        /\ index' \in Int /\ index' <= MaxIndex
        /\ UNCHANGED <<buffer, fileLength, next>>
    BY <1>0, <1>4, Indices DEF RenameBackup, historyVars, LogType
  <2>2. CASE UNCHANGED <<files, writer>>
    BY Zenon, <2>1, <2>2 DEF LenInv, LogType, Open, Counted, Exists
  <2>3. CASE files' = Renamed(files, index) /\ writer' = Follow(writer, index)
    <3>1. index \in Nat /\ index \in Files /\ index # Active BY <1>0, <2>1, Indices DEF LogType
    <3>2. /\ files' \in [Files -> Contents] /\ writer' \in Files \cup {NoStream, Unlinked}
          /\ writer' \in Files => files'[writer'] # NoFile
          /\ files'[Active] = files[Active]
      BY Zenon, <1>0, <2>3, <3>1, RenamedFiles
    <3>3. LogType' /\ Open' BY Zenon, <1>0, <2>1, <3>2 DEF LogType, Open, Exists
    <3>4. Counted' BY Zenon, <2>1, <3>2 DEF LenInv, Counted, Exists
    <3> QED BY Zenon, <2>1, <3>3, <3>4 DEF LenInv
  <2> QED BY Zenon, <1>4, <2>2, <2>3 DEF RenameBackup
<1>5. CASE CloseActive
  <2>1. pc = "rename" /\ pc' = "renameActive" /\ CloseWriter /\ UNCHANGED <<next, index>>
    BY Zenon, <1>5 DEF CloseActive, historyVars
  <2> QED BY Zenon, <1>0, <2>1, CloseCounts DEF LenInv
<1>6. CASE RenameActive
  <2>1. pc = "renameActive" /\ UNCHANGED <<buffer, index, next>>
    BY Zenon, <1>6 DEF RenameActive, historyVars
  <2>2. CASE pc' = "reopen" /\ UNCHANGED <<files, writer, fileLength>>
    BY Zenon, <2>1, <2>2 DEF LenInv, LogType, Open, Counted, Exists
  <2>3. CASE /\ files' = Renamed(files, Active) /\ writer' = Follow(writer, Active)
             /\ fileLength' = 0 /\ pc' = "truncate"
    <3>1. /\ files' \in [Files -> Contents] /\ writer' \in Files \cup {NoStream, Unlinked}
          /\ writer' \in Files => files'[writer'] # NoFile
          /\ files'[Active] = NoFile /\ writer' # Active
      BY Zenon, <1>0, <2>3, RenamedFiles, Indices
    <3>2. LogType' /\ Open' /\ Counted'
      BY Zenon, <1>0, <2>1, <2>3, <3>1 DEF LogType, Open, Counted, Exists
    <3> QED BY Zenon, <2>3, <3>1, <3>2 DEF LenInv
  <2> QED BY Zenon, <1>6, <2>2, <2>3 DEF RenameActive
<1>7. CASE SetFile
  <2>1. /\ pc \in {"truncate", "reopen"} /\ pc' = "write" /\ UNCHANGED <<index, next>> /\ Counted
    BY Zenon, <1>7 DEF SetFile, LenInv
  <2>a. PICK flushed \in BOOLEAN, opened \in BOOLEAN :
          \E part \in IF flushed THEN {buffer} ELSE Partial(buffer) : Reopen(flushed, opened, part)
    BY Zenon, <1>7 DEF SetFile
  <2>b. PICK part \in IF flushed THEN {buffer} ELSE Partial(buffer) : Reopen(flushed, opened, part)
    BY Zenon, <2>a
  <2>2. /\ writer' = IF opened THEN Active ELSE IF flushed THEN NoStream ELSE writer
        /\ buffer' = IF opened \/ flushed THEN << >> ELSE buffer
        /\ fileLength' = fileLength + Len(part)
    BY Zenon, <2>b DEF Reopen
  <2> DEFINE f == Written(files, part)
  <2>3. buffer \in Seq(Nat) /\ part \in Seq(Nat)
    BY Zenon, <1>0, PartialIs DEF LogType, Beginning
  <2>4. /\ f \in [Files -> Contents] /\ fileLength' \in Nat
        /\ \A i \in Files : f[i] # NoFile <=> files[i] # NoFile
        /\ Exists(Active) => fileLength' >= Len(f[Active])
    BY Zenon, <1>0, <2>1, <2>2, <2>3, WrittenCounts
  <2>5. << >> \in Seq(Nat) /\ << >> \in Contents /\ << >> # NoFile /\ Len(<< >>) = 0
    BY Zenon, EmptyIs, Indices DEF Contents
  <2>6. files' = [f EXCEPT ![Active] = IF ~opened THEN @
                             ELSE IF pc = "truncate" \/ ~Exists(Active) THEN << >> ELSE @]
    BY Zenon, <2>b DEF Reopen
  <2> HIDE DEF f
  <2>7. /\ files' \in [Files -> Contents]
        /\ files'[Active] = IF ~opened THEN f[Active]
                            ELSE IF pc = "truncate" \/ ~Exists(Active) THEN << >> ELSE f[Active]
        /\ \A i \in Files : i # Active => files'[i] = f[i]
    BY Zenon, <2>4, <2>5, <2>6, Indices
  <2>8. LogType'
    BY Zenon, <1>0, <2>1, <2>2, <2>4, <2>5, <2>7, Indices DEF LogType
  <2>9. Counted'
    BY <2>4, <2>5, <2>7, Indices DEF Counted, Exists
  <2>10. Open'
    <3>1. CASE opened
      <4>1. writer' = Active BY Zenon, <2>2, <3>1
      <4>2. files'[Active] # NoFile BY Zenon, <2>4, <2>5, <2>7, <3>1, Indices DEF Exists
      <4> QED BY Zenon, <4>1, <4>2 DEF Open, Exists
    <3>2. CASE ~opened
      <4>1. writer' = NoStream \/ writer' = writer BY Zenon, <2>2, <3>2
      <4>2. \A i \in Files : files'[i] = f[i] BY Zenon, <2>7, <3>2
      <4> QED BY Zenon, <1>0, <2>4, <4>1, <4>2, Indices DEF Open, Exists
    <3> QED BY Zenon, <3>1, <3>2
  <2> QED BY Zenon, <2>1, <2>8, <2>9, <2>10 DEF LenInv
<1>8. CASE WriteEvent
  <2>1. /\ pc = "write" /\ pc' = "idle" /\ next \in Nat /\ next' \in Nat
        /\ UNCHANGED <<writer, index>> /\ Counted
    BY <1>0, <1>8 DEF WriteEvent, LogType, LenInv
  <2>2. << next >> \in Seq(Nat) /\ << >> \in Seq(Nat) /\ Append(buffer, next) \in Seq(Nat)
    BY <1>0, <2>1, EmptyIs, AppendIs DEF LogType
  <2>3. CASE UNCHANGED <<files, fileLength>> /\ buffer' \in {buffer, Append(buffer, next)}
    BY Zenon, <1>0, <2>1, <2>2, <2>3 DEF LenInv, LogType, Open, Counted, Exists
  <2>a. Outgoing \in Seq(Nat) BY Zenon, <1>0, <2>2 DEF Outgoing, LogType
  <2>4. ASSUME NEW e \in Seq(Nat),
               files' = Written(files, e), fileLength' = fileLength + Len(e),
               buffer' \in {buffer, << >>, << next >>}
        PROVE  LenInv'
    <3>2. /\ files' \in [Files -> Contents] /\ fileLength' \in Nat
          /\ \A i \in Files : files'[i] # NoFile <=> files[i] # NoFile
          /\ Exists(Active) => fileLength' >= Len(files'[Active])
      BY Zenon, <1>0, <2>1, <2>4, WrittenCounts
    <3>3. LogType' BY Zenon, <1>0, <2>1, <2>2, <2>4, <3>2 DEF LogType
    <3>4. Open' /\ Counted' BY Zenon, <1>0, <2>1, <3>2, Indices DEF Open, Counted, Exists
    <3> QED BY Zenon, <2>1, <3>3, <3>4 DEF LenInv
  <2>5. \A part \in Partial(Outgoing) : part \in Seq(Nat)
    BY Zenon, <2>a, PartialIs DEF Beginning
  <2> QED BY Zenon, <1>8, <2>a, <2>3, <2>4, <2>5 DEF WriteEvent
<1>9. CASE Close \/ Crash
  <2>1. /\ pc' = "down" /\ writer' = NoStream /\ buffer' = << >> /\ fileLength' = 0
        /\ pc # "down" /\ index' = index /\ next' \in {next, next + 1}
    BY Zenon, <1>9 DEF Close, Crash
  <2>2. files' \in [Files -> Contents]
    <3>1. \/ files' = files
          \/ \E e \in {buffer} \cup Partial(buffer) : files' = Written(files, e)
      BY Zenon, <1>9 DEF Close, Crash
    <3>2. ASSUME NEW e \in {buffer} \cup Partial(buffer)
          PROVE  Written(files, e) \in [Files -> Contents]
      <4>1. e \in Seq(Nat) BY Zenon, <1>0, PartialIs DEF LogType, Beginning
      <4> QED BY Zenon, <1>0, <2>1, <4>1, WrittenCounts DEF LenInv
    <3> QED BY Zenon, <1>0, <3>1, <3>2 DEF LogType
  <2>3. << >> \in Seq(Nat) BY Zenon, EmptyIs
  <2> QED BY <1>0, <2>1, <2>2, <2>3, Indices DEF LenInv, LogType, Open
<1>10. CASE UNCHANGED vars
  BY Zenon, <1>10 DEF vars, streamVars, historyVars, LenInv, LogType, Open, Counted, Exists
<1> QED
  BY Zenon, <1>1, <1>2, <1>3, <1>4, <1>5, <1>6, <1>7, <1>8, <1>9, <1>10 DEF Next

(* The length compared with MaxFileSize is never less than the file's, so  *)
(* no file outgrows its limit unnoticed, wherever a rollover failed.       *)
THEOREM NothingUncounted == Spec => []LengthCounted
<1>1. Init => LenInv
  BY Indices, EmptyIs DEF Init, LenInv, LogType, Open, Contents
<1>2. LenInv => LengthCounted
  BY Zenon, Indices DEF LenInv, Open, Counted, LengthCounted
<1> QED BY <1>1, <1>2, LenNext, PTL DEF Spec
-----------------------------------------------------------------------------
(* The order of the log.  Its parts are the files and the buffer; the      *)
(* lemmas say what each thing that happens to them does to the events.     *)
Parts == Buffered .. MaxIndex
Logs == [Parts -> Seq(Nat)]
LogOf(f, b) ==
  [i \in Parts |-> IF i = Buffered THEN b ELSE IF f[i] # NoFile THEN f[i] ELSE << >>]
Events(log) == EventsIn(log, Parts)

(* Two events read one after the other. *)
Fits(log, w, t, i, a, j, b) ==
  \/ log[i][a] < log[j][b]
  \/ Again(log, w, i, j, log[i][a]) /\ {log[i][a], log[j][b]} \subseteq t

LEMMA OrderedIs ==
  ASSUME NEW log, NEW w, NEW t
  PROVE  Ordered(log, w, t) <=>
           \A i, j \in Parts : \A a \in 1 .. Len(log[i]), b \in 1 .. Len(log[j]) :
             i > j \/ (i = j /\ a < b) => Fits(log, w, t, i, a, j, b)
BY Zenon DEF Ordered, Parts, Fits

(* What the inductive invariant says of a log when w is the file a stream  *)
(* writes to, t are the torn events, n is the next event and d are those   *)
(* given up.                                                               *)
History(log, w, t, n, d) ==
  /\ Ordered(log, w, t)
  /\ \A e \in Events(log) : e < n
  /\ \A e \in Events(log) : \A later \in e .. n - 1 : later \in Events(log) \cup d

(* The buffer comes after the active file. *)
LEMMA PartsAre == /\ Buffered = -1 /\ Buffered \in Parts /\ Buffered \notin Files
                  /\ Files \subseteq Parts /\ \A i \in Parts : i \in Int /\ (i # Buffered => i \in Files)
                  /\ \A i \in Files : i \in Nat /\ i <= MaxIndex /\ i > Buffered
BY Indices DEF Parts, Buffered

(* What the parts of a log hold. *)
LEMMA LogIs ==
  ASSUME NEW f \in [Files -> Contents], NEW b \in Seq(Nat)
  PROVE  /\ LogOf(f, b) \in Logs /\ LogOf(f, b)[Buffered] = b
         /\ \A i \in Files : LogOf(f, b)[i] = IF f[i] # NoFile THEN f[i] ELSE << >>
<1>1. << >> \in Seq(Nat) BY Zenon, EmptyIs
<1>2. \A i \in Files : (IF f[i] # NoFile THEN f[i] ELSE << >>) \in Seq(Nat)
  BY Zenon, <1>1 DEF Contents
<1>3. \A i \in Parts : (IF i = Buffered THEN b ELSE IF f[i] # NoFile THEN f[i] ELSE << >>) \in Seq(Nat)
  BY Zenon, <1>2, PartsAre
<1> QED BY Zenon, <1>3, PartsAre DEF LogOf, Logs

(* An event is in some part at some place. *)
LEMMA EventIs ==
  ASSUME NEW log \in Logs, NEW S, S \subseteq Parts
  PROVE  \A e : e \in EventsIn(log, S) <=> \E i \in S : \E a \in 1 .. Len(log[i]) : e = log[i][a]
<1>1. \A i \in Parts : log[i] \in Seq(Nat) BY Zenon DEF Logs
<1>2. \A i \in Parts : DOMAIN log[i] = 1 .. Len(log[i]) BY Zenon, <1>1, LenIs
<1>3. \A i \in S : \A e : e \in Range(log[i]) <=> \E a \in 1 .. Len(log[i]) : e = log[i][a]
  BY Zenon, <1>2 DEF Range
<1>4. \A e : e \in EventsIn(log, S) <=> \E i \in S : e \in Range(log[i])
  BY Zenon, Zenon DEF EventsIn
<1> TAKE e
<1>5. (\E i \in S : e \in Range(log[i])) <=> \E i \in S : \E a \in 1 .. Len(log[i]) : e = log[i][a]
  <2>1. ASSUME NEW i \in S PROVE e \in Range(log[i]) <=> \E a \in 1 .. Len(log[i]) : e = log[i][a]
    BY Zenon, <1>3
  <2> QED BY Zenon, <2>1
<1> QED BY Zenon, <1>4, <1>5

(* Events are numbers. *)
LEMMA EventNat ==
  ASSUME NEW log \in Logs
  PROVE  \A i \in Parts : /\ log[i] \in Seq(Nat) /\ Len(log[i]) \in Nat
                          /\ \A a \in 1 .. Len(log[i]) : log[i][a] \in Nat
<1>1. \A i \in Parts : log[i] \in Seq(Nat) BY Zenon DEF Logs
<1> QED BY Zenon, <1>1, LenIs

(* Parts that move without passing one another stay in order, if the       *)
(* stream moves along with its file or has nothing in its buffer.          *)
LEMMA MovedInOrder ==
  ASSUME NEW log \in Logs, NEW new \in Logs, NEW w, NEW v, NEW t, Ordered(log, w, t),
         NEW src \in [Parts -> Parts],
         \A j \in Parts : new[j] = << >> \/ new[j] = log[src[j]],
         \A j, k \in Parts : j > k /\ new[j] # << >> /\ new[k] # << >> => src[j] > src[k],
         \A j \in Parts : src[j] = Buffered <=> j = Buffered,
         \A j \in Parts : new[j] # << >> /\ src[j] = w => j = v \/ new[Buffered] = << >>
  PROVE  Ordered(new, v, t)
<1>1. Len(<< >>) = 0 BY Zenon, EmptyIs
<1> SUFFICES ASSUME NEW i \in Parts, NEW j \in Parts,
                    NEW a \in 1 .. Len(new[i]), NEW b \in 1 .. Len(new[j]),
                    i > j \/ (i = j /\ a < b)
             PROVE  Fits(new, v, t, i, a, j, b)
  BY Zenon, OrderedIs
<1>2. new[i] # << >> /\ new[j] # << >> BY <1>1
<1>3. new[i] = log[src[i]] /\ new[j] = log[src[j]] BY Zenon, <1>2
<1>4. src[i] \in Parts /\ src[j] \in Parts /\ (src[i] > src[j] \/ (src[i] = src[j] /\ a < b))
  BY Zenon, <1>2
<1>5. Fits(log, w, t, src[i], a, src[j], b)
  <2>1. a \in 1 .. Len(log[src[i]]) /\ b \in 1 .. Len(log[src[j]]) BY Zenon, <1>3
  <2> QED BY Zenon, <1>4, <2>1, OrderedIs
<1>6. src[i] = src[j] => i = j
  <2>1. src[i] \in Int BY Zenon, <1>4, PartsAre
  <2>2. i > j => src[i] > src[j] BY Zenon, <1>2
  <2> QED BY <2>1, <2>2
<1>7. ASSUME Again(log, w, src[i], src[j], new[i][a]) PROVE Again(new, v, i, j, new[i][a])
  <2>1. CASE src[i] = src[j] BY Zenon, <1>6, <1>7, <2>1 DEF Again
  <2>2. CASE src[i] = w /\ src[j] = Buffered /\ new[i][a] \in Range(log[Buffered])
    <3>1. j = Buffered /\ new[Buffered] = log[Buffered] BY Zenon, <1>3, <2>2
    <3>2. i = v BY Zenon, <1>2, <2>2, <3>1
    <3> QED BY Zenon, <1>7, <2>2, <3>1, <3>2 DEF Again
  <2> QED BY Zenon, <1>7, <2>1, <2>2 DEF Again
<1> QED BY Zenon, <1>3, <1>5, <1>7 DEF Fits

(* A part is emptied. *)
LEMMA EmptiedInOrder ==
  ASSUME NEW log \in Logs, NEW new \in Logs, NEW w, NEW v, NEW t, Ordered(log, w, t),
         \A j \in Parts : new[j] = << >> \/ new[j] = log[j],
         v = w \/ new[Buffered] = << >> \/ (w \in Parts => new[w] = << >>)
  PROVE  /\ Ordered(new, v, t)
         /\ \A S : S \subseteq Parts => EventsIn(new, S) \subseteq EventsIn(log, S)
<1> DEFINE src == [j \in Parts |-> j]
<1>1. src \in [Parts -> Parts] /\ \A j \in Parts : src[j] = j BY Zenon
<1> HIDE DEF src
<1>2. \A j \in Parts : new[j] = << >> \/ new[j] = log[src[j]] BY Zenon, <1>1
<1>3. /\ \A j, k \in Parts : j > k /\ new[j] # << >> /\ new[k] # << >> => src[j] > src[k]
      /\ \A j \in Parts : src[j] = Buffered <=> j = Buffered
      /\ \A j \in Parts : new[j] # << >> /\ src[j] = w => j = v \/ new[Buffered] = << >>
  BY Zenon, <1>1
<1>4. Ordered(new, v, t) BY Zenon, <1>1, <1>2, <1>3, MovedInOrder
<1>5. Len(<< >>) = 0 BY Zenon, EmptyIs
<1>6. ASSUME NEW S, S \subseteq Parts, NEW e \in EventsIn(new, S) PROVE e \in EventsIn(log, S)
  <2>1. PICK i \in S : \E a \in 1 .. Len(new[i]) : e = new[i][a] BY <1>6, EventIs
  <2>2. new[i] = log[i] BY <1>5, <1>6, <2>1
  <2> QED BY Zenon, <1>6, <2>1, <2>2, EventIs
<1> QED BY Zenon, <1>4, <1>6

(* A file renamed to the next, empty, number. *)
LEMMA RenamedInOrder ==
  ASSUME NEW log \in Logs, NEW new \in Logs, NEW w, NEW t, Ordered(log, w, t),
         NEW i \in Files, i + 1 \in Files, log[i + 1] = << >>, new[i + 1] = log[i], new[i] = << >>,
         \A k \in Parts \ {i, i + 1} : new[k] = log[k]
  PROVE  /\ Ordered(new, Follow(w, i), t) /\ EventsIn(new, Files) = EventsIn(log, Files)
         /\ Events(new) = Events(log)
<1> DEFINE src == [j \in Parts |-> IF j = i + 1 THEN i ELSE j]
<1>1. i \in Parts /\ i + 1 \in Parts /\ i \in Nat BY Zenon, PartsAre
<1>2. src \in [Parts -> Parts] /\ \A j \in Parts : src[j] = IF j = i + 1 THEN i ELSE j BY Zenon, <1>1
<1> HIDE DEF src
<1>3. \A j \in Parts : new[j] = << >> \/ new[j] = log[src[j]] BY Zenon, <1>2
<1>4. ASSUME NEW j \in Parts, NEW k \in Parts, j > k, new[j] # << >>, new[k] # << >>
      PROVE  src[j] > src[k]
  <2>1. j \in Int /\ k \in Int /\ j # i /\ k # i BY Zenon, <1>4, PartsAre
  <2>2. src[j] = (IF j = i + 1 THEN i ELSE j) /\ src[k] = (IF k = i + 1 THEN i ELSE k)
    BY Zenon, <1>2
  <2> QED BY <1>1, <1>4, <2>1, <2>2
<1>a. ASSUME NEW j \in Parts
      PROVE  /\ src[j] = Buffered <=> j = Buffered
             /\ new[j] # << >> /\ src[j] = w => j = Follow(w, i)
  <2>1. i # Buffered /\ i + 1 # Buffered BY Zenon, PartsAre
  <2>2. src[j] = Buffered <=> j = Buffered BY Zenon, <1>2, <2>1
  <2>3. ASSUME new[j] # << >>, src[j] = w PROVE j = Follow(w, i)
    <3>1. j # i BY Zenon, <2>3
    <3>2. CASE j = i + 1 BY Zenon, <1>2, <2>3, <3>2 DEF Follow
    <3>3. CASE j # i + 1 BY Zenon, <1>2, <2>3, <3>1, <3>3 DEF Follow
    <3> QED BY Zenon, <3>2, <3>3
  <2> QED BY Zenon, <2>2, <2>3
<1>b. /\ \A j, k \in Parts : j > k /\ new[j] # << >> /\ new[k] # << >> => src[j] > src[k]
      /\ \A j \in Parts : src[j] = Buffered <=> j = Buffered
      /\ \A j \in Parts : new[j] # << >> /\ src[j] = w => j = Follow(w, i) \/ new[Buffered] = << >>
  BY Zenon, <1>4, <1>a
<1>5. Ordered(new, Follow(w, i), t) BY Zenon, <1>2, <1>3, <1>b, MovedInOrder
<1>6. Len(<< >>) = 0 BY Zenon, EmptyIs
<1>7. ASSUME NEW S, Files \subseteq S, S \subseteq Parts PROVE EventsIn(new, S) = EventsIn(log, S)
  <2>1. i \in S /\ i + 1 \in S BY Zenon, <1>7
  <2>2. ASSUME NEW e \in EventsIn(new, S) PROVE e \in EventsIn(log, S)
    <3>1. PICK k \in S : \E a \in 1 .. Len(new[k]) : e = new[k][a] BY <1>7, <2>2, EventIs
    <3>2. k # i BY <1>6, <3>1
    <3>3. CASE k = i + 1
      <4>1. \E a \in 1 .. Len(log[i]) : e = log[i][a] BY Zenon, <3>1, <3>3
      <4> QED BY Zenon, <1>7, <2>1, <4>1, EventIs
    <3>4. CASE k # i + 1
      <4>1. \E a \in 1 .. Len(log[k]) : e = log[k][a] BY Zenon, <1>7, <3>1, <3>2, <3>4
      <4> QED BY Zenon, <1>7, <4>1, EventIs
    <3> QED BY Zenon, <3>3, <3>4
  <2>3. ASSUME NEW e \in EventsIn(log, S) PROVE e \in EventsIn(new, S)
    <3>1. PICK k \in S : \E a \in 1 .. Len(log[k]) : e = log[k][a] BY <1>7, <2>3, EventIs
    <3>2. k # i + 1 BY <1>6, <3>1
    <3>3. CASE k = i
      <4>1. \E a \in 1 .. Len(new[i + 1]) : e = new[i + 1][a] BY Zenon, <3>1, <3>3
      <4> QED BY Zenon, <1>7, <2>1, <4>1, EventIs
    <3>4. CASE k # i
      <4>1. \E a \in 1 .. Len(new[k]) : e = new[k][a] BY Zenon, <1>7, <3>1, <3>2, <3>4
      <4> QED BY Zenon, <1>7, <4>1, EventIs
    <3> QED BY Zenon, <3>3, <3>4
  <2> QED BY Zenon, <2>2, <2>3
<1> QED BY Zenon, <1>5, <1>7, PartsAre DEF Events

(* The buffer goes to the end of the last file that holds anything. *)
LEMMA FlushedInOrder ==
  ASSUME NEW log \in Logs, NEW new \in Logs, NEW w \in Files, NEW v, NEW r, Ordered(log, w, r),
         \A j \in 0 .. w - 1 : log[j] = << >>,
         new[w] = log[w] \o log[Buffered], new[Buffered] = << >>,
         \A k \in Parts \ {w, Buffered} : new[k] = log[k]
  PROVE  /\ Ordered(new, v, r) /\ Events(new) = Events(log)
         /\ EventsIn(log, Files) \subseteq EventsIn(new, Files)
<1> DEFINE s == log[w]  t == log[Buffered]  L == Len(s)  B == Len(t)
<1>1. w \in Parts /\ w \in Nat /\ w # Buffered /\ Len(<< >>) = 0 BY Zenon, PartsAre, EmptyIs
<1>2. L \in Nat /\ B \in Nat /\ s \in Seq(Nat) /\ t \in Seq(Nat) /\ new[w] = s \o t
  BY Zenon, <1>1, PartsAre, EventNat
<1> HIDE DEF s, t
<1>3. Len(new[w]) = L + B /\ \A a \in 1 .. L + B : new[w][a] = IF a <= L THEN s[a] ELSE t[a - L]
  BY <1>2, ConcatIs
<1> HIDE DEF L, B
<1>4. log[w] = s /\ log[Buffered] = t /\ Len(s) = L /\ Len(t) = B BY Zenon DEF s, t, L, B
<1>5. ASSUME NEW i \in Parts, NEW a \in 1 .. Len(new[i])
      PROVE  /\ i \in Files /\ i >= w
             /\ \/ a \in 1 .. Len(log[i]) /\ new[i][a] = log[i][a] /\ (i = w => a <= L)
                \/ i = w /\ a > L /\ a - L \in 1 .. B /\ new[i][a] = log[Buffered][a - L]
  <2>1. i # Buffered /\ i \in Files /\ i \in Nat BY <1>1, <1>5, PartsAre
  <2>2. CASE i = w
    <3>1. a \in 1 .. L + B BY Zenon, <1>3, <1>5, <2>2
    <3>2. CASE a <= L
      <4>1. a \in 1 .. L BY <1>2, <3>1, <3>2
      <4>2. new[i][a] = s[a] BY Zenon, <1>3, <2>2, <3>1, <3>2
      <4> QED BY <1>1, <1>4, <2>1, <2>2, <3>2, <4>1, <4>2
    <3>3. CASE ~(a <= L)
      <4>1. a > L /\ a - L \in 1 .. B BY <1>2, <3>1, <3>3
      <4>2. new[i][a] = t[a - L] BY Zenon, <1>3, <2>2, <3>1, <3>3
      <4> QED BY <1>1, <1>4, <2>1, <2>2, <4>1, <4>2
    <3> QED BY Zenon, <3>2, <3>3
  <2>3. CASE i # w
    <3>1. new[i] = log[i] BY Zenon, <2>1, <2>3
    <3>2. ~(i < w) BY <1>1, <2>1, <3>1
    <3> QED BY <1>1, <2>1, <2>3, <3>1, <3>2
  <2> QED BY Zenon, <2>2, <2>3
<1>6. Ordered(new, v, r)
  <2> SUFFICES ASSUME NEW i \in Parts, NEW j \in Parts,
                      NEW a \in 1 .. Len(new[i]), NEW b \in 1 .. Len(new[j]),
                      i > j \/ (i = j /\ a < b)
               PROVE  Fits(new, v, r, i, a, j, b)
    BY Zenon, OrderedIs
  <2>1. /\ i > Buffered /\ i \in Int /\ j \in Int /\ Buffered \in Parts
        /\ i # Buffered /\ j # Buffered
    BY Zenon, <1>5, PartsAre
  <2>a. \A k, l \in Parts : \A c \in 1 .. Len(log[k]), d \in 1 .. Len(log[l]) :
          k > l \/ (k = l /\ c < d) => Fits(log, w, r, k, c, l, d)
    BY Zenon, OrderedIs
  <2>2. CASE /\ a \in 1 .. Len(log[i]) /\ new[i][a] = log[i][a]
             /\ b \in 1 .. Len(log[j]) /\ new[j][b] = log[j][b]
    <3>1. Fits(log, w, r, i, a, j, b) BY Zenon, <2>a, <2>2
    <3> QED BY Zenon, <2>1, <2>2, <3>1 DEF Fits, Again
  <2>3. CASE /\ a \in 1 .. Len(log[i]) /\ new[i][a] = log[i][a]
             /\ j = w /\ b - L \in 1 .. B /\ new[j][b] = log[Buffered][b - L]
    <3>1. Fits(log, w, r, i, a, Buffered, b - L) BY Zenon, <1>4, <2>a, <2>1, <2>3
    <3> QED BY Zenon, <2>1, <2>3, <3>1 DEF Fits, Again
  <2>4. CASE /\ i = w /\ a > L /\ a - L \in 1 .. B /\ new[i][a] = log[Buffered][a - L]
    <3>1. j = w /\ a < b BY <1>1, <1>5, <2>1, <2>4
    <3>2. b \in 1 .. L + B BY Zenon, <1>3, <3>1
    <3>3. b - L \in 1 .. B /\ a - L < b - L /\ ~(b <= L) BY <1>2, <2>4, <3>1, <3>2
    <3>4. new[j][b] = t[b - L] BY Zenon, <1>3, <3>1, <3>2, <3>3
    <3>5. Fits(log, w, r, Buffered, a - L, Buffered, b - L) BY Zenon, <1>4, <2>a, <2>1, <2>4, <3>3
    <3> QED BY Zenon, <1>4, <2>4, <3>4, <3>5 DEF Fits, Again
  <2> QED BY Zenon, <1>5, <2>2, <2>3, <2>4
<1>7. ASSUME NEW e \in Events(new) PROVE e \in Events(log)
  <2>1. PICK i \in Parts : \E a \in 1 .. Len(new[i]) : e = new[i][a] BY <1>7, EventIs DEF Events
  <2>2. PICK a \in 1 .. Len(new[i]) : e = new[i][a] BY Zenon, <2>1
  <2>3. \E k \in Parts : \E c \in 1 .. Len(log[k]) : e = log[k][c]
    <3>1. CASE a \in 1 .. Len(log[i]) /\ new[i][a] = log[i][a] BY Zenon, <2>2, <3>1
    <3>2. CASE a - L \in 1 .. B /\ new[i][a] = log[Buffered][a - L]
      <4>1. a - L \in 1 .. Len(log[Buffered]) BY Zenon, <1>4, <3>2
      <4> QED BY Zenon, <2>2, <3>2, <4>1, PartsAre
    <3> QED BY Zenon, <1>5, <3>1, <3>2
  <2> QED BY Zenon, <2>3, EventIs DEF Events
<1>8. ASSUME NEW S, S \subseteq Parts, w \in S, NEW e \in EventsIn(log, S) PROVE e \in EventsIn(new, S)
  <2>1. PICK k \in S : \E c \in 1 .. Len(log[k]) : e = log[k][c] BY <1>8, EventIs
  <2>2. PICK c \in 1 .. Len(log[k]) : e = log[k][c] BY Zenon, <2>1
  <2>3. CASE k \notin {w, Buffered}
    <3>1. new[k] = log[k] BY Zenon, <1>8, <2>3
    <3> QED BY Zenon, <1>8, <2>2, <3>1, EventIs
  <2>4. CASE k = w
    <3>1. c \in 1 .. Len(new[w]) /\ e = new[w][c] BY <1>2, <1>3, <1>4, <2>2, <2>4
    <3> QED BY Zenon, <1>8, <3>1, EventIs
  <2>5. CASE k = Buffered
    <3>1. c \in 1 .. B /\ e = t[c] BY Zenon, <1>4, <2>2, <2>5
    <3>2. L + c \in 1 .. L + B /\ ~(L + c <= L) /\ (L + c) - L = c BY <1>2, <3>1
    <3>3. L + c \in 1 .. Len(new[w]) /\ e = new[w][L + c] BY Zenon, <1>3, <3>1, <3>2
    <3> QED BY Zenon, <1>8, <3>3, EventIs
  <2> QED BY Zenon, <2>3, <2>4, <2>5
<1>9. Events(new) = Events(log) BY Zenon, <1>1, <1>7, <1>8 DEF Events
<1>10. EventsIn(log, Files) \subseteq EventsIn(new, Files) BY Zenon, <1>8, PartsAre
<1> QED BY Zenon, <1>6, <1>9, <1>10

(* The beginning of the buffer goes to the end of that file, and the       *)
(* buffer is kept.                                                         *)
LEMMA TornInOrder ==
  ASSUME NEW log \in Logs, NEW new \in Logs, NEW w \in Files, NEW r, Ordered(log, w, r),
         \A j \in 0 .. w - 1 : log[j] = << >>,
         NEW p, Beginning(p, log[Buffered]), new[w] = log[w] \o p,
         \A k \in Parts \ {w} : new[k] = log[k]
  PROVE  /\ Ordered(new, w, r \cup Range(p)) /\ Events(new) = Events(log)
         /\ EventsIn(log, Files) \subseteq EventsIn(new, Files)
<1> DEFINE s == log[w]  t == log[Buffered]  L == Len(s)  B == Len(t)  P == Len(p)
<1>1. /\ w \in Parts /\ w \in Nat /\ w # Buffered /\ Len(<< >>) = 0 /\ Buffered \in Parts
      /\ new[Buffered] = log[Buffered] /\ w > Buffered
  BY Zenon, PartsAre, EmptyIs
<1>2. /\ L \in Nat /\ B \in Nat /\ s \in Seq(Nat) /\ t \in Seq(Nat) /\ new[w] = s \o p
      /\ p \in Seq(Nat) /\ P <= B /\ \A c \in 1 .. P : p[c] = t[c]
  BY Zenon, <1>1, EventNat DEF Beginning
<1>3. P \in Nat /\ DOMAIN p = 1 .. P /\ DOMAIN t = 1 .. B BY Zenon, <1>2, LenIs
<1> HIDE DEF s, t
<1>4. Len(new[w]) = L + P /\ \A a \in 1 .. L + P : new[w][a] = IF a <= L THEN s[a] ELSE p[a - L]
  BY <1>2, ConcatIs
<1> HIDE DEF L, B, P
<1>5. log[w] = s /\ log[Buffered] = t /\ Len(s) = L /\ Len(t) = B BY Zenon DEF s, t, L, B
<1>a. L \in Nat /\ B \in Nat /\ P \in Nat /\ P <= B BY Zenon, <1>2, <1>3
<1>6. ASSUME NEW i \in Parts, NEW a \in 1 .. Len(new[i])
      PROVE  /\ i = Buffered \/ (i \in Files /\ i >= w)
             /\ \/ a \in 1 .. Len(log[i]) /\ new[i][a] = log[i][a] /\ (i = w => a <= L)
                \/ i = w /\ a > L /\ a - L \in 1 .. P /\ a - L \in 1 .. B /\ new[i][a] = log[Buffered][a - L]
  <2>1. CASE i = w
    <3>1. a \in 1 .. L + P BY Zenon, <1>4, <1>6, <2>1
    <3>2. CASE a <= L
      <4>1. a \in 1 .. L BY <1>a, <3>1, <3>2
      <4>2. new[i][a] = s[a] BY Zenon, <1>4, <2>1, <3>1, <3>2
      <4> QED BY <1>1, <1>5, <2>1, <3>2, <4>1, <4>2
    <3>3. CASE ~(a <= L)
      <4>1. a > L /\ a - L \in 1 .. P /\ a - L \in 1 .. B BY <1>a, <3>1, <3>3
      <4>2. new[i][a] = t[a - L] BY Zenon, <1>2, <1>4, <2>1, <3>1, <3>3, <4>1
      <4> QED BY <1>1, <1>5, <2>1, <4>1, <4>2
    <3> QED BY Zenon, <3>2, <3>3
  <2>2. CASE i # w
    <3>1. new[i] = log[i] BY Zenon, <2>2
    <3>2. CASE i = Buffered BY Zenon, <1>6, <2>2, <3>1, <3>2
    <3>3. CASE i # Buffered
      <4>1. i \in Files /\ i \in Nat BY Zenon, <3>3, PartsAre
      <4>2. ~(i < w) BY <1>1, <3>1, <4>1
      <4> QED BY <1>1, <2>2, <3>1, <4>1, <4>2
    <3> QED BY Zenon, <3>2, <3>3
  <2> QED BY Zenon, <2>1, <2>2
<1>7. Ordered(new, w, r \cup Range(p))
  <2> SUFFICES ASSUME NEW i \in Parts, NEW j \in Parts,
                      NEW a \in 1 .. Len(new[i]), NEW b \in 1 .. Len(new[j]),
                      i > j \/ (i = j /\ a < b)
               PROVE  Fits(new, w, r \cup Range(p), i, a, j, b)
    BY Zenon, OrderedIs
  <2>1. i \in Int /\ j \in Int BY Zenon, PartsAre
  <2>2. \A k, l \in Parts : \A c \in 1 .. Len(log[k]), d \in 1 .. Len(log[l]) :
          k > l \/ (k = l /\ c < d) => Fits(log, w, r, k, c, l, d)
    BY Zenon, OrderedIs
  <2>3. CASE /\ a \in 1 .. Len(log[i]) /\ new[i][a] = log[i][a]
             /\ b \in 1 .. Len(log[j]) /\ new[j][b] = log[j][b]
    <3>1. Fits(log, w, r, i, a, j, b) BY Zenon, <2>2, <2>3
    <3> QED BY Zenon, <1>1, <2>3, <3>1 DEF Fits, Again
  <2>4. CASE /\ a \in 1 .. Len(log[i]) /\ new[i][a] = log[i][a] /\ j = w
             /\ b - L \in 1 .. B /\ new[j][b] = log[Buffered][b - L]
    <3>1. i # Buffered /\ i > Buffered BY <1>1, <2>1, <2>4, PartsAre
    <3>2. Fits(log, w, r, i, a, Buffered, b - L) BY Zenon, <1>1, <1>5, <2>2, <2>4, <3>1
    <3> QED BY Zenon, <2>4, <3>1, <3>2 DEF Fits, Again
  <2>5. CASE /\ i = w /\ a > L /\ a - L \in 1 .. P /\ a - L \in 1 .. B
             /\ new[i][a] = log[Buffered][a - L]
    <3>1. j = Buffered \/ (j = w /\ a < b)
      <4>1. j = Buffered \/ j >= w BY Zenon, <1>6
      <4> QED BY <1>1, <2>1, <2>5, <4>1
    <3>2. CASE j = w /\ a < b
      <4>1. b \in 1 .. L + P BY Zenon, <1>4, <3>2
      <4>2. b - L \in 1 .. P /\ b - L \in 1 .. B /\ a - L < b - L /\ ~(b <= L)
        BY <1>a, <2>5, <3>2, <4>1
      <4>3. new[j][b] = t[b - L] BY Zenon, <1>2, <1>4, <3>2, <4>1, <4>2
      <4>4. Fits(log, w, r, Buffered, a - L, Buffered, b - L)
        BY Zenon, <1>1, <1>5, <2>2, <2>5, <4>2
      <4> QED BY Zenon, <1>5, <2>5, <4>3, <4>4 DEF Fits, Again
    <3>3. CASE j = Buffered
      <4>1. b \in 1 .. B /\ new[j][b] = t[b] /\ new[i][a] = t[a - L]
        BY Zenon, <1>1, <1>5, <2>5, <3>3
      <4>2. CASE a - L < b
        <5>1. Fits(log, w, r, Buffered, a - L, Buffered, b)
          BY Zenon, <1>1, <1>5, <2>2, <2>5, <4>1, <4>2
        <5> QED BY Zenon, <1>5, <4>1, <5>1 DEF Fits, Again
      <4>3. CASE ~(a - L < b)
        <5>1. b \in 1 .. P BY <1>a, <2>5, <4>1, <4>3
        <5>2. t[b] \in Range(p) /\ t[a - L] \in Range(p) /\ t[a - L] \in Range(t)
          BY Zenon, <1>2, <1>3, <2>5, <5>1 DEF Range
        <5>3. Again(new, w, i, j, new[i][a])
          BY Zenon, <1>1, <1>5, <2>5, <3>3, <4>1, <5>2 DEF Again
        <5> QED BY Zenon, <4>1, <5>2, <5>3 DEF Fits
      <4> QED BY Zenon, <4>2, <4>3
    <3> QED BY Zenon, <3>1, <3>2, <3>3
  <2> QED BY Zenon, <1>6, <2>3, <2>4, <2>5
<1>8. ASSUME NEW e \in Events(new) PROVE e \in Events(log)
  <2>1. PICK i \in Parts : \E a \in 1 .. Len(new[i]) : e = new[i][a] BY <1>8, EventIs DEF Events
  <2>2. PICK a \in 1 .. Len(new[i]) : e = new[i][a] BY Zenon, <2>1
  <2>3. \E k \in Parts : \E c \in 1 .. Len(log[k]) : e = log[k][c]
    <3>1. CASE a \in 1 .. Len(log[i]) /\ new[i][a] = log[i][a] BY Zenon, <2>2, <3>1
    <3>2. CASE a - L \in 1 .. B /\ new[i][a] = log[Buffered][a - L]
      <4>1. a - L \in 1 .. Len(log[Buffered]) BY Zenon, <1>5, <3>2
      <4> QED BY Zenon, <1>1, <2>2, <3>2, <4>1
    <3> QED BY Zenon, <1>6, <3>1, <3>2
  <2> QED BY Zenon, <2>3, EventIs DEF Events
<1>9. ASSUME NEW S, S \subseteq Parts, NEW e \in EventsIn(log, S) PROVE e \in EventsIn(new, S)
  <2>1. PICK k \in S : \E c \in 1 .. Len(log[k]) : e = log[k][c] BY <1>9, EventIs
  <2>2. PICK c \in 1 .. Len(log[k]) : e = log[k][c] BY Zenon, <2>1
  <2>3. c \in 1 .. Len(new[k]) /\ e = new[k][c]
    <3>1. CASE k = w BY <1>2, <1>3, <1>4, <1>5, <2>2, <3>1
    <3>2. CASE k # w
      <4>1. new[k] = log[k] BY Zenon, <1>9, <3>2
      <4> QED BY Zenon, <2>2, <4>1
    <3> QED BY Zenon, <3>1, <3>2
  <2> QED BY Zenon, <1>9, <2>3, EventIs
<1>10. Events(new) = Events(log) BY Zenon, <1>8, <1>9 DEF Events
<1> QED BY Zenon, <1>7, <1>9, <1>10, PartsAre

(* An empty log has nothing out of order. *)
LEMMA HistoryOfNothing ==
  ASSUME NEW log \in Logs, \A i \in Parts : log[i] = << >>, NEW w, NEW t, NEW n, NEW d
  PROVE  History(log, w, t, n, d) /\ Events(log) = {}
<1>1. Len(<< >>) = 0 BY Zenon, EmptyIs
<1>2. Events(log) = {} BY <1>1, EventIs DEF Events
<1>3. Ordered(log, w, t) BY <1>1, OrderedIs
<1> QED BY Zenon, <1>2, <1>3 DEF History

(* Two logs with the same files but for one. *)
LEMMA OtherPartsSame ==
  ASSUME NEW log \in Logs, NEW new \in Logs, NEW p \in Parts,
         \A k \in Parts \ {p} : new[k] = log[k]
  PROVE  \A S : S \subseteq Parts /\ p \notin S => EventsIn(new, S) = EventsIn(log, S)
<1> SUFFICES ASSUME NEW S, S \subseteq Parts, p \notin S
             PROVE  EventsIn(new, S) = EventsIn(log, S)
  BY Zenon
<1>1. \A k \in S : new[k] = log[k] BY Zenon
<1>2. \A e : e \in EventsIn(new, S) <=> e \in EventsIn(log, S)
  <2> TAKE e
  <2>1. e \in EventsIn(new, S) <=> \E i \in S : \E a \in 1 .. Len(new[i]) : e = new[i][a]
    BY EventIs
  <2>2. e \in EventsIn(log, S) <=> \E i \in S : \E a \in 1 .. Len(log[i]) : e = log[i][a]
    BY EventIs
  <2> QED BY Zenon, <1>1, <2>1, <2>2
<1> QED BY Zenon, <1>2

(* purge() deletes the last backup, and with it the oldest events only. *)
LEMMA HistoryPurged ==
  ASSUME NEW log \in Logs, NEW new \in Logs, NEW w, NEW t, NEW n \in Nat, NEW d,
         History(log, w, t, n, d),
         new[MaxIndex] = << >>, \A k \in Parts \ {MaxIndex} : new[k] = log[k]
  PROVE  /\ History(new, IF w = MaxIndex THEN Unlinked ELSE w, t, n, d)
         /\ \A e \in EventsIn(log, Files) \ EventsIn(new, Files) :
              \A kept \in EventsIn(new, Files) : e < kept
<1>1. MaxIndex \in Parts /\ MaxIndex \in Files /\ Len(<< >>) = 0 /\ Files \subseteq Parts
  BY PartsAre, Indices, EmptyIs
<1> DEFINE v == IF w = MaxIndex THEN Unlinked ELSE w
<1>2. Ordered(new, v, t) /\ Events(new) \subseteq Events(log)
  BY Zenon, EmptiedInOrder DEF Events, History
<1>3. ASSUME NEW S, S \subseteq Parts, NEW e \in EventsIn(log, S) \ EventsIn(new, S),
             NEW kept \in EventsIn(new, S)
      PROVE  e < kept
  <2>1. PICK i \in S : \E a \in 1 .. Len(log[i]) : e = log[i][a] BY <1>3, EventIs
  <2>2. PICK a \in 1 .. Len(log[i]) : e = log[i][a] BY Zenon, <2>1
  <2>3. i = MaxIndex
    <3>1. SUFFICES ASSUME i # MaxIndex PROVE FALSE BY Zenon
    <3>2. new[i] = log[i] BY Zenon, <1>3, <3>1
    <3> QED BY Zenon, <1>3, <2>2, <3>2, EventIs
  <2>4. PICK j \in S : \E b \in 1 .. Len(new[j]) : kept = new[j][b] BY <1>3, EventIs
  <2>5. j # MaxIndex /\ j \in Parts BY <1>1, <1>3, <2>4
  <2>6. new[j] = log[j] /\ MaxIndex > j BY <1>1, <2>5, PartsAre, Indices
  <2>7. PICK b \in 1 .. Len(log[j]) : kept = log[j][b] BY Zenon, <2>4, <2>6
  <2>8. Fits(log, w, t, i, a, j, b) BY Zenon, <1>1, <2>3, <2>5, <2>6, OrderedIs DEF History
  <2>9. ~Again(log, w, i, j, e)
    <3>1. SUFFICES ASSUME j = Buffered, e \in Range(log[Buffered]) PROVE FALSE
      BY Zenon, <2>3, <2>5 DEF Again
    <3>2. log[Buffered] \in Seq(Nat) BY Zenon, PartsAre, EventNat
    <3>3. DOMAIN log[Buffered] = 1 .. Len(log[Buffered]) BY Zenon, <3>2, LenIs
    <3>4. \E c \in 1 .. Len(new[j]) : e = new[j][c] BY Zenon, <2>6, <3>1, <3>3 DEF Range
    <3> QED BY Zenon, <1>3, <2>4, <3>4, EventIs
  <2> QED BY Zenon, <2>2, <2>7, <2>8, <2>9 DEF Fits
<1>4. ASSUME NEW e \in Events(new), NEW later \in e .. n - 1
      PROVE  later \in Events(new) \cup d
  <2>1. later \in Events(log) \cup d BY Zenon, <1>2 DEF History
  <2>2. e \in Nat /\ later \in Int /\ later >= e
    <3>1. \E i \in Parts : \E a \in 1 .. Len(new[i]) : e = new[i][a] BY EventIs DEF Events
    <3>2. e \in Nat BY Zenon, <3>1, EventNat
    <3> QED BY <3>2
  <2>3. later \in Events(log) /\ later \notin Events(new) => later < e BY Zenon, <1>3 DEF Events
  <2> QED BY <2>1, <2>2, <2>3
<1>5. History(new, v, t, n, d) BY Zenon, <1>2, <1>4 DEF History
<1> QED BY Zenon, <1>1, <1>3, <1>5

(* The buffer's events are given up. *)
LEMMA HistoryBufferLost ==
  ASSUME NEW log \in Logs, NEW new \in Logs, NEW w, NEW v, NEW t, NEW n \in Nat, NEW d,
         History(log, w, t, n, d),
         new[Buffered] = << >>, \A k \in Parts \ {Buffered} : new[k] = log[k]
  PROVE  History(new, v, t, n, d \cup Range(log[Buffered]))
<1>1. Ordered(new, v, t) /\ Events(new) \subseteq Events(log)
  BY Zenon, EmptiedInOrder DEF Events, History
<1>2. ASSUME NEW e \in Events(log) PROVE e \in Events(new) \cup Range(log[Buffered])
  <2>1. PICK i \in Parts : \E a \in 1 .. Len(log[i]) : e = log[i][a] BY EventIs DEF Events
  <2>2. CASE i = Buffered
    <3>1. log[Buffered] \in Seq(Nat) BY Zenon, PartsAre, EventNat
    <3>2. DOMAIN log[Buffered] = 1 .. Len(log[Buffered]) BY Zenon, <3>1, LenIs
    <3> QED BY Zenon, <2>1, <2>2, <3>2 DEF Range
  <2>3. CASE i # Buffered
    <3>1. new[i] = log[i] BY Zenon, <2>3
    <3> QED BY Zenon, <2>1, <3>1, EventIs DEF Events
  <2> QED BY Zenon, <2>2, <2>3
<1> QED BY Zenon, <1>1, <1>2 DEF History

(* An event is given up. *)
LEMMA HistoryGaveUp ==
  ASSUME NEW log \in Logs, NEW w, NEW t, NEW n \in Nat, NEW d, History(log, w, t, n, d)
  PROVE  History(log, w, t, n + 1, d \cup {n})
<1>1. ASSUME NEW e \in Events(log) PROVE e \in Nat
  <2>1. \E i \in Parts : \E a \in 1 .. Len(log[i]) : e = log[i][a] BY EventIs DEF Events
  <2> QED BY Zenon, <2>1, EventNat
<1> QED BY <1>1 DEF History

(* A new event is buffered. *)
LEMMA HistoryAppended ==
  ASSUME NEW log \in Logs, NEW new \in Logs, NEW w, NEW r, NEW n \in Nat, NEW d,
         History(log, w, r, n, d),
         new[Buffered] = Append(log[Buffered], n), \A k \in Parts \ {Buffered} : new[k] = log[k]
  PROVE  History(new, w, r, n + 1, d)
<1> DEFINE t == log[Buffered]  B == Len(t)
<1>1. t \in Seq(Nat) /\ B \in Nat /\ new[Buffered] = Append(t, n) BY Zenon, PartsAre, EventNat
<1> HIDE DEF t
<1>2. /\ Len(new[Buffered]) = B + 1 /\ new[Buffered][B + 1] = n
      /\ \A a \in 1 .. B : new[Buffered][a] = t[a]
  BY <1>1, AppendIs
<1> HIDE DEF B
<1>3. log[Buffered] = t /\ Len(t) = B BY Zenon DEF t, B
<1>4. ASSUME NEW i \in Parts, NEW a \in 1 .. Len(new[i])
      PROVE  \/ a \in 1 .. Len(log[i]) /\ new[i][a] = log[i][a]
             \/ i = Buffered /\ a = B + 1 /\ new[i][a] = n
  <2>1. CASE i = Buffered
    <3>1. a \in 1 .. B + 1 BY Zenon, <1>2, <1>4, <2>1
    <3>2. CASE a = B + 1 BY Zenon, <1>2, <2>1, <3>2
    <3>3. CASE a # B + 1
      <4>1. a \in 1 .. B BY <1>1, <3>1, <3>3
      <4> QED BY Zenon, <1>2, <1>3, <2>1, <4>1
    <3> QED BY Zenon, <3>2, <3>3
  <2>2. CASE i # Buffered
    <3>1. new[i] = log[i] BY Zenon, <2>2
    <3> QED BY Zenon, <3>1
  <2> QED BY Zenon, <2>1, <2>2
<1>5. ASSUME NEW e \in Events(log) PROVE e < n /\ e \in Nat /\ e \in Events(new)
  <2>1. PICK i \in Parts : \E a \in 1 .. Len(log[i]) : e = log[i][a] BY EventIs DEF Events
  <2>2. PICK a \in 1 .. Len(log[i]) : e = log[i][a] BY Zenon, <2>1
  <2>3. a \in 1 .. Len(new[i]) /\ e = new[i][a]
    <3>1. CASE i = Buffered
      <4>1. a \in 1 .. B /\ e = t[a] BY Zenon, <1>3, <2>2, <3>1
      <4>2. a \in 1 .. B + 1 BY <1>1, <4>1
      <4> QED BY Zenon, <1>2, <3>1, <4>1, <4>2
    <3>2. CASE i # Buffered
      <4>1. new[i] = log[i] BY Zenon, <3>2
      <4> QED BY Zenon, <2>2, <4>1
    <3> QED BY Zenon, <3>1, <3>2
  <2>4. e \in Events(new) BY Zenon, <2>3, EventIs DEF Events
  <2> QED BY Zenon, <1>5, <2>2, <2>4, EventNat DEF History
<1>6. \A i \in Parts : \A a \in 1 .. Len(log[i]) : log[i][a] \in Events(log)
  BY Zenon, EventIs DEF Events
<1>7. n \in Events(new)
  <2>1. B + 1 \in 1 .. Len(new[Buffered]) BY <1>1, <1>2
  <2> QED BY Zenon, <1>2, <2>1, PartsAre, EventIs DEF Events
<1>8. ASSUME NEW e \in Events(new) PROVE e \in Events(log) \/ e = n
  <2>1. PICK i \in Parts : \E a \in 1 .. Len(new[i]) : e = new[i][a] BY <1>8, EventIs DEF Events
  <2> QED BY Zenon, <1>4, <1>6, <2>1
<1>9. Ordered(new, w, r)
  <2> SUFFICES ASSUME NEW i \in Parts, NEW j \in Parts,
                      NEW a \in 1 .. Len(new[i]), NEW b \in 1 .. Len(new[j]),
                      i > j \/ (i = j /\ a < b)
               PROVE  Fits(new, w, r, i, a, j, b)
    BY Zenon, OrderedIs
  <2>1. CASE a \in 1 .. Len(log[i]) /\ new[i][a] = log[i][a]
    <3>1. CASE b \in 1 .. Len(log[j]) /\ new[j][b] = log[j][b]
      <4>1. Fits(log, w, r, i, a, j, b) BY Zenon, <2>1, <3>1, OrderedIs DEF History
      <4>2. \A e : e \in Range(log[Buffered]) => e \in Range(new[Buffered])
        <5>1. DOMAIN t = 1 .. B /\ DOMAIN new[Buffered] = 1 .. B + 1
          BY <1>1, <1>2, <1>3, LenIs, PartsAre, EventNat
        <5>2. \A c \in 1 .. B : c \in 1 .. B + 1 BY <1>1
        <5> QED BY Zenon, <1>2, <1>3, <5>1, <5>2 DEF Range
      <4> QED BY Zenon, <2>1, <3>1, <4>1, <4>2 DEF Fits, Again
    <3>2. CASE new[j][b] = n BY Zenon, <1>5, <1>6, <2>1, <3>2 DEF Fits
    <3> QED BY Zenon, <1>4, <3>1, <3>2
  <2>2. CASE i = Buffered /\ a = B + 1
    <3>1. i = j /\ a < b BY <2>2, PartsAre
    <3>2. b \in 1 .. B + 1 BY Zenon, <1>2, <2>2, <3>1
    <3> QED BY <1>1, <2>2, <3>1, <3>2
  <2> QED BY Zenon, <1>4, <2>1, <2>2
<1>10. \A e \in Events(new) : e < n + 1 BY <1>5, <1>8
<1>11. ASSUME NEW e \in Events(new), NEW later \in e .. n + 1 - 1
       PROVE  later \in Events(new) \cup d
  <2>1. e \in Nat /\ later \in Int /\ (later = n \/ later \in e .. n - 1) BY <1>5, <1>8
  <2>2. CASE later = n BY Zenon, <1>7, <2>2
  <2>3. CASE later # n
    <3>1. e \in Events(log) /\ later \in e .. n - 1 BY <1>8, <2>1, <2>3
    <3> QED BY Zenon, <1>5, <3>1 DEF History
  <2> QED BY Zenon, <2>2, <2>3
<1> QED BY <1>9, <1>10, <1>11 DEF History
-----------------------------------------------------------------------------
(* The file a stream writes to is the last one that exists. *)
LastFile ==
  /\ writer \in Files => \A j \in 0 .. writer - 1 : ~Exists(j)
  /\ writer = Unlinked => \A j \in Files : ~Exists(j)

(* Writing the buffer out, or an event that is not buffered. *)
LEMMA HistoryFlushed ==
  ASSUME LogType, Open, LastFile, NEW b \in Seq(Nat),
         NEW v, NEW t, NEW n \in Nat, NEW d,
         writer = NoStream => b = << >>, History(LogOf(files, b), writer, t, n, d)
  PROVE  /\ Written(files, b) \in [Files -> Contents]
         /\ \A i \in Files : Written(files, b)[i] # NoFile <=> files[i] # NoFile
         /\ History(LogOf(Written(files, b), << >>), v, t, n, d)
         /\ EventsIn(LogOf(files, b), Files) \subseteq EventsIn(LogOf(Written(files, b), << >>), Files)
<1> DEFINE log == LogOf(files, b)  f == Written(files, b)  new == LogOf(f, << >>)
<1>1. files \in [Files -> Contents] /\ << >> \in Seq(Nat) /\ DOMAIN files = Files
  BY Zenon, EmptyIs DEF LogType
<1>2. /\ log \in Logs /\ log[Buffered] = b
      /\ \A i \in Files : log[i] = IF files[i] # NoFile THEN files[i] ELSE << >>
  BY <1>1, LogIs
<1>3. CASE writer \in Files
  <2> DEFINE more == files[writer] \o b  none == << >>
  <2>0. none \in Seq(Nat) BY Zenon, <1>1
  <2>1. files[writer] \in Seq(Nat) /\ files[writer] # NoFile
    BY Zenon, <1>3 DEF LogType, Contents, Exists, Open
  <2>2. more \in Seq(Nat) BY Zenon, <2>1, ConcatIs
  <2>3. more # NoFile /\ more \in Contents BY Zenon, <2>2, Indices DEF Contents
  <2>4. f = [files EXCEPT ![writer] = more] BY Zenon, <1>1, <1>3 DEF Written
  <2> HIDE DEF more, f
  <2>5. f \in [Files -> Contents] /\ \A i \in Files : f[i] = IF i = writer THEN more ELSE files[i]
    BY Zenon, <1>1, <1>3, <2>3, <2>4
  <2>6. /\ new \in Logs /\ new[Buffered] = << >>
        /\ \A i \in Files : new[i] = IF f[i] # NoFile THEN f[i] ELSE << >>
    <3> HIDE DEF none
    <3>1. /\ LogOf(f, none) \in Logs /\ LogOf(f, none)[Buffered] = none
          /\ \A i \in Files : LogOf(f, none)[i] = IF f[i] # NoFile THEN f[i] ELSE << >>
      BY Zenon, <2>0, <2>5, LogIs
    <3> QED BY Zenon, <3>1 DEF none
  <2> HIDE DEF log, new
  <2>7. new[writer] = log[writer] \o log[Buffered]
    BY Zenon, <1>2, <1>3, <2>1, <2>3, <2>5, <2>6 DEF more
  <2>8. \A k \in Parts \ {writer, Buffered} : new[k] = log[k] BY Zenon, <1>2, <2>5, <2>6, PartsAre
  <2>9. \A j \in 0 .. writer - 1 : log[j] = << >>
    <3>1. \A j \in 0 .. writer - 1 : j \in Files /\ files[j] = NoFile
      BY <1>3, PartsAre, Indices DEF LastFile, Exists
    <3> QED BY Zenon, <1>2, <3>1
  <2>10. Ordered(log, writer, t) BY Zenon DEF History, log
  <2>11. /\ Ordered(new, v, t) /\ Events(new) = Events(log)
         /\ EventsIn(log, Files) \subseteq EventsIn(new, Files)
    BY Zenon, <1>2, <1>3, <2>6, <2>7, <2>8, <2>9, <2>10, FlushedInOrder
  <2>12. History(new, v, t, n, d) BY Zenon, <2>11 DEF History, log
  <2> QED BY Zenon, <1>3, <2>1, <2>3, <2>5, <2>11, <2>12 DEF f, log, new
<1>4. CASE writer \notin Files
  <2>1. f = files BY Zenon, <1>1, <1>4 DEF Written
  <2>2. CASE b = << >>
    <3>1. log[Buffered] = << >> BY Zenon, <1>2, <2>2
    <3>2. Ordered(log, v, t) BY Zenon, <1>2, <3>1, EmptiedInOrder DEF History
    <3>3. History(log, v, t, n, d) BY Zenon, <3>2 DEF History
    <3> QED BY Zenon, <1>1, <2>1, <2>2, <3>3
  <2>3. CASE b # << >>
    <3>1. writer = Unlinked BY Zenon, <1>4, <2>3 DEF LogType
    <3>2. \A i \in Files : files[i] = NoFile BY Zenon, <3>1 DEF LastFile, Exists
    <3>3. /\ new \in Logs /\ new[Buffered] = << >>
          /\ \A i \in Files : new[i] = << >> /\ log[i] = << >>
      <4> DEFINE none == << >>
      <4>1. none \in Seq(Nat) /\ new = LogOf(files, none) BY Zenon, <1>1, <2>1
      <4> HIDE DEF new, log, f, none
      <4>2. /\ new \in Logs /\ new[Buffered] = none
            /\ \A i \in Files : new[i] = IF files[i] # NoFile THEN files[i] ELSE << >>
        <5>1. /\ LogOf(files, none) \in Logs /\ LogOf(files, none)[Buffered] = none
              /\ \A i \in Files : LogOf(files, none)[i] =
                                     IF files[i] # NoFile THEN files[i] ELSE << >>
          BY <1>1, <4>1, LogIs
        <5> QED BY Zenon, <4>1, <5>1
      <4> QED BY Zenon, <1>2, <3>2, <4>2 DEF none
    <3>4. \A i \in Parts : new[i] = << >> BY Zenon, <3>3, PartsAre
    <3> HIDE DEF log, new
    <3>5. History(new, v, t, n, d) BY Zenon, <3>3, <3>4, HistoryOfNothing
    <3>6. EventsIn(log, Files) = {}
      <4>1. Len(<< >>) = 0 BY Zenon, EmptyIs
      <4>2. Files \subseteq Parts BY Zenon, PartsAre
      <4>3. \A e : e \notin EventsIn(log, Files) BY <1>2, <3>3, <4>1, <4>2, EventIs
      <4> QED BY Zenon, <4>3
    <3> QED BY Zenon, <1>1, <2>1, <3>5, <3>6 DEF f, log, new
  <2> QED BY Zenon, <2>2, <2>3
<1> QED BY Zenon, <1>3, <1>4

(* A write that fails has put the beginning of the buffer into the file. *)
LEMMA HistoryTorn ==
  ASSUME LogType, Open, LastFile, NEW b \in Seq(Nat), NEW p, Beginning(p, b),
         NEW t, NEW n \in Nat, NEW d, writer = NoStream => b = << >>,
         History(LogOf(files, b), writer, t, n, d)
  PROVE  /\ Written(files, p) \in [Files -> Contents]
         /\ \A i \in Files : Written(files, p)[i] # NoFile <=> files[i] # NoFile
         /\ History(LogOf(Written(files, p), b), writer, t \cup Range(p), n, d)
         /\ EventsIn(LogOf(files, b), Files) \subseteq EventsIn(LogOf(Written(files, p), b), Files)
<1> DEFINE log == LogOf(files, b)  f == Written(files, p)  new == LogOf(f, b)
<1>1. files \in [Files -> Contents] /\ DOMAIN files = Files /\ p \in Seq(Nat)
  BY Zenon DEF LogType, Beginning
<1>2. /\ log \in Logs /\ log[Buffered] = b
      /\ \A i \in Files : log[i] = IF files[i] # NoFile THEN files[i] ELSE << >>
  BY <1>1, LogIs
<1>3. CASE writer \in Files
  <2> DEFINE more == files[writer] \o p
  <2>1. files[writer] \in Seq(Nat) /\ files[writer] # NoFile
    BY Zenon, <1>3 DEF LogType, Contents, Exists, Open
  <2>2. more \in Seq(Nat) BY Zenon, <1>1, <2>1, ConcatIs
  <2>3. more # NoFile /\ more \in Contents BY Zenon, <2>2, Indices DEF Contents
  <2>4. f = [files EXCEPT ![writer] = more] BY Zenon, <1>1, <1>3 DEF Written
  <2> HIDE DEF more, f
  <2>5. f \in [Files -> Contents] /\ \A i \in Files : f[i] = IF i = writer THEN more ELSE files[i]
    BY Zenon, <1>1, <1>3, <2>3, <2>4
  <2>6. /\ new \in Logs /\ new[Buffered] = b
        /\ \A i \in Files : new[i] = IF f[i] # NoFile THEN f[i] ELSE << >>
    BY Zenon, <2>5, LogIs
  <2>7. Ordered(log, writer, t) BY Zenon DEF History
  <2> HIDE DEF log, new
  <2>8. new[writer] = log[writer] \o p
    BY Zenon, <1>2, <1>3, <2>1, <2>3, <2>5, <2>6 DEF more
  <2>9. \A k \in Parts \ {writer} : new[k] = log[k] BY Zenon, <1>2, <2>5, <2>6, PartsAre
  <2>10. \A j \in 0 .. writer - 1 : log[j] = << >>
    <3>1. \A j \in 0 .. writer - 1 : j \in Files /\ files[j] = NoFile
      BY <1>3, PartsAre, Indices DEF LastFile, Exists
    <3> QED BY Zenon, <1>2, <3>1
  <2>11. Beginning(p, log[Buffered]) BY Zenon, <1>2
  <2>12. /\ Ordered(new, writer, t \cup Range(p)) /\ Events(new) = Events(log)
         /\ EventsIn(log, Files) \subseteq EventsIn(new, Files)
    BY Zenon, <1>2, <1>3, <2>6, <2>7, <2>8, <2>9, <2>10, <2>11, TornInOrder
  <2>13. History(new, writer, t \cup Range(p), n, d) BY Zenon, <2>12 DEF History, log
  <2> QED BY Zenon, <1>3, <2>1, <2>3, <2>5, <2>12, <2>13 DEF f, log, new
<1>4. CASE writer \notin Files
  <2>1. f = files BY Zenon, <1>1, <1>4 DEF Written
  <2>2. \A i, j, a, c : Fits(log, writer, t, i, a, j, c) => Fits(log, writer, t \cup Range(p), i, a, j, c)
    BY Zenon DEF Fits
  <2>3. Ordered(log, writer, t) BY Zenon DEF History
  <2>4. Ordered(log, writer, t \cup Range(p))
    <3> HIDE DEF log
    <3> QED BY Zenon, <2>2, <2>3, OrderedIs
  <2>5. History(log, writer, t \cup Range(p), n, d) BY Zenon, <2>4 DEF History
  <2> QED BY Zenon, <1>1, <2>1, <2>5
<1> QED BY Zenon, <1>3, <1>4

(* The backups purge() counts end below the first index that is free. *)
LEMMA ContiguousEnds ==
  ASSUME MaxIndex \notin Contiguous, NEW k \in 0 .. MaxIndex, Contiguous = MinIndex .. k
  PROVE  k \in 0 .. MaxIndex - 1 /\ ~Exists(k + 1) /\ \A j \in 1 .. k : Exists(j)
<1>1. k \in 0 .. MaxIndex - 1 BY Indices
<1>2. \A j \in 1 .. k : j \in Contiguous /\ j \in 1 .. j BY Indices
<1>3. \A j \in 1 .. k : Exists(j) BY Zenon, <1>2, Indices DEF Contiguous
<1>4. k + 1 \in 1 .. MaxIndex /\ k + 1 \notin Contiguous BY <1>1, Indices
<1>5. \A j \in 1 .. k + 1 : j = k + 1 \/ j \in 1 .. k BY <1>1
<1>6. ~Exists(k + 1) BY Zenon, <1>3, <1>4, <1>5, Indices DEF Contiguous
<1> QED BY Zenon, <1>1, <1>3, <1>6

(* The log that files and buffer make up, before and after a step. *)
LEMMA LogNow ==
  /\ Log = LogOf(files, buffer) /\ Log' = LogOf(files', buffer')
  /\ Kept = Events(Log) /\ OnDisk = EventsIn(Log, Files)
  /\ Kept' = Events(Log') /\ OnDisk' = EventsIn(Log', Files)
BY Zenon DEF Log, LogOf, Exists, Kept, OnDisk, Events, Parts

(* An empty file holds as much as none. *)
LEMMA SameLog ==
  ASSUME NEW f \in [Files -> Contents], NEW g \in [Files -> Contents], NEW b,
         \A i \in Files : g[i] = f[i] \/ (f[i] = NoFile /\ g[i] = << >>)
  PROVE  LogOf(g, b) = LogOf(f, b)
<1>1. << >> # NoFile BY Zenon, EmptyIs, Indices
<1>2. \A i \in Parts : i # Buffered =>
        (IF g[i] # NoFile THEN g[i] ELSE << >>) = (IF f[i] # NoFile THEN f[i] ELSE << >>)
  BY Zenon, <1>1, PartsAre
<1> QED BY Zenon, <1>2 DEF LogOf

(* A rename that overwrites nothing loses nothing, and the stream goes on  *)
(* writing to the last file.                                               *)
LEMMA HistoryRenamed ==
  ASSUME LogType, Open, LastFile, NEW i \in Files, i + 1 \in Files, Exists(i), ~Exists(i + 1),
         NEW b \in Seq(Nat), NEW t, NEW n \in Nat, NEW d,
         History(LogOf(files, b), writer, t, n, d)
  PROVE  /\ History(LogOf(Renamed(files, i), b), Follow(writer, i), t, n, d)
         /\ EventsIn(LogOf(Renamed(files, i), b), Files) = EventsIn(LogOf(files, b), Files)
         /\ \A j \in Files : Renamed(files, i)[j] =
              IF j = i THEN NoFile ELSE IF j = i + 1 THEN files[i] ELSE files[j]
         /\ Follow(writer, i) # Unlinked
         /\ Follow(writer, i) \in Files =>
              \A j \in 0 .. Follow(writer, i) - 1 : Renamed(files, i)[j] = NoFile
         /\ Follow(writer, i) = NoStream <=> writer = NoStream
<1> DEFINE log == LogOf(files, b)  f == Renamed(files, i)  new == LogOf(f, b)
<1>1. files \in [Files -> Contents] /\ NoFile \in Contents /\ i \in Nat /\ i + 1 <= MaxIndex
  BY Indices DEF LogType, Contents
<1>2. \A j \in Files : f[j] = IF j = i THEN NoFile ELSE IF j = i + 1 THEN files[i] ELSE files[j]
  BY Zenon, <1>1 DEF Renamed
<1>3. f \in [Files -> Contents] BY Zenon, <1>1 DEF Renamed
<1> HIDE DEF f
<1>4. /\ log \in Logs /\ log[Buffered] = b
      /\ \A k \in Files : log[k] = IF files[k] # NoFile THEN files[k] ELSE << >>
  BY Zenon, <1>1, LogIs
<1>5. /\ new \in Logs /\ new[Buffered] = b
      /\ \A k \in Files : new[k] = IF f[k] # NoFile THEN f[k] ELSE << >>
  BY Zenon, <1>3, LogIs
<1>6. Ordered(log, writer, t) BY Zenon DEF History
<1> HIDE DEF log, new
<1>7. log[i + 1] = << >> /\ new[i + 1] = log[i] /\ new[i] = << >>
  BY Zenon, <1>1, <1>2, <1>4, <1>5 DEF Exists
<1>8. \A k \in Parts \ {i, i + 1} : new[k] = log[k] BY Zenon, <1>2, <1>4, <1>5, PartsAre
<1>9. /\ Ordered(new, Follow(writer, i), t)
      /\ EventsIn(new, Files) = EventsIn(log, Files) /\ Events(new) = Events(log)
  BY Zenon, <1>4, <1>5, <1>6, <1>7, <1>8, RenamedInOrder
<1>10. History(new, Follow(writer, i), t, n, d) BY Zenon, <1>9 DEF History, log
<1>11. /\ writer \in Files \cup {NoStream, Unlinked} /\ writer # Unlinked
       /\ writer # i + 1 /\ (writer \in Files => writer <= i)
  <2>1. writer \in Files \cup {NoStream, Unlinked} BY Zenon DEF LogType
  <2>2. writer # Unlinked BY Zenon DEF LastFile
  <2>3. writer # i + 1 BY Zenon DEF Open
  <2>4. writer \in Files => ~(i < writer)
    BY <1>1, PartsAre DEF LastFile
  <2> QED BY <1>1, <2>1, <2>2, <2>3, <2>4, PartsAre
<1>12. Follow(writer, i) # Unlinked /\ (Follow(writer, i) = NoStream <=> writer = NoStream)
  BY <1>1, <1>11, Indices DEF Follow, NoStream
<1>13. ASSUME Follow(writer, i) \in Files, NEW j \in 0 .. Follow(writer, i) - 1
       PROVE  f[j] = NoFile
  <2>1. writer \in Files /\ Follow(writer, i) = IF writer = i THEN i + 1 ELSE writer
    BY Zenon, <1>11, <1>13, Indices DEF Follow
  <2>2. writer \in Nat BY Zenon, <2>1, PartsAre
  <2>3. CASE writer = i
    <3>1. j \in 0 .. i /\ j \in Files BY <1>1, <1>13, <2>1, <2>3, Indices
    <3>2. CASE j = i BY Zenon, <1>2, <3>1, <3>2
    <3>3. CASE j # i
      <4>1. j \in 0 .. writer - 1 BY <1>1, <2>3, <3>1, <3>3
      <4>2. files[j] = NoFile BY Zenon, <2>1, <4>1 DEF LastFile, Exists
      <4> QED BY <1>1, <1>2, <3>1, <3>3, <4>2
    <3> QED BY Zenon, <3>2, <3>3
  <2>4. CASE writer # i
    <3>1. j \in 0 .. writer - 1 /\ j \in Files /\ j < i
      BY <1>1, <1>11, <1>13, <2>1, <2>2, <2>4, Indices
    <3>2. files[j] = NoFile BY Zenon, <2>1, <3>1 DEF LastFile, Exists
    <3> QED BY <1>1, <1>2, <3>1, <3>2
  <2> QED BY Zenon, <2>3, <2>4
<1> QED BY Zenon, <1>2, <1>9, <1>10, <1>12, <1>13 DEF f, log, new

(* What is buffered does not matter to the disk. *)
LEMMA DiskOf ==
  ASSUME NEW f \in [Files -> Contents], NEW b \in Seq(Nat), NEW c \in Seq(Nat)
  PROVE  EventsIn(LogOf(f, c), Files) = EventsIn(LogOf(f, b), Files)
<1> DEFINE log == LogOf(f, b)  new == LogOf(f, c)
<1>1. log \in Logs /\ \A i \in Files : log[i] = IF f[i] # NoFile THEN f[i] ELSE << >>
  BY Zenon, LogIs
<1>2. new \in Logs /\ \A i \in Files : new[i] = IF f[i] # NoFile THEN f[i] ELSE << >>
  BY Zenon, LogIs
<1> HIDE DEF log, new
<1>3. \A k \in Parts \ {Buffered} : new[k] = log[k] BY Zenon, <1>1, <1>2, PartsAre
<1>4. Files \subseteq Parts /\ Buffered \notin Files /\ Buffered \in Parts BY Zenon, PartsAre
<1>5. \A S : S \subseteq Parts /\ Buffered \notin S => EventsIn(new, S) = EventsIn(log, S)
  BY Zenon, <1>1, <1>2, <1>3, <1>4, OtherPartsSame
<1>6. EventsIn(new, Files) = EventsIn(log, Files) BY Zenon, <1>4, <1>5
<1> QED BY Zenon, <1>6 DEF log, new

(* An event is added to the buffer. *)
LEMMA HistoryBuffered ==
  ASSUME NEW f \in [Files -> Contents], NEW b \in Seq(Nat), NEW w, NEW t, NEW n \in Nat, NEW d,
         History(LogOf(f, b), w, t, n, d)
  PROVE  History(LogOf(f, Append(b, n)), w, t, n + 1, d)
<1> DEFINE log == LogOf(f, b)  c == Append(b, n)  new == LogOf(f, c)
<1>1. /\ log \in Logs /\ log[Buffered] = b
      /\ \A i \in Files : log[i] = IF f[i] # NoFile THEN f[i] ELSE << >>
  BY Zenon, LogIs
<1>2. c \in Seq(Nat) BY Zenon, AppendIs
<1> HIDE DEF c
<1>3. /\ new \in Logs /\ new[Buffered] = c
      /\ \A i \in Files : new[i] = IF f[i] # NoFile THEN f[i] ELSE << >>
  BY Zenon, <1>2, LogIs
<1>4. History(log, w, t, n, d) BY Zenon
<1> HIDE DEF log, new
<1>5. \A k \in Parts \ {Buffered} : new[k] = log[k] BY Zenon, <1>1, <1>3, PartsAre
<1>6. new[Buffered] = Append(log[Buffered], n) BY Zenon, <1>1, <1>3 DEF c
<1>7. History(new, w, t, n + 1, d) BY Zenon, <1>1, <1>3, <1>4, <1>5, <1>6, HistoryAppended
<1> QED BY Zenon, <1>7 DEF new, c

(* The buffer is lost with its stream. *)
LEMMA HistoryUnbuffered ==
  ASSUME NEW f \in [Files -> Contents], NEW b \in Seq(Nat), NEW w, NEW v, NEW t, NEW n \in Nat, NEW d,
         History(LogOf(f, b), w, t, n, d)
  PROVE  History(LogOf(f, << >>), v, t, n, d \cup Range(b))
<1> DEFINE log == LogOf(f, b)  new == LogOf(f, << >>)
<1>1. /\ log \in Logs /\ log[Buffered] = b
      /\ \A i \in Files : log[i] = IF f[i] # NoFile THEN f[i] ELSE << >>
  BY Zenon, LogIs
<1>2. /\ new \in Logs /\ new[Buffered] = << >>
      /\ \A i \in Files : new[i] = IF f[i] # NoFile THEN f[i] ELSE << >>
  BY Zenon, EmptyIs, LogIs
<1>3. History(log, w, t, n, d) BY Zenon
<1> HIDE DEF log, new
<1>4. \A k \in Parts \ {Buffered} : new[k] = log[k] BY Zenon, <1>1, <1>2, PartsAre
<1>5. History(new, v, t, n, d \cup Range(log[Buffered]))
  BY Zenon, <1>1, <1>2, <1>3, <1>4, HistoryBufferLost
<1> QED BY Zenon, <1>1, <1>5 DEF new
-----------------------------------------------------------------------------
(* While the window is worked backwards the next index up is free, and     *)
(* there is no gap below; before the active file is renamed the first      *)
(* backup's name is free, and before a truncation the active file's is.    *)
WindowFree ==
  /\ pc = "rename" =>
       /\ index \in 0 .. MaxIndex - 1 /\ ~Exists(index + 1)
       /\ \A j \in 1 .. index : Exists(j)
  /\ pc = "renameActive" => ~Exists(1)
  /\ pc = "truncate" => ~Exists(Active)

(* Only a stream with room for it has anything in its buffer. *)
BufferUsed == bufferSize \in Nat /\ (writer = NoStream \/ bufferSize = 0 => buffer = << >>)

OrderInv ==
  /\ LenInv /\ WindowFree /\ LastFile /\ BufferUsed
  /\ History(LogOf(files, buffer), writer, torn, next, dropped)

(* What OnlyOldestDeleted says of a step. *)
OldestDeleted == \A e \in OnDisk \ OnDisk' : pc = "purge" /\ \A kept \in OnDisk' : e < kept

(* A stream that is closed, or opened on the active file. *)
LEMMA LastFileKept ==
  ASSUME LastFile, writer' \in {writer, NoStream, Active},
         writer' # Active => \A j \in Files : files'[j] # NoFile <=> files[j] # NoFile
  PROVE  LastFile'
<1>1. CASE writer' = Active BY <1>1, Indices DEF LastFile
<1>2. CASE writer' # Active
  <2>1. NoStream # Unlinked /\ NoStream \notin Files BY Indices DEF NoStream
  <2>2. \A i \in Files : \A j \in 0 .. i - 1 : j \in Files BY Indices
  <2>3. CASE writer' = NoStream BY Zenon, <2>1, <2>3 DEF LastFile
  <2>4. CASE writer' = writer
    <3>1. \A j \in Files : Exists(j)' <=> Exists(j) BY Zenon, <1>2 DEF Exists
    <3> QED BY Zenon, <2>2, <2>4, <3>1 DEF LastFile
  <2> QED BY Zenon, <1>2, <2>3, <2>4
<1> QED BY Zenon, <1>1, <1>2

(* closeWriter loses nothing, whether or not the flush succeeds. *)
LEMMA CloseKeeps ==
  ASSUME OrderInv, CloseWriter, UNCHANGED <<bufferSize, next, dropped>>
  PROVE  /\ LastFile' /\ BufferUsed'
         /\ \A j \in Files : Exists(j)' <=> Exists(j)
         /\ History(LogOf(files', buffer'), writer', torn', next', dropped')
         /\ EventsIn(LogOf(files, buffer), Files) \subseteq EventsIn(LogOf(files', buffer'), Files)
<1>1. /\ LogType /\ Open /\ LastFile /\ BufferUsed
      /\ History(LogOf(files, buffer), writer, torn, next, dropped)
      /\ buffer \in Seq(Nat) /\ next \in Nat
      /\ writer = NoStream => buffer = << >>
  BY Zenon DEF OrderInv, LenInv, LogType, BufferUsed
<1>2. ASSUME NEW part \in Partial(buffer), files' = Written(files, part),
             torn' = torn \cup Range(part), UNCHANGED <<writer, buffer>>
      PROVE  /\ LastFile' /\ BufferUsed'
             /\ \A j \in Files : Exists(j)' <=> Exists(j)
             /\ History(LogOf(files', buffer'), writer', torn', next', dropped')
             /\ EventsIn(LogOf(files, buffer), Files) \subseteq EventsIn(LogOf(files', buffer'), Files)
  <2>1. Beginning(part, buffer) BY Zenon, <1>1, PartialIs
  <2>2. /\ \A i \in Files : files'[i] # NoFile <=> files[i] # NoFile
        /\ History(LogOf(files', buffer), writer, torn', next, dropped)
        /\ EventsIn(LogOf(files, buffer), Files) \subseteq EventsIn(LogOf(files', buffer), Files)
    BY Zenon, <1>1, <1>2, <2>1, HistoryTorn
  <2>3. LastFile' BY Zenon, <1>1, <1>2, <2>2, LastFileKept
  <2>4. BufferUsed' BY Zenon, <1>1, <1>2 DEF BufferUsed
  <2> QED BY Zenon, <1>2, <2>2, <2>3, <2>4 DEF Exists
<1>3. CASE files' = Written(files, buffer) /\ writer' = NoStream /\ buffer' = << >> /\ torn' = torn
  <2>1. /\ \A i \in Files : files'[i] # NoFile <=> files[i] # NoFile
        /\ History(LogOf(files', << >>), NoStream, torn, next, dropped)
        /\ EventsIn(LogOf(files, buffer), Files) \subseteq EventsIn(LogOf(files', << >>), Files)
    BY Zenon, <1>1, <1>3, HistoryFlushed
  <2>2. LastFile' BY Zenon, <1>1, <1>3, <2>1, LastFileKept
  <2>3. BufferUsed' BY Zenon, <1>1, <1>3 DEF BufferUsed
  <2> QED BY Zenon, <1>3, <2>1, <2>2, <2>3 DEF Exists
<1> QED BY Zenon, <1>2, <1>3 DEF CloseWriter

(* Every step keeps the order of the log and what it has, and only purge   *)
(* deletes events.                                                         *)
LEMMA OrderNext == OrderInv /\ [Next]_vars => OrderInv' /\ OldestDeleted
<1> SUFFICES ASSUME OrderInv, [Next]_vars PROVE OrderInv' /\ OldestDeleted
  BY Zenon
<1> DEFINE Disk == EventsIn(LogOf(files, buffer), Files)
           Disk2 == EventsIn(LogOf(files', buffer'), Files)
           Hist2 == History(LogOf(files', buffer'), writer', torn', next', dropped')
<1>0. /\ LenInv /\ LenInv' /\ LogType /\ LogType' /\ Open /\ LastFile /\ BufferUsed /\ WindowFree
      /\ History(LogOf(files, buffer), writer, torn, next, dropped)
  BY Zenon, LenNext DEF OrderInv, LenInv
<1>a. /\ files \in [Files -> Contents] /\ files' \in [Files -> Contents]
      /\ buffer \in Seq(Nat) /\ buffer' \in Seq(Nat) /\ next \in Nat /\ next' \in Nat
      /\ writer \in Files \cup {NoStream, Unlinked} /\ << >> \in Seq(Nat)
  BY Zenon, <1>0, EmptyIs DEF LogType
<1>b. OnDisk = Disk /\ OnDisk' = Disk2 BY Zenon, LogNow
<1>c. LogOf(files, buffer) \in Logs BY Zenon, <1>a, LogIs
<1>d. (\A e \in Disk \ Disk2 : pc = "purge" /\ \A kept \in Disk2 : e < kept) => OldestDeleted
  BY Zenon, <1>b DEF OldestDeleted
<1>e. Hist2 /\ WindowFree' /\ LastFile' /\ BufferUsed' => OrderInv'
  BY Zenon, <1>0 DEF OrderInv
<1>f. writer = NoStream \/ bufferSize = 0 => buffer = << >> BY Zenon, <1>0 DEF BufferUsed
<1> HIDE DEF Disk, Disk2, Hist2
<1>1. CASE Activate
  <2>1. /\ pc = "down" /\ pc' = "idle" /\ bufferSize' \in BufferSizes
        /\ UNCHANGED <<buffer, next, dropped, torn>>
    BY Zenon, <1>1 DEF Activate, historyVars
  <2>2. buffer = << >> /\ buffer' = << >> BY Zenon, <1>0, <2>1 DEF LenInv
  <2>3. \/ UNCHANGED <<files, writer>>
        \/ writer' = Active /\ files' = [files EXCEPT ![Active] = IF Exists(Active) THEN @ ELSE << >>]
    BY Zenon, <1>1 DEF Activate
  <2>4. \A i \in Files : files'[i] = files[i] \/ (files[i] = NoFile /\ files'[i] = << >>)
    BY Zenon, <1>a, <2>3 DEF Exists
  <2>5. LogOf(files', buffer) = LogOf(files, buffer) BY Zenon, <1>a, <2>4, SameLog
  <2>a. History(LogOf(files, buffer), writer', torn, next, dropped)
    <3>1. LogOf(files, buffer)[Buffered] = << >> BY Zenon, <1>a, <2>2, LogIs
    <3>2. Ordered(LogOf(files, buffer), writer', torn)
      BY Zenon, <1>0, <1>c, <3>1, EmptiedInOrder DEF History
    <3> QED BY Zenon, <1>0, <3>2 DEF History
  <2>6. Hist2 /\ Disk2 = Disk BY Zenon, <2>a, <2>1, <2>5 DEF Hist2, Disk, Disk2
  <2>7. LastFile' BY Zenon, <1>0, <2>3, LastFileKept
  <2>8. WindowFree' /\ BufferUsed' BY Zenon, <2>1, <2>2, RollingAssumption DEF WindowFree, BufferUsed
  <2> QED BY Zenon, <1>d, <1>e, <2>6, <2>7, <2>8
<1>2. CASE DoAppend
  <2>1. /\ UNCHANGED <<files, buffer, writer, bufferSize, torn>>
        /\ pc' \in {"idle", "purge", "write"} /\ pc = "idle"
        /\ (next' = next + 1 /\ dropped' = dropped \cup {next}) \/ UNCHANGED <<next, dropped>>
    BY Zenon, <1>2 DEF DoAppend, streamVars, historyVars
  <2>2. Disk2 = Disk BY Zenon, <2>1 DEF Disk, Disk2
  <2>3. Hist2
    <3>1. History(LogOf(files, buffer), writer, torn, next + 1, dropped \cup {next})
      BY Zenon, <1>0, <1>a, <1>c, HistoryGaveUp
    <3> QED BY Zenon, <1>0, <2>1, <3>1 DEF Hist2
  <2>4. LastFile' BY Zenon, <1>0, <2>1, LastFileKept
  <2>5. WindowFree' /\ BufferUsed' BY Zenon, <1>0, <2>1 DEF WindowFree, BufferUsed
  <2> QED BY Zenon, <1>d, <1>e, <2>2, <2>3, <2>4, <2>5
<1>3. CASE Purge
  <2>1. /\ pc = "purge" /\ UNCHANGED <<buffer, bufferSize, next, dropped, torn>>
    BY Zenon, <1>3 DEF Purge, historyVars
  <2>2. CASE UNCHANGED <<files, writer>>
    <3>1. Disk2 = Disk /\ Hist2 BY Zenon, <1>0, <2>1, <2>2 DEF Disk, Disk2, Hist2
    <3>2. LastFile' /\ BufferUsed' BY Zenon, <1>0, <2>1, <2>2, LastFileKept DEF BufferUsed
    <3>3. CASE pc' = "write" BY Zenon, <1>d, <1>e, <3>1, <3>2, <3>3 DEF WindowFree
    <3>4. CASE /\ MaxIndex \notin Contiguous /\ pc' = "rename"
               /\ index' \in {k \in 0 .. MaxIndex : Contiguous = MinIndex .. k}
      <4>1. index' \in 0 .. MaxIndex - 1 /\ ~Exists(index' + 1) /\ \A j \in 1 .. index' : Exists(j)
        BY Zenon, <3>4, ContiguousEnds
      <4>2. WindowFree' BY Zenon, <2>2, <3>4, <4>1 DEF WindowFree, Exists
      <4> QED BY Zenon, <1>d, <1>e, <3>1, <3>2, <4>2
    <3>5. CASE MaxIndex \in Contiguous /\ files' = [files EXCEPT ![MaxIndex] = NoFile]
      <4>1. Exists(MaxIndex) BY Zenon, <3>5, Indices DEF Contiguous
      <4>2. MaxIndex \in Files BY Indices
      <4> QED BY Zenon, <1>a, <2>2, <3>5, <4>1, <4>2 DEF Exists
    <3> QED BY Zenon, <1>3, <3>3, <3>4, <3>5 DEF Purge
  <2>3. CASE /\ MaxIndex \in Contiguous /\ files' = [files EXCEPT ![MaxIndex] = NoFile]
             /\ writer' = IF writer = MaxIndex THEN Unlinked ELSE writer
             /\ index' = MaxIndex - 1 /\ pc' = "rename"
    <3>1. \A j \in 1 .. MaxIndex : Exists(j) BY Zenon, <2>3, Indices DEF Contiguous
    <3>2. \A j \in Files : files'[j] = IF j = MaxIndex THEN NoFile ELSE files[j]
      BY Zenon, <1>a, <2>3
    <3>3. WindowFree'
      <4>1. index' \in 0 .. MaxIndex - 1 /\ index' + 1 = MaxIndex /\ MaxIndex \in Files
        BY <2>3, Indices
      <4>2. \A j \in 1 .. index' : j \in 1 .. MaxIndex /\ j \in Files /\ j # MaxIndex
        BY <2>3, Indices
      <4>3. files'[index' + 1] = NoFile BY Zenon, <3>2, <4>1 DEF Exists
      <4>4. \A j \in 1 .. index' : Exists(j)' BY Zenon, <3>1, <3>2, <4>2 DEF Exists
      <4> QED BY Zenon, <2>3, <4>1, <4>3, <4>4 DEF WindowFree, Exists
    <3>4. LastFile'
      <4>1. \A j \in Files : ~Exists(j) => ~Exists(j)' BY Zenon, <3>2 DEF Exists
      <4>2. \A i \in Files : \A j \in 0 .. i - 1 : j \in Files BY Indices
      <4>3. \A j \in Files : j = MaxIndex \/ j \in 0 .. MaxIndex - 1 BY Indices
      <4>4. ~Exists(MaxIndex)' BY <3>2, Indices DEF Exists
      <4>5. CASE writer = MaxIndex
        <5>1. writer' = Unlinked /\ Unlinked \notin Files /\ writer \in Files
          BY <2>3, <4>5, Indices
        <5>2. \A j \in Files : ~Exists(j)'
          BY Zenon, <1>0, <4>1, <4>2, <4>3, <4>4, <4>5, <5>1 DEF LastFile
        <5> QED BY Zenon, <5>1, <5>2 DEF LastFile
      <4>6. CASE writer # MaxIndex
        BY Zenon, <1>0, <2>3, <4>1, <4>2, <4>6 DEF LastFile
      <4> QED BY Zenon, <4>5, <4>6
    <3>5. BufferUsed'
      <4>1. writer' = NoStream => writer = NoStream
        BY <2>3, Indices DEF NoStream
      <4> QED BY Zenon, <1>0, <2>1, <4>1 DEF BufferUsed
    <3>6. Hist2 /\ \A e \in Disk \ Disk2 : \A kept \in Disk2 : e < kept
      <4> DEFINE log == LogOf(files, buffer)  new == LogOf(files', buffer')
      <4>1. /\ log \in Logs /\ log[Buffered] = buffer
            /\ \A k \in Files : log[k] = IF files[k] # NoFile THEN files[k] ELSE << >>
        BY Zenon, <1>a, LogIs
      <4>2. /\ new \in Logs /\ new[Buffered] = buffer'
            /\ \A k \in Files : new[k] = IF files'[k] # NoFile THEN files'[k] ELSE << >>
        BY Zenon, <1>a, LogIs
      <4>3. History(log, writer, torn, next, dropped) BY Zenon, <1>0
      <4> HIDE DEF log, new
      <4>4. new[MaxIndex] = << >> BY <3>2, <4>2, Indices
      <4>5. \A k \in Parts \ {MaxIndex} : new[k] = log[k]
        BY Zenon, <2>1, <3>2, <4>1, <4>2, PartsAre
      <4>6. /\ History(new, writer', torn, next, dropped)
            /\ \A e \in EventsIn(log, Files) \ EventsIn(new, Files) :
                 \A kept \in EventsIn(new, Files) : e < kept
        BY Zenon, <1>a, <2>3, <4>1, <4>2, <4>3, <4>4, <4>5, HistoryPurged
      <4> QED BY Zenon, <2>1, <4>6 DEF Disk, Disk2, Hist2, log, new
    <3> QED BY Zenon, <1>d, <1>e, <2>1, <3>3, <3>4, <3>5, <3>6
  <2> QED BY Zenon, <1>3, <2>2, <2>3 DEF Purge
<1>4. CASE RenameBackup
  <2>1. /\ pc = "rename" /\ index >= 1 /\ UNCHANGED <<buffer, bufferSize, next, dropped, torn>>
    BY Zenon, <1>4, Indices DEF RenameBackup, historyVars
  <2>2. CASE pc' = "write" /\ UNCHANGED <<files, writer>>
    <3>1. Disk2 = Disk /\ Hist2 BY Zenon, <1>0, <2>1, <2>2 DEF Disk, Disk2, Hist2
    <3>2. LastFile' /\ BufferUsed' BY Zenon, <1>0, <2>1, <2>2, LastFileKept DEF BufferUsed
    <3> QED BY Zenon, <1>d, <1>e, <2>2, <3>1, <3>2 DEF WindowFree
  <2>3. CASE /\ files' = Renamed(files, index) /\ writer' = Follow(writer, index)
             /\ index' = index - 1 /\ pc' = "rename"
    <3>1. /\ index \in 1 .. MaxIndex - 1 /\ ~Exists(index + 1)
          /\ \A j \in 1 .. index : Exists(j)
      BY <1>0, <2>1 DEF WindowFree
    <3>2. index \in Files /\ index + 1 \in Files /\ Exists(index) BY <3>1, Indices
    <3>3. /\ Hist2 /\ Disk2 = Disk /\ writer' # Unlinked
          /\ \A j \in Files : files'[j] =
               IF j = index THEN NoFile ELSE IF j = index + 1 THEN files[index] ELSE files[j]
          /\ writer' \in Files => \A j \in 0 .. writer' - 1 : files'[j] = NoFile
          /\ writer' = NoStream <=> writer = NoStream
      BY Zenon, <1>0, <1>a, <2>1, <2>3, <3>1, <3>2, HistoryRenamed DEF Hist2, Disk, Disk2
    <3>4. LastFile' BY Zenon, <3>3 DEF LastFile, Exists
    <3>5. WindowFree'
      <4>1. index' \in 0 .. MaxIndex - 1 /\ index' + 1 = index BY <2>3, <3>1, Indices
      <4>2. \A j \in 1 .. index' : j \in 1 .. index /\ j \in Files /\ j # index /\ j # index + 1
        BY <2>3, <3>1, Indices
      <4>3. files'[index' + 1] = NoFile BY Zenon, <3>2, <3>3, <4>1 DEF Exists
      <4>4. \A j \in 1 .. index' : Exists(j)' BY Zenon, <3>1, <3>3, <4>2 DEF Exists
      <4> QED BY Zenon, <2>3, <4>1, <4>3, <4>4 DEF WindowFree, Exists
    <3>6. BufferUsed' BY Zenon, <1>0, <2>1, <3>3 DEF BufferUsed
    <3> QED BY Zenon, <1>d, <1>e, <3>3, <3>4, <3>5, <3>6
  <2> QED BY Zenon, <1>4, <2>1, <2>2, <2>3 DEF RenameBackup
<1>5. CASE CloseActive
  <2>1. /\ pc = "rename" /\ index < 1 /\ pc' = "renameActive" /\ CloseWriter
        /\ UNCHANGED <<bufferSize, next, dropped>>
    BY Zenon, <1>5, Indices DEF CloseActive, historyVars
  <2>2. /\ LastFile' /\ BufferUsed' /\ (\A j \in Files : Exists(j)' <=> Exists(j))
        /\ Hist2 /\ Disk \subseteq Disk2
    BY Zenon, <2>1, CloseKeeps DEF Hist2, Disk, Disk2
  <2>3. index = 0 /\ ~Exists(1) /\ 1 \in Files BY <1>0, <2>1, Indices DEF WindowFree
  <2>4. WindowFree' BY Zenon, <2>1, <2>2, <2>3 DEF WindowFree
  <2> QED BY Zenon, <1>d, <1>e, <2>2, <2>4
<1>6. CASE RenameActive
  <2>1. pc = "renameActive" /\ UNCHANGED <<buffer, bufferSize, next, dropped, torn>>
    BY Zenon, <1>6 DEF RenameActive, historyVars
  <2>2. CASE pc' = "reopen" /\ UNCHANGED <<files, writer>>
    <3>1. Disk2 = Disk /\ Hist2 BY Zenon, <1>0, <2>1, <2>2 DEF Disk, Disk2, Hist2
    <3>2. LastFile' /\ BufferUsed' BY Zenon, <1>0, <2>1, <2>2, LastFileKept DEF BufferUsed
    <3> QED BY Zenon, <1>d, <1>e, <2>2, <3>1, <3>2 DEF WindowFree
  <2>3. CASE /\ Exists(Active) /\ files' = Renamed(files, Active)
             /\ writer' = Follow(writer, Active) /\ pc' = "truncate"
    <3>1. Active \in Files /\ Active + 1 \in Files /\ ~Exists(Active + 1)
      BY <1>0, <2>1, Indices DEF WindowFree
    <3>2. /\ Hist2 /\ Disk2 = Disk /\ writer' # Unlinked
          /\ \A j \in Files : files'[j] =
               IF j = Active THEN NoFile ELSE IF j = Active + 1 THEN files[Active] ELSE files[j]
          /\ writer' \in Files => \A j \in 0 .. writer' - 1 : files'[j] = NoFile
          /\ writer' = NoStream <=> writer = NoStream
      BY Zenon, <1>0, <1>a, <2>1, <2>3, <3>1, HistoryRenamed DEF Hist2, Disk, Disk2
    <3>3. LastFile' BY Zenon, <3>2 DEF LastFile, Exists
    <3>4. WindowFree' BY Zenon, <2>3, <3>1, <3>2 DEF WindowFree, Exists
    <3>5. BufferUsed' BY Zenon, <1>0, <2>1, <3>2 DEF BufferUsed
    <3> QED BY Zenon, <1>d, <1>e, <3>2, <3>3, <3>4, <3>5
  <2> QED BY Zenon, <1>6, <2>2, <2>3 DEF RenameActive
<1>7. CASE SetFile
  <2>1. pc \in {"truncate", "reopen"} /\ pc' = "write" /\ UNCHANGED <<bufferSize, next>>
    BY Zenon, <1>7 DEF SetFile
  <2>a. PICK flushed \in BOOLEAN, opened \in BOOLEAN :
          \E part \in IF flushed THEN {buffer} ELSE Partial(buffer) : Reopen(flushed, opened, part)
    BY Zenon, <1>7 DEF SetFile
  <2>b. PICK part \in IF flushed THEN {buffer} ELSE Partial(buffer) : Reopen(flushed, opened, part)
    BY Zenon, <2>a
  <2>2. /\ writer' = IF opened THEN Active ELSE IF flushed THEN NoStream ELSE writer
        /\ buffer' = IF opened \/ flushed THEN << >> ELSE buffer
        /\ torn' = IF flushed THEN torn ELSE torn \cup Range(part)
        /\ dropped' = IF opened /\ ~flushed THEN dropped \cup Range(buffer) ELSE dropped
    BY Zenon, <2>b DEF Reopen
  <2> DEFINE f == Written(files, part)
  <2>3. /\ f \in [Files -> Contents]
        /\ \A i \in Files : f[i] # NoFile <=> files[i] # NoFile
        /\ History(LogOf(f, buffer'), writer', torn', next', dropped')
        /\ Disk \subseteq EventsIn(LogOf(f, buffer'), Files)
    <3>1. CASE flushed
      <4>1. f = Written(files, buffer) /\ buffer' = << >> /\ dropped' = dropped /\ torn' = torn
        BY Zenon, <2>2, <2>b, <3>1
      <4> QED BY Zenon, <1>0, <1>a, <1>f, <2>1, <4>1, HistoryFlushed DEF Disk
    <3>2. CASE ~flushed
      <4>1. part \in Partial(buffer) /\ torn' = torn \cup Range(part) BY Zenon, <2>2, <2>b, <3>2
      <4>2. Beginning(part, buffer) BY Zenon, <1>a, <4>1, PartialIs
      <4>3. /\ f \in [Files -> Contents]
            /\ \A i \in Files : f[i] # NoFile <=> files[i] # NoFile
            /\ History(LogOf(f, buffer), writer, torn', next, dropped)
            /\ Disk \subseteq EventsIn(LogOf(f, buffer), Files)
        BY Zenon, <1>0, <1>a, <1>f, <4>1, <4>2, HistoryTorn DEF Disk
      <4> HIDE DEF f
      <4>4. CASE opened
        <5>1. buffer' = << >> /\ dropped' = dropped \cup Range(buffer) BY Zenon, <2>2, <3>2, <4>4
        <5>2. History(LogOf(f, << >>), writer', torn', next, dropped \cup Range(buffer))
          BY Zenon, <1>a, <4>3, HistoryUnbuffered
        <5>3. EventsIn(LogOf(f, << >>), Files) = EventsIn(LogOf(f, buffer), Files)
          BY Zenon, <1>a, <4>3, DiskOf
        <5> QED BY Zenon, <2>1, <4>3, <5>1, <5>2, <5>3
      <4>5. CASE ~opened
        <5>1. buffer' = buffer /\ dropped' = dropped /\ writer' = writer BY Zenon, <2>2, <3>2, <4>5
        <5> QED BY Zenon, <2>1, <4>3, <5>1
      <4> QED BY Zenon, <4>4, <4>5
    <3> QED BY Zenon, <3>1, <3>2
  <2>4. files' = [f EXCEPT ![Active] = IF ~opened THEN @
                             ELSE IF pc = "truncate" \/ ~Exists(Active) THEN << >> ELSE @]
    BY Zenon, <2>b DEF Reopen
  <2> HIDE DEF f
  <2>5. pc = "truncate" \/ ~Exists(Active) => f[Active] = NoFile
    BY Zenon, <1>0, <2>3, Indices DEF WindowFree, Exists
  <2>6. \A i \in Files : files'[i] = f[i] \/ (opened /\ f[i] = NoFile /\ files'[i] = << >>)
    BY Zenon, <2>3, <2>4, <2>5, Indices
  <2>c. \A i \in Files : files'[i] = f[i] \/ (f[i] = NoFile /\ files'[i] = << >>) BY Zenon, <2>6
  <2>7. LogOf(files', buffer') = LogOf(f, buffer') BY Zenon, <1>a, <2>3, <2>c, SameLog
  <2>8. Hist2 /\ Disk \subseteq Disk2 BY Zenon, <2>3, <2>7 DEF Hist2, Disk2
  <2>9. LastFile'
    <3>1. writer' # Active => \A j \in Files : files'[j] # NoFile <=> files[j] # NoFile
      BY Zenon, <2>2, <2>3, <2>6
    <3>2. writer' \in {writer, NoStream, Active} BY Zenon, <2>2
    <3> QED BY Zenon, <1>0, <3>1, <3>2, LastFileKept
  <2>10. BufferUsed' BY Zenon, <1>0, <2>1, <2>2 DEF BufferUsed
  <2> QED BY Zenon, <1>d, <1>e, <2>1, <2>8, <2>9, <2>10 DEF WindowFree
<1>8. CASE WriteEvent
  <2>1. /\ pc = "write" /\ pc' = "idle" /\ next' = next + 1
        /\ UNCHANGED <<writer, bufferSize>>
    BY Zenon, <1>8 DEF WriteEvent
  <2>2. WindowFree' BY Zenon, <2>1 DEF WindowFree
  <2>3. CASE dropped' = dropped \cup {next} /\ UNCHANGED <<files, buffer, torn>>
    <3>1. Hist2 /\ Disk2 = Disk
      BY Zenon, <1>0, <1>a, <1>c, <2>1, <2>3, HistoryGaveUp DEF Hist2, Disk, Disk2
    <3>2. LastFile' /\ BufferUsed' BY Zenon, <1>0, <2>1, <2>3, LastFileKept DEF BufferUsed
    <3> QED BY Zenon, <1>d, <1>e, <2>2, <3>1, <3>2
  <2>4. CASE /\ writer # NoStream /\ ~Overflow /\ buffer' = Append(buffer, next)
             /\ UNCHANGED <<files, dropped, torn>>
    <3>1. Hist2 BY Zenon, <1>0, <1>a, <2>1, <2>4, HistoryBuffered DEF Hist2
    <3>2. Disk2 = Disk BY Zenon, <1>a, <2>4, DiskOf DEF Disk, Disk2
    <3>3. Len(buffer) \in Nat /\ bufferSize \in Nat /\ bufferSize # 0
      <4>1. Len(buffer) \in Nat /\ bufferSize \in Nat BY <1>0, <1>a DEF BufferUsed
      <4> QED BY <2>4, <4>1 DEF Overflow
    <3>4. LastFile' /\ BufferUsed' BY Zenon, <1>0, <2>1, <2>4, <3>3, LastFileKept DEF BufferUsed
    <3> QED BY Zenon, <1>d, <1>e, <2>2, <3>1, <3>2, <3>4
  <2>5. CASE /\ writer # NoStream /\ files' = Written(files, Outgoing)
             /\ buffer' = (IF bufferSize = 0 THEN << >> ELSE << next >>) /\ UNCHANGED <<dropped, torn>>
    <3>0. << next >> = Append(<< >>, next) /\ << next >> \in Seq(Nat) BY <1>a
    <3>1. CASE bufferSize = 0
      <4>1. buffer = << >> /\ buffer' = << >> /\ files' = Written(files, << next >>)
        BY Zenon, <1>f, <2>5, <3>1 DEF Outgoing
      <4>2. History(LogOf(files, << next >>), writer, torn, next', dropped)
        BY Zenon, <1>0, <1>a, <2>1, <3>0, <4>1, HistoryBuffered
      <4>3. Disk = EventsIn(LogOf(files, << next >>), Files) BY Zenon, <1>a, <3>0, DiskOf DEF Disk
      <4>4. /\ \A i \in Files : files'[i] # NoFile <=> files[i] # NoFile
            /\ History(LogOf(files', << >>), writer, torn, next', dropped)
            /\ Disk \subseteq EventsIn(LogOf(files', << >>), Files)
        BY Zenon, <1>0, <1>a, <2>5, <3>0, <4>1, <4>2, <4>3, HistoryFlushed
      <4>5. LastFile' BY Zenon, <1>0, <2>1, <4>4, LastFileKept
      <4>6. BufferUsed' BY Zenon, <1>0, <2>1, <4>1 DEF BufferUsed
      <4>7. Hist2 /\ Disk \subseteq Disk2 BY Zenon, <2>1, <2>5, <4>1, <4>4 DEF Hist2, Disk2
      <4> QED BY Zenon, <1>d, <1>e, <2>2, <4>5, <4>6, <4>7
    <3>2. CASE bufferSize # 0
      <4>1. buffer' = << next >> /\ files' = Written(files, buffer)
        BY Zenon, <2>5, <3>2 DEF Outgoing
      <4>2. /\ \A i \in Files : files'[i] # NoFile <=> files[i] # NoFile
            /\ History(LogOf(files', << >>), writer, torn, next, dropped)
            /\ Disk \subseteq EventsIn(LogOf(files', << >>), Files)
        BY Zenon, <1>0, <1>a, <1>f, <4>1, HistoryFlushed DEF Disk
      <4>3. History(LogOf(files', << next >>), writer, torn, next', dropped)
        BY Zenon, <1>a, <2>1, <3>0, <4>2, HistoryBuffered
      <4>4. EventsIn(LogOf(files', << next >>), Files) = EventsIn(LogOf(files', << >>), Files)
        BY Zenon, <1>a, <3>0, DiskOf
      <4>5. LastFile' BY Zenon, <1>0, <2>1, <4>2, LastFileKept
      <4>6. BufferUsed' BY Zenon, <1>0, <2>1, <2>5, <3>2 DEF BufferUsed
      <4>7. Hist2 /\ Disk \subseteq Disk2 BY Zenon, <2>1, <2>5, <4>1, <4>2, <4>3, <4>4 DEF Hist2, Disk2
      <4> QED BY Zenon, <1>d, <1>e, <2>2, <4>5, <4>6, <4>7
    <3> QED BY Zenon, <3>1, <3>2
  <2>6. ASSUME writer # NoStream, NEW part \in Partial(Outgoing), files' = Written(files, part),
               torn' = torn \cup Range(part), dropped' = dropped \cup {next}, UNCHANGED buffer
        PROVE  OrderInv' /\ OldestDeleted
    <3>1. Beginning(part, buffer)
      <4>1. CASE bufferSize = 0
        <5>1. buffer = << >> /\ Outgoing = << next >> BY Zenon, <1>f, <4>1 DEF Outgoing
        <5>2. Partial(<< next >>) = {SubSeq(<< next >>, 1, k) : k \in 0 .. 0} BY DEF Partial
        <5>3. part = SubSeq(<< next >>, 1, 0) BY <2>6, <5>1, <5>2
        <5>4. part = << >> BY <5>3
        <5> QED BY <1>a, <5>1, <5>4 DEF Beginning
      <4>2. CASE bufferSize # 0 BY Zenon, <1>a, <2>6, <4>2, PartialIs DEF Outgoing
      <4> QED BY Zenon, <4>1, <4>2
    <3>2. /\ \A i \in Files : files'[i] # NoFile <=> files[i] # NoFile
          /\ History(LogOf(files', buffer), writer, torn', next, dropped)
          /\ Disk \subseteq EventsIn(LogOf(files', buffer), Files)
      BY Zenon, <1>0, <1>a, <1>f, <2>6, <3>1, HistoryTorn DEF Disk
    <3>3. LogOf(files', buffer) \in Logs BY Zenon, <1>a, LogIs
    <3>4. Hist2 /\ Disk \subseteq Disk2
      BY Zenon, <1>a, <2>1, <2>6, <3>2, <3>3, HistoryGaveUp DEF Hist2, Disk2
    <3>5. LastFile' /\ BufferUsed'
      BY Zenon, <1>0, <2>1, <2>6, <3>2, LastFileKept DEF BufferUsed
    <3> QED BY Zenon, <1>d, <1>e, <2>2, <3>4, <3>5
  <2> QED BY Zenon, <1>8, <2>3, <2>4, <2>5, <2>6 DEF WriteEvent
<1>9. CASE Close
  <2>1. /\ pc' = "down" /\ writer' = NoStream /\ buffer' = << >>
        /\ UNCHANGED <<bufferSize, next>>
    BY Zenon, <1>9 DEF Close
  <2>2. WindowFree' /\ BufferUsed' BY Zenon, <1>0, <2>1 DEF WindowFree, BufferUsed
  <2>3. CASE files' = Written(files, buffer) /\ UNCHANGED <<dropped, torn>>
    <3>1. /\ \A i \in Files : files'[i] # NoFile <=> files[i] # NoFile
          /\ Hist2 /\ Disk \subseteq Disk2
      BY Zenon, <1>0, <1>a, <1>f, <2>1, <2>3, HistoryFlushed DEF Disk, Disk2, Hist2
    <3>2. LastFile' BY Zenon, <1>0, <2>1, <3>1, LastFileKept
    <3> QED BY Zenon, <1>d, <1>e, <2>2, <3>1, <3>2
  <2>4. ASSUME NEW part \in Partial(buffer), files' = Written(files, part),
               torn' = torn \cup Range(part), dropped' = dropped \cup Range(buffer)
        PROVE  OrderInv' /\ OldestDeleted
    <3>1. Beginning(part, buffer) BY Zenon, <1>a, PartialIs
    <3>2. /\ \A i \in Files : files'[i] # NoFile <=> files[i] # NoFile
          /\ History(LogOf(files', buffer), writer, torn', next, dropped)
          /\ Disk \subseteq EventsIn(LogOf(files', buffer), Files)
      BY Zenon, <1>0, <1>a, <1>f, <2>4, <3>1, HistoryTorn DEF Disk
    <3>3. Hist2 BY Zenon, <1>a, <2>1, <2>4, <3>2, HistoryUnbuffered DEF Hist2
    <3>4. Disk \subseteq Disk2 BY Zenon, <1>a, <2>1, <3>2, DiskOf DEF Disk2
    <3>5. LastFile' BY Zenon, <1>0, <2>1, <3>2, LastFileKept
    <3> QED BY Zenon, <1>d, <1>e, <2>2, <3>3, <3>4, <3>5
  <2> QED BY Zenon, <1>9, <2>3, <2>4 DEF Close
<1>10. CASE Crash
  <2>1. /\ pc' = "down" /\ writer' = NoStream /\ buffer' = << >>
        /\ UNCHANGED <<bufferSize, files, torn>>
    BY Zenon, <1>10 DEF Crash
  <2>2. WindowFree' /\ BufferUsed' BY Zenon, <1>0, <2>1 DEF WindowFree, BufferUsed
  <2>3. Disk2 = Disk BY Zenon, <1>a, <2>1, DiskOf DEF Disk, Disk2
  <2>4. LastFile' BY Zenon, <1>0, <2>1, LastFileKept
  <2> DEFINE d == dropped \cup Range(buffer)
  <2>5. \/ next' = next /\ dropped' = d
        \/ next' = next + 1 /\ dropped' = d \cup {next}
    BY Zenon, <1>10 DEF Crash
  <2>6. History(LogOf(files, << >>), NoStream, torn, next, d) BY Zenon, <1>0, <1>a, HistoryUnbuffered
  <2>7. LogOf(files, << >>) \in Logs BY Zenon, <1>a, LogIs
  <2> HIDE DEF d
  <2>8. History(LogOf(files, << >>), NoStream, torn, next + 1, d \cup {next})
    BY Zenon, <1>a, <2>6, <2>7, HistoryGaveUp
  <2>9. Hist2 BY Zenon, <2>1, <2>5, <2>6, <2>8 DEF Hist2
  <2> QED BY Zenon, <1>d, <1>e, <2>2, <2>3, <2>4, <2>9
<1>11. CASE UNCHANGED vars
  <2>1. UNCHANGED <<files, writer, buffer, bufferSize, pc, index, next, dropped, torn>>
    BY Zenon, <1>11 DEF vars, streamVars, historyVars
  <2>2. Hist2 /\ Disk2 = Disk BY Zenon, <1>0, <2>1 DEF Hist2, Disk, Disk2
  <2>3. LastFile' BY Zenon, <1>0, <2>1, LastFileKept
  <2>4. WindowFree' /\ BufferUsed' BY Zenon, <1>0, <2>1 DEF WindowFree, BufferUsed, Exists
  <2> QED BY Zenon, <1>d, <1>e, <2>2, <2>3, <2>4
<1> QED
  BY Zenon, <1>1, <1>2, <1>3, <1>4, <1>5, <1>6, <1>7, <1>8, <1>9, <1>10, <1>11 DEF Next

(* OrderInv holds in every behaviour of the appender. *)
LEMMA OrderInvariant == Spec => []OrderInv
<1>1. Init => OrderInv
  <2> SUFFICES ASSUME Init PROVE OrderInv BY Zenon
  <2>1. LenInv BY Indices, EmptyIs DEF Init, LenInv, LogType, Open, Contents
  <2>2. WindowFree /\ BufferUsed BY Zenon, RollingAssumption DEF Init, WindowFree, BufferUsed
  <2>3. LastFile BY Indices DEF Init, LastFile, NoStream
  <2>4. History(LogOf(files, buffer), writer, torn, next, dropped)
    <3> DEFINE log == LogOf(files, buffer)
    <3>1. files \in [Files -> Contents] /\ buffer \in Seq(Nat) BY Zenon, <2>1 DEF LenInv, LogType
    <3>2. \A i \in Files : files[i] = NoFile BY Zenon DEF Init
    <3>3. buffer = << >> BY Zenon DEF Init
    <3>4. /\ log \in Logs /\ log[Buffered] = << >>
          /\ \A i \in Files : log[i] = IF files[i] # NoFile THEN files[i] ELSE << >>
      BY Zenon, <3>1, <3>3, LogIs
    <3> HIDE DEF log
    <3>5. \A i \in Parts : log[i] = << >> BY Zenon, <3>2, <3>4, PartsAre
    <3>6. History(log, writer, torn, next, dropped) BY Zenon, <3>4, <3>5, HistoryOfNothing
    <3> QED BY Zenon, <3>6 DEF log
  <2> QED BY Zenon, <2>1, <2>2, <2>3, <2>4 DEF OrderInv
<1> QED BY <1>1, OrderNext, PTL DEF Spec

(* Read by number, the files and then the buffer give every event later    *)
(* than those before it, after any failed renames, reopenings and crashes, *)
(* but for the events of a write that failed half way: those are written   *)
(* to the same file once more, never to another.                           *)
THEOREM LogAlwaysInOrder == Spec => []LogInOrder
<1>1. OrderInv => LogInOrder BY Zenon, LogNow DEF OrderInv, History, LogInOrder
<1> QED BY <1>1, OrderInvariant, PTL

(* From its oldest event on, the log lacks only what the appender gave up. *)
THEOREM NoGapInLog == Spec => []NothingMissing
<1>1. OrderInv => NothingMissing
  BY Zenon, LogNow DEF OrderInv, History, NothingMissing
<1> QED BY <1>1, OrderInvariant, PTL

(* Only purge() deletes events, and only those older than all it keeps: no *)
(* rename lands on a file with events and no reopening truncates one.      *)
THEOREM OldestDeletedOnly == Spec => OnlyOldestDeleted
<1>1. OrderInv /\ [Next]_vars => [OldestDeleted]_vars BY Zenon, OrderNext
<1> QED BY <1>1, OrderInvariant, PTL DEF Spec, OnlyOldestDeleted, OldestDeleted
=============================================================================
