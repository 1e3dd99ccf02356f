----------------------------- MODULE RollingLog -----------------------------
(***************************************************************************)
(* The log file the server writes when its properties file names an        *)
(* org.apache.log4j.RollingFileAppender: the active file, its numbered     *)
(* backups and the rollover, with file operations that fail and a process  *)
(* that ends between any two of them.  doAppend holds the appender's mutex *)
(* for the whole of an append, so one event is in progress at a time.      *)
(*                                                                         *)
(* An event is its number and has length 1.  File 0 is the active file,    *)
(* file i its backup with suffix ".i".  OutputStreamWriter hands a buffer  *)
(* over in pieces of 1024 bytes; each reaches the file or fails, so that a *)
(* failing write may leave the first events of the buffer in the file.  An *)
(* event cut by the end of a piece counts with the piece that completes    *)
(* it.  Append has its default, true: activation never truncates the file. *)
(***************************************************************************)
EXTENDS Integers, Sequences, FiniteSets, Functions

CONSTANTS
  MaxFileSize,    \* the length at which the file is rolled over
  MaxBackupIndex, \* the number of backups asked for
  BufferSizes,    \* buffer sizes the appender may be configured with, 0 for none
  MaxEvents,      \* bound: events logged
  MaxFaults       \* bound: failing file operations and crashes

ASSUME RollingAssumption ==
  /\ MaxFileSize \in Nat \ {0} /\ MaxBackupIndex \in Nat
  /\ BufferSizes # {} /\ BufferSizes \subseteq Nat
  /\ MaxEvents \in Nat /\ MaxFaults \in Nat

(* activateOptions: the window always holds at least one backup. *)
MinIndex == 1
MaxIndex == IF MaxBackupIndex < MinIndex THEN MinIndex ELSE MaxBackupIndex

Active == 0
Files == Active .. MaxIndex
NoFile == << -1 >>          \* what a name with no file holds
NoStream == -1              \* the writer is NULL
Unlinked == MaxIndex + 1    \* the open file has been deleted

VARIABLES
  files,       \* what each file holds, oldest event first
  writer,      \* the file the open stream writes to
  buffer,      \* the BufferedWriter's characters
  bufferSize,  \* its size
  fileLength,  \* the appender's count of the active file's length
  pc,          \* where the append in progress is
  index,       \* the next file the rollover renames
  next,        \* the next event
  dropped,     \* events the appender gave up
  torn,        \* events a failing write had put into the file
  faults       \* failures so far

streamVars == <<writer, buffer, fileLength>>
historyVars == <<next, dropped, torn>>
vars == <<files, streamVars, bufferSize, pc, index, historyVars, faults>>

Exists(i) == files[i] # NoFile

Init ==
  /\ files = [i \in Files |-> NoFile]
  /\ writer = NoStream /\ buffer = << >> /\ fileLength = 0
  /\ bufferSize \in BufferSizes
  /\ pc = "down" /\ index = 0
  /\ next = 1 /\ dropped = {} /\ torn = {} /\ faults = 0

(* An operation of the file system succeeds, or fails within the bound. *)
Succeeds == UNCHANGED faults
Fails == faults < MaxFaults /\ faults' = faults + 1

(* A stream's write: the events go to its file, and the count grows. *)
Written(f, events) ==
  IF writer \in DOMAIN f THEN [f EXCEPT ![writer] = @ \o events] ELSE f

(* What a failing write of events may have put into the file. *)
Partial(events) == {SubSeq(events, 1, k) : k \in 0 .. Len(events) - 1}

CloseUnflushed ==
  /\ Succeeds /\ writer' = NoStream /\ buffer' = << >>
  /\ UNCHANGED <<files, fileLength, torn>>

(* closeWriter: the buffer is flushed and the stream closed.  When the     *)
(* flush fails the exception is caught and the writer stays as it was,     *)
(* with all of its buffer, also what has been written of it.  The close    *)
(* itself cannot fail: APR ignores what CloseHandle returns.               *)
CloseWriter ==
  \/ /\ Succeeds
     /\ files' = Written(files, buffer)
     /\ fileLength' = fileLength + Len(buffer)
     /\ writer' = NoStream /\ buffer' = << >> /\ UNCHANGED torn
  \/ /\ Fails
     /\ \E part \in Partial(buffer) :
          /\ files' = Written(files, part)
          /\ fileLength' = fileLength + Len(part)
          /\ torn' = torn \cup Range(part)
     /\ UNCHANGED <<writer, buffer>>
-----------------------------------------------------------------------------
ActivateUncounted ==
  /\ pc = "down" /\ pc' = "idle" /\ bufferSize' \in BufferSizes
  /\ fileLength' = 0 /\ Succeeds /\ writer' = Active
  /\ files' = [files EXCEPT ![Active] = IF Exists(Active) THEN @ ELSE << >>]
  /\ UNCHANGED <<buffer, index, historyVars>>

(* The appender is configured: the file is opened for appending, as the    *)
(* option Append has it unless set to false, and its length taken.  When   *)
(* it cannot be opened the appender has no writer.                         *)
Activate ==
  /\ pc = "down" /\ pc' = "idle"
  /\ bufferSize' \in BufferSizes
  /\ fileLength' = IF Exists(Active) THEN Len(files[Active]) ELSE 0
  /\ \/ /\ Succeeds /\ writer' = Active
        /\ files' = [files EXCEPT ![Active] = IF Exists(Active) THEN @ ELSE << >>]
     \/ /\ Fails /\ UNCHANGED <<files, writer>>
  /\ UNCHANGED <<buffer, index, historyVars>>

(* doAppend up to the rollover test: with no writer the event is dropped;  *)
(* at the size limit the rollover comes first.                             *)
DoAppend ==
  /\ pc = "idle" /\ next <= MaxEvents
  /\ IF writer = NoStream
       THEN /\ dropped' = dropped \cup {next} /\ next' = next + 1
            /\ UNCHANGED <<pc, torn>>
       ELSE /\ pc' = IF fileLength >= MaxFileSize THEN "purge" ELSE "write"
            /\ UNCHANGED historyVars
  /\ UNCHANGED <<files, streamVars, bufferSize, index, faults>>

(* The backups purge() meets: those from the first on with no gap. *)
Contiguous == {i \in MinIndex .. MaxIndex : \A j \in MinIndex .. i : Exists(j)}

(* purge: the file at the upper index is deleted; if that fails the        *)
(* rollover is given up and the event is written where it would have been. *)
Purge ==
  /\ pc = "purge"
  /\ IF MaxIndex \in Contiguous
       THEN \/ /\ Succeeds
               /\ files' = [files EXCEPT ![MaxIndex] = NoFile]
               /\ writer' = IF writer = MaxIndex THEN Unlinked ELSE writer
               /\ index' = MaxIndex - 1 /\ pc' = "rename"
            \/ /\ Fails /\ pc' = "write" /\ UNCHANGED <<files, writer, index>>
       ELSE /\ index' \in {k \in 0 .. MaxIndex : Contiguous = MinIndex .. k} /\ pc' = "rename"
            /\ UNCHANGED <<files, writer, faults>>
  /\ UNCHANGED <<buffer, fileLength, bufferSize, historyVars>>

(* File i becomes file i + 1, whatever that held; an open stream follows.  *)
Renamed(f, i) == [f EXCEPT ![i + 1] = f[i], ![i] = NoFile]
Follow(w, i) == IF w = i THEN i + 1 ELSE IF w = i + 1 THEN Unlinked ELSE w

RenameRegardless ==
  /\ pc = "rename" /\ index >= MinIndex /\ index' = index - 1
  /\ \/ /\ Succeeds /\ files' = Renamed(files, index) /\ writer' = Follow(writer, index)
     \/ /\ Fails /\ UNCHANGED <<files, writer>>
  /\ UNCHANGED <<buffer, fileLength, bufferSize, pc, historyVars>>

(* purge works its renames backwards; any that fails ends the rollover. *)
RenameBackup ==
  /\ pc = "rename" /\ index >= MinIndex
  /\ \/ /\ Succeeds
        /\ files' = Renamed(files, index) /\ writer' = Follow(writer, index)
        /\ index' = index - 1 /\ UNCHANGED pc
     \/ /\ Fails /\ pc' = "write" /\ UNCHANGED <<files, writer, index>>
  /\ UNCHANGED <<buffer, fileLength, bufferSize, historyVars>>

(* The backups are in place: the active file is closed. *)
CloseActive ==
  /\ pc = "rename" /\ index < MinIndex
  /\ CloseWriter
  /\ pc' = "renameActive"
  /\ UNCHANGED <<bufferSize, index, next, dropped>>

(* The active file is renamed to the first backup, and the count restarts; *)
(* if it cannot be, the old file is to be opened again for appending.      *)
RenameActive ==
  /\ pc = "renameActive"
  /\ \/ /\ Exists(Active) /\ Succeeds
        /\ files' = Renamed(files, Active) /\ writer' = Follow(writer, Active)
        /\ fileLength' = 0 /\ pc' = "truncate"
     \/ /\ IF Exists(Active) THEN Fails ELSE Succeeds
        /\ pc' = "reopen" /\ UNCHANGED <<files, writer, fileLength>>
  /\ UNCHANGED <<buffer, bufferSize, index, historyVars>>

(* setFile: a writer that is still there is closed, and when its flush     *)
(* fails once more its buffer is discarded with it.  The file is opened,   *)
(* truncated after a rename; when it cannot be opened the exception ends   *)
(* the rollover, with the writer closeWriter left.                         *)
Reopen(flushed, opened, part) ==
  LET f == Written(files, part)
  IN  /\ files' = [f EXCEPT ![Active] =
                     IF ~opened THEN @
                     ELSE IF pc = "truncate" \/ ~Exists(Active) THEN << >> ELSE @]
      /\ writer' = IF opened THEN Active ELSE IF flushed THEN NoStream ELSE writer
      /\ buffer' = IF opened \/ flushed THEN << >> ELSE buffer
      /\ fileLength' = fileLength + Len(part)
      /\ torn' = IF flushed THEN torn ELSE torn \cup Range(part)
      /\ dropped' = IF opened /\ ~flushed THEN dropped \cup Range(buffer) ELSE dropped

SetFile ==
  /\ pc \in {"truncate", "reopen"} /\ pc' = "write"
  /\ \E flushed \in BOOLEAN, opened \in BOOLEAN :
       /\ \E part \in IF flushed THEN {buffer} ELSE Partial(buffer) : Reopen(flushed, opened, part)
       /\ faults' = faults + Cardinality({b \in {<<1, flushed>>, <<2, opened>>} : ~b[2]})
       /\ faults' <= MaxFaults
  /\ UNCHANGED <<bufferSize, index, next>>

(* BufferedWriter::write for a message of length 1: a buffer that would    *)
(* overflow is written out, and a message larger than the buffer goes      *)
(* straight on.                                                            *)
Overflow == Len(buffer) + 1 > bufferSize
OutgoingNew == << next >>
Outgoing == IF bufferSize = 0 THEN << next >> ELSE buffer

(* WriterAppender::subAppend: the event is dropped if there is no writer,  *)
(* or if the write throws; the buffer is then kept as it was.              *)
WriteEvent ==
  /\ pc = "write" /\ pc' = "idle" /\ next' = next + 1
  /\ \/ /\ writer = NoStream /\ Succeeds
        /\ dropped' = dropped \cup {next} /\ UNCHANGED <<files, buffer, fileLength, torn>>
     \/ /\ writer # NoStream /\ ~Overflow /\ Succeeds
        /\ buffer' = Append(buffer, next)
        /\ UNCHANGED <<files, fileLength, dropped, torn>>
     \/ /\ writer # NoStream /\ Overflow /\ Succeeds
        /\ files' = Written(files, Outgoing)
        /\ fileLength' = fileLength + Len(Outgoing)
        /\ buffer' = IF bufferSize = 0 THEN << >> ELSE << next >>
        /\ UNCHANGED <<dropped, torn>>
     \/ /\ writer # NoStream /\ Overflow /\ Fails
        /\ \E part \in Partial(Outgoing) :
             /\ files' = Written(files, part)
             /\ fileLength' = fileLength + Len(part)
             /\ torn' = torn \cup Range(part)
        /\ dropped' = dropped \cup {next} /\ UNCHANGED buffer
  /\ UNCHANGED <<writer, bufferSize, index>>

(* The appender is destroyed when the program ends: it closes its writer. *)
Close ==
  /\ pc = "idle" /\ pc' = "down"
  /\ \/ /\ Succeeds /\ files' = Written(files, buffer) /\ UNCHANGED <<dropped, torn>>
     \/ /\ Fails
        /\ \E part \in Partial(buffer) :
             files' = Written(files, part) /\ torn' = torn \cup Range(part)
        /\ dropped' = dropped \cup Range(buffer)
  /\ writer' = NoStream /\ buffer' = << >> /\ fileLength' = 0
  /\ UNCHANGED <<bufferSize, index, next>>

(* The process ends anywhere: what was buffered is lost.  An end between   *)
(* two pieces of a write leaves what a failing write and this step leave.  *)
Crash ==
  /\ pc # "down" /\ Fails
  /\ pc' = "down" /\ writer' = NoStream /\ buffer' = << >>
  /\ dropped' = dropped \cup Range(buffer)
                \cup (IF pc = "idle" THEN {} ELSE {next})
  /\ next' = IF pc = "idle" THEN next ELSE next + 1
  /\ fileLength' = 0
  /\ UNCHANGED <<files, bufferSize, index, torn>>

Next ==
  \/ Activate \/ DoAppend \/ Purge \/ RenameBackup \/ CloseActive \/ RenameActive
  \/ SetFile \/ WriteEvent \/ Close \/ Crash

Spec == Init /\ [][Next]_vars
-----------------------------------------------------------------------------
(* The log as a reader puts it together: the oldest backup first, the      *)
(* active file last, and after it what is still buffered.                  *)
Buffered == -1
Log == [i \in Buffered .. MaxIndex |->
         IF i = Buffered THEN buffer ELSE IF Exists(i) THEN files[i] ELSE << >>]

EventsIn(log, parts) == UNION {Range(log[i]) : i \in parts}
OnDisk == EventsIn(Log, Files)
Kept == EventsIn(Log, Buffered .. MaxIndex)

(* Where an event e torn by a failing write may be met once more: in the   *)
(* file it went to, or in the buffer that this file's stream has kept.     *)
Again(log, w, i, j, e) ==
  /\ i # Buffered
  /\ i = j \/ (i = w /\ j = Buffered /\ e \in Range(log[Buffered]))

(* Every event of a log is later than those read before it. *)
Ordered(log, w, t) ==
  \A i, j \in Buffered .. MaxIndex :
    \A a \in 1 .. Len(log[i]), b \in 1 .. Len(log[j]) :
      i > j \/ (i = j /\ a < b) =>
        \/ log[i][a] < log[j][b]
        \/ Again(log, w, i, j, log[i][a]) /\ {log[i][a], log[j][b]} \subseteq t

(* The backups and the active file, read in the order of their numbers,    *)
(* give the events in the order they were logged and none twice, wherever  *)
(* a rename failed or the process ended half way through the window.  Only *)
(* what a failing write had put into a file is written there once more     *)
(* with the rest of the buffer; no event ever gets into two files.         *)
LogInOrder == Ordered(Log, writer, torn)

(* From the oldest event kept on, the log has every event but those the    *)
(* appender gave up, one by one: events logged while it had no writer      *)
(* after a failed reopening, an event whose own write failed, a buffer     *)
(* whose stream could not be flushed twice, and what a crash cut off.      *)
(* Renaming, purging and reopening by themselves lose no event between     *)
(* two others.                                                             *)
NothingMissing ==
  \A e \in Kept : \A later \in e .. next - 1 : later \in Kept \cup dropped

(* An event leaves the disk only when purge() deletes the last backup of   *)
(* the window, and then everything older has left before: no rename        *)
(* replaces a file that holds events, and no reopening truncates one.      *)
OnlyOldestDeleted ==
  [][\A e \in OnDisk \ OnDisk' : pc = "purge" /\ \A kept \in OnDisk' : e < kept]_vars

(* The length the trigger compares with MaxFileSize is never less than     *)
(* that of the file being written: no file outgrows its limit because      *)
(* bytes went uncounted across a reopening or a restart.                   *)
LengthCounted ==
  pc \in {"idle", "write"} /\ writer = Active => fileLength >= Len(files[Active])

(* "However appender should still be in good condition and the append      *)
(* should still happen" (rollingfileappender.cpp, of a rollover that       *)
(* fails): the event is written.  It is not when the file could not be     *)
(* opened again; see the README.                                           *)
AppendStillHappens == pc = "write" => writer # NoStream
=============================================================================
