--------------------------- MODULE RollingTextWriter ---------------------------
(***************************************************************************)
(* RollingTextWriter                                                       *)
(* (Essential.Diagnostics.RollingFileTraceListener/Diagnostics/            *)
(* RollingTextWriter.cs), in several processes whose templates give the    *)
(* same names.                                                             *)
(*                                                                         *)
(* A call computes the path of its trace from its time stamp, then takes   *)
(* _fileLock, makes sure that the writer is on that path and writes.  A    *)
(* new writer tries the path, then path-1, path-2 and so on.  Dispose      *)
(* takes no lock.  A path is here the period of time it stands for, and a  *)
(* file is a path and the number in its name, 0 for none.                  *)
(*                                                                         *)
(* The StreamWriter is external: what is written stays in its buffer until *)
(* the buffer fills up, or the writer is flushed or closed.  A process may *)
(* crash, and start again with a new writer.                               *)
(***************************************************************************)
EXTENDS Traces, Integers, Sequences, SequencesExt

CONSTANTS
  Proc,             \* the processes
  MaxStreamRetries, \* how many names are tried for a path
  MaxPeriod         \* bound: the last period

VARIABLES
  period,        \* the current period
  line,          \* the call of WriteLine for each trace
  fileLock,      \* for each process, the trace whose call holds _fileLock
  currentPath,   \* _currentPath of each process
  currentWriter, \* _currentWriter of each process
  disk,          \* the files
  flushed,       \* history: the traces written before a Flush that returned
  lost,          \* history: the traces lost in a crash or by a failing disk
  closedBy       \* history: the processes that called Dispose or saw a close fail

fileVars == <<period, line, fileLock, currentPath, currentWriter, disk, flushed, lost, closedBy>>

Path == 1..MaxPeriod
File == Path \X (0..(MaxStreamRetries - 1))

Writer == [file : File, open : BOOLEAN, buffer : Seq(Trace)]

ASSUME RollingAssumption ==
  /\ MaxStreamRetries \in Nat \ {0} /\ MaxPeriod \in Nat \ {0}
  /\ None \notin Path /\ None \notin Writer

RollingInit ==
  /\ period = 1
  /\ line = [t \in Trace |-> [pc |-> "unwritten", proc |-> None, path |-> 1, num |-> 0]]
  /\ fileLock = [p \in Proc |-> None]
  /\ currentPath = [p \in Proc |-> None]
  /\ currentWriter = [p \in Proc |-> None]
  /\ disk = [f \in File |-> <<>>]
  /\ flushed = {}
  /\ lost = {}
  /\ closedBy = {}

\* The next period begins.
NextPeriod ==
  /\ period < MaxPeriod
  /\ period' = period + 1
  /\ UNCHANGED <<line, fileLock, currentPath, currentWriter, disk, flushed, lost, closedBy>>

\* The path is computed outside the lock.
GetCurrentFilePath(p, t) ==
  /\ line[t].pc = "unwritten"
  /\ line' = [line EXCEPT ![t] = [pc |-> "pathed", proc |-> p, path |-> period, num |-> 0]]
  /\ UNCHANGED <<period, fileLock, currentPath, currentWriter, disk, flushed, lost, closedBy>>

--------------------------------------------------------------------------------
\* The stream writer, external to the repository.

IsOpen(p) == currentWriter[p] # None /\ currentWriter[p].open

\* What a writer still buffers reaches its file, or is lost because the disk
\* fails; stays says whether the writer stays open.
EmptyBuffer(p, works, stays) ==
  /\ currentWriter' = [currentWriter EXCEPT ![p] = [@ EXCEPT !.open = stays, !.buffer = <<>>]]
  /\ IF works
     THEN /\ disk' = [disk EXCEPT ![currentWriter[p].file] = @ \o currentWriter[p].buffer]
          /\ UNCHANGED lost
     ELSE /\ lost' = lost \cup Range(currentWriter[p].buffer)
          /\ UNCHANGED disk

\* FileShare.Read: nobody opens for writing a file which another writer has open.
Shared(f) == \E p \in Proc : IsOpen(p) /\ currentWriter[p].file = f

--------------------------------------------------------------------------------
\* Mutant: any writer will do.
OnPath_IfAny(t) == currentWriter[line[t].proc] # None

OnPath(t) == currentPath[line[t].proc] = line[t].path

\* A call takes _fileLock.
Enters(t) == line[t].pc = "pathed" /\ fileLock[line[t].proc] = None

\* A call returns, with or without an exception, and leaves _fileLock.
Return(t, outcome) ==
  /\ line' = [line EXCEPT ![t] = [@ EXCEPT !.pc = outcome]]
  /\ fileLock' = [fileLock EXCEPT ![line[t].proc] = None]

\* A call keeps _fileLock and goes on.
Proceed(t, pc, num) ==
  /\ line' = [line EXCEPT ![t] = [@ EXCEPT !.pc = pc, !.num = num]]
  /\ fileLock' = [fileLock EXCEPT ![line[t].proc] = t]

\* EnsureCurrentWriter: the writer is on the path already.
KeepWriter(t) ==
  /\ Enters(t)
  /\ OnPath(t)
  /\ Proceed(t, "ready", 0)
  /\ UNCHANGED <<period, currentPath, currentWriter, disk, flushed, lost, closedBy>>

\* EnsureCurrentWriter: there is no writer to close.
NoWriter(t) ==
  /\ Enters(t)
  /\ ~OnPath(t)
  /\ currentWriter[line[t].proc] = None
  /\ Proceed(t, "open", 0)
  /\ UNCHANGED <<period, currentPath, currentWriter, disk, flushed, lost, closedBy>>

\* Mutant: the old writer is dropped without being closed.
Closed_Dropped(t) == UNCHANGED disk

\* The buffer of the writer is written on its closing.
Closed(t) == LET p == line[t].proc IN
  disk' = IF IsOpen(p)
          THEN [disk EXCEPT ![currentWriter[p].file] = @ \o currentWriter[p].buffer]
          ELSE disk

\* Mutant: the fields keep the closed writer until the next one is open.
Forget_Later(t) ==
  LET p == line[t].proc IN
    /\ currentWriter' = [currentWriter EXCEPT ![p] = [@ EXCEPT !.open = FALSE, !.buffer = <<>>]]
    /\ UNCHANGED currentPath

Forget(t) == /\ currentWriter' = [currentWriter EXCEPT ![line[t].proc] = None]
             /\ currentPath' = [currentPath EXCEPT ![line[t].proc] = None]

\* EnsureCurrentWriter: the writer of another path is closed.
CloseWriter(t) ==
  /\ Enters(t)
  /\ ~OnPath(t)
  /\ currentWriter[line[t].proc] # None
  /\ Closed(t)
  /\ Forget(t)
  /\ Proceed(t, "open", 0)
  /\ UNCHANGED <<period, flushed, lost, closedBy>>

\* EnsureCurrentWriter: closing fails, and the fields keep the closed writer.
CloseFails(t) ==
  LET p == line[t].proc IN
    /\ Enters(t)
    /\ ~OnPath(t)
    /\ IsOpen(p)
    /\ EmptyBuffer(p, FALSE, FALSE)
    /\ closedBy' = closedBy \cup {p}
    /\ Return(t, "failed")
    /\ UNCHANGED <<period, currentPath, flushed>>

Name(t) == <<line[t].path, line[t].num>>

\* EnsureCurrentWriter: a name can be opened.
Open(t) ==
  LET p == line[t].proc IN
    /\ line[t].pc = "open"
    /\ ~Shared(Name(t))
    /\ currentWriter' =
         [currentWriter EXCEPT ![p] = [file |-> Name(t), open |-> TRUE, buffer |-> <<>>]]
    /\ currentPath' = [currentPath EXCEPT ![p] = line[t].path]
    /\ Proceed(t, "ready", 0)
    /\ UNCHANGED <<period, disk, flushed, lost, closedBy>>

MoreNames(t) == line[t].num + 1 < MaxStreamRetries

\* EnsureCurrentWriter: another writer has the file open, or opening it fails
\* with another IOException: the next name is tried, if there is one.
Busy(t) ==
  /\ line[t].pc = "open"
  /\ IF MoreNames(t)
     THEN Proceed(t, "open", line[t].num + 1)
     ELSE Return(t, "failed")
  /\ UNCHANGED <<period, currentPath, currentWriter, disk, flushed, lost, closedBy>>

\* EnsureCurrentWriter: an exception which no other name would avoid.
OpenFails(t) ==
  /\ line[t].pc = "open"
  /\ Return(t, "failed")
  /\ UNCHANGED <<period, currentPath, currentWriter, disk, flushed, lost, closedBy>>

\* The text goes into the buffer.
Write(t) ==
  LET p == line[t].proc IN
    /\ line[t].pc = "ready"
    /\ IsOpen(p)
    /\ currentWriter' = [currentWriter EXCEPT ![p].buffer = Append(@, t)]
    /\ Return(t, "written")
    /\ UNCHANGED <<period, currentPath, disk, flushed, lost, closedBy>>

\* The buffer is full: the writer empties it into the file.
WriteThrough(t) ==
  LET p == line[t].proc IN
    /\ line[t].pc = "ready"
    /\ IsOpen(p)
    /\ disk' = [disk EXCEPT ![currentWriter[p].file] = @ \o Append(currentWriter[p].buffer, t)]
    /\ currentWriter' = [currentWriter EXCEPT ![p] = [@ EXCEPT !.buffer = <<>>]]
    /\ Return(t, "written")
    /\ UNCHANGED <<period, currentPath, flushed, lost, closedBy>>

\* The buffer is full and the disk fails.
WriteFails(t) ==
  /\ line[t].pc = "ready"
  /\ IsOpen(line[t].proc)
  /\ EmptyBuffer(line[t].proc, FALSE, TRUE)
  /\ Return(t, "failed")
  /\ UNCHANGED <<period, currentPath, flushed, closedBy>>

\* The writer is closed: ObjectDisposedException.
WriteClosed(t) ==
  /\ line[t].pc = "ready"
  /\ ~IsOpen(line[t].proc)
  /\ Return(t, "refused")
  /\ UNCHANGED <<period, currentPath, currentWriter, disk, flushed, lost, closedBy>>

WriteLine(t) ==
  \/ \E p \in Proc : GetCurrentFilePath(p, t)
  \/ KeepWriter(t) \/ NoWriter(t) \/ CloseWriter(t) \/ CloseFails(t)
  \/ Open(t) \/ Busy(t) \/ OpenFails(t)
  \/ Write(t) \/ WriteThrough(t) \/ WriteFails(t) \/ WriteClosed(t)

--------------------------------------------------------------------------------
Written(p) == {t \in Trace : line[t].pc = "written" /\ line[t].proc = p}

\* Mutant: the text stays where it is.
FlushWriter_Not(p) == UNCHANGED <<currentWriter, disk, lost>>

FlushWriter(p) == EmptyBuffer(p, TRUE, TRUE)

\* Flush waits for _fileLock.  Once it returned, all that the process wrote and
\* has not lost counts as flushed.
Flush(p) ==
  /\ fileLock[p] = None
  /\ currentWriter[p] # None => IsOpen(p)
  /\ IF currentWriter[p] = None THEN UNCHANGED <<currentWriter, disk, lost>> ELSE FlushWriter(p)
  /\ flushed' = flushed \cup (Written(p) \ lost)
  /\ UNCHANGED <<period, line, fileLock, currentPath, closedBy>>

\* Flush throws, because the disk fails; on a closed writer it throws as well and
\* changes nothing.
FlushFails(p) ==
  /\ fileLock[p] = None
  /\ IsOpen(p)
  /\ EmptyBuffer(p, FALSE, TRUE)
  /\ UNCHANGED <<period, line, fileLock, currentPath, flushed, closedBy>>

\* Dispose does not wait for _fileLock and keeps the fields.
Dispose(p) ==
  /\ closedBy' = closedBy \cup {p}
  /\ \/ IsOpen(p) /\ \E works \in BOOLEAN : EmptyBuffer(p, works, FALSE)
     \/ ~IsOpen(p) /\ UNCHANGED <<currentWriter, disk, lost>>
  /\ UNCHANGED <<period, line, fileLock, currentPath, flushed>>

\* The process ends without closing its writer, and starts again.
Crash(p) ==
  /\ lost' = IF IsOpen(p) THEN lost \cup Range(currentWriter[p].buffer) ELSE lost
  /\ currentWriter' = [currentWriter EXCEPT ![p] = None]
  /\ currentPath' = [currentPath EXCEPT ![p] = None]
  /\ fileLock' = [fileLock EXCEPT ![p] = None]
  /\ line' = [t \in Trace |->
       IF line[t].proc = p /\ line[t].pc \in {"pathed", "open", "ready"}
       THEN [line[t] EXCEPT !.pc = "failed"] ELSE line[t]]
  /\ closedBy' = closedBy \ {p}
  /\ UNCHANGED <<period, disk, flushed>>

RollingNext ==
  \/ NextPeriod
  \/ \E t \in Trace : WriteLine(t)
  \/ \E p \in Proc : Flush(p) \/ FlushFails(p) \/ Dispose(p) \/ Crash(p)

RollingSpec == RollingInit /\ [][RollingNext]_fileVars

--------------------------------------------------------------------------------
\* The types of the variables; a process has a path only with a writer.
FileTypeOK ==
  /\ period \in Path
  /\ line \in [Trace -> [pc : {"unwritten", "pathed", "open", "ready",
                               "written", "failed", "refused"},
                         proc : Proc \cup {None}, path : Path, num : 0..(MaxStreamRetries - 1)]]
  /\ fileLock \in [Proc -> Trace \cup {None}]
  /\ currentPath \in [Proc -> Path \cup {None}]
  /\ currentWriter \in [Proc -> Writer \cup {None}]
  /\ disk \in [File -> Seq(Trace)]
  /\ flushed \subseteq Trace /\ lost \subseteq Trace /\ closedBy \subseteq Proc
  /\ \A p \in Proc : (currentPath[p] = None) = (currentWriter[p] = None)

\* How often a trace is in the files and in the buffers of open writers.
Count(t, s) == Cardinality({i \in DOMAIN s : s[i] = t})
Places(t) == {f \in File : t \in Range(disk[f])}
Buffers(t) == {p \in Proc : IsOpen(p) /\ t \in Range(currentWriter[p].buffer)}

\* A trace whose call returned is in one place, once, unless a crash or the disk
\* lost it: rolling over to another path, falling back to another name, a late
\* trace that rolls back and an unlocked Dispose neither drop nor repeat it.
FiledOnce ==
  \A t \in Trace :
    /\ \A f \in Places(t) : Count(t, disk[f]) = 1
    /\ \A p \in Buffers(t) : Count(t, currentWriter[p].buffer) = 1
    /\ Cardinality(Places(t)) + Cardinality(Buffers(t)) =
         IF line[t].pc = "written" /\ t \notin lost THEN 1 ELSE 0

\* A trace is in a file of the period of its time stamp, however long it waited for
\* the lock and whatever the others wrote in the meantime.
RightFile ==
  \A t \in Trace :
    /\ \A f \in Places(t) : f[1] = line[t].path
    /\ \A p \in Buffers(t) : currentWriter[p].file[1] = line[t].path

\* What was written before a Flush that returned is on the disk, also after a crash
\* and whichever writer appends to the file later.
FlushedSurvives == \A t \in flushed : Places(t) # {}

\* Only after Dispose, or when closing a file failed, is a write refused because the
\* writer is closed: a name that could not be opened leaves no closed writer behind.
RefusedOnlyIfClosed == \A p \in Proc : currentWriter[p] # None /\ ~IsOpen(p) => p \in closedBy
================================================================================
