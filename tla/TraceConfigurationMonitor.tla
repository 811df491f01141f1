----------------------- MODULE TraceConfigurationMonitor -----------------------
(***************************************************************************)
(* TraceConfigurationMonitor: the configuration of tracing is read again   *)
(* when a FileSystemWatcher says that its file changed.                    *)
(*                                                                         *)
(* Each event is handled by a thread of the pool, so handlers overlap.  A  *)
(* file that is still being written, or is no XML, makes Trace.Refresh     *)
(* throw; the handler tries three times within a few milliseconds.         *)
(***************************************************************************)
EXTENDS Naturals

CONSTANTS
  Handler,     \* pool threads that handle events
  MaxVersions  \* bound on the saves of the file

VARIABLES
  file,        \* [version, readable]: the file
  loaded,      \* the version the tracing configuration is made of
  watcher,     \* "raising", "stopped" or "disposed"
  pending,     \* Changed events not handled yet
  retryCount,  \* of the handler each thread runs; Tries if it runs none
  missed,      \* history: a save raised no Changed event that was handled
  failed       \* history: the failing refreshes since the last save

monitorVars == <<file, loaded, watcher, pending, retryCount, missed, failed>>

Tries == 3

Running(h) == retryCount[h] < Tries

MonitorInit ==
  /\ file = [version |-> 0, readable |-> TRUE]
  /\ loaded = 0
  /\ watcher \in {"raising", "stopped"}
  /\ pending = 0
  /\ retryCount = [h \in Handler |-> Tries]
  /\ missed = FALSE
  /\ failed = 0

--------------------------------------------------------------------------------
(* The file and its watcher: outside the code.                             *)

\* A save in place raises Changed; a renamed temporary file raises Renamed, which nobody
\* listens to, and the buffer of the watcher may overflow.
Save == /\ file.version < MaxVersions
        /\ \E readable \in BOOLEAN : file' = [version |-> file.version + 1, readable |-> readable]
        /\ \/ watcher = "raising" /\ pending' = pending + 1 /\ UNCHANGED missed
           \/ missed' = TRUE /\ UNCHANGED pending
        /\ failed' = 0
        /\ UNCHANGED <<loaded, watcher, retryCount>>

\* The editor closes the file: it can be read from now on, and nothing says so.
Close == /\ ~file.readable
         /\ file' = [file EXCEPT !.readable = TRUE]
         /\ UNCHANGED <<loaded, watcher, pending, retryCount, missed, failed>>

--------------------------------------------------------------------------------
(* The monitor.                                                            *)

Start == /\ watcher = "stopped"
         /\ watcher' = "raising"
         /\ UNCHANGED <<file, loaded, pending, retryCount, missed, failed>>

\* Stop and Dispose: what is pending is not handled, handlers that run go on.
End(w) == /\ watcher # "disposed" /\ watcher # w
          /\ watcher' = w
          /\ pending' = 0
          /\ missed' = (missed \/ pending > 0)
          /\ UNCHANGED <<file, loaded, retryCount, failed>>

\* Mutant: an event that comes while a handler runs is ignored.
BeginChanged_Once(h) ==
  /\ pending > 0 /\ ~Running(h)
  /\ pending' = pending - 1
  /\ retryCount' = IF \E g \in Handler : Running(g) THEN retryCount
                   ELSE [retryCount EXCEPT ![h] = 0]
  /\ UNCHANGED <<file, loaded, watcher, missed, failed>>

\* A thread of the pool calls watcher_Changed.
BeginChanged(h) ==
  /\ pending > 0 /\ ~Running(h)
  /\ pending' = pending - 1
  /\ retryCount' = [retryCount EXCEPT ![h] = 0]
  /\ UNCHANGED <<file, loaded, watcher, missed, failed>>

\* Trace.Refresh reads the file as it is now, and the handler ends.
Refresh(h) == /\ Running(h) /\ file.readable
              /\ loaded' = file.version
              /\ retryCount' = [retryCount EXCEPT ![h] = Tries]
              /\ missed' = FALSE
              /\ UNCHANGED <<file, watcher, pending, failed>>

\* Trace.Refresh throws; the handler sleeps, and tries again unless it tried enough.
RefreshThrows(h) == /\ Running(h) /\ ~file.readable
                    /\ retryCount' = [retryCount EXCEPT ![h] = @ + 1]
                    /\ failed' = failed + 1
                    /\ UNCHANGED <<file, loaded, watcher, pending, missed>>

watcher_Changed(h) == BeginChanged(h) \/ Refresh(h) \/ RefreshThrows(h)

MonitorNext ==
  \/ Save \/ Close
  \/ Start \/ End("stopped") \/ End("disposed")
  \/ \E h \in Handler : watcher_Changed(h)

MonitorSpec == MonitorInit /\ [][MonitorNext]_monitorVars

--------------------------------------------------------------------------------
(* Properties.                                                             *)

\* When no event is left and no handler runs, the configuration is that of the file, unless
\* a save raised no event that was handled or the refresh failed three times since the last
\* save (watcher_Changed).
ChangesAreLoaded ==
  pending = 0 /\ (\A h \in Handler : ~Running(h)) =>
    loaded = file.version \/ missed \/ failed >= Tries
================================================================================
