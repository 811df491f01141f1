--------------------------- MODULE EmailTraceListener ---------------------------
(***************************************************************************)
(* The flood limit of EmailTraceListener                                   *)
(* (Essential.Diagnostics.EmailTraceListener/Diagnostics/                  *)
(* EmailTraceListener.cs).                                                 *)
(*                                                                         *)
(* A trace gets its time stamp from the event cache, then takes            *)
(* floodLimitLock; a stamp later than floodLimitReset opens a new window   *)
(* of an hour, in which at most maxTracesPerHour traces pass.  One that    *)
(* passes is formatted and handed to the mail pool, outside the lock; this *)
(* touches nothing here.  The setting may change at any time: each call    *)
(* reads some value of it.                                                 *)
(* Time is counted in ticks; a thread may be held up between its stamp and *)
(* the lock, by at most MaxDelay ticks.                                    *)
(***************************************************************************)
EXTENDS Traces, Integers

CONSTANTS
  Limits,    \* the values the MaxTracesPerHour setting takes at run time
  Hour,      \* floodLimitWindow, in ticks
  MaxDelay,  \* the longest a trace takes from its stamp to the lock
  MaxClock   \* bound: the clock stops here

ASSUME FloodAssumption ==
  /\ Limits \subseteq Int /\ \E n \in Limits : \A k \in Limits : k <= n
  /\ Hour \in Nat /\ MaxDelay \in Nat /\ MaxClock \in Nat \ {0}

VARIABLES
  now,                 \* the clock
  floodLimitReset,     \* guarded by floodLimitLock
  floodNumberOfTraces, \* guarded by floodLimitLock
  call                 \* the call of WriteTrace for each trace: how far it is, its
                       \* stamp, the limit it read; history: when it passed the lock,
                       \* in which window (by its reset), as which of its traces

floodVars == <<now, floodLimitReset, floodNumberOfTraces, call>>

Unwritten == [pc |-> "unwritten", traceTime |-> 0, maxPerHour |-> 0,
              gate |-> 0, window |-> 0, nth |-> 0]

Stamped(n) == [Unwritten EXCEPT !.pc = "stamped", !.traceTime = now, !.maxPerHour = n]

\* floodLimitReset starts as the default DateTimeOffset, before any stamp.
FloodInit ==
  /\ now = 1
  /\ floodLimitReset = 0
  /\ floodNumberOfTraces = 0
  /\ call = [t \in Trace |-> Unwritten]

\* Time passes, unless a thread would be held up for too long.
Tick == /\ now < MaxClock
        /\ \A t \in Trace : call[t].pc = "stamped" => now - call[t].traceTime < MaxDelay
        /\ now' = now + 1
        /\ UNCHANGED <<floodLimitReset, floodNumberOfTraces, call>>

\* WriteTrace reads the time and the setting before it takes the lock.
ReadTime(t) ==
  /\ call[t].pc = "unwritten"
  /\ \E n \in Limits : call' = [call EXCEPT ![t] = Stamped(n)]
  /\ UNCHANGED <<now, floodLimitReset, floodNumberOfTraces>>

\* The stamp is of no use any more.
Leave(t, to, window, nth) ==
  call' = [call EXCEPT ![t] = [@ EXCEPT !.pc = to, !.traceTime = 0,
                                        !.gate = now, !.window = window, !.nth = nth]]

\* A limit of zero or less is no limit.
PassUnlimited(t) ==
  /\ call[t].pc = "stamped"
  /\ call[t].maxPerHour <= 0
  /\ Leave(t, "passed", 0, 0)
  /\ UNCHANGED <<now, floodLimitReset, floodNumberOfTraces>>

NewWindow(t) == call[t].traceTime > floodLimitReset

\* Mutant: the count of the last window is kept.
Earlier_Kept(t) == floodNumberOfTraces

\* The traces of the current window before this one.
Earlier(t) == IF NewWindow(t) THEN 0 ELSE floodNumberOfTraces

\* Mutant: one trace too many passes.
Passes_OneTooMany(t) == Earlier(t) <= call[t].maxPerHour

Passes(t) == Earlier(t) < call[t].maxPerHour

Reset(t) == IF NewWindow(t) THEN call[t].traceTime + Hour ELSE floodLimitReset

Counted(t) == IF Passes(t) THEN Earlier(t) + 1 ELSE Earlier(t)

\* The critical section.
CheckFlood(t) ==
  /\ call[t].pc = "stamped"
  /\ call[t].maxPerHour > 0
  /\ floodLimitReset' = Reset(t)
  /\ floodNumberOfTraces' = Counted(t)
  /\ Leave(t, IF Passes(t) THEN "passed" ELSE "dropped", Reset(t), Counted(t))
  /\ UNCHANGED now

EmailWriteTrace(t) == ReadTime(t) \/ PassUnlimited(t) \/ CheckFlood(t)

FloodNext == Tick \/ \E t \in Trace : EmailWriteTrace(t)

FloodSpec == FloodInit /\ [][FloodNext]_floodVars

--------------------------------------------------------------------------------
\* The traces that passed from time a to time b under a limit from 1 to n.
PassedBetween(a, b, n) ==
  {t \in Trace : /\ call[t].pc = "passed"
                 /\ call[t].gate \in a..b
                 /\ call[t].maxPerHour \in 1..n}

Largest == CHOOSE n \in Limits : \A k \in Limits : k <= n

\* The types of the variables; the count of a window stays within the limits.
FloodTypeOK ==
  /\ now \in 1..MaxClock
  /\ floodLimitReset \in 0..(MaxClock + Hour)
  /\ floodNumberOfTraces \in {0} \cup 1..Largest
  /\ call \in [Trace -> [pc : {"unwritten", "stamped", "passed", "dropped"},
                         traceTime : 0..MaxClock, maxPerHour : Limits \cup {0},
                         gate : 0..MaxClock, window : 0..(MaxClock + Hour),
                         nth : {0} \cup 1..Largest]]

\* "To prevent flooding": every hour, less the longest delay, sees fewer mails than
\* twice the limit, wherever the windows fall and however delayed traces and changes
\* of the limit interleave.  (The documented limit holds for a window, not for every
\* hour: a window may end, and the next begin, in the middle of it.)
FloodBounded ==
  \A x \in 1..MaxClock, n \in 1..Largest :
    Cardinality(PassedBetween(x, x + Hour - MaxDelay, n)) < 2 * n

\* "The component drops any further traces once the limit is reached": a trace is
\* dropped only if as many as its limit passed in the hour before, give or
\* take the delay of the trace that opened the window.
DroppedOnlyInFlood ==
  \A t \in Trace :
    call[t].pc = "dropped" =>
      Cardinality(PassedBetween(call[t].gate - Hour - MaxDelay, call[t].gate, Largest))
        >= call[t].maxPerHour
================================================================================
