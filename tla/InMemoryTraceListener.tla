------------------------- MODULE InMemoryTraceListener -------------------------
(***************************************************************************)
(* InMemoryTraceListener (Essential.Diagnostics.InMemoryTraceListener/     *)
(* Diagnostics/InMemoryTraceListener.cs): a ring of trace details.         *)
(*                                                                         *)
(* WriteTrace, Clear and GetEvents hold _eventsLock throughout, so each is *)
(* one step.  Traces are numbered as they come in; what a trace contains   *)
(* is of no interest here, but copying it may throw (ToString is called on *)
(* every data item and on every item of the logical operation stack).      *)
(***************************************************************************)
EXTENDS Integers, Sequences, FiniteSets

CONSTANTS
  Limits,   \* the buffer sizes listeners are created with
  MaxWrites \* bound: the number of calls of WriteTrace

ASSUME LimitsAssumption == Limits \subseteq Nat

VARIABLES
  limit,   \* _events.Length, the initializeData of the listener
  events,  \* _events, from index 0; NoEvent is null
  current, \* _current
  written, \* history: the number of calls of WriteTrace
  log      \* history: the traces recorded since the last Clear

memVars == <<limit, events, current, written, log>>

NoEvent == 0

MemInit ==
  /\ limit \in Limits
  /\ events = [i \in 0..(limit - 1) |-> NoEvent]
  /\ current = 0
  /\ written = 0
  /\ log = <<>>

\* The next trace.
ThisTrace == written + 1

\* Where the trace after this one goes.
NextIndex == IF current + 1 >= limit THEN 0 ELSE current + 1

\* The trace takes the place of the oldest.
WriteTrace ==
  /\ written < MaxWrites
  /\ limit > 0
  /\ events' = [events EXCEPT ![current] = ThisTrace]
  /\ current' = NextIndex
  /\ log' = Append(log, ThisTrace)
  /\ written' = ThisTrace
  /\ UNCHANGED limit

\* Copying the trace throws; or there is no place at all, and the assignment to
\* _events[0] throws, before _current moves.
WriteTraceThrows ==
  /\ written < MaxWrites
  /\ written' = ThisTrace
  /\ UNCHANGED <<limit, events, current, log>>

\* Mutant: the index stays where it is.
FirstIndex_Kept == current

\* Where the next trace goes in a new buffer.
FirstIndex == 0

Clear ==
  /\ events' = [i \in 0..(limit - 1) |-> NoEvent]
  /\ current' = FirstIndex
  /\ log' = <<>>
  /\ UNCHANGED <<limit, written>>

MemNext == WriteTrace \/ WriteTraceThrows \/ Clear

MemSpec == MemInit /\ [][MemNext]_memVars

\* The indices from _current on that hold a trace.
Recorded == {i \in current..(limit - 1) : events[i] # NoEvent}

\* The k-th of them.
Nth(k) == CHOOSE i \in Recorded : Cardinality({j \in Recorded : j <= i}) = k

\* GetEvents: what is recorded from _current to the end, then all before it.
GetEvents == [k \in 1..Cardinality(Recorded) |-> events[Nth(k)]]
             \o [k \in 1..current |-> events[k - 1]]

--------------------------------------------------------------------------------
\* The types of the variables; the index is within the buffer.
MemTypeOK ==
  /\ limit \in Limits
  /\ events \in [0..(limit - 1) -> Nat]
  /\ current \in Nat /\ (limit = 0 => current = 0) /\ (limit > 0 => current < limit)
  /\ written \in Nat
  /\ log \in Seq(Nat \ {NoEvent})

\* The last n traces recorded since Clear, the oldest first.
LastTraces(n) == SubSeq(log, IF Len(log) > n THEN Len(log) - n + 1 ELSE 1, Len(log))

\* What GetEvents returns is the last traces since Clear, as many as there is room
\* for, in the order they were recorded: whether or not the buffer is full,
\* wherever the index stands, across Clear and across calls that threw.
GetsLastTraces == GetEvents = LastTraces(limit)

\* Why it does: before the buffer is full, it holds the log from its first index
\* on, and then nothing; afterwards the latest traces end before _current and the
\* ones before them begin at it.
RingHoldsLog ==
  LET n == Len(log) IN
    /\ limit = 0 => n = 0
    /\ n < limit =>
         /\ current = n
         /\ \A i \in 0..(limit - 1) : events[i] = IF i < n THEN log[i + 1] ELSE NoEvent
    /\ n >= limit =>
         \A i \in 0..(limit - 1) :
           events[i] = IF i < current THEN log[n - current + i + 1]
                                      ELSE log[n - current - limit + i + 1]
================================================================================
