------------------------------ MODULE Mail_proofs ------------------------------
(***************************************************************************)
(* Theorems about the mail listeners and about the result they wait for.   *)
(***************************************************************************)
EXTENDS EmailTraceListener, BufferedEmailTraceListener, SmtpWorkerAsyncResult,
        SequenceTheorems, FiniteSetTheorems, TLAPS

(***************************************************************************)
(* Proofs about EmailTraceListener and BufferedEmailTraceListener, for any *)
(* traces, limits, delays, threads and number of connections.              *)
(*                                                                         *)
(* The flood limit: the traces that pass in a window of the code are       *)
(* numbered, so that they can be counted; the windows are an hour apart,   *)
(* by the stamps, and a trace passes within MaxDelay of its stamp.         *)
(***************************************************************************)

--------------------------------------------------------------------------------
(* The flood limit.                                                        *)

Limited(t) == call[t].pc = "passed" /\ call[t].maxPerHour > 0

\* A thread which holds a stamp is not late.
OnTime ==
  \A t \in Trace : call[t].pc = "stamped" =>
    call[t].traceTime \in 1..now /\ now - call[t].traceTime <= MaxDelay

\* The count is that of the current window, whose traces have the numbers up to it; the
\* first of them opened it.
WindowCounted ==
  /\ floodLimitReset <= now + Hour
  /\ floodNumberOfTraces = 0 => floodLimitReset = 0
  /\ \A k \in 1..floodNumberOfTraces : \E u \in Trace :
       Limited(u) /\ call[u].window = floodLimitReset /\ call[u].nth = k

\* Where in its window a trace passed.
InWindow ==
  \A t \in Trace : Limited(t) =>
    /\ call[t].nth \in 1..call[t].maxPerHour
    /\ call[t].window <= floodLimitReset
    /\ call[t].window = floodLimitReset => call[t].nth <= floodNumberOfTraces
    /\ call[t].window - Hour <= call[t].gate /\ call[t].gate <= now
    /\ call[t].nth = 1 => call[t].gate <= call[t].window - Hour + MaxDelay

\* No two traces have the same number in a window.
NumberedOnce ==
  \A t, u \in Trace :
    Limited(t) /\ Limited(u) /\ call[t].window = call[u].window /\ call[t].nth = call[u].nth => t = u

\* A trace of an earlier window passed before the later window opened, give or take the
\* delay; the windows do not overlap.
Before(t, reset) ==
  call[t].window + Hour < reset /\ call[t].gate <= reset - Hour + MaxDelay

WindowsApart ==
  /\ \A t \in Trace : Limited(t) /\ call[t].window < floodLimitReset => Before(t, floodLimitReset)
  /\ \A t, u \in Trace :
       Limited(t) /\ Limited(u) /\ call[t].window < call[u].window => Before(t, call[u].window)

\* A dropped trace found as many traces in its window as its limit allows.
DroppedAfter ==
  \A t \in Trace : call[t].pc = "dropped" =>
    /\ call[t].maxPerHour >= 1
    /\ \A k \in 1..call[t].maxPerHour : \E u \in Trace :
         /\ Limited(u) /\ call[u].nth = k /\ call[u].window = call[t].window
         /\ call[u].gate \in (call[t].gate - Hour - MaxDelay)..call[t].gate

FloodInv ==
  /\ FloodTypeOK /\ OnTime /\ WindowCounted /\ InWindow /\ NumberedOnce /\ WindowsApart
  /\ DroppedAfter

\* The largest limit.
LEMMA LargestLimit == Largest \in Limits /\ \A n \in Limits : n \in Int /\ n <= Largest
<1>1. \E n \in Limits : \A k \in Limits : k <= n
  BY FloodAssumption
<1> QED
  BY <1>1, FloodAssumption DEF Largest

Call == [pc : {"unwritten", "stamped", "passed", "dropped"},
         traceTime : 0..MaxClock, maxPerHour : Limits \cup {0},
         gate : 0..MaxClock, window : 0..(MaxClock + Hour), nth : {0} \cup 1..Largest]

\* The times are natural numbers.
LEMMA Ticks == Hour \in Nat /\ MaxDelay \in Nat /\ MaxClock \in Nat /\ 0 < MaxClock
BY FloodAssumption

\* What is within an hour stays so as time passes.
LEMMA WithinAnHour ==
  ASSUME NEW a \in Nat, NEW b \in Nat, NEW r \in Nat, a <= b, r <= a + Hour PROVE r <= b + Hour
BY Ticks

\* The counters are natural numbers.
LEMMA CounterTypes ==
  ASSUME FloodTypeOK
  PROVE  now \in Nat /\ floodLimitReset \in Nat /\ floodNumberOfTraces \in Nat
<1>1. 1..MaxClock \subseteq Nat /\ 0..(MaxClock + Hour) \subseteq Nat /\ {0} \cup 1..Largest \subseteq Nat
  BY FloodAssumption, LargestLimit
<1> QED
  BY <1>1 DEF FloodTypeOK

\* What the fields of a call are, with the arithmetic they allow.
LEMMA CallTypes ==
  ASSUME FloodTypeOK, NEW t \in Trace
  PROVE  /\ call[t] \in Call
         /\ call[t].traceTime \in Nat /\ call[t].gate \in Nat /\ call[t].window \in Nat
         /\ call[t].maxPerHour \in Int /\ call[t].nth \in Nat
         /\ now \in Nat /\ floodLimitReset \in Nat /\ floodNumberOfTraces \in Nat
<1>1. call[t] \in Call
  BY DEF FloodTypeOK, Call
<1>2. 0..MaxClock \subseteq Nat /\ 0..(MaxClock + Hour) \subseteq Nat /\ {0} \cup 1..Largest \subseteq Nat
  BY FloodAssumption, LargestLimit
<1>3. call[t].maxPerHour \in Int
  BY <1>1, LargestLimit DEF Call
<1> QED
  BY <1>1, <1>2, <1>3, FloodAssumption DEF Call, FloodTypeOK

\* A call passes the lock, or is dropped there.
Left(t, to, window, nth) ==
  /\ call' \in [Trace -> Call]
  /\ call'[t].pc = to /\ call'[t].maxPerHour = call[t].maxPerHour /\ call'[t].gate = now
  /\ call'[t].window = window /\ call'[t].nth = nth
  /\ \A u \in Trace \ {t} : call'[u] = call[u]

\* A trace leaves the listener with a window and a number.
LEMMA LeaveEffect ==
  ASSUME FloodTypeOK, NEW t \in Trace, NEW to \in {"passed", "dropped"},
         NEW window \in 0..(MaxClock + Hour), NEW nth \in {0} \cup 1..Largest,
         Leave(t, to, window, nth)
  PROVE  Left(t, to, window, nth)
<1>1. call' = [call EXCEPT ![t] = [@ EXCEPT !.pc = to, !.traceTime = 0,
                                        !.gate = now, !.window = window, !.nth = nth]]
  BY DEF Leave
<1>2. call \in [Trace -> Call] /\ now \in 0..MaxClock /\ 0 \in 0..MaxClock
  BY FloodAssumption DEF FloodTypeOK, Call
<1>3. /\ call'[t].pc = to /\ call'[t].maxPerHour = call[t].maxPerHour /\ call'[t].gate = now
      /\ call'[t].window = window /\ call'[t].nth = nth
      /\ \A u \in Trace \ {t} : call'[u] = call[u]
  BY <1>1, <1>2 DEF Call
<1>4. call'[t] \in Call
  BY <1>1, <1>2 DEF Call
<1>5. call' \in [Trace -> Call]
  BY <1>1, <1>2, <1>4
<1> QED
  BY <1>3, <1>5 DEF Left

\* The invariant holds at the start.
LEMMA FloodInitInv == ASSUME FloodInit PROVE FloodInv
<1>1. /\ now = 1 /\ floodLimitReset = 0 /\ floodNumberOfTraces = 0
      /\ call = [t \in Trace |-> Unwritten]
  BY DEF FloodInit
<1>2. Unwritten \in Call
  BY FloodAssumption DEF Unwritten, Call
<1>3. \A t \in Trace : call[t].pc = "unwritten"
  BY <1>1 DEF Unwritten
<1>4. FloodTypeOK
  BY <1>1, <1>2, FloodAssumption DEF FloodTypeOK, Call
<1>5. OnTime /\ InWindow /\ NumberedOnce /\ WindowsApart /\ DroppedAfter
  BY <1>3 DEF OnTime, InWindow, NumberedOnce, WindowsApart, DroppedAfter, Limited
<1>6. WindowCounted
  BY <1>1, FloodAssumption DEF WindowCounted
<1> QED
  BY <1>4, <1>5, <1>6 DEF FloodInv

\* A step in which no limited trace passes and none is dropped.
LEMMA NobodyCounted ==
  ASSUME FloodInv, now' \in Nat, now <= now', FloodTypeOK', OnTime',
         UNCHANGED <<floodLimitReset, floodNumberOfTraces>>,
         \A t \in Trace : (Limited(t)' <=> Limited(t)) /\ (Limited(t) => call'[t] = call[t]),
         \A t \in Trace : call'[t].pc = "dropped" => call[t].pc = "dropped" /\ call'[t] = call[t]
  PROVE  FloodInv'
<1>1. \A t \in Trace : (Limited(t)' <=> Limited(t)) /\ (Limited(t) => call'[t] = call[t])
  OBVIOUS
<1>2. WindowCounted'
  <2>1. floodLimitReset <= now' + Hour
    <3>1. floodLimitReset \in Nat /\ now \in Nat /\ floodLimitReset <= now + Hour
      BY CounterTypes DEF FloodInv, WindowCounted
    <3> QED
      BY <3>1, WithinAnHour
  <2>2. ASSUME NEW k \in 1..floodNumberOfTraces
        PROVE  \E u \in Trace : Limited(u)' /\ call'[u].window = floodLimitReset /\ call'[u].nth = k
    <3>1. PICK u \in Trace : Limited(u) /\ call[u].window = floodLimitReset /\ call[u].nth = k
      BY DEF FloodInv, WindowCounted
    <3> QED
      BY <1>1, <3>1
  <2>3. floodNumberOfTraces = 0 => floodLimitReset = 0
    BY DEF FloodInv, WindowCounted
  <2> QED
    BY <2>1, <2>2, <2>3 DEF WindowCounted
<1>3. InWindow'
  <2> SUFFICES ASSUME NEW t \in Trace, Limited(t)
               PROVE  /\ call[t].nth \in 1..call[t].maxPerHour
                      /\ call[t].window <= floodLimitReset
                      /\ call[t].window = floodLimitReset => call[t].nth <= floodNumberOfTraces
                      /\ call[t].window - Hour <= call[t].gate /\ call[t].gate <= now'
                      /\ call[t].nth = 1 => call[t].gate <= call[t].window - Hour + MaxDelay
    BY <1>1 DEF InWindow
  <2>1. call[t].gate \in Nat /\ now \in Nat
    BY CallTypes DEF FloodInv
  <2> QED
    BY <2>1 DEF FloodInv, InWindow
<1>4. NumberedOnce'
  BY <1>1 DEF FloodInv, NumberedOnce
<1>5. WindowsApart'
  <2>1. ASSUME NEW t \in Trace, Limited(t)', call'[t].window < floodLimitReset'
        PROVE  Before(t, floodLimitReset)'
    BY <1>1, <2>1 DEF FloodInv, WindowsApart, Before
  <2>2. ASSUME NEW t \in Trace, NEW u \in Trace, Limited(t)', Limited(u)', call'[t].window < call'[u].window
        PROVE  call'[t].window + Hour < call'[u].window
               /\ call'[t].gate <= call'[u].window - Hour + MaxDelay
    BY <1>1, <2>2 DEF FloodInv, WindowsApart, Before
  <2> QED
    BY <2>1, <2>2 DEF WindowsApart, Before
<1>6. DroppedAfter'
  <2> SUFFICES ASSUME NEW t \in Trace, call'[t].pc = "dropped"
               PROVE  /\ call'[t].maxPerHour >= 1
                      /\ \A k \in 1..call'[t].maxPerHour : \E u \in Trace :
                           /\ Limited(u)' /\ call'[u].nth = k /\ call'[u].window = call'[t].window
                           /\ call'[u].gate \in (call'[t].gate - Hour - MaxDelay)..call'[t].gate
    BY DEF DroppedAfter
  <2>1. call'[t] = call[t] /\ call[t].pc = "dropped"
    OBVIOUS
  <2> QED
    BY <1>1, <2>1 DEF FloodInv, DroppedAfter
<1> QED
  BY <1>2, <1>3, <1>4, <1>5, <1>6 DEF FloodInv

\* Time passes.
LEMMA TickInv == ASSUME FloodInv, Tick PROVE FloodInv'
<1>1. /\ now < MaxClock /\ now' = now + 1
      /\ \A t \in Trace : call[t].pc = "stamped" => now - call[t].traceTime < MaxDelay
      /\ UNCHANGED <<floodLimitReset, floodNumberOfTraces, call>>
  BY DEF Tick
<1>2. now \in Nat /\ now' \in 1..MaxClock /\ now' \in Nat /\ now <= now'
  BY <1>1, FloodAssumption DEF FloodInv, FloodTypeOK
<1>3. FloodTypeOK'
  BY <1>1, <1>2 DEF FloodInv, FloodTypeOK
<1>4. OnTime'
  <2> SUFFICES ASSUME NEW t \in Trace, call[t].pc = "stamped"
               PROVE  call[t].traceTime \in 1..now' /\ now' - call[t].traceTime <= MaxDelay
    BY <1>1 DEF OnTime
  <2>1. call[t].traceTime \in 1..now /\ now - call[t].traceTime < MaxDelay /\ call[t].traceTime \in Nat
    BY <1>1, CallTypes DEF FloodInv, OnTime
  <2> QED
    BY <1>1, <1>2, <2>1, FloodAssumption
<1>5. /\ \A t \in Trace : (Limited(t)' <=> Limited(t)) /\ (Limited(t) => call'[t] = call[t])
      /\ \A t \in Trace : call'[t].pc = "dropped" => call[t].pc = "dropped" /\ call'[t] = call[t]
  BY <1>1 DEF Limited
<1> QED
  BY <1>1, <1>2, <1>3, <1>4, <1>5, NobodyCounted

\* A trace gets its stamp.
LEMMA ReadTimeInv == ASSUME FloodInv, NEW t \in Trace, ReadTime(t) PROVE FloodInv'
<1>1. PICK n \in Limits : call' = [call EXCEPT ![t] = Stamped(n)]
  BY DEF ReadTime
<1>2. call[t].pc = "unwritten" /\ UNCHANGED <<now, floodLimitReset, floodNumberOfTraces>>
  BY DEF ReadTime
<1>3. call \in [Trace -> Call] /\ now \in 1..MaxClock /\ now \in Nat
  BY FloodAssumption DEF FloodInv, FloodTypeOK, Call
<1>4. /\ Stamped(n) \in Call /\ Stamped(n).pc = "stamped" /\ Stamped(n).traceTime = now
  <2>1. Unwritten \in Call /\ now \in 0..MaxClock
    BY <1>3, Ticks DEF Unwritten, Call
  <2> QED
    BY <2>1 DEF Stamped, Call
<1>5. call' \in [Trace -> Call] /\ call'[t] = Stamped(n) /\ \A u \in Trace \ {t} : call'[u] = call[u]
  BY <1>1, <1>3, <1>4
<1>6. FloodTypeOK'
  BY <1>2, <1>5 DEF FloodInv, FloodTypeOK, Call
<1>7. OnTime'
  <2>1. now \in 1..now /\ now - now <= MaxDelay
    BY <1>3, FloodAssumption
  <2> QED
    BY <1>2, <1>4, <1>5, <2>1 DEF FloodInv, OnTime
<1>8. /\ now' \in Nat /\ now <= now'
      /\ \A u \in Trace : (Limited(u)' <=> Limited(u)) /\ (Limited(u) => call'[u] = call[u])
      /\ \A u \in Trace : call'[u].pc = "dropped" => call[u].pc = "dropped" /\ call'[u] = call[u]
  BY <1>2, <1>3, <1>4, <1>5 DEF Limited
<1> QED
  BY <1>2, <1>6, <1>7, <1>8, NobodyCounted

\* A call that leaves holds no stamp any more; the others do as before.
LEMMA LeftOnTime ==
  ASSUME OnTime, NEW t \in Trace, NEW to \in {"passed", "dropped"}, NEW window, NEW nth,
         Left(t, to, window, nth), now' = now
  PROVE  OnTime'
BY DEF OnTime, Left

\* Without a limit a trace passes.
LEMMA PassUnlimitedInv == ASSUME FloodInv, NEW t \in Trace, PassUnlimited(t) PROVE FloodInv'
<1>1. /\ call[t].pc = "stamped" /\ call[t].maxPerHour <= 0 /\ Leave(t, "passed", 0, 0)
      /\ UNCHANGED <<now, floodLimitReset, floodNumberOfTraces>>
  BY DEF PassUnlimited
<1>2. Left(t, "passed", 0, 0)
  <2>1. 0 \in 0..(MaxClock + Hour) /\ 0 \in {0} \cup 1..Largest
    BY Ticks
  <2> QED
    BY <1>1, <2>1, LeaveEffect DEF FloodInv
<1>3. FloodTypeOK' /\ OnTime'
  BY <1>1, <1>2, LeftOnTime DEF FloodInv, FloodTypeOK, Left, Call
<1>4. now \in Nat /\ now <= now /\ call[t].maxPerHour \in Int
  BY CallTypes DEF FloodInv
<1>5. /\ \A u \in Trace : (Limited(u)' <=> Limited(u)) /\ (Limited(u) => call'[u] = call[u])
      /\ \A u \in Trace : call'[u].pc = "dropped" => call[u].pc = "dropped" /\ call'[u] = call[u]
  BY <1>1, <1>2, <1>4 DEF Limited, Left
<1> QED
  BY <1>1, <1>3, <1>4, <1>5, NobodyCounted

\* What CheckFlood relies on.
LEMMA StampedCall ==
  ASSUME FloodInv, NEW t \in Trace, call[t].pc = "stamped", call[t].maxPerHour > 0
  PROVE  /\ call[t].traceTime \in Nat /\ call[t].traceTime >= 1 /\ call[t].traceTime <= now
         /\ now - call[t].traceTime <= MaxDelay /\ now \in Nat
         /\ call[t].maxPerHour \in 1..Largest /\ call[t].maxPerHour \in Nat /\ Largest \in Nat
         /\ floodLimitReset \in Nat /\ floodNumberOfTraces \in Nat
         /\ call[t].traceTime + Hour \in 0..(MaxClock + Hour)
<1>1. /\ call[t] \in Call /\ call[t].traceTime \in Nat /\ call[t].maxPerHour \in Int /\ now \in Nat
      /\ floodLimitReset \in Nat /\ floodNumberOfTraces \in Nat
  BY CallTypes DEF FloodInv
<1>2. call[t].traceTime \in 1..now /\ now - call[t].traceTime <= MaxDelay
  BY DEF FloodInv, OnTime
<1>3. call[t].maxPerHour \in Limits
  BY <1>1 DEF Call
<1>4. call[t].maxPerHour \in 1..Largest /\ Largest \in Nat
  BY <1>1, <1>3, LargestLimit
<1>5. call[t].traceTime + Hour \in 0..(MaxClock + Hour)
  BY <1>1, Ticks DEF Call
<1> QED
  BY <1>1, <1>2, <1>4, <1>5

\* The other traces are as they were, when t leaves.
LEMMA OthersStay ==
  ASSUME NEW t \in Trace, NEW to \in {"passed", "dropped"}, NEW window, NEW nth,
         call[t].pc = "stamped", Left(t, to, window, nth)
  PROVE  /\ ~Limited(t)
         /\ \A u \in Trace \ {t} : (Limited(u)' <=> Limited(u)) /\ call'[u] = call[u]
         /\ \A u \in Trace : Limited(u) => u # t /\ Limited(u)' /\ call'[u] = call[u]
BY DEF Limited, Left

\* Traces that were dropped before were dropped for a reason.
LEMMA DroppedBefore ==
  ASSUME FloodInv, NEW t \in Trace, NEW to \in {"passed", "dropped"}, NEW window, NEW nth,
         call[t].pc = "stamped", Left(t, to, window, nth), NEW d \in Trace \ {t},
         call'[d].pc = "dropped"
  PROVE  /\ call'[d].maxPerHour >= 1
         /\ \A k \in 1..call'[d].maxPerHour : \E u \in Trace :
              /\ Limited(u)' /\ call'[u].nth = k /\ call'[u].window = call'[d].window
              /\ call'[u].gate \in (call'[d].gate - Hour - MaxDelay)..call'[d].gate
<1>1. call'[d] = call[d] /\ call[d].pc = "dropped"
  BY OthersStay
<1>2. ASSUME NEW k \in 1..call[d].maxPerHour
      PROVE  \E u \in Trace :
              /\ Limited(u)' /\ call'[u].nth = k /\ call'[u].window = call[d].window
              /\ call'[u].gate \in (call[d].gate - Hour - MaxDelay)..call[d].gate
  <2>1. PICK u \in Trace :
          /\ Limited(u) /\ call[u].nth = k /\ call[u].window = call[d].window
          /\ call[u].gate \in (call[d].gate - Hour - MaxDelay)..call[d].gate
    BY <1>1 DEF FloodInv, DroppedAfter
  <2>2. Limited(u)' /\ call'[u] = call[u]
    BY <2>1, OthersStay
  <2> QED
    BY <2>1, <2>2
<1> QED
  BY <1>1, <1>2 DEF FloodInv, DroppedAfter

\* The types of the variables after the critical section.
LEMMA CheckFloodTypes ==
  ASSUME FloodTypeOK, NEW t \in Trace, NEW to \in {"passed", "dropped"},
         NEW window \in 0..(MaxClock + Hour), NEW nth \in {0} \cup 1..Largest,
         Left(t, to, window, nth), now' = now, floodLimitReset' = window,
         floodNumberOfTraces' = nth
  PROVE  FloodTypeOK'
BY DEF FloodTypeOK, Left, Call

\* A trace opens a window.
LEMMA OpensWindow ==
  ASSUME FloodInv, NEW t \in Trace, call[t].pc = "stamped", call[t].maxPerHour > 0,
         call[t].traceTime > floodLimitReset,
         NEW reset, reset = call[t].traceTime + Hour, Left(t, "passed", reset, 1),
         now' = now, floodLimitReset' = reset, floodNumberOfTraces' = 1
  PROVE  FloodInv'
<1>1. /\ call[t].traceTime \in Nat /\ call[t].traceTime <= now
      /\ now - call[t].traceTime <= MaxDelay /\ now \in Nat
      /\ call[t].maxPerHour \in 1..Largest /\ Largest \in Nat /\ call[t].maxPerHour \in Nat
      /\ floodLimitReset \in Nat /\ reset \in Nat /\ reset \in 0..(MaxClock + Hour)
  BY StampedCall, Ticks
<1>2. FloodTypeOK'
  <2>1. 1 \in {0} \cup 1..Largest
    BY <1>1
  <2> QED
    BY <1>1, <2>1, CheckFloodTypes DEF FloodInv
<1>3. OnTime'
  BY LeftOnTime DEF FloodInv
<1>4. Limited(t)'
  BY DEF Limited, Left
<1>5. /\ call'[t].nth = 1 /\ call'[t].window = reset /\ call'[t].gate = now
      /\ call'[t].maxPerHour = call[t].maxPerHour
  BY DEF Left
<1>6. \A u \in Trace \ {t} : (Limited(u)' <=> Limited(u)) /\ call'[u] = call[u]
  BY OthersStay
<1>7. ASSUME NEW u \in Trace, Limited(u)
      PROVE  /\ call[u].window \in Nat /\ call[u].gate \in Nat /\ call[u].nth \in Nat
             /\ call[u].window <= floodLimitReset
             /\ call[u].nth \in 1..call[u].maxPerHour
             /\ call[u].window - Hour <= call[u].gate /\ call[u].gate <= now
             /\ call[u].nth = 1 => call[u].gate <= call[u].window - Hour + MaxDelay
  BY <1>7, CallTypes DEF FloodInv, InWindow
<1>8. \A u \in Trace : Limited(u) =>
        /\ call[u].window < reset /\ call[u].window + Hour < reset
        /\ call[u].gate <= reset - Hour + MaxDelay
  BY <1>1, <1>7, Ticks
<1>9. WindowCounted'
  <2>1. reset <= now + Hour
    BY <1>1, Ticks
  <2>2. \A k \in 1..1 : Limited(t)' /\ call'[t].window = reset /\ call'[t].nth = k
    BY <1>4, <1>5
  <2> QED
    BY <2>1, <2>2 DEF WindowCounted
<1>10. InWindow'
  <2>1. ASSUME NEW u \in Trace \ {t}, Limited(u)'
        PROVE  /\ call'[u].nth \in 1..call'[u].maxPerHour
               /\ call'[u].window <= reset
               /\ call'[u].window = reset => call'[u].nth <= 1
               /\ call'[u].window - Hour <= call'[u].gate /\ call'[u].gate <= now
               /\ call'[u].nth = 1 => call'[u].gate <= call'[u].window - Hour + MaxDelay
    <3>1. Limited(u) /\ call'[u] = call[u]
      BY <1>6, <2>1
    <3> QED
      BY <1>1, <1>7, <1>8, <3>1
  <2>2. /\ call'[t].nth \in 1..call'[t].maxPerHour
        /\ call'[t].window <= reset
        /\ call'[t].window = reset => call'[t].nth <= 1
        /\ call'[t].window - Hour <= call'[t].gate /\ call'[t].gate <= now
        /\ call'[t].nth = 1 => call'[t].gate <= call'[t].window - Hour + MaxDelay
    BY <1>1, <1>5, Ticks
  <2> QED
    BY <2>1, <2>2 DEF InWindow
<1>11. NumberedOnce'
  <2> SUFFICES ASSUME NEW u \in Trace, NEW v \in Trace, Limited(u)', Limited(v)',
                      call'[u].window = call'[v].window, call'[u].nth = call'[v].nth
               PROVE  u = v
    BY DEF NumberedOnce
  <2>1. CASE u # t /\ v # t
    BY <1>6, <2>1 DEF FloodInv, NumberedOnce
  <2>2. ASSUME NEW w \in Trace \ {t}, Limited(w)' PROVE call'[w].window # reset
    BY <1>1, <1>6, <1>7, <1>8, <2>2
  <2> QED
    BY <1>5, <2>1, <2>2
<1>12. WindowsApart'
  <2>1. ASSUME NEW u \in Trace, Limited(u)', call'[u].window < reset
        PROVE  call'[u].window + Hour < reset /\ call'[u].gate <= reset - Hour + MaxDelay
    <3>1. u # t
      BY <1>1, <1>5, <2>1
    <3> QED
      BY <1>6, <1>8, <2>1, <3>1
  <2>2. ASSUME NEW u \in Trace, NEW v \in Trace, Limited(u)', Limited(v)',
               call'[u].window < call'[v].window
        PROVE  /\ call'[u].window + Hour < call'[v].window
               /\ call'[u].gate <= call'[v].window - Hour + MaxDelay
    <3>1. CASE v = t
      BY <1>5, <2>1, <2>2, <3>1
    <3>2. CASE v # t
      <4>1. Limited(v) /\ call'[v] = call[v] /\ call[v].window < reset /\ call[v].window \in Nat
        BY <1>6, <1>7, <1>8, <2>2, <3>2
      <4>2. u # t
        BY <1>1, <1>5, <2>2, <4>1
      <4> QED
        BY <1>6, <2>2, <4>1, <4>2 DEF FloodInv, WindowsApart, Before
    <3> QED
      BY <3>1, <3>2
  <2> QED
    BY <2>1, <2>2 DEF WindowsApart, Before
<1>13. DroppedAfter'
  <2>1. call'[t].pc # "dropped"
    BY DEF Left
  <2> QED
    BY <2>1, DroppedBefore DEF DroppedAfter
<1> QED
  BY <1>2, <1>3, <1>9, <1>10, <1>11, <1>12, <1>13 DEF FloodInv

\* A trace passes in the current window.
LEMMA JoinsWindow ==
  ASSUME FloodInv, NEW t \in Trace, call[t].pc = "stamped", call[t].maxPerHour > 0,
         call[t].traceTime <= floodLimitReset, floodNumberOfTraces < call[t].maxPerHour,
         NEW reset, reset = floodLimitReset, NEW n, n = floodNumberOfTraces + 1,
         Left(t, "passed", reset, n),
         now' = now, floodLimitReset' = reset, floodNumberOfTraces' = n
  PROVE  FloodInv'
<1>1. /\ call[t].traceTime \in Nat /\ call[t].traceTime >= 1 /\ now \in Nat
      /\ call[t].maxPerHour \in 1..Largest /\ Largest \in Nat /\ call[t].maxPerHour \in Nat
      /\ reset \in Nat /\ n \in Nat /\ floodNumberOfTraces \in Nat
  BY StampedCall
<1>2. n >= 2 /\ n <= call[t].maxPerHour /\ n \in {0} \cup 1..Largest
  <2>1. floodNumberOfTraces # 0
    BY <1>1 DEF FloodInv, WindowCounted
  <2> QED
    BY <1>1, <2>1
<1>3. reset <= now + Hour
  BY DEF FloodInv, WindowCounted
<1>4. FloodTypeOK' /\ OnTime'
  <2>1. reset \in 0..(MaxClock + Hour)
    BY DEF FloodInv, FloodTypeOK
  <2> QED
    BY <1>2, <2>1, CheckFloodTypes, LeftOnTime DEF FloodInv
<1>5. Limited(t)'
  BY DEF Limited, Left
<1>6. /\ call'[t].nth = n /\ call'[t].window = reset /\ call'[t].gate = now
      /\ call'[t].maxPerHour = call[t].maxPerHour
  BY DEF Left
<1>7. /\ \A u \in Trace \ {t} : (Limited(u)' <=> Limited(u)) /\ call'[u] = call[u]
      /\ \A u \in Trace : Limited(u) => Limited(u)' /\ call'[u] = call[u]
  BY OthersStay
<1>8. ASSUME NEW u \in Trace, Limited(u)
      PROVE  /\ call[u].window \in Nat /\ call[u].gate \in Nat /\ call[u].nth \in Nat
             /\ call[u].window <= reset
             /\ call[u].window = reset => call[u].nth <= floodNumberOfTraces
             /\ call[u].nth \in 1..call[u].maxPerHour
             /\ call[u].window - Hour <= call[u].gate /\ call[u].gate <= now
             /\ call[u].nth = 1 => call[u].gate <= call[u].window - Hour + MaxDelay
  BY <1>8, CallTypes DEF FloodInv, InWindow
<1>9. WindowCounted'
  <2>1. ASSUME NEW k \in 1..n
        PROVE  \E u \in Trace : Limited(u)' /\ call'[u].window = reset /\ call'[u].nth = k
    <3>1. CASE k = n
      BY <1>5, <1>6, <3>1
    <3>2. CASE k # n
      <4>1. k \in 1..floodNumberOfTraces
        BY <1>1, <3>2
      <4>2. PICK u \in Trace : Limited(u) /\ call[u].window = reset /\ call[u].nth = k
        BY <4>1 DEF FloodInv, WindowCounted
      <4> QED
        BY <1>7, <4>2
    <3> QED
      BY <3>1, <3>2
  <2>2. n # 0
    BY <1>2
  <2> QED
    BY <1>3, <2>1, <2>2 DEF WindowCounted
<1>10. InWindow'
  <2>1. ASSUME NEW u \in Trace \ {t}, Limited(u)'
        PROVE  /\ call'[u].nth \in 1..call'[u].maxPerHour
               /\ call'[u].window <= reset
               /\ call'[u].window = reset => call'[u].nth <= n
               /\ call'[u].window - Hour <= call'[u].gate /\ call'[u].gate <= now
               /\ call'[u].nth = 1 => call'[u].gate <= call'[u].window - Hour + MaxDelay
    <3>1. Limited(u) /\ call'[u] = call[u]
      BY <1>7, <2>1
    <3> QED
      BY <1>1, <1>8, <3>1
  <2>2. /\ call'[t].nth \in 1..call'[t].maxPerHour
        /\ call'[t].window <= reset
        /\ call'[t].window = reset => call'[t].nth <= n
        /\ call'[t].window - Hour <= call'[t].gate /\ call'[t].gate <= now
        /\ call'[t].nth = 1 => call'[t].gate <= call'[t].window - Hour + MaxDelay
    BY <1>1, <1>2, <1>3, <1>6, Ticks
  <2> QED
    BY <2>1, <2>2 DEF InWindow
<1>11. NumberedOnce'
  <2> SUFFICES ASSUME NEW u \in Trace, NEW v \in Trace, Limited(u)', Limited(v)',
                      call'[u].window = call'[v].window, call'[u].nth = call'[v].nth
               PROVE  u = v
    BY DEF NumberedOnce
  <2>1. CASE u # t /\ v # t
    BY <1>7, <2>1 DEF FloodInv, NumberedOnce
  <2>2. ASSUME NEW w \in Trace \ {t}, Limited(w)'
        PROVE  ~(call'[w].window = reset /\ call'[w].nth = n)
    BY <1>1, <1>7, <1>8, <2>2
  <2> QED
    BY <1>6, <2>1, <2>2
<1>12. WindowsApart'
  <2>1. ASSUME NEW u \in Trace, Limited(u)', call'[u].window < reset
        PROVE  call'[u].window + Hour < reset /\ call'[u].gate <= reset - Hour + MaxDelay
    <3>1. u # t
      BY <1>1, <1>6, <2>1
    <3>2. Limited(u) /\ call'[u] = call[u]
      BY <1>7, <2>1, <3>1
    <3> QED
      BY <2>1, <3>2 DEF FloodInv, WindowsApart, Before
  <2>2. ASSUME NEW u \in Trace, NEW v \in Trace, Limited(u)', Limited(v)',
               call'[u].window < call'[v].window
        PROVE  /\ call'[u].window + Hour < call'[v].window
               /\ call'[u].gate <= call'[v].window - Hour + MaxDelay
    <3>1. CASE v = t
      BY <1>6, <2>1, <2>2, <3>1
    <3>2. CASE v # t
      <4>1. Limited(v) /\ call'[v] = call[v] /\ call[v].window <= reset /\ call[v].window \in Nat
        BY <1>7, <1>8, <2>2, <3>2
      <4>2. u # t
        BY <1>1, <1>6, <2>2, <4>1
      <4> QED
        BY <1>7, <2>2, <4>1, <4>2 DEF FloodInv, WindowsApart, Before
    <3> QED
      BY <3>1, <3>2
  <2> QED
    BY <2>1, <2>2 DEF WindowsApart, Before
<1>13. DroppedAfter'
  <2>1. call'[t].pc # "dropped"
    BY DEF Left
  <2> QED
    BY <2>1, DroppedBefore DEF DroppedAfter
<1> QED
  BY <1>4, <1>9, <1>10, <1>11, <1>12, <1>13 DEF FloodInv

\* A trace is dropped.
LEMMA Drops ==
  ASSUME FloodInv, NEW t \in Trace, call[t].pc = "stamped", call[t].maxPerHour > 0,
         call[t].traceTime <= floodLimitReset, floodNumberOfTraces >= call[t].maxPerHour,
         Left(t, "dropped", floodLimitReset, floodNumberOfTraces),
         UNCHANGED <<now, floodLimitReset, floodNumberOfTraces>>
  PROVE  FloodInv'
<1>1. /\ call[t].traceTime \in Nat /\ call[t].traceTime <= now /\ now - call[t].traceTime <= MaxDelay
      /\ now \in Nat /\ call[t].maxPerHour \in Nat
      /\ floodLimitReset \in Nat /\ floodNumberOfTraces \in Nat
  BY StampedCall
<1>2. FloodTypeOK' /\ OnTime'
  <2>1. floodLimitReset \in 0..(MaxClock + Hour) /\ floodNumberOfTraces \in {0} \cup 1..Largest
    BY DEF FloodInv, FloodTypeOK
  <2> QED
    BY <2>1, CheckFloodTypes, LeftOnTime DEF FloodInv
<1>3. /\ call'[t].window = floodLimitReset /\ call'[t].gate = now
      /\ call'[t].maxPerHour = call[t].maxPerHour /\ ~Limited(t)'
  BY DEF Left, Limited
<1>4. \A u \in Trace : (Limited(u)' <=> Limited(u)) /\ (Limited(u) => call'[u] = call[u])
  BY <1>3, OthersStay
<1>5. WindowCounted' /\ InWindow' /\ NumberedOnce' /\ WindowsApart'
  <2>1. WindowCounted'
    BY <1>4 DEF FloodInv, WindowCounted
  <2>2. InWindow'
    BY <1>4 DEF FloodInv, InWindow
  <2>3. NumberedOnce'
    BY <1>4 DEF FloodInv, NumberedOnce
  <2>4. WindowsApart'
    BY <1>4 DEF FloodInv, WindowsApart, Before
  <2> QED
    BY <2>1, <2>2, <2>3, <2>4
<1>6. DroppedAfter'
  <2>1. ASSUME NEW k \in 1..call[t].maxPerHour
        PROVE  \E u \in Trace :
                 /\ Limited(u)' /\ call'[u].nth = k /\ call'[u].window = call'[t].window
                 /\ call'[u].gate \in (call'[t].gate - Hour - MaxDelay)..call'[t].gate
    <3>1. k \in 1..floodNumberOfTraces
      BY <1>1
    <3>2. PICK u \in Trace : Limited(u) /\ call[u].window = floodLimitReset /\ call[u].nth = k
      BY <3>1 DEF FloodInv, WindowCounted
    <3>3. call[u].gate \in Nat /\ floodLimitReset - Hour <= call[u].gate /\ call[u].gate <= now
      BY <3>2, CallTypes DEF FloodInv, InWindow
    <3>4. call[u].gate \in (now - Hour - MaxDelay)..now
      BY <1>1, <3>3, Ticks
    <3> QED
      BY <1>3, <1>4, <3>2, <3>4
  <2>2. call[t].maxPerHour >= 1
    BY <1>1
  <2> QED
    BY <1>3, <2>1, <2>2, DroppedBefore DEF DroppedAfter
<1> QED
  BY <1>2, <1>5, <1>6 DEF FloodInv

\* The critical section.
LEMMA CheckFloodInv == ASSUME FloodInv, NEW t \in Trace, CheckFlood(t) PROVE FloodInv'
<1>1. /\ call[t].pc = "stamped" /\ call[t].maxPerHour > 0
      /\ floodLimitReset' = Reset(t) /\ floodNumberOfTraces' = Counted(t)
      /\ Leave(t, IF Passes(t) THEN "passed" ELSE "dropped", Reset(t), Counted(t))
      /\ now' = now
  BY DEF CheckFlood
<1>2. /\ call[t].traceTime \in Nat
      /\ call[t].maxPerHour \in 1..Largest /\ call[t].maxPerHour \in Nat /\ Largest \in Nat
      /\ floodLimitReset \in Nat /\ floodNumberOfTraces \in Nat
      /\ call[t].traceTime + Hour \in 0..(MaxClock + Hour)
  BY <1>1, StampedCall
<1>3. floodLimitReset \in 0..(MaxClock + Hour) /\ floodNumberOfTraces \in {0} \cup 1..Largest
  BY DEF FloodInv, FloodTypeOK
<1>4. CASE call[t].traceTime > floodLimitReset
  <2>1. Passes(t) /\ Reset(t) = call[t].traceTime + Hour /\ Counted(t) = 1
    BY <1>1, <1>2, <1>4 DEF Passes, Earlier, Reset, Counted, NewWindow
  <2>2. 1 \in {0} \cup 1..Largest
    BY <1>2
  <2>3. Left(t, "passed", Reset(t), 1)
    BY <1>1, <1>2, <2>1, <2>2, LeaveEffect DEF FloodInv
  <2> QED
    BY <1>1, <1>4, <2>1, <2>3, OpensWindow
<1>5. CASE ~(call[t].traceTime > floodLimitReset) /\ floodNumberOfTraces < call[t].maxPerHour
  <2>1. Passes(t) /\ Reset(t) = floodLimitReset /\ Counted(t) = floodNumberOfTraces + 1
    BY <1>5 DEF Passes, Earlier, Reset, Counted, NewWindow
  <2>2. floodNumberOfTraces + 1 \in {0} \cup 1..Largest /\ call[t].traceTime <= floodLimitReset
    BY <1>2, <1>5
  <2>3. Left(t, "passed", Reset(t), Counted(t))
    BY <1>1, <1>3, <2>1, <2>2, LeaveEffect DEF FloodInv
  <2> QED
    BY <1>1, <1>5, <2>1, <2>2, <2>3, JoinsWindow
<1>6. CASE ~(call[t].traceTime > floodLimitReset) /\ ~(floodNumberOfTraces < call[t].maxPerHour)
  <2>1. ~Passes(t) /\ Reset(t) = floodLimitReset /\ Counted(t) = floodNumberOfTraces
    BY <1>6 DEF Passes, Earlier, Reset, Counted, NewWindow
  <2>2. call[t].traceTime <= floodLimitReset /\ floodNumberOfTraces >= call[t].maxPerHour
    BY <1>2, <1>6
  <2>3. Left(t, "dropped", floodLimitReset, floodNumberOfTraces)
    BY <1>1, <1>3, <2>1, LeaveEffect DEF FloodInv
  <2> QED
    BY <1>1, <2>1, <2>2, <2>3, Drops
<1> QED
  BY <1>4, <1>5, <1>6

\* Every step keeps the invariant.
LEMMA FloodNextInv == ASSUME FloodInv, [FloodNext]_floodVars PROVE FloodInv'
<1>1. CASE FloodNext
  BY <1>1, TickInv, ReadTimeInv, PassUnlimitedInv, CheckFloodInv DEF FloodNext, EmailWriteTrace
<1>2. CASE UNCHANGED floodVars
  <2>1. UNCHANGED <<now, floodLimitReset, floodNumberOfTraces, call>>
    BY <1>2 DEF floodVars
  <2>2. FloodTypeOK' /\ OnTime'
    BY <2>1 DEF FloodInv, FloodTypeOK, OnTime
  <2>3. /\ now' \in Nat /\ now <= now'
        /\ \A u \in Trace : (Limited(u)' <=> Limited(u)) /\ (Limited(u) => call'[u] = call[u])
        /\ \A u \in Trace : call'[u].pc = "dropped" => call[u].pc = "dropped" /\ call'[u] = call[u]
    BY <2>1, CounterTypes DEF FloodInv, Limited
  <2> QED
    BY <2>1, <2>2, <2>3, NobodyCounted
<1> QED
  BY <1>1, <1>2

\* The invariant of the flood limit, for any traces, limits, hour and delays.
THEOREM FloodInvariant == FloodSpec => []FloodInv
BY FloodInitInv, FloodNextInv, PTL DEF FloodSpec

--------------------------------------------------------------------------------
(* What the counting gives.                                                *)

\* Less than twice the limit pass in an hour less the longest delay.  It meets two windows
\* at most, and not the trace that opened the earlier one if it meets the later one: the
\* numbers of the traces, with those of the earlier window shifted, are all different.
LEMMA FloodBoundedFromInv == ASSUME FloodInv PROVE FloodBounded
<1> SUFFICES ASSUME NEW x \in 1..MaxClock, NEW n \in 1..Largest
             PROVE  Cardinality(PassedBetween(x, x + Hour - MaxDelay, n)) < 2 * n
  BY DEF FloodBounded
<1> DEFINE S == PassedBetween(x, x + Hour - MaxDelay, n)
           earlier(t) == \E u \in S : call[t].window < call[u].window
           f == [t \in S |-> IF earlier(t) THEN n + call[t].nth - 1 ELSE call[t].nth]
<1>1. x \in Nat /\ n \in Nat /\ n >= 1
  BY Ticks, LargestLimit
<1>2. ASSUME NEW t \in S
      PROVE  /\ t \in Trace /\ Limited(t) /\ call[t].window \in Nat /\ call[t].gate \in Nat
             /\ call[t].nth \in Nat /\ 1 <= call[t].nth /\ call[t].nth <= n
             /\ x <= call[t].gate /\ call[t].gate <= x + Hour - MaxDelay
             /\ call[t].window - Hour <= call[t].gate
             /\ call[t].nth = 1 => call[t].gate <= call[t].window - Hour + MaxDelay
  <2>1. /\ t \in Trace /\ call[t].pc = "passed" /\ call[t].gate \in x..(x + Hour - MaxDelay)
        /\ call[t].maxPerHour \in 1..n
    BY DEF PassedBetween
  <2>2. Limited(t)
    BY <1>1, <2>1 DEF Limited
  <2>3. /\ call[t].window \in Nat /\ call[t].gate \in Nat /\ call[t].nth \in Nat
        /\ call[t].maxPerHour \in Nat
    BY <2>1, <1>1, CallTypes DEF FloodInv
  <2>4. /\ call[t].nth \in 1..call[t].maxPerHour /\ call[t].window - Hour <= call[t].gate
        /\ call[t].nth = 1 => call[t].gate <= call[t].window - Hour + MaxDelay
    BY <2>1, <2>2 DEF FloodInv, InWindow
  <2> QED
    BY <1>1, <2>1, <2>2, <2>3, <2>4, Ticks
<1>3. ASSUME NEW t \in S, NEW u \in S, call[t].window < call[u].window
      PROVE  /\ call[t].window + Hour < call[u].window
             /\ call[t].gate <= call[u].window - Hour + MaxDelay
  BY <1>2, <1>3 DEF FloodInv, WindowsApart, Before
<1> HIDE DEF S
<1>4. ASSUME NEW t \in S, NEW u \in S, NEW v \in S,
             call[t].window < call[u].window, call[u].window < call[v].window
      PROVE  FALSE
  <2>1. call[v].gate > call[u].window
    BY <1>2, <1>3, <1>4, Ticks
  <2>2. call[t].gate <= call[u].window - Hour + MaxDelay
    BY <1>3, <1>4
  <2> QED
    BY <1>1, <1>2, <2>1, <2>2, Ticks
<1>5. ASSUME NEW t \in S, earlier(t) PROVE call[t].nth >= 2
  <2>1. PICK u \in S : call[t].window < call[u].window
    BY <1>5
  <2>2. call[u].gate > call[t].window
    BY <1>2, <1>3, <2>1, Ticks
  <2>3. call[t].nth # 1
    BY <1>1, <1>2, <2>2, Ticks
  <2> QED
    BY <1>2, <2>3
<1>6. ASSUME NEW t \in S PROVE f[t] \in 1..(2 * n - 1)
  BY <1>1, <1>2, <1>5
<1>7. ASSUME NEW t \in S, NEW u \in S, f[t] = f[u] PROVE t = u
  <2>1. /\ earlier(t) => f[t] = n + call[t].nth - 1
        /\ ~earlier(t) => f[t] = call[t].nth
        /\ earlier(u) => f[u] = n + call[u].nth - 1
        /\ ~earlier(u) => f[u] = call[u].nth
    OBVIOUS
  <2>2. earlier(t) <=> earlier(u)
    <3> HIDE DEF earlier, f
    <3> QED
      BY <1>1, <1>2, <1>5, <1>7, <2>1
  <2>3. call[t].nth = call[u].nth
    <3> HIDE DEF earlier, f
    <3> QED
      BY <1>1, <1>2, <1>7, <2>1, <2>2
  <2>4. ~(call[t].window < call[u].window)
    BY <1>4, <2>2
  <2>5. ~(call[u].window < call[t].window)
    BY <1>4, <2>2
  <2>6. call[t].window = call[u].window
    BY <1>2, <2>4, <2>5
  <2> QED
    BY <1>2, <2>3, <2>6 DEF FloodInv, NumberedOnce
<1>8. f \in Injection(S, 1..(2 * n - 1))
  <2>1. f \in [S -> 1..(2 * n - 1)]
    BY <1>6
  <2> HIDE DEF f
  <2> QED
    BY <1>7, <2>1 DEF Injection, IsInjective
<1>9. IsFiniteSet(1..(2 * n - 1)) /\ Cardinality(1..(2 * n - 1)) = 2 * n - 1
  BY <1>1, FS_Interval
<1>10. Cardinality(S) <= 2 * n - 1 /\ IsFiniteSet(S)
  <2> HIDE DEF f
  <2> QED
    BY <1>8, <1>9, FS_Injection
<1>11. Cardinality(S) \in Nat
  BY <1>10, FS_CardinalityType
<1> QED
  BY <1>1, <1>10, <1>11 DEF S

\* A trace is dropped only after as many as its limit passed.
LEMMA DroppedOnlyFromInv == ASSUME FloodInv PROVE DroppedOnlyInFlood
<1> SUFFICES ASSUME NEW t \in Trace, call[t].pc = "dropped"
             PROVE  Cardinality(PassedBetween(call[t].gate - Hour - MaxDelay, call[t].gate, Largest))
                      >= call[t].maxPerHour
  BY DEF DroppedOnlyInFlood
<1> DEFINE m == call[t].maxPerHour
           S == PassedBetween(call[t].gate - Hour - MaxDelay, call[t].gate, Largest)
           found(u, k) == /\ Limited(u) /\ call[u].nth = k /\ call[u].window = call[t].window
                          /\ call[u].gate \in (call[t].gate - Hour - MaxDelay)..call[t].gate
           g == [k \in 1..m |-> CHOOSE u \in Trace : found(u, k)]
<1>1. m \in Int /\ m >= 1 /\ \A k \in 1..m : \E u \in Trace : found(u, k)
  BY CallTypes DEF FloodInv, DroppedAfter
<1>2. \A k \in 1..m : g[k] \in Trace /\ found(g[k], k)
  BY <1>1
<1>3. ASSUME NEW u \in Trace, NEW k, found(u, k) PROVE u \in S
  <2>1. call[u].maxPerHour \in Limits /\ call[u].maxPerHour \in Int /\ call[u].maxPerHour > 0
    BY <1>3, CallTypes DEF FloodInv, Limited, Call
  <2>2. call[u].maxPerHour \in 1..Largest
    BY <2>1, LargestLimit
  <2> QED
    BY <1>3, <2>2 DEF PassedBetween, Limited
<1>4. IsFiniteSet(S)
  BY TraceAssumption, FS_Subset DEF PassedBetween
<1>5. g \in [1..m -> S]
  BY <1>2, <1>3
<1>6. \A k, l \in 1..m : g[k] = g[l] => k = l
  <2>1. \A k \in 1..m : call[g[k]].nth = k
    BY <1>2
  <2> HIDE DEF g
  <2> QED
    BY <2>1
<1> HIDE DEF g, S, m
<1>7. g \in Injection(1..m, S)
  BY <1>5, <1>6 DEF Injection, IsInjective
<1>8. Cardinality(1..m) <= Cardinality(S)
  BY <1>4, <1>7, FS_Injection
<1>9. Cardinality(1..m) = m
  BY <1>1, FS_Interval
<1>10. Cardinality(S) \in Nat
  BY <1>4, FS_CardinalityType
<1> QED
  BY <1>1, <1>8, <1>9, <1>10 DEF S, m

\* The types of the variables of the flood limit.
THEOREM FloodTypes == FloodSpec => []FloodTypeOK
<1>1. FloodInv => FloodTypeOK
  BY DEF FloodInv
<1> QED
  BY <1>1, FloodInvariant, PTL

\* Every hour, less the longest delay, sees fewer mails than twice the limit.
THEOREM MailsAreBounded == FloodSpec => []FloodBounded
BY FloodBoundedFromInv, FloodInvariant, PTL

\* A trace is dropped only in a flood.
THEOREM DropsOnlyInFlood == FloodSpec => []DroppedOnlyInFlood
BY DroppedOnlyFromInv, FloodInvariant, PTL

--------------------------------------------------------------------------------
(* The buffered mails: where each trace is.                                *)

InMail(i) == IF i \in DOMAIN content THEN ToSet(content[i].body) ELSE {}
InTook(s) == ToSet(sender[s].took.body)
InBuffer == ToSet(buffer)
InWritten == ToSet(written)

\* A thread has taken something only while it builds a mail of it.
TakenToBuild == \A s \in Caller : sender[s].took.body = <<>> <=> sender[s].pc # "build"

\* Every trace is written once, and the places where it can be exclude each other.
Placed ==
  /\ \A t \in Trace : writer[t] = "unwritten" => t \notin InWritten
  /\ \A t \in Trace : t \in InWritten <=>
       \/ t \in InBuffer \/ t \in discarded
       \/ \E i \in Nat : t \in InMail(i)
       \/ \E s \in Caller : t \in InTook(s)
  /\ \A t \in Trace : \A i, j \in Nat : t \in InMail(i) /\ t \in InMail(j) => i = j
  /\ \A t \in Trace : \A r, s \in Caller : t \in InTook(r) /\ t \in InTook(s) => r = s
  /\ \A t \in Trace : \A i \in Nat, s \in Caller : ~(t \in InMail(i) /\ t \in InTook(s))
  /\ \A t \in Trace : t \in InBuffer \/ t \in discarded =>
       (\A i \in Nat : t \notin InMail(i)) /\ \A s \in Caller : t \notin InTook(s)
  /\ \A t \in Trace : ~(t \in InBuffer /\ t \in discarded)

\* b is what w holds from position i on.
Segment(w, b, i) ==
  /\ i + Len(b) - 1 <= Len(w)
  /\ \A k \in 1..Len(b) : w[i + k - 1] = b[k]

\* What was taken was written one after another; the buffer holds what was written last;
\* and nothing was written twice.
Contiguous ==
  /\ \A i, j \in DOMAIN written : written[i] = written[j] => i = j
  /\ \A i \in DOMAIN content : \E k \in Nat \ {0} : Segment(written, content[i].body, k)
  /\ \A s \in Caller : \E k \in Nat \ {0} : Segment(written, sender[s].took.body, k)
  /\ \E k \in Nat \ {0} : k + Len(buffer) - 1 = Len(written) /\ Segment(written, buffer, k)

\* The mails that wait are those queued, in the order of their numbers; the mails handed over
\* are those of the history; and a mail that waits was handed over after those begun.
Queued ==
  /\ \A k \in DOMAIN waiting : mail[waiting[k]] = "queued"
  /\ \A k, l \in DOMAIN waiting : k < l => waiting[k] < waiting[l]
  /\ \A m \in Mail : mail[m] = "queued" => \E k \in DOMAIN waiting : waiting[k] = m
  /\ \A m \in Mail : mail[m] = "unsent" <=> m > Len(content)
  /\ \A l, m \in Mail : l < m /\ mail[l] = "queued" => mail[m] \in {"queued", "unsent"}

\* The exit handler is over only after the mail that it handed over.
ExitEnded ==
  sender[Exit].pc \in {"over", "gone"} /\ sender[Exit].mail # 0 => mail[sender[Exit].mail] \in Finished

BufferedInv ==
  /\ BufferedTypeOK /\ TakenToBuild /\ Placed /\ Contiguous /\ Queued /\ ExitEnded

--------------------------------------------------------------------------------
(* Sequences and their elements.                                           *)

\* One more element at the end.
LEMMA ToSetAppend ==
  ASSUME NEW S, NEW s \in Seq(S), NEW x \in S PROVE ToSet(Append(s, x)) = ToSet(s) \cup {x}
<1>1. /\ Len(Append(s, x)) = Len(s) + 1 /\ Append(s, x) \in Seq(S)
      /\ \A i \in 1..Len(s) : Append(s, x)[i] = s[i]
      /\ Append(s, x)[Len(s) + 1] = x
  BY AppendProperties
<1>2. DOMAIN s = 1..Len(s) /\ Len(s) \in Nat /\ DOMAIN Append(s, x) = 1..(Len(s) + 1)
  BY <1>1
<1>3. \A i \in 1..(Len(s) + 1) : i \in 1..Len(s) \/ i = Len(s) + 1
  BY <1>2
<1>4. ASSUME NEW y \in ToSet(Append(s, x)) PROVE y \in ToSet(s) \cup {x}
  BY <1>1, <1>2, <1>3 DEF ToSet
<1>5. ASSUME NEW y \in ToSet(s) PROVE y \in ToSet(Append(s, x))
  <2>1. PICK i \in 1..Len(s) : s[i] = y
    BY <1>2 DEF ToSet
  <2>2. i \in DOMAIN Append(s, x) /\ Append(s, x)[i] = y
    BY <1>1, <1>2, <2>1
  <2> QED
    BY <2>2 DEF ToSet
<1>6. x \in ToSet(Append(s, x))
  <2>1. Len(s) + 1 \in DOMAIN Append(s, x)
    BY <1>2
  <2> QED
    BY <1>1, <2>1 DEF ToSet
<1> QED
  BY <1>4, <1>5, <1>6

\* The elements of a sequence.
LEMMA ToSetTypes ==
  /\ ToSet(<<>>) = {}
  /\ \A S : \A s \in Seq(S) : ToSet(s) \subseteq S /\ (s = <<>> <=> ToSet(s) = {})
<1>1. ToSet(<<>>) = {}
  BY EmptySeq DEF ToSet
<1>2. ASSUME NEW S, NEW s \in Seq(S) PROVE ToSet(s) \subseteq S /\ (s = <<>> <=> ToSet(s) = {})
  <2>1. DOMAIN s = 1..Len(s) /\ Len(s) \in Nat /\ \A i \in 1..Len(s) : s[i] \in S
    BY LenProperties, ElementOfSeq
  <2>2. ASSUME s # <<>> PROVE s[1] \in ToSet(s)
    <3>1. 1 \in DOMAIN s
      BY <2>1, <2>2, EmptySeq
    <3> QED
      BY <3>1 DEF ToSet
  <2> QED
    BY <1>1, <2>1, <2>2 DEF ToSet
<1> QED
  BY <1>1, <1>2

\* More is written: segments stay, and a suffix grows.
LEMMA SegmentAppend ==
  ASSUME NEW w \in Seq(Trace), NEW b \in Seq(Trace), NEW k \in Nat \ {0}, NEW t \in Trace,
         Segment(w, b, k)
  PROVE  /\ Segment(Append(w, t), b, k)
         /\ k + Len(b) - 1 = Len(w) =>
              k + Len(Append(b, t)) - 1 = Len(Append(w, t)) /\ Segment(Append(w, t), Append(b, t), k)
<1>1. /\ Len(Append(w, t)) = Len(w) + 1
      /\ \A i \in 1..Len(w) : Append(w, t)[i] = w[i]
      /\ Append(w, t)[Len(w) + 1] = t
  BY AppendProperties
<1>2. /\ Len(Append(b, t)) = Len(b) + 1
      /\ \A i \in 1..Len(b) : Append(b, t)[i] = b[i]
      /\ Append(b, t)[Len(b) + 1] = t
  BY AppendProperties
<1>3. Len(w) \in Nat /\ Len(b) \in Nat
  BY LenProperties
<1>4. k + Len(b) - 1 <= Len(w) /\ \A i \in 1..Len(b) : w[k + i - 1] = b[i]
  BY DEF Segment
<1>5. \A i \in 1..Len(b) : k + i - 1 \in 1..Len(w)
  BY <1>3, <1>4
<1>6. Segment(Append(w, t), b, k)
  BY <1>1, <1>3, <1>4, <1>5 DEF Segment
<1>7. ASSUME k + Len(b) - 1 = Len(w)
      PROVE  k + Len(Append(b, t)) - 1 = Len(Append(w, t)) /\ Segment(Append(w, t), Append(b, t), k)
  <2>1. k + Len(Append(b, t)) - 1 = Len(Append(w, t))
    BY <1>1, <1>2, <1>3, <1>7
  <2>2. ASSUME NEW i \in 1..Len(Append(b, t)) PROVE Append(w, t)[k + i - 1] = Append(b, t)[i]
    <3>1. CASE i \in 1..Len(b)
      BY <1>1, <1>2, <1>4, <1>5, <3>1
    <3>2. CASE i = Len(b) + 1
      <4>1. k + i - 1 = Len(w) + 1
        BY <1>3, <1>7, <3>2
      <4> QED
        BY <1>1, <1>2, <3>2, <4>1
    <3>3. i \in 1..Len(b) \/ i = Len(b) + 1
      BY <1>2, <1>3
    <3> QED
      BY <3>1, <3>2, <3>3
  <2>3. k + Len(Append(b, t)) - 1 <= Len(Append(w, t))
    BY <1>1, <1>3, <2>1
  <2> QED
    BY <2>1, <2>2, <2>3 DEF Segment
<1> QED
  BY <1>6, <1>7

\* Nothing is a segment, anywhere.
LEMMA EmptySegment ==
  ASSUME NEW w \in Seq(Trace)
  PROVE  \E k \in Nat \ {0} : k + Len(<<>>) - 1 = Len(w) /\ Segment(w, <<>>, k)
<1>1. Len(w) \in Nat /\ Len(<<>>) = 0
  BY LenProperties, EmptySeq
<1>2. (Len(w) + 1) + 0 - 1 = Len(w) /\ Len(w) + 1 \in Nat \ {0} /\ 1..0 = {}
  BY <1>1
<1>3. (Len(w) + 1) + Len(<<>>) - 1 = Len(w) /\ 1..Len(<<>>) = {}
  BY <1>1, <1>2
<1>4. Segment(w, <<>>, Len(w) + 1)
  BY <1>1, <1>3 DEF Segment
<1> QED
  BY <1>2, <1>3, <1>4

--------------------------------------------------------------------------------
(* What the steps do to a sender and to a writer.                          *)

Sending == [pc : {"idle", "build", "wait", "over", "gone"},
            took : Contents, mail : {0} \cup Mail]

\* The sender s is at `at', with what it took and its mail; the others are as they were.
Becomes(s, at, took, m) ==
  /\ sender' \in [Caller -> Sending]
  /\ sender'[s].pc = at /\ sender'[s].took = took /\ sender'[s].mail = m
  /\ \A r \in Caller \ {s} : sender'[r] = sender[r]

\* A thread at rest carries nothing.
LEMMA RestTypes ==
  /\ Nothing \in Contents /\ Nothing.body = <<>>
  /\ AtRest \in Sending /\ AtRest.pc = "idle" /\ AtRest.took = Nothing /\ AtRest.mail = 0
<1>1. Nothing \in Contents /\ Nothing.body = <<>>
  BY EmptySeq DEF Nothing, Contents
<1> QED
  BY <1>1 DEF AtRest, Sending

\* Nor does one whose send is over.
LEMMA OverTypes ==
  ASSUME NEW s \in Caller
  PROVE  /\ Over(s) \in Sending /\ Over(s).took = Nothing /\ Over(s).mail = 0
         /\ Over(s).pc \in {"idle", "over"}
<1>1. AtRest \in Sending /\ AtRest.pc = "idle" /\ AtRest.took = Nothing /\ AtRest.mail = 0
  BY RestTypes
<1> QED
  BY <1>1 DEF Over, Sending

\* A call of InternalSend is over.
LEMMA OverEffect ==
  ASSUME BufferedTypeOK, NEW s \in Caller, sender' = [sender EXCEPT ![s] = Over(s)]
  PROVE  \E at \in {"idle", "over"} : Becomes(s, at, Nothing, 0)
<1>1. sender \in [Caller -> Sending]
  BY DEF BufferedTypeOK, Sending
<1>2. /\ Over(s) \in Sending /\ Over(s).took = Nothing /\ Over(s).mail = 0
      /\ Over(s).pc \in {"idle", "over"}
  BY OverTypes
<1>3. Becomes(s, Over(s).pc, Nothing, 0)
  BY <1>1, <1>2 DEF Becomes
<1> QED
  BY <1>2, <1>3

--------------------------------------------------------------------------------
(* The places of the traces, from what a step does to them.                *)

\* The types of the parts of the state that are sequences.
LEMMA SequenceTypes ==
  ASSUME BufferedTypeOK
  PROVE  /\ buffer \in Seq(Trace) /\ written \in Seq(Trace)
         /\ sender \in [Caller -> Sending] /\ content \in Seq(Contents) /\ waiting \in Seq(Mail)
         /\ \A s \in Caller : sender[s] \in Sending /\ sender[s].took \in Contents
                              /\ sender[s].took.body \in Seq(Trace)
         /\ \A i \in DOMAIN content : content[i] \in Contents /\ content[i].body \in Seq(Trace)
         /\ DOMAIN content = 1..Len(content) /\ Len(content) \in Nat
<1>1. content \in Seq(Contents)
  BY DEF BufferedTypeOK
<1>2. /\ DOMAIN content = 1..Len(content) /\ Len(content) \in Nat
      /\ \A i \in 1..Len(content) : content[i] \in Contents
  BY <1>1, LenProperties, ElementOfSeq
<1>3. sender \in [Caller -> Sending]
  BY DEF BufferedTypeOK, Sending
<1>4. \A s \in Caller : sender[s] \in Sending /\ sender[s].took \in Contents
  BY <1>3 DEF Sending
<1>5. \A c \in Contents : c.body \in Seq(Trace)
  BY DEF Contents
<1> QED
  BY <1>1, <1>2, <1>3, <1>4, <1>5 DEF BufferedTypeOK

\* A trace is appended to the buffer.
LEMMA PlacedAppend ==
  ASSUME Placed, NEW t \in Trace, writer[t] = "unwritten",
         InBuffer' = InBuffer \cup {t}, InWritten' = InWritten \cup {t}, discarded' = discarded,
         \A i \in Nat : InMail(i)' = InMail(i), \A s \in Caller : InTook(s)' = InTook(s),
         writer'[t] # "unwritten", \A u \in Trace \ {t} : writer'[u] = writer[u]
  PROVE  Placed'
<1>1. /\ t \notin InWritten /\ t \notin InBuffer /\ t \notin discarded
      /\ (\A i \in Nat : t \notin InMail(i)) /\ \A s \in Caller : t \notin InTook(s)
  BY DEF Placed
<1>2. \A u \in Trace : writer'[u] = "unwritten" => u \notin InWritten'
  BY DEF Placed
<1>3. \A u \in Trace : u \in InWritten' <=>
        \/ u \in InBuffer' \/ u \in discarded'
        \/ \E i \in Nat : u \in InMail(i)'
        \/ \E s \in Caller : u \in InTook(s)'
  BY DEF Placed
<1>4. \A u \in Trace : \A i, j \in Nat : u \in InMail(i)' /\ u \in InMail(j)' => i = j
  BY DEF Placed
<1>5. \A u \in Trace : \A r, s \in Caller : u \in InTook(r)' /\ u \in InTook(s)' => r = s
  BY DEF Placed
<1>6. \A u \in Trace : \A i \in Nat, s \in Caller : ~(u \in InMail(i)' /\ u \in InTook(s)')
  BY DEF Placed
<1>7. \A u \in Trace : u \in InBuffer' \/ u \in discarded' =>
        (\A i \in Nat : u \notin InMail(i)') /\ \A s \in Caller : u \notin InTook(s)'
  BY <1>1 DEF Placed
<1>8. \A u \in Trace : ~(u \in InBuffer' /\ u \in discarded')
  BY <1>1 DEF Placed
<1> QED
  BY <1>2, <1>3, <1>4, <1>5, <1>6, <1>7, <1>8 DEF Placed

\* The writers, the traces written and the mails stay as they are; what was in the buffer and
\* what s took changes places with what s takes now and what is discarded.
LEMMA PlacedSend ==
  ASSUME Placed, NEW s \in Caller, UNCHANGED <<writer, written>>,
         \A i \in Nat : InMail(i)' = InMail(i),
         \A r \in Caller \ {s} : InTook(r)' = InTook(r),
         InBuffer' \cup InTook(s)' \cup discarded' = InBuffer \cup InTook(s) \cup discarded,
         InBuffer' \cap InTook(s)' = {}, InBuffer' \cap discarded' = {}, InTook(s)' \cap discarded' = {}
  PROVE  Placed'
<1> DEFINE moved == InBuffer \cup InTook(s) \cup discarded
<1>1. InWritten' = InWritten
  BY DEF InWritten
<1>2. \A u \in Trace : u \in moved =>
        (\A i \in Nat : u \notin InMail(i)) /\ \A r \in Caller \ {s} : u \notin InTook(r)
  BY DEF Placed
<1>3. \A u \in Trace : u \in InWritten <=>
        u \in moved \/ (\E i \in Nat : u \in InMail(i)) \/ \E r \in Caller \ {s} : u \in InTook(r)
  BY DEF Placed
<1>4. /\ moved = InBuffer' \cup InTook(s)' \cup discarded'
      /\ \A u : u \in InBuffer' \/ u \in InTook(s)' \/ u \in discarded' => u \in moved
  OBVIOUS
<1> HIDE DEF moved
<1>5. \A u \in Trace : writer'[u] = "unwritten" => u \notin InWritten'
  BY <1>1 DEF Placed
<1>6. \A u \in Trace : u \in InWritten' <=>
        \/ u \in InBuffer' \/ u \in discarded'
        \/ \E i \in Nat : u \in InMail(i)'
        \/ \E r \in Caller : u \in InTook(r)'
  BY <1>1, <1>3, <1>4
<1>7. \A u \in Trace : \A i, j \in Nat : u \in InMail(i)' /\ u \in InMail(j)' => i = j
  BY DEF Placed
<1>8. \A u \in Trace : \A q, r \in Caller : u \in InTook(q)' /\ u \in InTook(r)' => q = r
  BY <1>2, <1>4 DEF Placed
<1>9. \A u \in Trace : \A i \in Nat, r \in Caller : ~(u \in InMail(i)' /\ u \in InTook(r)')
  BY <1>2, <1>4 DEF Placed
<1>10. \A u \in Trace : u \in InBuffer' \/ u \in discarded' =>
         (\A i \in Nat : u \notin InMail(i)') /\ \A r \in Caller : u \notin InTook(r)'
  BY <1>2, <1>4
<1>11. \A u \in Trace : ~(u \in InBuffer' /\ u \in discarded')
  OBVIOUS
<1> QED
  BY <1>5, <1>6, <1>7, <1>8, <1>9, <1>10, <1>11 DEF Placed

\* What s took goes into a mail of its own.
LEMMA PlacedMail ==
  ASSUME Placed, NEW s \in Caller, NEW n \in Nat, UNCHANGED <<writer, written, buffer, discarded>>,
         InMail(n) = {}, InMail(n)' = InTook(s), InTook(s)' = {},
         \A i \in Nat \ {n} : InMail(i)' = InMail(i),
         \A r \in Caller \ {s} : InTook(r)' = InTook(r)
  PROVE  Placed'
<1>1. InWritten' = InWritten /\ InBuffer' = InBuffer
  BY DEF InWritten, InBuffer
<1>2. \A u \in Trace : writer'[u] = "unwritten" => u \notin InWritten'
  BY <1>1 DEF Placed
<1>3. \A u \in Trace : u \in InWritten' <=>
        \/ u \in InBuffer' \/ u \in discarded'
        \/ \E i \in Nat : u \in InMail(i)'
        \/ \E r \in Caller : u \in InTook(r)'
  BY <1>1 DEF Placed
<1>4. \A u \in Trace : \A i, j \in Nat : u \in InMail(i)' /\ u \in InMail(j)' => i = j
  BY DEF Placed
<1>5. \A u \in Trace : \A q, r \in Caller : u \in InTook(q)' /\ u \in InTook(r)' => q = r
  BY DEF Placed
<1>6. \A u \in Trace : \A i \in Nat, r \in Caller : ~(u \in InMail(i)' /\ u \in InTook(r)')
  BY DEF Placed
<1>7. \A u \in Trace : u \in InBuffer' \/ u \in discarded' =>
        (\A i \in Nat : u \notin InMail(i)') /\ \A r \in Caller : u \notin InTook(r)'
  BY <1>1 DEF Placed
<1>8. \A u \in Trace : ~(u \in InBuffer' /\ u \in discarded')
  BY <1>1 DEF Placed
<1> QED
  BY <1>2, <1>3, <1>4, <1>5, <1>6, <1>7, <1>8 DEF Placed

\* Nothing is written, and what is taken or sent is what was taken or buffered.
LEMMA ContiguousMoves ==
  ASSUME BufferedTypeOK, Contiguous, written' = written, buffer' \in {buffer, <<>>},
         \A i \in DOMAIN content' :
           \/ i \in DOMAIN content /\ content'[i].body = content[i].body
           \/ \E s \in Caller : content'[i].body = sender[s].took.body,
         \A s \in Caller : sender'[s].took.body \in {sender[s].took.body, buffer, <<>>}
  PROVE  Contiguous'
<1>1. \E k \in Nat \ {0} : k + Len(<<>>) - 1 = Len(written) /\ Segment(written, <<>>, k)
  BY EmptySegment DEF BufferedTypeOK
<1>2. \A i \in DOMAIN content' : \E k \in Nat \ {0} : Segment(written', content'[i].body, k)
  BY DEF Contiguous
<1>3. \A s \in Caller : \E k \in Nat \ {0} : Segment(written', sender'[s].took.body, k)
  BY <1>1 DEF Contiguous
<1>4. \E k \in Nat \ {0} : k + Len(buffer') - 1 = Len(written') /\ Segment(written', buffer', k)
  BY <1>1 DEF Contiguous
<1>5. \A i, j \in DOMAIN written' : written'[i] = written'[j] => i = j
  BY DEF Contiguous
<1> QED
  BY <1>2, <1>3, <1>4, <1>5 DEF Contiguous

\* What was built is a mail of the pool: no more mails than traces.
LEMMA NextMailExists ==
  ASSUME BufferedTypeOK, TakenToBuild, Placed, NEW s \in Caller, sender[s].pc = "build"
  PROVE  NextMail \in Mail
<1> DEFINE n == Len(content)
           body(i) == IF i \in DOMAIN content THEN content[i].body ELSE sender[s].took.body
           h == [i \in 1..(n + 1) |-> body(i)[1]]
<1>1. /\ DOMAIN content = 1..n /\ n \in Nat
      /\ \A i \in DOMAIN content : content[i].body \in Seq(Trace) /\ content[i].body # <<>>
      /\ sender[s].took.body \in Seq(Trace) /\ sender[s].took.body # <<>>
  BY SequenceTypes DEF BufferedTypeOK, TakenToBuild
<1>2. \A b \in Seq(Trace) : b # <<>> => 1 \in DOMAIN b /\ b[1] \in Trace /\ b[1] \in ToSet(b)
  BY LenProperties, ElementOfSeq, EmptySeq DEF ToSet
<1>3. \A i \in 1..(n + 1) : body(i) \in Seq(Trace) /\ body(i) # <<>>
  BY <1>1
<1>4. \A i \in 1..(n + 1) : h[i] \in Trace /\ h[i] \in ToSet(body(i))
  BY <1>2, <1>3
<1>5. \A i \in 1..(n + 1) : ToSet(body(i)) = IF i \in DOMAIN content THEN InMail(i) ELSE InTook(s)
  BY DEF InMail, InTook
<1>6. \A i, j \in 1..(n + 1) : h[i] = h[j] => i = j
  <2> SUFFICES ASSUME NEW i \in 1..(n + 1), NEW j \in 1..(n + 1), h[i] = h[j] PROVE i = j
    OBVIOUS
  <2> HIDE DEF h, body
  <2>1. CASE i \in DOMAIN content /\ j \in DOMAIN content
    <3>1. h[i] \in InMail(i) /\ h[i] \in InMail(j) /\ i \in Nat /\ j \in Nat /\ h[i] \in Trace
      BY <1>1, <1>4, <1>5, <2>1
    <3> QED
      BY <3>1 DEF Placed
  <2>2. CASE i \notin DOMAIN content /\ j \notin DOMAIN content
    BY <1>1, <2>2
  <2>3. ASSUME NEW a \in 1..(n + 1), NEW b \in 1..(n + 1), h[a] = h[b],
               a \in DOMAIN content, b \notin DOMAIN content
        PROVE  FALSE
    <3>1. h[a] \in InMail(a) /\ h[a] \in InTook(s) /\ a \in Nat /\ h[a] \in Trace
      BY <1>1, <1>4, <1>5, <2>3
    <3> QED
      BY <3>1 DEF Placed
  <2> QED
    BY <2>1, <2>2, <2>3
<1>7. h \in Injection(1..(n + 1), Trace)
  <2>1. h \in [1..(n + 1) -> Trace]
    BY <1>4
  <2> HIDE DEF h
  <2> QED
    BY <1>6, <2>1 DEF Injection, IsInjective
<1> HIDE DEF h
<1>8. Cardinality(1..(n + 1)) <= Cardinality(Trace)
  BY <1>7, TraceAssumption, FS_Injection
<1>9. Cardinality(1..(n + 1)) = n + 1
  BY <1>1, FS_Interval
<1>10. Cardinality(Trace) \in Nat
  BY TraceAssumption, FS_CardinalityType
<1> QED
  BY <1>1, <1>8, <1>9, <1>10 DEF NextMail, Mail

--------------------------------------------------------------------------------
(* The pool.                                                               *)

PoolTypes == waiting \in Seq(Mail)
             /\ mail \in [Mail -> {"unsent", "queued", "sending", "sent", "failed"}]

EndedStays == \A m \in Mail : mail[m] \in Finished => mail'[m] = mail[m]

\* Mails are numbered.
LEMMA MailNumbers == Mail \subseteq Nat \ {0}
<1>1. Cardinality(Trace) \in Nat
  BY TraceAssumption, FS_CardinalityType
<1> QED
  BY <1>1 DEF Mail

\* The mails that wait, by their places.
LEMMA WaitingPlaces ==
  ASSUME PoolTypes
  PROVE  /\ DOMAIN waiting = 1..Len(waiting) /\ Len(waiting) \in Nat
         /\ \A k \in DOMAIN waiting : waiting[k] \in Mail
BY LenProperties, ElementOfSeq DEF PoolTypes

\* The pool may take a mail,
LEMMA HandOverEffect ==
  ASSUME PoolTypes, Queued, NEW m \in Mail, Pool!HandOver(m), Len(content) \in Nat,
         m = Len(content) + 1, Len(content') = Len(content) + 1
  PROVE  PoolTypes' /\ Queued' /\ EndedStays
<1>1. /\ mail[m] = "unsent" /\ mail' = [mail EXCEPT ![m] = "queued"] /\ waiting' = Append(waiting, m)
  BY DEF Pool!HandOver
<1>2. /\ Len(waiting') = Len(waiting) + 1 /\ waiting' \in Seq(Mail)
      /\ \A k \in 1..Len(waiting) : waiting'[k] = waiting[k]
      /\ waiting'[Len(waiting) + 1] = m
  BY <1>1, AppendProperties DEF PoolTypes
<1>3. /\ DOMAIN waiting = 1..Len(waiting) /\ Len(waiting) \in Nat
      /\ DOMAIN waiting' = 1..(Len(waiting) + 1)
      /\ \A k \in 1..Len(waiting) : waiting[k] \in Mail
  BY <1>2, WaitingPlaces, LenProperties
<1>4. /\ mail'[m] = "queued" /\ \A n \in Mail \ {m} : mail'[n] = mail[n]
      /\ \A n \in Mail : n \in Nat
  BY <1>1, MailNumbers DEF PoolTypes
<1>5. \A k \in DOMAIN waiting' : \/ k \in 1..Len(waiting) /\ waiting'[k] = waiting[k]
                                 \/ k = Len(waiting) + 1 /\ waiting'[k] = m
  BY <1>2, <1>3
<1>6. \A k \in 1..Len(waiting) : waiting[k] # m /\ mail[waiting[k]] = "queued" /\ waiting[k] < m
  <2> SUFFICES ASSUME NEW k \in 1..Len(waiting)
               PROVE  waiting[k] # m /\ mail[waiting[k]] = "queued" /\ waiting[k] < m
    OBVIOUS
  <2>1. mail[waiting[k]] = "queued" /\ waiting[k] \in Mail
    BY <1>3 DEF Queued
  <2> DEFINE n == waiting[k]
  <2>2. n \in Mail /\ mail[n] = "queued"
    BY <2>1
  <2> HIDE DEF n
  <2>3. ~(n > Len(content)) /\ n \in Nat
    BY <1>4, <2>2 DEF Queued
  <2>4. n < m
    BY <2>3
  <2> QED
    BY <1>1, <2>2, <2>3, <2>4 DEF n
<1>7. \A k \in DOMAIN waiting' : mail'[waiting'[k]] = "queued"
  BY <1>3, <1>4, <1>5, <1>6
<1>8. \A k, l \in DOMAIN waiting' : k < l => waiting'[k] < waiting'[l]
  <2> SUFFICES ASSUME NEW k \in DOMAIN waiting', NEW l \in DOMAIN waiting', k < l
               PROVE  waiting'[k] < waiting'[l]
    OBVIOUS
  <2>1. k \in 1..Len(waiting) /\ waiting'[k] = waiting[k]
    BY <1>3, <1>5
  <2> QED
    BY <1>3, <1>5, <1>6, <2>1 DEF Queued
<1>9. \A n \in Mail : mail'[n] = "queued" => \E k \in DOMAIN waiting' : waiting'[k] = n
  <2> SUFFICES ASSUME NEW n \in Mail, mail'[n] = "queued" PROVE \E k \in DOMAIN waiting' : waiting'[k] = n
    OBVIOUS
  <2>1. CASE n = m
    BY <1>2, <1>3, <2>1
  <2>2. CASE n # m
    <3>1. PICK k \in 1..Len(waiting) : waiting[k] = n
      BY <1>3, <1>4, <2>2 DEF Queued
    <3> QED
      BY <1>2, <1>3, <3>1
  <2> QED
    BY <2>1, <2>2
<1>10. \A n \in Mail : mail'[n] = "unsent" <=> n > Len(content')
  <2> SUFFICES ASSUME NEW n \in Mail PROVE mail'[n] = "unsent" <=> n > Len(content')
    OBVIOUS
  <2>1. n \in Nat /\ (mail[n] = "unsent" <=> n > Len(content))
    BY <1>4 DEF Queued
  <2>2. CASE n = m
    BY <1>4, <2>1, <2>2
  <2>3. CASE n # m
    BY <1>4, <2>1, <2>3
  <2> QED
    BY <2>2, <2>3
<1>11. \A l, n \in Mail : l < n /\ mail'[l] = "queued" => mail'[n] \in {"queued", "unsent"}
  <2> SUFFICES ASSUME NEW l \in Mail, NEW n \in Mail, l < n, mail'[l] = "queued"
               PROVE  mail'[n] \in {"queued", "unsent"}
    OBVIOUS
  <2>1. CASE n = m
    BY <1>4, <2>1
  <2>2. CASE n # m /\ l = m
    <3>1. n > Len(content) /\ mail'[n] = mail[n]
      BY <1>4, <2>2
    <3> QED
      BY <3>1 DEF Queued
  <2>3. CASE n # m /\ l # m
    BY <1>4, <2>3 DEF Queued
  <2> QED
    BY <2>1, <2>2, <2>3
<1>12. PoolTypes' /\ EndedStays
  BY <1>1, <1>2 DEF PoolTypes, EndedStays, Finished
<1> QED
  BY <1>7, <1>8, <1>9, <1>10, <1>11, <1>12 DEF Queued

\* begin to send one,
LEMMA StartEffect ==
  ASSUME PoolTypes, Queued, Pool!Start, content' = content PROVE PoolTypes' /\ Queued' /\ EndedStays
<1>1. /\ waiting # <<>> /\ mail' = [mail EXCEPT ![Head(waiting)] = "sending"] /\ waiting' = Tail(waiting)
  BY DEF Pool!Start
<1>2. /\ Head(waiting) = waiting[1] /\ Head(waiting) \in Mail
      /\ waiting' \in Seq(Mail) /\ Len(waiting') = Len(waiting) - 1
      /\ \A k \in 1..Len(waiting') : waiting'[k] = waiting[k + 1]
  BY <1>1, HeadTailProperties DEF PoolTypes
<1>3. /\ DOMAIN waiting = 1..Len(waiting) /\ Len(waiting) \in Nat /\ Len(waiting) > 0
      /\ DOMAIN waiting' = 1..Len(waiting')
      /\ \A k \in 1..Len(waiting) : waiting[k] \in Mail
  BY <1>1, <1>2, WaitingPlaces, LenProperties, EmptySeq DEF PoolTypes
<1> DEFINE h == Head(waiting)
<1>4. /\ mail'[h] = "sending" /\ \A n \in Mail \ {h} : mail'[n] = mail[n]
      /\ \A n \in Mail : n \in Nat
  BY <1>1, <1>2, MailNumbers DEF PoolTypes
<1>5. h \in Mail /\ waiting[1] = h /\ mail[h] = "queued"
  BY <1>2, <1>3 DEF Queued
<1> HIDE DEF h
<1>6. \A k \in DOMAIN waiting' : k \in Nat /\ k + 1 \in DOMAIN waiting /\ waiting'[k] = waiting[k + 1]
                                /\ 1 < k + 1
  BY <1>2, <1>3
<1>7. \A k \in DOMAIN waiting : k # 1 => h < waiting[k] /\ waiting[k] \in Mail
  BY <1>3, <1>5 DEF Queued
<1>8. \A k \in DOMAIN waiting' : mail'[waiting'[k]] = "queued"
  <2> SUFFICES ASSUME NEW k \in DOMAIN waiting' PROVE mail'[waiting[k + 1]] = "queued"
    BY <1>6
  <2>1. h < waiting[k + 1] /\ waiting[k + 1] \in Mail /\ mail[waiting[k + 1]] = "queued"
    BY <1>6, <1>7 DEF Queued
  <2> QED
    BY <1>4, <1>5, <2>1
<1>9. \A k, l \in DOMAIN waiting' : k < l => waiting'[k] < waiting'[l]
  <2> SUFFICES ASSUME NEW k \in DOMAIN waiting', NEW l \in DOMAIN waiting', k < l
               PROVE  waiting[k + 1] < waiting[l + 1]
    BY <1>6
  <2>1. k + 1 < l + 1
    BY <1>6
  <2> QED
    BY <1>6, <2>1 DEF Queued
<1>10. \A n \in Mail : mail'[n] = "queued" => \E k \in DOMAIN waiting' : waiting'[k] = n
  <2> SUFFICES ASSUME NEW n \in Mail, mail'[n] = "queued" PROVE \E k \in DOMAIN waiting' : waiting'[k] = n
    OBVIOUS
  <2>1. n # h /\ mail[n] = "queued"
    BY <1>4
  <2>2. PICK k \in DOMAIN waiting : waiting[k] = n
    BY <2>1 DEF Queued
  <2>3. k # 1
    BY <1>5, <2>1, <2>2
  <2>4. k - 1 \in DOMAIN waiting' /\ (k - 1) + 1 = k
    BY <1>2, <1>3, <2>3
  <2> QED
    BY <1>6, <2>2, <2>4
<1>11. \A n \in Mail : mail'[n] = "unsent" <=> n > Len(content')
  BY <1>4, <1>5 DEF Queued
<1>12. \A l, n \in Mail : l < n /\ mail'[l] = "queued" => mail'[n] \in {"queued", "unsent"}
  <2> SUFFICES ASSUME NEW l \in Mail, NEW n \in Mail, l < n, mail'[l] = "queued"
               PROVE  mail'[n] \in {"queued", "unsent"}
    OBVIOUS
  <2>1. l # h /\ mail[l] = "queued"
    BY <1>4
  <2>2. PICK k \in DOMAIN waiting : waiting[k] = l
    BY <2>1 DEF Queued
  <2>3. h < l
    BY <1>5, <1>7, <2>1, <2>2
  <2>4. n # h
    BY <1>4, <1>5, <2>3
  <2> QED
    BY <1>4, <2>1, <2>4 DEF Queued
<1>13. PoolTypes' /\ EndedStays
  BY <1>1, <1>2, <1>5 DEF PoolTypes, EndedStays, Finished, h
<1> QED
  BY <1>8, <1>9, <1>10, <1>11, <1>12, <1>13 DEF Queued

\* or end one: what was handed over stays with it.
LEMMA EndEffect ==
  ASSUME PoolTypes, Queued, NEW m \in Mail, Pool!End(m), content' = content
  PROVE  PoolTypes' /\ Queued' /\ EndedStays
<1>1. PICK result \in Finished : mail' = [mail EXCEPT ![m] = result]
  BY DEF Pool!End, Finished
<1>2. mail[m] = "sending" /\ waiting' = waiting
  BY DEF Pool!End
<1>3. /\ mail'[m] = result /\ result \notin {"queued", "unsent"}
      /\ \A n \in Mail \ {m} : mail'[n] = mail[n]
  BY <1>1 DEF PoolTypes, Finished
<1>4. \A k \in DOMAIN waiting : waiting[k] \in Mail /\ mail[waiting[k]] = "queued" /\ waiting[k] # m
  BY <1>2, WaitingPlaces DEF Queued
<1>5. \A n \in Mail : mail'[n] = "unsent" <=> mail[n] = "unsent"
  BY <1>2, <1>3
<1>6. \A l, n \in Mail : l < n /\ mail'[l] = "queued" => mail'[n] \in {"queued", "unsent"}
  <2> SUFFICES ASSUME NEW l \in Mail, NEW n \in Mail, l < n, mail'[l] = "queued"
               PROVE  mail'[n] \in {"queued", "unsent"}
    OBVIOUS
  <2>1. mail[l] = "queued"
    BY <1>3
  <2>2. mail[n] \in {"queued", "unsent"}
    BY <2>1 DEF Queued
  <2> QED
    BY <1>2, <1>3, <2>2
<1>7. Queued'
  <2>1. \A k \in DOMAIN waiting' : mail'[waiting'[k]] = "queued"
    BY <1>2, <1>3, <1>4
  <2>2. \A n \in Mail : mail'[n] = "queued" => \E k \in DOMAIN waiting' : waiting'[k] = n
    BY <1>2, <1>3 DEF Queued
  <2> QED
    BY <1>2, <1>5, <1>6, <2>1, <2>2 DEF Queued
<1>8. PoolTypes' /\ EndedStays
  BY <1>1, <1>2 DEF PoolTypes, EndedStays, Finished
<1> QED
  BY <1>7, <1>8

--------------------------------------------------------------------------------
(* Every step of the buffered listener keeps the invariant.                *)

\* The traces stay where they are.
LEMMA PlacesStay ==
  ASSUME BufferedTypeOK, Placed, Contiguous, UNCHANGED <<buffer, written, content, discarded>>,
         \A s \in Caller : sender'[s].took = sender[s].took,
         \A t \in Trace : writer'[t] = "unwritten" => writer[t] = "unwritten"
  PROVE  Placed' /\ Contiguous'
<1>1. /\ InBuffer' = InBuffer /\ InWritten' = InWritten
      /\ \A i \in Nat : InMail(i)' = InMail(i)
      /\ \A s \in Caller : InTook(s)' = InTook(s)
  BY DEF InBuffer, InWritten, InMail, InTook
<1>2. Placed'
  BY <1>1 DEF Placed
<1>3. Contiguous'
  BY ContiguousMoves
<1> QED
  BY <1>2, <1>3

\* A step that changes neither the senders nor the pool.
LEMMA SendersStay ==
  ASSUME BufferedInv, UNCHANGED <<sender, content, waiting, mail>>
  PROVE  TakenToBuild' /\ Queued' /\ ExitEnded'
BY DEF BufferedInv, TakenToBuild, Queued, ExitEnded

\* A trace goes to the buffer.
LEMMA AppendTraceInv == ASSUME BufferedInv, NEW t \in Trace, AppendTrace(t) PROVE BufferedInv'
<1>1. /\ writer[t] = "unwritten" /\ buffer' = Append(buffer, t) /\ written' = Append(written, t)
      /\ writer' = [writer EXCEPT ![t] = IF FirstMessage THEN "subject" ELSE "written"]
      /\ UNCHANGED <<subject, header, sender, content, discarded, waiting, mail>>
  BY DEF AppendTrace, pool
<1>2. buffer' \in Seq(Trace) /\ written' \in Seq(Trace)
  BY <1>1, AppendProperties DEF BufferedInv, BufferedTypeOK
<1>3. /\ writer' \in [Trace -> {"unwritten", "subject", "header", "written"}]
      /\ writer'[t] # "unwritten" /\ \A u \in Trace \ {t} : writer'[u] = writer[u]
  BY <1>1 DEF BufferedInv, BufferedTypeOK
<1>4. BufferedTypeOK'
  BY <1>1, <1>2, <1>3 DEF BufferedInv, BufferedTypeOK
<1>5. Placed'
  <2>1. InBuffer' = InBuffer \cup {t} /\ InWritten' = InWritten \cup {t}
    BY <1>1, ToSetAppend DEF BufferedInv, BufferedTypeOK, InBuffer, InWritten
  <2>2. (\A i \in Nat : InMail(i)' = InMail(i)) /\ \A s \in Caller : InTook(s)' = InTook(s)
    BY <1>1 DEF InMail, InTook
  <2> QED
    BY <1>1, <1>3, <2>1, <2>2, PlacedAppend DEF BufferedInv
<1>6. Contiguous'
  <2>1. /\ buffer \in Seq(Trace) /\ written \in Seq(Trace)
        /\ \A s \in Caller : sender[s].took.body \in Seq(Trace)
        /\ \A i \in DOMAIN content : content[i].body \in Seq(Trace)
    BY SequenceTypes DEF BufferedInv
  <2>2. ASSUME NEW i \in DOMAIN content
        PROVE  \E k \in Nat \ {0} : Segment(Append(written, t), content[i].body, k)
    BY <2>1, SegmentAppend DEF BufferedInv, Contiguous
  <2>3. ASSUME NEW s \in Caller
        PROVE  \E k \in Nat \ {0} : Segment(Append(written, t), sender[s].took.body, k)
    BY <2>1, SegmentAppend DEF BufferedInv, Contiguous
  <2>4. \E k \in Nat \ {0} : /\ k + Len(Append(buffer, t)) - 1 = Len(Append(written, t))
                             /\ Segment(Append(written, t), Append(buffer, t), k)
    BY <2>1, SegmentAppend DEF BufferedInv, Contiguous
  <2>5. \A i, j \in DOMAIN written' : written'[i] = written'[j] => i = j
    <3>1. /\ DOMAIN written = 1..Len(written) /\ Len(written) \in Nat
          /\ DOMAIN written' = 1..(Len(written) + 1) /\ written'[Len(written) + 1] = t
          /\ \A i \in 1..Len(written) : written'[i] = written[i]
      BY <1>1, <1>2, <2>1, AppendProperties, LenProperties
    <3>2. \A i \in 1..Len(written) : written[i] # t
      BY <1>1, <3>1 DEF BufferedInv, Placed, InWritten, ToSet
    <3> QED
      BY <3>1, <3>2 DEF BufferedInv, Contiguous
  <2> QED
    BY <1>1, <2>2, <2>3, <2>4, <2>5 DEF Contiguous
<1>7. TakenToBuild' /\ Queued' /\ ExitEnded'
  BY <1>1, SendersStay
<1> QED
  BY <1>4, <1>5, <1>6, <1>7 DEF BufferedInv

\* Subject and header are written.
LEMMA SetHeaderInv ==
  ASSUME BufferedInv, NEW t \in Trace, SetSubject(t) \/ SetHeader(t) PROVE BufferedInv'
<1>1. /\ subject' \in {subject, t} /\ header' \in {header, t} /\ writer[t] \in {"subject", "header"}
      /\ \E at \in {"header", "written"} : writer' = [writer EXCEPT ![t] = at]
      /\ UNCHANGED <<buffer, sender, content, written, discarded, waiting, mail>>
  BY DEF SetSubject, SetHeader, pool
<1>2. BufferedTypeOK'
  BY <1>1 DEF BufferedInv, BufferedTypeOK
<1>3. \A u \in Trace : writer'[u] = "unwritten" => writer[u] = "unwritten"
  BY <1>1 DEF BufferedInv, BufferedTypeOK
<1>4. Placed' /\ Contiguous'
  BY <1>1, <1>3, PlacesStay DEF BufferedInv
<1>5. TakenToBuild' /\ Queued' /\ ExitEnded'
  BY <1>1, SendersStay
<1> QED
  BY <1>2, <1>4, <1>5 DEF BufferedInv

\* The types of buffer, subject and header when the buffer is replaced.
LEMMA EmptyEffect ==
  ASSUME BufferedTypeOK, Empty
  PROVE  /\ buffer' = <<>> /\ buffer' \in Seq(Trace) /\ InBuffer' = {}
         /\ subject' \in Trace \cup {None} /\ header' \in Trace \cup {None}
BY EmptySeq, ToSetTypes DEF Empty, BufferedTypeOK, InBuffer

\* Clear empties the buffer.
LEMMA ClearInv == ASSUME BufferedInv, Clear PROVE BufferedInv'
<1>1. /\ Empty /\ discarded' = discarded \cup InBuffer
      /\ UNCHANGED <<writer, sender, content, written, waiting, mail>>
  BY DEF Clear, pool, InBuffer
<1>2. /\ buffer' = <<>> /\ buffer' \in Seq(Trace) /\ InBuffer' = {}
      /\ subject' \in Trace \cup {None} /\ header' \in Trace \cup {None}
  BY <1>1, EmptyEffect DEF BufferedInv
<1>3. InBuffer \subseteq Trace
  BY ToSetTypes DEF BufferedInv, BufferedTypeOK, InBuffer
<1>4. BufferedTypeOK'
  BY <1>1, <1>2, <1>3 DEF BufferedInv, BufferedTypeOK
<1>5. Placed'
  <2>1. /\ \A i \in Nat : InMail(i)' = InMail(i) /\ \A s \in Caller : InTook(s)' = InTook(s)
        /\ Exit \in Caller
    BY <1>1 DEF InMail, InTook, Caller
  <2>2. InTook(Exit)' \cap discarded' = {}
    <3>1. InTook(Exit) \subseteq Trace
      BY SequenceTypes, ToSetTypes, <2>1 DEF BufferedInv, InTook
    <3> QED
      BY <1>1, <1>3, <2>1, <3>1 DEF BufferedInv, Placed
  <2> QED
    BY <1>1, <1>2, <2>1, <2>2, PlacedSend DEF BufferedInv
<1>6. Contiguous'
  BY <1>1, <1>2, ContiguousMoves DEF BufferedInv
<1>7. TakenToBuild' /\ Queued' /\ ExitEnded'
  BY <1>1, SendersStay
<1> QED
  BY <1>4, <1>5, <1>6, <1>7 DEF BufferedInv

\* A sender moves: the exit handler is over only after its mail.
LEMMA ExitStays ==
  ASSUME BufferedInv, EndedStays, NEW s \in Caller, NEW at, NEW took, NEW m, Becomes(s, at, took, m),
         s = Exit /\ at \in {"over", "gone"} /\ m # 0 => mail'[m] \in Finished
  PROVE  ExitEnded'
<1>1. CASE s = Exit
  BY <1>1 DEF ExitEnded, Becomes
<1>2. CASE s # Exit
  <2>1. Exit \in Caller /\ sender'[Exit] = sender[Exit]
    BY <1>2 DEF Becomes, Caller
  <2>2. sender[Exit].mail \in {0} \cup Mail
    BY <2>1, SequenceTypes DEF BufferedInv, Sending
  <2> QED
    BY <2>1, <2>2 DEF BufferedInv, ExitEnded, EndedStays
<1> QED
  BY <1>1, <1>2

\* A sender moves: it has taken something if and only if it builds a mail now.
LEMMA TakenStays ==
  ASSUME TakenToBuild, NEW s \in Caller, NEW at, NEW took, NEW m, Becomes(s, at, took, m),
         took.body = <<>> <=> at # "build"
  PROVE  TakenToBuild'
BY DEF TakenToBuild, Becomes

\* What the senders hold, when s has moved.
LEMMA InTookBecomes ==
  ASSUME NEW s \in Caller, NEW at, NEW took, NEW m, Becomes(s, at, took, m)
  PROVE  InTook(s)' = ToSet(took.body) /\ \A r \in Caller \ {s} : InTook(r)' = InTook(r)
BY DEF Becomes, InTook

\* The critical section of InternalSend.
LEMMA TakeBufferInv == ASSUME BufferedInv, NEW s \in Caller, TakeBuffer(s) PROVE BufferedInv'
<1>1. /\ sender[s].pc = "idle" /\ sender' = [sender EXCEPT ![s] = Taken(s)] /\ Empty
      /\ UNCHANGED <<writer, content, written, discarded, waiting, mail>>
  BY DEF TakeBuffer, pool
<1>2. /\ buffer' = <<>> /\ buffer' \in Seq(Trace) /\ InBuffer' = {}
      /\ subject' \in Trace \cup {None} /\ header' \in Trace \cup {None}
  BY <1>1, EmptyEffect DEF BufferedInv
<1>3. \E at \in {"idle", "over", "build"}, took \in Contents :
        /\ Becomes(s, at, took, 0) /\ took.body = buffer
        /\ took.body = <<>> <=> at # "build"
  <2>1. CASE buffer = <<>>
    <3>1. Taken(s) = Over(s)
      BY <2>1 DEF Taken
    <3>2. \E at \in {"idle", "over"} : Becomes(s, at, Nothing, 0)
      BY <1>1, <3>1, OverEffect DEF BufferedInv
    <3> QED
      BY <2>1, <3>2, RestTypes
  <2>2. CASE buffer # <<>>
    <3> DEFINE took == [subject |-> subject, header |-> header, body |-> buffer]
    <3>1. took \in Contents /\ took.body = buffer
      BY DEF BufferedInv, BufferedTypeOK, Contents
    <3>2. Taken(s) = [AtRest EXCEPT !.pc = "build", !.took = took]
      BY <2>2 DEF Taken
    <3> HIDE DEF took
    <3>3. AtRest \in Sending /\ AtRest.mail = 0
      BY RestTypes
    <3>4. /\ Taken(s) \in Sending /\ Taken(s).pc = "build" /\ Taken(s).took = took
          /\ Taken(s).mail = 0
      BY <3>1, <3>2, <3>3 DEF Sending
    <3>5. Becomes(s, "build", took, 0)
      BY <1>1, <3>4, SequenceTypes DEF BufferedInv, Becomes
    <3> QED
      BY <2>2, <3>1, <3>5
  <2> QED
    BY <2>1, <2>2
<1>4. PICK at \in {"idle", "over", "build"}, took \in Contents :
        /\ Becomes(s, at, took, 0) /\ took.body = buffer
        /\ took.body = <<>> <=> at # "build"
  BY <1>3
<1>5. sender[s].took.body = <<>>
  BY <1>1 DEF BufferedInv, TakenToBuild
<1>6. BufferedTypeOK'
  BY <1>1, <1>2, <1>4 DEF BufferedInv, BufferedTypeOK, Becomes, Sending
<1>7. Placed'
  <2>1. \A i \in Nat : InMail(i)' = InMail(i)
    BY <1>1 DEF InMail
  <2>2. InTook(s)' = InBuffer /\ \A r \in Caller \ {s} : InTook(r)' = InTook(r)
    BY <1>4, InTookBecomes DEF InBuffer
  <2>3. InTook(s) = {}
    BY <1>5, ToSetTypes DEF InTook
  <2>4. InBuffer \cap discarded = {}
    <3>1. discarded \subseteq Trace
      BY DEF BufferedInv, BufferedTypeOK
    <3> QED
      BY <3>1 DEF BufferedInv, Placed
  <2> QED
    BY <1>1, <1>2, <2>1, <2>2, <2>3, <2>4, PlacedSend DEF BufferedInv
<1>8. Contiguous'
  <2>1. \A r \in Caller : sender'[r].took.body \in {sender[r].took.body, buffer, <<>>}
    BY <1>4 DEF Becomes
  <2> QED
    BY <1>1, <1>2, <2>1, ContiguousMoves DEF BufferedInv
<1>9. TakenToBuild'
  BY <1>4, TakenStays DEF BufferedInv
<1>10. Queued' /\ ExitEnded'
  <2>1. EndedStays
    BY <1>1 DEF EndedStays
  <2> QED
    BY <1>1, <1>4, <2>1, ExitStays DEF BufferedInv, Queued
<1> QED
  BY <1>6, <1>7, <1>8, <1>9, <1>10 DEF BufferedInv

\* The mail is handed to the pool, whether the pool throws then or not.
LEMMA BeginSendInv ==
  ASSUME BufferedInv, NEW s \in Caller, BeginSend(s) \/ BeginSendThrows(s) PROVE BufferedInv'
<1>1. /\ sender[s].pc = "build" /\ content' = Append(content, sender[s].took)
      /\ Pool!HandOver(NextMail)
      /\ sender' \in {[sender EXCEPT ![s] = Over(s)],
                      [sender EXCEPT ![s] = [AtRest EXCEPT !.pc = "wait", !.mail = NextMail]]}
      /\ UNCHANGED <<buffer, subject, header, writer, written, discarded>>
  BY DEF BeginSend, BeginSendThrows, listener
<1>2. NextMail \in Mail /\ NextMail = Len(content) + 1
  BY <1>1, NextMailExists DEF BufferedInv, NextMail
<1>3. \E at \in {"idle", "over", "wait"}, m \in {0} \cup Mail :
        Becomes(s, at, Nothing, m) /\ (at = "over" => m = 0)
  <2>1. CASE sender' = [sender EXCEPT ![s] = [AtRest EXCEPT !.pc = "wait", !.mail = NextMail]]
    <3>1. AtRest \in Sending /\ AtRest.took = Nothing
      BY RestTypes
    <3> DEFINE r == [AtRest EXCEPT !.pc = "wait", !.mail = NextMail]
    <3>2. r \in Sending /\ r.pc = "wait" /\ r.took = Nothing /\ r.mail = NextMail
      BY <1>2, <3>1 DEF Sending
    <3>3. sender' = [sender EXCEPT ![s] = r]
      BY <2>1
    <3> HIDE DEF r
    <3>4. Becomes(s, "wait", Nothing, NextMail)
      BY <3>2, <3>3, SequenceTypes DEF BufferedInv, Becomes
    <3> QED
      BY <1>2, <3>4
  <2>2. CASE sender' = [sender EXCEPT ![s] = Over(s)]
    <3>1. \E at \in {"idle", "over"} : Becomes(s, at, Nothing, 0)
      BY <2>2, OverEffect DEF BufferedInv
    <3> QED
      BY <3>1
  <2> QED
    BY <1>1, <2>1, <2>2
<1>4. PICK at \in {"idle", "over", "wait"}, m \in {0} \cup Mail :
        Becomes(s, at, Nothing, m) /\ (at = "over" => m = 0)
  BY <1>3
<1>5. /\ DOMAIN content = 1..Len(content) /\ Len(content) \in Nat /\ content \in Seq(Contents)
      /\ sender[s].took \in Contents /\ sender[s].took.body # <<>>
      /\ \A i \in DOMAIN content : content[i].body # <<>>
  BY <1>1, SequenceTypes DEF BufferedInv, TakenToBuild, BufferedTypeOK
<1>6. /\ content' \in Seq(Contents) /\ Len(content') = Len(content) + 1
      /\ DOMAIN content' = 1..(Len(content) + 1)
      /\ \A i \in DOMAIN content : content'[i] = content[i]
      /\ content'[Len(content) + 1] = sender[s].took
  BY <1>1, <1>5, AppendProperties, LenProperties
<1>7. PoolTypes' /\ Queued' /\ EndedStays
  BY <1>1, <1>2, <1>5, <1>6, HandOverEffect DEF BufferedInv, BufferedTypeOK, PoolTypes
<1>8. \A i \in DOMAIN content' : \/ i \in DOMAIN content /\ content'[i] = content[i]
                                 \/ i = Len(content) + 1 /\ content'[i] = sender[s].took
  BY <1>5, <1>6
<1>9. BufferedTypeOK'
  <2>1. \A i \in DOMAIN content' : content'[i].body # <<>>
    BY <1>5, <1>8
  <2> QED
    BY <1>1, <1>4, <1>6, <1>7, <2>1 DEF BufferedInv, BufferedTypeOK, Becomes, Sending, PoolTypes
<1>10. Placed'
  <2> SUFFICES ASSUME NEW n \in Nat, n = Len(content) + 1 PROVE Placed'
    BY <1>5
  <2>1. /\ InMail(n) = {} /\ InMail(n)' = InTook(s)
        /\ \A i \in Nat \ {n} : InMail(i)' = InMail(i)
    BY <1>5, <1>6, <1>8 DEF InMail, InTook
  <2>2. InTook(s)' = {} /\ \A r \in Caller \ {s} : InTook(r)' = InTook(r)
    BY <1>4, InTookBecomes, RestTypes, ToSetTypes
  <2> QED
    BY <1>1, <2>1, <2>2, PlacedMail DEF BufferedInv
<1>11. Contiguous'
  <2>1. \A r \in Caller : sender'[r].took.body \in {sender[r].took.body, buffer, <<>>}
    BY <1>4, RestTypes DEF Becomes
  <2>2. \A i \in DOMAIN content' :
          \/ i \in DOMAIN content /\ content'[i].body = content[i].body
          \/ \E r \in Caller : content'[i].body = sender[r].took.body
    BY <1>8
  <2> QED
    BY <1>1, <2>1, <2>2, ContiguousMoves DEF BufferedInv
<1>12. TakenToBuild' /\ ExitEnded'
  BY <1>4, <1>7, RestTypes, TakenStays, ExitStays DEF BufferedInv
<1> QED
  BY <1>7, <1>9, <1>10, <1>11, <1>12 DEF BufferedInv

\* The mail cannot be built.
LEMMA BuildFailsInv == ASSUME BufferedInv, NEW s \in Caller, BuildFails(s) PROVE BufferedInv'
<1>1. /\ sender[s].pc = "build" /\ sender' = [sender EXCEPT ![s] = Over(s)]
      /\ discarded' = discarded \cup InTook(s)
      /\ UNCHANGED <<buffer, subject, header, writer, content, written, waiting, mail>>
  BY DEF BuildFails, pool, InTook
<1>2. PICK at \in {"idle", "over"} : Becomes(s, at, Nothing, 0)
  BY <1>1, OverEffect DEF BufferedInv
<1>3. InTook(s) \subseteq Trace /\ InBuffer \subseteq Trace
  BY SequenceTypes, ToSetTypes DEF BufferedInv, InTook, InBuffer
<1>4. BufferedTypeOK'
  BY <1>1, <1>2, <1>3 DEF BufferedInv, BufferedTypeOK, Becomes, Sending
<1>5. Placed'
  <2>1. InBuffer' = InBuffer /\ \A i \in Nat : InMail(i)' = InMail(i)
    BY <1>1 DEF InMail, InBuffer
  <2>2. InTook(s)' = {} /\ \A r \in Caller \ {s} : InTook(r)' = InTook(r)
    BY <1>2, InTookBecomes, RestTypes, ToSetTypes
  <2>3. InBuffer \cap (discarded \cup InTook(s)) = {}
    BY <1>3 DEF BufferedInv, Placed
  <2> QED
    BY <1>1, <2>1, <2>2, <2>3, PlacedSend DEF BufferedInv
<1>6. Contiguous'
  <2>1. \A r \in Caller : sender'[r].took.body \in {sender[r].took.body, buffer, <<>>}
    BY <1>2, RestTypes DEF Becomes
  <2> QED
    BY <1>1, <2>1, ContiguousMoves DEF BufferedInv
<1>7. TakenToBuild'
  BY <1>2, RestTypes, TakenStays DEF BufferedInv
<1>8. Queued' /\ ExitEnded'
  <2>1. EndedStays
    BY <1>1 DEF EndedStays
  <2> QED
    BY <1>1, <1>2, <2>1, ExitStays DEF BufferedInv, Queued
<1> QED
  BY <1>4, <1>5, <1>6, <1>7, <1>8 DEF BufferedInv

\* The exit handler waits, and the process ends.
LEMMA ExitInv == ASSUME BufferedInv, EndSend \/ ProcessEnds PROVE BufferedInv'
<1>1. UNCHANGED <<buffer, subject, header, writer, content, written, discarded, waiting, mail>>
  BY DEF EndSend, ProcessEnds, listener, pool
<1>2. Exit \in Caller /\ sender[Exit].pc # "build"
  BY DEF EndSend, ProcessEnds, Caller
<1>3. \E at \in {"over", "gone"} :
        /\ Becomes(Exit, at, sender[Exit].took, sender[Exit].mail)
        /\ sender[Exit].mail # 0 => mail[sender[Exit].mail] \in Finished
  <2>1. sender \in [Caller -> Sending]
    BY SequenceTypes DEF BufferedInv
  <2>2. ASSUME NEW at \in {"over", "gone"}, sender' = [sender EXCEPT ![Exit].pc = at]
        PROVE  Becomes(Exit, at, sender[Exit].took, sender[Exit].mail)
    BY <1>2, <2>1, <2>2 DEF Becomes, Sending
  <2>3. CASE EndSend
    BY <2>2, <2>3 DEF EndSend
  <2>4. CASE ProcessEnds
    BY <2>2, <2>4 DEF ProcessEnds, BufferedInv, ExitEnded
  <2> QED
    BY <2>3, <2>4
<1>4. PICK at \in {"over", "gone"} :
        /\ Becomes(Exit, at, sender[Exit].took, sender[Exit].mail)
        /\ sender[Exit].mail # 0 => mail[sender[Exit].mail] \in Finished
  BY <1>3
<1>5. BufferedTypeOK'
  BY <1>1, <1>4 DEF BufferedInv, BufferedTypeOK, Becomes, Sending
<1>6. Placed' /\ Contiguous'
  <2>1. \A r \in Caller : sender'[r].took = sender[r].took
    BY <1>4 DEF Becomes
  <2> QED
    BY <1>1, <2>1, PlacesStay DEF BufferedInv
<1>7. TakenToBuild'
  BY <1>2, <1>4, TakenStays DEF BufferedInv, TakenToBuild
<1>8. Queued' /\ ExitEnded'
  <2>1. EndedStays
    BY <1>1 DEF EndedStays
  <2> QED
    BY <1>1, <1>2, <1>4, <2>1, ExitStays DEF BufferedInv, Queued
<1> QED
  BY <1>5, <1>6, <1>7, <1>8 DEF BufferedInv

\* The pool works on.
LEMMA PoolStepInv == ASSUME BufferedInv, PoolStep PROVE BufferedInv'
<1>1. UNCHANGED <<buffer, subject, header, writer, written, discarded, sender, content>>
  BY DEF PoolStep, listener
<1>2. PoolTypes' /\ Queued' /\ EndedStays
  BY StartEffect, EndEffect DEF PoolStep, BufferedInv, BufferedTypeOK, PoolTypes
<1>3. BufferedTypeOK'
  BY <1>1, <1>2 DEF BufferedInv, BufferedTypeOK, PoolTypes
<1>4. Placed' /\ Contiguous' /\ TakenToBuild'
  BY <1>1, PlacesStay DEF BufferedInv, TakenToBuild
<1>5. ExitEnded'
  <2>1. sender[Exit].mail \in {0} \cup Mail
    BY SequenceTypes DEF BufferedInv, Sending, Caller
  <2> QED
    BY <1>1, <1>2, <2>1 DEF BufferedInv, ExitEnded, EndedStays
<1> QED
  BY <1>2, <1>3, <1>4, <1>5 DEF BufferedInv

\* The invariant holds at the start.
LEMMA BufferedInitInv == ASSUME BufferedInit PROVE BufferedInv
<1>1. /\ buffer = <<>> /\ subject = None /\ header = None /\ content = <<>> /\ written = <<>>
      /\ discarded = {} /\ waiting = <<>>
      /\ writer = [t \in Trace |-> "unwritten"] /\ sender = [s \in Caller |-> AtRest]
      /\ mail = [m \in Mail |-> "unsent"]
  BY DEF BufferedInit, Pool!Init
<1>2. /\ \A S : <<>> \in Seq(S) /\ DOMAIN <<>> = {} /\ Len(<<>>) = 0
      /\ ToSet(<<>>) = {}
  BY EmptySeq, ToSetTypes
<1>3. \A s \in Caller : /\ sender[s] \in Sending /\ sender[s].pc = "idle" /\ sender[s].mail = 0
                        /\ sender[s].took.body = <<>>
  BY <1>1, RestTypes
<1>4. BufferedTypeOK
  BY <1>1, <1>2, <1>3 DEF BufferedTypeOK, Sending
<1>5. TakenToBuild /\ Queued /\ ExitEnded
  <2>1. \A m \in Mail : m > 0 /\ mail[m] = "unsent"
    BY <1>1, MailNumbers
  <2>2. Queued
    BY <1>1, <1>2, <2>1 DEF Queued
  <2> QED
    BY <1>3, <2>2 DEF TakenToBuild, ExitEnded, Caller
<1>6. Placed
  BY <1>1, <1>2, <1>3 DEF Placed, InBuffer, InWritten, InMail, InTook
<1>7. Contiguous
  <2>1. \E k \in Nat \ {0} : k + Len(<<>>) - 1 = Len(written) /\ Segment(written, <<>>, k)
    BY <1>1, <1>2, EmptySegment
  <2> QED
    BY <1>1, <1>2, <1>3, <2>1 DEF Contiguous
<1> QED
  BY <1>4, <1>5, <1>6, <1>7 DEF BufferedInv

\* Every step keeps the invariant.
LEMMA BufferedNextInv == ASSUME BufferedInv, [BufferedNext]_mailVars PROVE BufferedInv'
<1>1. CASE BufferedNext
  BY <1>1, AppendTraceInv, SetHeaderInv, ClearInv, TakeBufferInv, BeginSendInv, BuildFailsInv,
     ExitInv, PoolStepInv
     DEF BufferedNext, WriteTrace, InternalSend
<1>2. CASE UNCHANGED mailVars
  <2>1. UNCHANGED <<buffer, subject, header, writer, sender, content, written, discarded, waiting, mail>>
    BY <1>2 DEF mailVars
  <2>2. TakenToBuild' /\ Queued' /\ ExitEnded'
    BY <2>1, SendersStay
  <2>3. Placed' /\ Contiguous'
    BY <2>1, PlacesStay DEF BufferedInv
  <2>4. BufferedTypeOK'
    BY <2>1 DEF BufferedInv, BufferedTypeOK
  <2> QED
    BY <2>2, <2>3, <2>4 DEF BufferedInv
<1> QED
  BY <1>1, <1>2

\* The invariant of the buffered listener, for any traces, senders and mail pool.
THEOREM BufferedInvariant == BufferedSpec => []BufferedInv
BY BufferedInitInv, BufferedNextInv, PTL DEF BufferedSpec

\* What the bodies are: what a mail contains, what a sender took, the buffer.
LEMMA BodyCases ==
  ASSUME BufferedInv, NEW b \in Bodies
  PROVE  /\ b \in Seq(Trace)
         /\ \/ \E i \in Nat : i \in DOMAIN content /\ b = content[i].body /\ ToSet(b) = InMail(i)
            \/ \E s \in Caller : b = sender[s].took.body /\ ToSet(b) = InTook(s)
            \/ b = buffer /\ ToSet(b) = InBuffer
<1>1. /\ DOMAIN content = 1..Len(content) /\ Len(content) \in Nat /\ buffer \in Seq(Trace)
      /\ \A i \in DOMAIN content : content[i].body \in Seq(Trace)
      /\ \A s \in Caller : sender[s].took.body \in Seq(Trace)
  BY SequenceTypes DEF BufferedInv
<1> QED
  BY <1>1 DEF Bodies, InMail, InTook, InBuffer

\* A trace is in one body at most, and not if it is discarded.
LEMMA OneBody ==
  ASSUME BufferedInv, NEW a \in Bodies, NEW b \in Bodies, NEW t \in Trace, t \in ToSet(a)
  PROVE  t \notin discarded /\ (t \in ToSet(b) => a = b)
<1>1. t \notin discarded
  BY BodyCases DEF BufferedInv, Placed
<1>2. ASSUME t \in ToSet(b) PROVE a = b
  <2>1. CASE \E i \in Nat : i \in DOMAIN content /\ a = content[i].body /\ ToSet(a) = InMail(i)
    <3>1. PICK i \in Nat : a = content[i].body /\ t \in InMail(i)
      BY <2>1
    <3>2. (\A s \in Caller : t \notin InTook(s)) /\ t \notin InBuffer
      BY <3>1 DEF BufferedInv, Placed
    <3>3. PICK j \in Nat : b = content[j].body /\ t \in InMail(j)
      BY <1>2, <3>2, BodyCases
    <3>4. i = j
      BY <3>1, <3>3 DEF BufferedInv, Placed
    <3> QED
      BY <3>1, <3>3, <3>4
  <2>2. CASE \E s \in Caller : a = sender[s].took.body /\ ToSet(a) = InTook(s)
    <3>1. PICK s \in Caller : a = sender[s].took.body /\ t \in InTook(s)
      BY <2>2
    <3>2. (\A i \in Nat : t \notin InMail(i)) /\ t \notin InBuffer
      BY <3>1 DEF BufferedInv, Placed
    <3>3. PICK r \in Caller : b = sender[r].took.body /\ t \in InTook(r)
      BY <1>2, <3>2, BodyCases
    <3>4. r = s
      BY <3>1, <3>3 DEF BufferedInv, Placed
    <3> QED
      BY <3>1, <3>3, <3>4
  <2>3. CASE a = buffer /\ ToSet(a) = InBuffer
    <3>1. (\A i \in Nat : t \notin InMail(i)) /\ \A s \in Caller : t \notin InTook(s)
      BY <2>3 DEF BufferedInv, Placed
    <3> QED
      BY <1>2, <2>3, <3>1, BodyCases
  <2> QED
    BY <2>1, <2>2, <2>3, BodyCases
<1> QED
  BY <1>1, <1>2

\* Every trace written is in one place only.
LEMMA EachInOnePlaceFromInv == ASSUME BufferedInv PROVE EachInOnePlace
<1>1. \A b \in Bodies : b \in Seq(Trace) /\ ToSet(b) \subseteq Trace
  BY BodyCases, ToSetTypes
<1>2. InWritten \subseteq Trace /\ discarded \subseteq Trace
  BY ToSetTypes DEF BufferedInv, BufferedTypeOK, InWritten
<1>3. /\ \A i \in Nat : InMail(i) # {} => \E b \in Bodies : ToSet(b) = InMail(i)
      /\ \A s \in Caller : \E b \in Bodies : ToSet(b) = InTook(s)
      /\ \E b \in Bodies : ToSet(b) = InBuffer
  BY DEF Bodies, InMail, InTook, InBuffer
<1>4. \A b \in Bodies : \/ \E i \in Nat : ToSet(b) = InMail(i)
                        \/ \E s \in Caller : ToSet(b) = InTook(s)
                        \/ ToSet(b) = InBuffer
  BY BodyCases
<1>5. \A t \in Trace : t \in InWritten <=> t \in discarded \/ \E b \in Bodies : t \in ToSet(b)
  BY <1>3, <1>4 DEF BufferedInv, Placed
<1>6. InWritten = discarded \cup UNION {ToSet(b) : b \in Bodies}
  BY <1>1, <1>2, <1>5
<1>7. \A a, b \in Bodies : a # b => ToSet(a) \cap ToSet(b) = {}
  BY <1>1, OneBody
<1>8. \A b \in Bodies : ToSet(b) \cap discarded = {}
  BY <1>1, OneBody
<1>9. \A i, j \in DOMAIN content : i # j => content[i].body # content[j].body
  <2> SUFFICES ASSUME NEW i \in DOMAIN content, NEW j \in DOMAIN content,
                      content[i].body = content[j].body
               PROVE  i = j
    OBVIOUS
  <2>1. content[i].body \in Seq(Trace) /\ content[i].body # <<>> /\ i \in Nat /\ j \in Nat
    BY SequenceTypes DEF BufferedInv, BufferedTypeOK
  <2>2. PICK t \in Trace : t \in ToSet(content[i].body)
    BY <2>1, ToSetTypes
  <2>3. t \in InMail(i) /\ t \in InMail(j)
    BY <2>2 DEF InMail
  <2> QED
    BY <2>1, <2>3 DEF BufferedInv, Placed
<1> QED
  BY <1>6, <1>7, <1>8, <1>9 DEF EachInOnePlace, InWritten

\* A segment is a subsequence.
LEMMA SegmentIsSubSeq ==
  ASSUME NEW w \in Seq(Trace), NEW b \in Seq(Trace), NEW k \in Nat \ {0}, Segment(w, b, k)
  PROVE  /\ k \in 1..Len(w) + 1 /\ k + Len(b) - 1 <= Len(w)
         /\ SubSeq(w, k, k + Len(b) - 1) = b
<1>1. Len(w) \in Nat /\ Len(b) \in Nat /\ DOMAIN b = 1..Len(b) /\ k + Len(b) - 1 <= Len(w)
  BY LenProperties DEF Segment
<1>2. k \in 1..Len(w) + 1
  BY <1>1
<1> DEFINE s == SubSeq(w, k, k + Len(b) - 1)
<1>3. s = [i \in 1..Len(b) |-> w[i + k - 1]]
  <2>1. (k + Len(b) - 1) - k + 1 = Len(b)
    BY <1>1
  <2> QED
    BY <1>1, <2>1
<1>4. b = [i \in 1..Len(b) |-> b[i]]
  BY LenProperties
<1>5. \A i \in 1..Len(b) : w[i + k - 1] = b[i]
  <2>1. \A i \in 1..Len(b) : i + k - 1 = k + i - 1
    BY <1>1
  <2> QED
    BY <2>1 DEF Segment
<1>6. s = b
  BY <1>3, <1>4, <1>5
<1> QED
  BY <1>1, <1>2, <1>6

\* A body holds what was written one after another.
LEMMA BodiesContiguousFromInv == ASSUME BufferedInv PROVE BodiesContiguous
<1> SUFFICES ASSUME NEW b \in Bodies
             PROVE  \E i \in 1..Len(written) + 1 :
                      /\ i + Len(b) - 1 <= Len(written)
                      /\ SubSeq(written, i, i + Len(b) - 1) = b
  BY DEF BodiesContiguous
<1>1. b \in Seq(Trace) /\ written \in Seq(Trace)
  BY BodyCases, SequenceTypes DEF BufferedInv
<1>2. \E k \in Nat \ {0} : Segment(written, b, k)
  BY DEF BufferedInv, Contiguous, Bodies
<1> QED
  BY <1>1, <1>2, SegmentIsSubSeq

\* The types of the variables of the buffered listener.
THEOREM BufferedTypes == BufferedSpec => []BufferedTypeOK
<1>1. BufferedInv => BufferedTypeOK
  BY DEF BufferedInv
<1> QED
  BY <1>1, BufferedInvariant, PTL

\* A Send that races WriteTrace, Clear or another Send neither loses a trace nor sends it
\* twice, and a mail holds traces written one after another.
THEOREM TracesMailedOnce == BufferedSpec => []MailedOnce
<1>1. BufferedInv => MailedOnce
  BY EachInOnePlaceFromInv, BodiesContiguousFromInv DEF MailedOnce
<1> QED
  BY <1>1, BufferedInvariant, PTL

\* What is still in the buffer was written after what is in a mail.
LEMMA BufferIsLast ==
  ASSUME BufferedInv, NEW n \in DOMAIN content, NEW i \in DOMAIN written, NEW j \in i..Len(written),
         written[i] \in ToSet(buffer)
  PROVE  written[j] \notin ToSet(content[n].body)
<1>1. /\ DOMAIN written = 1..Len(written) /\ Len(written) \in Nat /\ \A k \in DOMAIN written : written[k] \in Trace
      /\ DOMAIN buffer = 1..Len(buffer) /\ Len(buffer) \in Nat /\ n \in Nat
  BY SequenceTypes, LenProperties, ElementOfSeq DEF BufferedInv
<1>2. PICK k \in Nat \ {0} : k + Len(buffer) - 1 = Len(written) /\ Segment(written, buffer, k)
  BY DEF BufferedInv, Contiguous
<1>3. PICK x \in 1..Len(buffer) : buffer[x] = written[i]
  BY <1>1 DEF ToSet
<1>4. k + x - 1 \in DOMAIN written /\ written[k + x - 1] = written[i]
  BY <1>1, <1>2, <1>3 DEF Segment
<1>5. i = k + x - 1
  BY <1>4 DEF BufferedInv, Contiguous
<1>6. j - k + 1 \in DOMAIN buffer /\ k + (j - k + 1) - 1 = j
  BY <1>1, <1>2, <1>5
<1>7. buffer[j - k + 1] = written[j]
  BY <1>1, <1>2, <1>6 DEF Segment
<1>8. written[j] \in InBuffer /\ written[j] \in Trace
  BY <1>1, <1>6, <1>7 DEF ToSet, InBuffer
<1> QED
  BY <1>1, <1>8 DEF BufferedInv, Placed, InMail

\* At process exit the mail with the buffered traces is through, and earlier ones begun.
LEMMA ExitAwaitsFromInv == ASSUME BufferedInv PROVE ExitAwaitsMails
<1> DEFINE own == sender[Exit].mail
<1> SUFFICES ASSUME sender[Exit].pc \in {"over", "gone"}, own # 0
             PROVE  /\ mail[own] \in Finished
                    /\ \A n \in 1..own : mail[n] \notin {"unsent", "queued"}
                    /\ \A i \in DOMAIN written : written[i] \in ToSet(buffer) =>
                         \A j \in i..Len(written) : written[j] \notin ToSet(content[own].body)
  BY Zenon DEF ExitAwaitsMails
<1>1. own \in Mail /\ mail[own] \in Finished
  BY SequenceTypes DEF BufferedInv, ExitEnded, Sending, Caller
<1>2. Mail = 1..Cardinality(Trace) /\ Cardinality(Trace) \in Nat
  BY TraceAssumption, FS_CardinalityType DEF Mail
<1>3. own \in DOMAIN content
  <2>1. ~(own > Len(content))
    BY <1>1 DEF BufferedInv, Queued, Finished
  <2> HIDE DEF own
  <2> QED
    BY <1>1, <1>2, <2>1, SequenceTypes DEF BufferedInv
<1> HIDE DEF own
<1>4. ASSUME NEW n \in 1..own PROVE mail[n] \notin {"unsent", "queued"}
  <2>1. n \in Mail /\ ~(n > Len(content))
    BY <1>1, <1>2, <1>3, SequenceTypes DEF BufferedInv
  <2>2. mail[n] # "unsent"
    BY <2>1 DEF BufferedInv, Queued
  <2>3. ASSUME mail[n] = "queued" PROVE FALSE
    <3>1. n < own
      BY <1>1, <1>2, <2>3 DEF Finished
    <3>2. mail[own] \in {"queued", "unsent"}
      BY <1>1, <2>1, <2>3, <3>1 DEF BufferedInv, Queued
    <3> QED
      BY <1>1, <3>2 DEF Finished
  <2> QED
    BY <2>2, <2>3
<1> QED
  BY <1>1, <1>3, <1>4, BufferIsLast

\* However the exit handler ends: the pool is through with its mail and has begun those before.
THEOREM ExitAwaits == BufferedSpec => []ExitAwaitsMails
BY ExitAwaitsFromInv, BufferedInvariant, PTL

--------------------------------------------------------------------------------
(***************************************************************************)
(* Proofs about SmtpWorkerAsyncResult, for any number of racing Completes  *)
(* and of threads that wait, and for any interleaving of their accesses.   *)
(*                                                                         *)
(* CallbackOnce: only the first Interlocked.Exchange leads to a callback,  *)
(* which is what OneCompletes says of the places of all threads.           *)
(*                                                                         *)
(* NoLostWakeup is inductive with two facts about the getter: the event in *)
(* the field is that of a getter past its CompareExchange, so nobody       *)
(* creates or throws it away any more; and an event that is installed      *)
(* without a look at the state afterwards was created set.                 *)
(***************************************************************************)

Place == {"begin", "report", "test", "set", "callback", "dispose", "disposeEvent",
          "get", "create", "install", "recheck", "selfSet", "return", "wait", "blocked",
          "close", "forget", "finish", "end", "returned", "threw", "failed"}

EventState == {"none", "unset", "set", "closed", "closedSet"}

ResultTypes == /\ completed \in BOOLEAN
               /\ handle \in Getter \cup {Null}
               /\ event \in [Getter -> EventState]
               /\ done \in [Getter -> BOOLEAN]
               /\ pc \in [Completer \cup Getter -> Place]
               /\ callbacks \in Nat

\* The places of a Complete that was the first one, before its callback.
First == {"report", "test", "set", "callback"}

OneCompletes ==
  /\ \A c, d \in Completer : pc[c] \in First /\ pc[d] \in First => c = d
  /\ \A c \in Completer : pc[c] \in First => completed /\ callbacks = 0
  /\ ~completed => callbacks = 0
  /\ callbacks <= 1

HandleInstalled == handle # Null => pc[handle] \notin {"begin", "get", "create", "install"}

CreatedAsCompleted == \A t \in Getter : pc[t] = "install" /\ done[t] => event[t] = "set"

ResultInv == /\ ResultTypes /\ OneCompletes
             /\ HandleInstalled /\ CreatedAsCompleted /\ NoLostWakeup

--------------------------------------------------------------------------------
\* What a thread at another place leaves alone.
LEMMA GotoMoves ==
  ASSUME ResultTypes, NEW t \in Completer \cup Getter, NEW from, NEW to \in Place,
         Goto(t, from, to)
  PROVE  /\ pc[t] = from /\ pc'[t] = to
         /\ \A u \in (Completer \cup Getter) \ {t} : pc'[u] = pc[u]
         /\ pc' \in [Completer \cup Getter -> Place]
BY DEF Goto, ResultTypes

\* An event that is closed is no longer unset.
LEMMA ClosedState ==
  ASSUME NEW e \in EventState
  PROVE  Closed(e) \in EventState /\ Closed(e) # "unset"
BY DEF Closed, EventState

--------------------------------------------------------------------------------
(* Complete.                                                               *)

\* One lemma for each action: the exchange of the completed state,
LEMMA ExchangeInv ==
  ASSUME ResultInv, NEW c \in Completer, Exchange(c) PROVE ResultInv'
<1>1. /\ pc[c] = "begin" /\ pc'[c] = (IF completed THEN "dispose" ELSE "report")
      /\ \A u \in (Completer \cup Getter) \ {c} : pc'[u] = pc[u]
      /\ pc' \in [Completer \cup Getter -> Place]
  BY GotoMoves DEF Exchange, ResultInv, Place
<1>2. /\ completed' = TRUE /\ handle' = handle /\ event' = event /\ done' = done
      /\ callbacks' = callbacks
  BY DEF Exchange
<1>3. \A t \in Getter : pc'[t] = pc[t]
  BY <1>1, ResultAssumption
<1>4. ResultTypes'
  BY <1>1, <1>2 DEF ResultInv, ResultTypes
<1>5. OneCompletes'
  BY <1>1, <1>2 DEF ResultInv, ResultTypes, OneCompletes, First
<1>6. HandleInstalled' /\ CreatedAsCompleted'
  BY <1>2, <1>3, <1>4 DEF ResultInv, ResultTypes, HandleInstalled, CreatedAsCompleted
<1>7. NoLostWakeup'
  <2>1. CASE completed
    BY <1>1, <1>2, <1>3, <2>1 DEF ResultInv, ResultTypes, NoLostWakeup
  <2>2. CASE ~completed
    BY <1>1, <1>2, <2>2 DEF NoLostWakeup
  <2> QED
    BY <2>1, <2>2
<1> QED
  BY <1>4, <1>5, <1>6, <1>7 DEF ResultInv

\* A step of the Complete that was first moves on among its places, or leaves them; an event
\* is set only if it is the one in the field.
LEMMA FirstMoves ==
  ASSUME ResultInv, NEW c \in Completer, NEW from \in First, NEW to \in Place, Goto(c, from, to),
         completed' = completed, handle' = handle, done' = done,
         \/ callbacks' = callbacks
         \/ callbacks' = callbacks + 1 /\ to \notin First,
         \/ event' = event
            /\ (to \in {"report", "test", "set"} \/ handle = Null \/ event[handle] # "unset"
                  \/ from = "callback")
         \/ handle # Null /\ event' = [event EXCEPT ![handle] = "set"]
  PROVE  ResultInv'
<1>1. /\ pc[c] = from /\ pc'[c] = to
      /\ \A u \in (Completer \cup Getter) \ {c} : pc'[u] = pc[u]
      /\ pc' \in [Completer \cup Getter -> Place]
  BY GotoMoves DEF ResultInv
<1>2. \A t \in Getter : pc'[t] = pc[t]
  BY <1>1, ResultAssumption
<1>3. ResultTypes'
  BY <1>1 DEF ResultInv, ResultTypes, EventState
<1>4. OneCompletes'
  BY <1>1 DEF ResultInv, ResultTypes, OneCompletes
<1>5. HandleInstalled' /\ CreatedAsCompleted'
  BY <1>2, <1>3 DEF ResultInv, ResultTypes, HandleInstalled, CreatedAsCompleted, EventState
<1>6. NoLostWakeup'
  <2>1. CASE handle # Null /\ event' = [event EXCEPT ![handle] = "set"]
    BY <2>1 DEF ResultInv, ResultTypes, NoLostWakeup
  <2>2. CASE event' = event
    BY <1>1, <1>2, <2>2 DEF ResultInv, ResultTypes, NoLostWakeup, First
  <2> QED
    BY <2>1, <2>2
<1> QED
  BY <1>3, <1>4, <1>5, <1>6 DEF ResultInv

\* Dispose after a Complete: what is done to the event is to close it.
LEMMA DisposeMoves ==
  ASSUME ResultInv, NEW c \in Completer,
         NEW from \in Place \ First, NEW to \in Place \ First, Goto(c, from, to),
         completed' = completed, handle' = handle, done' = done, callbacks' = callbacks,
         event' = event \/ (handle # Null /\ event' = [event EXCEPT ![handle] = Closed(@)])
  PROVE  ResultInv'
<1>1. /\ pc[c] = from /\ pc'[c] = to
      /\ \A u \in (Completer \cup Getter) \ {c} : pc'[u] = pc[u]
      /\ pc' \in [Completer \cup Getter -> Place]
  BY GotoMoves DEF ResultInv, Place
<1>2. \A t \in Getter : pc'[t] = pc[t]
  BY <1>1, ResultAssumption
<1>3. ASSUME handle # Null
      PROVE  handle \in Getter /\ Closed(event[handle]) \in EventState \ {"unset"}
  BY <1>3, ClosedState DEF ResultInv, ResultTypes
<1>4. ResultTypes'
  BY <1>1, <1>3 DEF ResultInv, ResultTypes
<1>5. OneCompletes'
  BY <1>1 DEF ResultInv, ResultTypes, OneCompletes, First
<1>6. HandleInstalled' /\ CreatedAsCompleted'
  BY <1>2, <1>4 DEF ResultInv, ResultTypes, HandleInstalled, CreatedAsCompleted
<1>7. NoLostWakeup'
  <2>1. CASE handle # Null /\ event' = [event EXCEPT ![handle] = Closed(@)]
    BY <1>3, <2>1 DEF ResultInv, ResultTypes, NoLostWakeup
  <2>2. CASE event' = event
    BY <1>1, <1>2, <2>2 DEF ResultInv, ResultTypes, NoLostWakeup, First
  <2> QED
    BY <2>1, <2>2
<1> QED
  BY <1>4, <1>5, <1>6, <1>7 DEF ResultInv

\* the rest of completion,
LEMMA CompleteInv ==
  ASSUME ResultInv, NEW c \in Completer, Complete(c) PROVE ResultInv'
<1>1. CASE Exchange(c)
  BY <1>1, ExchangeInv
<1>2. CASE Report(c)
  BY <1>2, FirstMoves DEF Report, First, Place
<1>3. CASE TestHandle(c)
  <2>1. CASE handle = Null
    BY <1>3, <2>1, FirstMoves DEF TestHandle, First, Place
  <2>2. CASE handle # Null
    BY <1>3, <2>2, FirstMoves DEF TestHandle, First, Place
  <2> QED
    BY <2>1, <2>2
<1>4. CASE SetEvent(c)
  <2>1. CASE FieldFails
    <3>1. Goto(c, "set", "failed") /\ event' = event
      BY <1>4, <2>1 DEF SetEvent
    <3>2. handle = Null \/ event[handle] # "unset"
      BY <2>1 DEF FieldFails
    <3> QED
      BY <1>4, <3>1, <3>2, FirstMoves DEF SetEvent, First, Place
  <2>2. CASE ~FieldFails
    <3>1. Goto(c, "set", "callback") /\ event' = [event EXCEPT ![handle] = "set"]
      BY <1>4, <2>2 DEF SetEvent
    <3>2. handle # Null
      BY <2>2 DEF FieldFails
    <3> QED
      BY <1>4, <3>1, <3>2, FirstMoves DEF SetEvent, First, Place
  <2> QED
    BY <2>1, <2>2
<1>5. CASE Callback(c)
  BY <1>5, FirstMoves DEF Callback, First, Place
<1>6. CASE TestDispose(c)
  <2>1. Goto(c, "dispose", "disposeEvent") \/ Goto(c, "dispose", "end")
    <3>1. CASE disposes /\ handle # Null
      BY <1>6, <3>1 DEF TestDispose
    <3>2. CASE ~(disposes /\ handle # Null)
      BY <1>6, <3>2 DEF TestDispose
    <3> QED
      BY <3>1, <3>2
  <2>2. /\ completed' = completed /\ handle' = handle /\ done' = done
        /\ callbacks' = callbacks /\ event' = event
    BY <1>6 DEF TestDispose
  <2> QED
    BY <2>1, <2>2, DisposeMoves DEF Place, First
<1>7. CASE DisposeEvent(c)
  <2>1. Goto(c, "disposeEvent", "failed") \/ Goto(c, "disposeEvent", "end")
    <3>1. CASE handle = Null
      BY <1>7, <3>1 DEF DisposeEvent
    <3>2. CASE handle # Null
      BY <1>7, <3>2 DEF DisposeEvent
    <3> QED
      BY <3>1, <3>2
  <2>2. /\ completed' = completed /\ handle' = handle /\ done' = done
        /\ callbacks' = callbacks
        /\ event' = event \/ (handle # Null /\ event' = [event EXCEPT ![handle] = Closed(@)])
    BY <1>7 DEF DisposeEvent
  <2> QED
    BY <2>1, <2>2, DisposeMoves DEF Place, First
<1> QED
  BY <1>1, <1>2, <1>3, <1>4, <1>5, <1>6, <1>7 DEF Complete

--------------------------------------------------------------------------------
(* The getter of AsyncWaitHandle, and End.                                 *)

\* The places of a getter that has no event in the field.
Early == {"begin", "get", "create", "install"}

\* A step of a getter that leaves the event alone, and that does not end its look at the
\* state while the event is unset, or that sets the event or closes it.
LEMMA GetterMoves ==
  ASSUME ResultInv, NEW t \in Getter, NEW from \in Place, NEW to \in Place \ {"install"},
         Goto(t, from, to), from \in Early \/ to \notin Early,
         completed' = completed, handle' = handle, done' = done, callbacks' = callbacks,
         \/ /\ event' = event
            /\ \/ from \notin {"recheck", "selfSet"} \/ to = "selfSet"
               \/ ~completed \/ handle = Null \/ event[handle] # "unset"
         \/ handle # Null /\ event' = [event EXCEPT ![handle] = "set"]
         \/ handle # Null /\ event' = [event EXCEPT ![handle] = Closed(@)]
  PROVE  ResultInv'
<1>1. /\ pc[t] = from /\ pc'[t] = to
      /\ \A u \in (Completer \cup Getter) \ {t} : pc'[u] = pc[u]
      /\ pc' \in [Completer \cup Getter -> Place]
  BY GotoMoves DEF ResultInv
<1>2. \A c \in Completer : pc'[c] = pc[c]
  BY <1>1, ResultAssumption
<1>3. ASSUME handle # Null
      PROVE  handle \in Getter /\ Closed(event[handle]) \in EventState \ {"unset"}
  BY <1>3, ClosedState DEF ResultInv, ResultTypes
<1>4. ResultTypes'
  BY <1>1, <1>3 DEF ResultInv, ResultTypes, EventState
<1>5. OneCompletes'
  BY <1>2 DEF ResultInv, OneCompletes
<1>6. HandleInstalled'
  BY <1>1 DEF ResultInv, ResultTypes, HandleInstalled, Early
<1>7. CreatedAsCompleted'
  BY <1>1, <1>4 DEF ResultInv, ResultTypes, HandleInstalled, CreatedAsCompleted
<1>8. NoLostWakeup'
  <2>1. CASE handle = Null \/ event'[handle] # "unset"
    BY <2>1 DEF NoLostWakeup
  <2>2. CASE handle # Null /\ event'[handle] = "unset"
    <3>1. /\ event' = event
          /\ from \notin {"recheck", "selfSet"} \/ to = "selfSet" \/ ~completed
      BY <1>3, <2>2 DEF ResultInv, ResultTypes
    <3> QED
      BY <1>1, <1>2, <2>2, <3>1 DEF ResultInv, ResultTypes, NoLostWakeup
  <2> QED
    BY <2>1, <2>2
<1> QED
  BY <1>4, <1>5, <1>6, <1>7, <1>8 DEF ResultInv

\* the wait handle: created,
LEMMA CreateEventInv ==
  ASSUME ResultInv, NEW t \in Getter, CreateEvent(t) PROVE ResultInv'
<1>1. /\ pc[t] = "create" /\ pc'[t] = "install"
      /\ \A u \in (Completer \cup Getter) \ {t} : pc'[u] = pc[u]
      /\ pc' \in [Completer \cup Getter -> Place]
  BY GotoMoves DEF ResultInv, CreateEvent, Place
<1>2. /\ completed' = completed /\ handle' = handle /\ callbacks' = callbacks
      /\ done' = [done EXCEPT ![t] = completed]
      /\ event' = [event EXCEPT ![t] = IF completed THEN "set" ELSE "unset"]
  BY DEF CreateEvent
<1>3. \A c \in Completer : pc'[c] = pc[c]
  BY <1>1, ResultAssumption
<1>4. handle # t
  BY <1>1, ResultAssumption DEF ResultInv, HandleInstalled
<1>5. ResultTypes'
  BY <1>1, <1>2 DEF ResultInv, ResultTypes, EventState
<1>6. OneCompletes'
  BY <1>2, <1>3 DEF ResultInv, OneCompletes
<1>7. HandleInstalled'
  BY <1>1, <1>2, <1>4 DEF ResultInv, ResultTypes, HandleInstalled
<1>8. CreatedAsCompleted'
  BY <1>1, <1>2, <1>5 DEF ResultInv, ResultTypes, CreatedAsCompleted
<1>9. NoLostWakeup'
  BY <1>1, <1>2, <1>3, <1>4 DEF ResultInv, ResultTypes, NoLostWakeup
<1> QED
  BY <1>5, <1>6, <1>7, <1>8, <1>9 DEF ResultInv

\* installed or thrown away,
LEMMA InstallInv ==
  ASSUME ResultInv, NEW t \in Getter, Install(t) PROVE ResultInv'
<1>1. /\ pc[t] = "install"
      /\ pc'[t] = (IF handle = Null /\ ~done[t] THEN "recheck" ELSE "return")
      /\ \A u \in (Completer \cup Getter) \ {t} : pc'[u] = pc[u]
      /\ pc' \in [Completer \cup Getter -> Place]
  BY GotoMoves DEF ResultInv, Install, Place
<1>2. /\ completed' = completed /\ done' = done /\ callbacks' = callbacks
      /\ handle' = (IF handle = Null THEN t ELSE handle)
      /\ event' = (IF handle = Null THEN event ELSE [event EXCEPT ![t] = Closed(@)])
  BY DEF Install
<1>3. \A c \in Completer : pc'[c] = pc[c]
  BY <1>1, ResultAssumption
<1>4. handle # t
  BY <1>1, ResultAssumption DEF ResultInv, HandleInstalled
<1>5. Closed(event[t]) \in EventState
  BY ClosedState DEF ResultInv, ResultTypes
<1>6. ResultTypes'
  BY <1>1, <1>2, <1>5 DEF ResultInv, ResultTypes
<1>7. OneCompletes'
  BY <1>2, <1>3 DEF ResultInv, OneCompletes
<1>8. HandleInstalled'
  BY <1>1, <1>2 DEF ResultInv, ResultTypes, HandleInstalled
<1>9. CreatedAsCompleted'
  BY <1>1, <1>2, <1>6 DEF ResultInv, ResultTypes, CreatedAsCompleted
<1>10. NoLostWakeup'
  <2>1. CASE handle = Null
    <3>1. done[t] => event'[t] = "set"
      BY <1>1, <1>2, <2>1 DEF ResultInv, CreatedAsCompleted
    <3> QED
      BY <1>1, <1>2, <2>1, <3>1 DEF NoLostWakeup
  <2>2. CASE handle # Null
    BY <1>1, <1>2, <1>3, <1>4, <2>2 DEF ResultInv, ResultTypes, NoLostWakeup
  <2> QED
    BY <2>1, <2>2
<1> QED
  BY <1>6, <1>7, <1>8, <1>9, <1>10 DEF ResultInv

\* read;
LEMMA GetInv ==
  ASSUME ResultInv, NEW t \in Getter, Get(t) PROVE ResultInv'
<1>1. CASE TestNull(t)
  <2>1. CASE handle = Null
    BY <1>1, <2>1, GetterMoves DEF TestNull, Early, Place
  <2>2. CASE handle # Null
    BY <1>1, <2>2, GetterMoves DEF TestNull, Early, Place
  <2> QED
    BY <2>1, <2>2
<1>2. CASE CreateEvent(t)
  BY <1>2, CreateEventInv
<1>3. CASE Install(t)
  BY <1>3, InstallInv
<1>4. CASE Recheck(t)
  <2>1. CASE completed
    BY <1>4, <2>1, GetterMoves DEF Recheck, Early, Place
  <2>2. CASE ~completed
    BY <1>4, <2>2, GetterMoves DEF Recheck, Early, Place
  <2> QED
    BY <2>1, <2>2
<1>5. CASE SelfSet(t)
  <2>1. CASE FieldFails
    <3>1. Goto(t, "selfSet", "failed") /\ event' = event
      BY <1>5, <2>1 DEF SelfSet
    <3>2. handle = Null \/ event[handle] # "unset"
      BY <2>1 DEF FieldFails
    <3> QED
      BY <1>5, <3>1, <3>2, GetterMoves DEF SelfSet, Early, Place
  <2>2. CASE ~FieldFails
    <3>1. Goto(t, "selfSet", "return") /\ event' = [event EXCEPT ![handle] = "set"]
      BY <1>5, <2>2 DEF SelfSet
    <3>2. handle # Null
      BY <2>2 DEF FieldFails
    <3> QED
      BY <1>5, <3>1, <3>2, GetterMoves DEF SelfSet, Early, Place
  <2> QED
    BY <2>1, <2>2
<1>6. CASE Return(t)
  BY <1>6, GetterMoves DEF Return, Early, Place
<1>7. CASE WaitOne(t)
  <2>1. \E to \in {"close", "end", "blocked", "failed"} : Goto(t, "wait", to)
    BY <1>7 DEF WaitOne, AfterWait
  <2> QED
    BY <1>7, <2>1, GetterMoves DEF WaitOne, Early, Place
<1>8. CASE WakeUp(t)
  <2>1. \E to \in {"close", "end"} : Goto(t, "blocked", to)
    BY <1>8 DEF WakeUp, AfterWait
  <2> QED
    BY <1>8, <2>1, GetterMoves DEF WakeUp, Early, Place
<1> QED
  BY <1>1, <1>2, <1>3, <1>4, <1>5, <1>6, <1>7, <1>8 DEF Get, AsyncWaitHandle

\* and EndInvoke.
LEMMA EndInv ==
  ASSUME ResultInv, End PROVE ResultInv'
<1>1. Ender \in Getter
  BY DEF Getter
<1>2. CASE TestCompleted
  <2>1. \E to \in {"finish", "get"} : Goto(Ender, "begin", to)
    BY <1>2 DEF TestCompleted
  <2> QED
    BY <1>1, <1>2, <2>1, GetterMoves DEF TestCompleted, Early, Place
<1>3. CASE CloseEvent
  <2>1. CASE handle = Null
    <3>1. event' = event
      BY <1>3, <2>1, ResultAssumption DEF CloseEvent, ResultInv, ResultTypes
    <3> QED
      BY <1>1, <1>3, <3>1, GetterMoves DEF CloseEvent, Early, Place
  <2>2. CASE handle # Null
    BY <1>1, <1>3, <2>2, GetterMoves DEF CloseEvent, Early, Place
  <2> QED
    BY <2>1, <2>2
<1>4. CASE Forget
  <2>1. /\ pc[Ender] = "forget" /\ pc'[Ender] = "finish"
        /\ \A u \in (Completer \cup Getter) \ {Ender} : pc'[u] = pc[u]
        /\ pc' \in [Completer \cup Getter -> Place]
    BY <1>1, <1>4, GotoMoves DEF ResultInv, Forget, Place
  <2>2. /\ completed' = completed /\ done' = done /\ callbacks' = callbacks
        /\ event' = event /\ handle' = Null
    BY <1>4 DEF Forget
  <2>3. \A c \in Completer : pc'[c] = pc[c]
    BY <1>1, <2>1, ResultAssumption
  <2>4. ResultTypes'
    BY <2>1, <2>2 DEF ResultInv, ResultTypes
  <2>5. OneCompletes'
    BY <2>2, <2>3 DEF ResultInv, OneCompletes
  <2>6. HandleInstalled' /\ NoLostWakeup'
    BY <2>2 DEF HandleInstalled, NoLostWakeup
  <2>7. CreatedAsCompleted'
    BY <2>1, <2>2, <2>4 DEF ResultInv, ResultTypes, CreatedAsCompleted
  <2> QED
    BY <2>4, <2>5, <2>6, <2>7 DEF ResultInv
<1>5. CASE Finish
  <2>1. \E to \in {"returned", "threw"} : Goto(Ender, "finish", to)
    BY <1>5 DEF Finish
  <2> QED
    BY <1>1, <1>5, <2>1, GetterMoves DEF Finish, Early, Place
<1> QED
  BY <1>2, <1>3, <1>4, <1>5 DEF End

--------------------------------------------------------------------------------
(* The theorems.                                                           *)

\* The invariant holds at the start,
LEMMA InitInv == Init => ResultInv
<1> SUFFICES ASSUME Init PROVE ResultInv
  OBVIOUS
<1>1. PICK c \in Completer :
        pc = [t \in Completer \cup Getter |->
                IF disposes /\ t \in Completer \ {c} THEN "end" ELSE "begin"]
  BY DEF Init
<1>2. \A t \in Completer \cup Getter : pc[t] \in {"begin", "end"}
  BY <1>1
<1>3. pc \in [Completer \cup Getter -> Place]
  BY <1>1 DEF Place
<1>4. ResultTypes
  BY <1>3 DEF Init, ResultTypes, EventState
<1>5. OneCompletes
  BY <1>2 DEF Init, OneCompletes, First
<1>6. HandleInstalled /\ CreatedAsCompleted /\ NoLostWakeup
  BY <1>2 DEF Init, HandleInstalled, CreatedAsCompleted, NoLostWakeup
<1> QED
  BY <1>4, <1>5, <1>6 DEF ResultInv

\* every step keeps it,
LEMMA NextInv == ResultInv /\ [Next]_vars => ResultInv'
<1> SUFFICES ASSUME ResultInv, [Next]_vars PROVE ResultInv'
  OBVIOUS
<1>1. CASE UNCHANGED vars
  BY <1>1 DEF vars, inputs, ResultInv, ResultTypes, OneCompletes, HandleInstalled,
              CreatedAsCompleted, NoLostWakeup
<1>2. ASSUME NEW w \in Waiter, Wait(w) PROVE ResultInv'
  BY <1>2, GetterMoves DEF Wait, Getter, Early, Place
<1> QED
  BY <1>1, <1>2, CompleteInv, GetInv, EndInv DEF Next

\* and so it always holds.
LEMMA ResultInvHolds == Spec => []ResultInv
BY InitInv, NextInv, PTL DEF Spec

\* However many Completes race, the callback, which disposes of the mail message, is called
\* at most once (the Interlocked.Exchange of Complete).
THEOREM OneCallback == Spec => []CallbackOnce
<1>1. ResultInv => CallbackOnce
  BY DEF ResultInv, OneCompletes, CallbackOnce
<1> QED
  BY <1>1, ResultInvHolds, PTL

\* However Complete and the getters of AsyncWaitHandle interleave, the event they agree on
\* is not left unset after the completion (AsyncWaitHandle and Complete).
THEOREM WakeupNotLost == Spec => []NoLostWakeup
<1>1. ResultInv => NoLostWakeup
  BY DEF ResultInv
<1> QED
  BY <1>1, ResultInvHolds, PTL

--------------------------------------------------------------------------------
(***************************************************************************)
(* End comes back after a completion only.  What leads it there is an      *)
(* event that is set; an event is set by a thread that knows of the        *)
(* completion.  The event End waits on is the one in the field, as only    *)
(* End takes it out, and only End itself and Dispose close it there.       *)
(***************************************************************************)

EndTypes == /\ disposes \in BOOLEAN /\ exception \in {"null", "error"}
            /\ outcome \in [Completer -> {"null", "error"}]
            /\ got \in [Getter -> Getter \cup {Null}]

\* The threads that know of the completion, and the events that tell of it.
Known ==
  /\ \A c \in Completer : pc[c] \in First \cup {"dispose", "disposeEvent"} => completed
  /\ \A t \in Getter : pc[t] = "selfSet" => completed
  /\ \A t \in Getter : event[t] \in {"set", "closedSet"} => completed
  /\ pc[Ender] \in {"close", "forget", "finish", "returned", "threw", "failed"} => completed

\* The event in the field was created, and is closed by Dispose or End only.
FieldEvent ==
  /\ \A t \in Getter : pc[t] = "install" => event[t] \in {"set", "unset"}
  /\ handle # Null => event[handle] # "none"
  /\ handle # Null /\ event[handle] \in {"closed", "closedSet"} =>
       completed /\ (disposes \/ pc[Ender] = "forget")
  /\ \A c \in Completer : pc[c] = "disposeEvent" => disposes

\* End waits on the event in the field; what it throws was reported.
EndWaits ==
  /\ pc[Ender] \in {"recheck", "selfSet", "return", "wait", "blocked", "close", "forget"} => handle # Null
  /\ pc[Ender] \in {"wait", "blocked", "close", "forget"} => got[Ender] = handle
  /\ pc[Ender] = "failed" => disposes
  /\ exception = "error" => \E c \in Completer : outcome[c] = "error"
  /\ pc[Ender] = "threw" => \E c \in Completer : outcome[c] = "error"

EndFacts == EndTypes /\ Known /\ FieldEvent /\ EndWaits

\* What a Complete does to these facts,
LEMMA CompleteEnds ==
  ASSUME ResultInv, EndFacts, NEW c \in Completer, Complete(c) PROVE EndFacts'
<1>1. Ender \in Getter /\ Ender \notin Completer /\ Completer \cap Getter = {} /\ Null \notin Getter
  BY ResultAssumption DEF Getter
<1>2. CASE Exchange(c)
  <2>1. /\ \A u \in (Completer \cup Getter) \ {c} : pc'[u] = pc[u]
        /\ pc' \in [Completer \cup Getter -> Place]
    BY <1>1, <1>2, GotoMoves DEF Exchange, ResultInv, Place
  <2>2. EndTypes'
    BY <1>2 DEF Exchange, inputs, EndFacts, EndTypes
  <2>3. Known'
    BY <1>1, <1>2, <2>1 DEF Exchange, Goto, inputs, EndFacts, Known, First, ResultInv, ResultTypes
  <2>4. FieldEvent'
    BY <1>1, <1>2, <2>1 DEF Exchange, Goto, inputs, EndFacts, FieldEvent, ResultInv, ResultTypes
  <2>5. EndWaits'
    BY <1>1, <1>2, <2>1 DEF Exchange, Goto, inputs, EndFacts, EndWaits, ResultInv, ResultTypes
  <2> QED
    BY <2>2, <2>3, <2>4, <2>5 DEF EndFacts
<1>3. CASE Report(c)
  <2>1. /\ \A u \in (Completer \cup Getter) \ {c} : pc'[u] = pc[u]
        /\ pc' \in [Completer \cup Getter -> Place]
    BY <1>1, <1>3, GotoMoves DEF Report, ResultInv, Place
  <2>2. EndTypes'
    BY <1>3 DEF Report, inputs, EndFacts, EndTypes, ResultInv, ResultTypes
  <2>3. Known'
    BY <1>1, <1>3, <2>1 DEF Report, Goto, inputs, EndFacts, Known, First, ResultInv, ResultTypes
  <2>4. FieldEvent'
    BY <1>1, <1>3, <2>1 DEF Report, Goto, inputs, EndFacts, FieldEvent, ResultInv, ResultTypes
  <2>5. EndWaits'
    BY <1>1, <1>3, <2>1 DEF Report, Goto, inputs, EndFacts, EndWaits, ResultInv, ResultTypes
  <2> QED
    BY <2>2, <2>3, <2>4, <2>5 DEF EndFacts
<1>4. CASE TestHandle(c)
  <2>1. /\ \A u \in (Completer \cup Getter) \ {c} : pc'[u] = pc[u]
        /\ pc' \in [Completer \cup Getter -> Place]
    BY <1>1, <1>4, GotoMoves DEF TestHandle, ResultInv, Place
  <2>2. EndTypes'
    BY <1>4 DEF TestHandle, inputs, EndFacts, EndTypes
  <2>3. Known'
    BY <1>1, <1>4, <2>1 DEF TestHandle, Goto, inputs, EndFacts, Known, First, ResultInv,
       ResultTypes
  <2>4. FieldEvent'
    BY <1>1, <1>4, <2>1 DEF TestHandle, Goto, inputs, EndFacts, FieldEvent, ResultInv, ResultTypes
  <2>5. EndWaits'
    BY <1>1, <1>4, <2>1 DEF TestHandle, Goto, inputs, EndFacts, EndWaits, ResultInv, ResultTypes
  <2> QED
    BY <2>2, <2>3, <2>4, <2>5 DEF EndFacts
<1>5. CASE SetEvent(c)
  <2>1. /\ \A u \in (Completer \cup Getter) \ {c} : pc'[u] = pc[u]
        /\ pc' \in [Completer \cup Getter -> Place]
    BY <1>1, <1>5, GotoMoves DEF SetEvent, ResultInv, Place
  <2>2. EndTypes'
    BY <1>5 DEF SetEvent, inputs, EndFacts, EndTypes
  <2>3. Known'
    BY <1>1, <1>5, <2>1 DEF SetEvent, Goto, inputs, EndFacts, Known, FieldFails, First, ResultInv,
       ResultTypes
  <2>4. FieldEvent'
    BY <1>1, <1>5, <2>1 DEF SetEvent, Goto, inputs, EndFacts, FieldEvent, Known, FieldFails,
       ResultInv, ResultTypes
  <2>5. EndWaits'
    BY <1>1, <1>5, <2>1 DEF SetEvent, Goto, inputs, EndFacts, EndWaits, FieldFails, ResultInv,
       ResultTypes
  <2> QED
    BY <2>2, <2>3, <2>4, <2>5 DEF EndFacts
<1>6. CASE Callback(c)
  <2>1. /\ \A u \in (Completer \cup Getter) \ {c} : pc'[u] = pc[u]
        /\ pc' \in [Completer \cup Getter -> Place]
    BY <1>1, <1>6, GotoMoves DEF Callback, ResultInv, Place
  <2>2. EndTypes'
    BY <1>6 DEF Callback, inputs, EndFacts, EndTypes
  <2>3. Known'
    BY <1>1, <1>6, <2>1 DEF Callback, Goto, inputs, EndFacts, Known, First, ResultInv, ResultTypes
  <2>4. FieldEvent'
    BY <1>1, <1>6, <2>1 DEF Callback, Goto, inputs, EndFacts, FieldEvent, ResultInv, ResultTypes
  <2>5. EndWaits'
    BY <1>1, <1>6, <2>1 DEF Callback, Goto, inputs, EndFacts, EndWaits, ResultInv, ResultTypes
  <2> QED
    BY <2>2, <2>3, <2>4, <2>5 DEF EndFacts
<1>7. CASE TestDispose(c)
  <2>1. /\ \A u \in (Completer \cup Getter) \ {c} : pc'[u] = pc[u]
        /\ pc' \in [Completer \cup Getter -> Place]
    BY <1>1, <1>7, GotoMoves DEF TestDispose, ResultInv, Place
  <2>2. EndTypes'
    BY <1>7 DEF TestDispose, inputs, EndFacts, EndTypes
  <2>3. Known'
    BY <1>1, <1>7, <2>1 DEF TestDispose, Goto, inputs, EndFacts, Known, First, ResultInv,
       ResultTypes
  <2>4. FieldEvent'
    BY <1>1, <1>7, <2>1 DEF TestDispose, Goto, inputs, EndFacts, FieldEvent, ResultInv,
       ResultTypes
  <2>5. EndWaits'
    BY <1>1, <1>7, <2>1 DEF TestDispose, Goto, inputs, EndFacts, EndWaits, ResultInv, ResultTypes
  <2> QED
    BY <2>2, <2>3, <2>4, <2>5 DEF EndFacts
<1>8. CASE DisposeEvent(c)
  <2>1. /\ \A u \in (Completer \cup Getter) \ {c} : pc'[u] = pc[u]
        /\ pc' \in [Completer \cup Getter -> Place]
    BY <1>1, <1>8, GotoMoves DEF DisposeEvent, ResultInv, Place
  <2>2. EndTypes'
    BY <1>8 DEF DisposeEvent, inputs, EndFacts, EndTypes
  <2>3. Known'
    BY <1>1, <1>8, <2>1 DEF DisposeEvent, Goto, inputs, EndFacts, Known, Closed, First, ResultInv,
       ResultTypes
  <2>4. FieldEvent'
    BY <1>1, <1>8, <2>1 DEF DisposeEvent, Goto, inputs, EndFacts, FieldEvent, Known, EventState,
       HandleInstalled, Closed, ResultInv, ResultTypes
  <2>5. EndWaits'
    BY <1>1, <1>8, <2>1 DEF DisposeEvent, Goto, inputs, EndFacts, EndWaits, Closed, ResultInv,
       ResultTypes
  <2> QED
    BY <2>2, <2>3, <2>4, <2>5 DEF EndFacts
<1> QED
  BY <1>2, <1>3, <1>4, <1>5, <1>6, <1>7, <1>8 DEF Complete

\* a getter of AsyncWaitHandle that waits,
LEMMA GetEnds ==
  ASSUME ResultInv, EndFacts, NEW t \in Getter, Get(t) PROVE EndFacts'
<1>1. Ender \in Getter /\ Ender \notin Completer /\ Completer \cap Getter = {} /\ Null \notin Getter
  BY ResultAssumption DEF Getter
<1>2. CASE TestNull(t)
  <2>1. /\ \A u \in (Completer \cup Getter) \ {t} : pc'[u] = pc[u]
        /\ pc' \in [Completer \cup Getter -> Place]
    BY <1>1, <1>2, GotoMoves DEF TestNull, ResultInv, Place
  <2>2. EndTypes'
    BY <1>2 DEF TestNull, inputs, EndFacts, EndTypes
  <2>3. Known'
    BY <1>1, <1>2, <2>1 DEF TestNull, Goto, inputs, EndFacts, Known, First, ResultInv, ResultTypes
  <2>4. FieldEvent'
    BY <1>1, <1>2, <2>1 DEF TestNull, Goto, inputs, EndFacts, FieldEvent, ResultInv, ResultTypes
  <2>5. EndWaits'
    BY <1>1, <1>2, <2>1 DEF TestNull, Goto, inputs, EndFacts, EndWaits, ResultInv, ResultTypes
  <2> QED
    BY <2>2, <2>3, <2>4, <2>5 DEF EndFacts
<1>3. CASE CreateEvent(t)
  <2>1. /\ \A u \in (Completer \cup Getter) \ {t} : pc'[u] = pc[u]
        /\ pc' \in [Completer \cup Getter -> Place]
    BY <1>1, <1>3, GotoMoves DEF CreateEvent, ResultInv, Place
  <2>2. EndTypes'
    BY <1>3 DEF CreateEvent, inputs, EndFacts, EndTypes
  <2>3. Known'
    BY <1>1, <1>3, <2>1 DEF CreateEvent, Goto, inputs, EndFacts, Known, HandleInstalled, First,
       ResultInv, ResultTypes
  <2>4. FieldEvent'
    BY <1>1, <1>3, <2>1 DEF CreateEvent, Goto, inputs, EndFacts, FieldEvent, HandleInstalled,
       ResultInv, ResultTypes
  <2>5. EndWaits'
    BY <1>1, <1>3, <2>1 DEF CreateEvent, Goto, inputs, EndFacts, EndWaits, HandleInstalled,
       ResultInv, ResultTypes
  <2> QED
    BY <2>2, <2>3, <2>4, <2>5 DEF EndFacts
<1>4. CASE Install(t)
  <2>1. /\ \A u \in (Completer \cup Getter) \ {t} : pc'[u] = pc[u]
        /\ pc' \in [Completer \cup Getter -> Place]
    BY <1>1, <1>4, GotoMoves DEF Install, ResultInv, Place
  <2>2. EndTypes'
    BY <1>4 DEF Install, inputs, EndFacts, EndTypes
  <2>3. Known'
    BY <1>1, <1>4, <2>1 DEF Install, Goto, inputs, EndFacts, Known, Closed, HandleInstalled,
       First, ResultInv, ResultTypes
  <2>4. FieldEvent'
    BY <1>1, <1>4, <2>1 DEF Install, Goto, inputs, EndFacts, FieldEvent, Closed, HandleInstalled,
       ResultInv, ResultTypes
  <2>5. EndWaits'
    BY <1>1, <1>4, <2>1 DEF Install, Goto, inputs, EndFacts, EndWaits, Closed, HandleInstalled,
       ResultInv, ResultTypes
  <2> QED
    BY <2>2, <2>3, <2>4, <2>5 DEF EndFacts
<1>5. CASE Recheck(t)
  <2>1. /\ \A u \in (Completer \cup Getter) \ {t} : pc'[u] = pc[u]
        /\ pc' \in [Completer \cup Getter -> Place]
    BY <1>1, <1>5, GotoMoves DEF Recheck, ResultInv, Place
  <2>2. EndTypes'
    BY <1>5 DEF Recheck, inputs, EndFacts, EndTypes
  <2>3. Known'
    BY <1>1, <1>5, <2>1 DEF Recheck, Goto, inputs, EndFacts, Known, First, ResultInv, ResultTypes
  <2>4. FieldEvent'
    BY <1>1, <1>5, <2>1 DEF Recheck, Goto, inputs, EndFacts, FieldEvent, ResultInv, ResultTypes
  <2>5. EndWaits'
    BY <1>1, <1>5, <2>1 DEF Recheck, Goto, inputs, EndFacts, EndWaits, ResultInv, ResultTypes
  <2> QED
    BY <2>2, <2>3, <2>4, <2>5 DEF EndFacts
<1>6. CASE SelfSet(t)
  <2>1. /\ \A u \in (Completer \cup Getter) \ {t} : pc'[u] = pc[u]
        /\ pc' \in [Completer \cup Getter -> Place]
    BY <1>1, <1>6, GotoMoves DEF SelfSet, ResultInv, Place
  <2>2. EndTypes'
    BY <1>6 DEF SelfSet, inputs, EndFacts, EndTypes
  <2>3. Known'
    BY <1>1, <1>6, <2>1 DEF SelfSet, Goto, inputs, EndFacts, Known, FieldEvent, EndWaits,
       FieldFails, First, ResultInv, ResultTypes
  <2>4. FieldEvent'
    BY <1>1, <1>6, <2>1 DEF SelfSet, Goto, inputs, EndFacts, FieldEvent, FieldFails, ResultInv,
       ResultTypes
  <2>5. EndWaits'
    BY <1>1, <1>6, <2>1 DEF SelfSet, Goto, inputs, EndFacts, EndWaits, FieldEvent, FieldFails,
       ResultInv, ResultTypes
  <2> QED
    BY <2>2, <2>3, <2>4, <2>5 DEF EndFacts
<1>7. CASE Return(t)
  <2>1. /\ \A u \in (Completer \cup Getter) \ {t} : pc'[u] = pc[u]
        /\ pc' \in [Completer \cup Getter -> Place]
    BY <1>1, <1>7, GotoMoves DEF Return, ResultInv, Place
  <2>2. EndTypes'
    BY <1>7 DEF Return, inputs, EndFacts, EndTypes, ResultInv, ResultTypes
  <2>3. Known'
    BY <1>1, <1>7, <2>1 DEF Return, Goto, inputs, EndFacts, Known, First, ResultInv, ResultTypes
  <2>4. FieldEvent'
    BY <1>1, <1>7, <2>1 DEF Return, Goto, inputs, EndFacts, FieldEvent, ResultInv, ResultTypes
  <2>5. EndWaits'
    BY <1>1, <1>7, <2>1 DEF Return, Goto, inputs, EndFacts, EndWaits, EndTypes, ResultInv,
       ResultTypes
  <2> QED
    BY <2>2, <2>3, <2>4, <2>5 DEF EndFacts
<1>8. CASE WaitOne(t)
  <2>1. /\ \A u \in (Completer \cup Getter) \ {t} : pc'[u] = pc[u]
        /\ pc' \in [Completer \cup Getter -> Place]
    BY <1>1, <1>8, GotoMoves DEF WaitOne, ResultInv, Place, AfterWait
  <2>2. EndTypes'
    BY <1>8 DEF WaitOne, inputs, EndFacts, EndTypes
  <2>3. Known'
    BY <1>1, <1>8, <2>1 DEF WaitOne, Goto, inputs, EndFacts, Known, FieldEvent, EndWaits,
       EventState, GotEvent, AfterWait, First, ResultInv, ResultTypes
  <2>4. FieldEvent'
    BY <1>1, <1>8, <2>1 DEF WaitOne, Goto, inputs, EndFacts, FieldEvent, GotEvent, AfterWait,
       ResultInv, ResultTypes
  <2>5. EndWaits'
    BY <1>1, <1>8, <2>1 DEF WaitOne, Goto, inputs, EndFacts, EndWaits, FieldEvent, EventState,
       GotEvent, AfterWait, ResultInv, ResultTypes
  <2> QED
    BY <2>2, <2>3, <2>4, <2>5 DEF EndFacts
<1>9. CASE WakeUp(t)
  <2>1. /\ \A u \in (Completer \cup Getter) \ {t} : pc'[u] = pc[u]
        /\ pc' \in [Completer \cup Getter -> Place]
    BY <1>1, <1>9, GotoMoves DEF WakeUp, ResultInv, Place, AfterWait
  <2>2. EndTypes'
    BY <1>9 DEF WakeUp, inputs, EndFacts, EndTypes
  <2>3. Known'
    BY <1>1, <1>9, <2>1 DEF WakeUp, Goto, inputs, EndFacts, Known, EndWaits, GotEvent, AfterWait,
       First, ResultInv, ResultTypes
  <2>4. FieldEvent'
    BY <1>1, <1>9, <2>1 DEF WakeUp, Goto, inputs, EndFacts, FieldEvent, GotEvent, AfterWait,
       ResultInv, ResultTypes
  <2>5. EndWaits'
    BY <1>1, <1>9, <2>1 DEF WakeUp, Goto, inputs, EndFacts, EndWaits, GotEvent, AfterWait,
       ResultInv, ResultTypes
  <2> QED
    BY <2>2, <2>3, <2>4, <2>5 DEF EndFacts
<1> QED
  BY <1>2, <1>3, <1>4, <1>5, <1>6, <1>7, <1>8, <1>9 DEF Get, AsyncWaitHandle

\* and End.
LEMMA EndEnds == ASSUME ResultInv, EndFacts, End PROVE EndFacts'
<1>1. Ender \in Getter /\ Ender \notin Completer /\ Completer \cap Getter = {} /\ Null \notin Getter
  BY ResultAssumption DEF Getter
<1>2. CASE TestCompleted
  <2>1. /\ \A u \in (Completer \cup Getter) \ {Ender} : pc'[u] = pc[u]
        /\ pc' \in [Completer \cup Getter -> Place]
    BY <1>1, <1>2, GotoMoves DEF TestCompleted, ResultInv, Place
  <2>2. EndTypes'
    BY <1>2 DEF TestCompleted, inputs, EndFacts, EndTypes
  <2>3. Known'
    BY <1>1, <1>2, <2>1 DEF TestCompleted, Goto, inputs, EndFacts, Known, First, ResultInv,
       ResultTypes
  <2>4. FieldEvent'
    BY <1>1, <1>2, <2>1 DEF TestCompleted, Goto, inputs, EndFacts, FieldEvent, ResultInv,
       ResultTypes
  <2>5. EndWaits'
    BY <1>1, <1>2, <2>1 DEF TestCompleted, Goto, inputs, EndFacts, EndWaits, ResultInv,
       ResultTypes
  <2> QED
    BY <2>2, <2>3, <2>4, <2>5 DEF EndFacts
<1>3. CASE CloseEvent
  <2>1. /\ \A u \in (Completer \cup Getter) \ {Ender} : pc'[u] = pc[u]
        /\ pc' \in [Completer \cup Getter -> Place]
    BY <1>1, <1>3, GotoMoves DEF CloseEvent, ResultInv, Place
  <2>2. EndTypes'
    BY <1>3 DEF CloseEvent, inputs, EndFacts, EndTypes
  <2>3. Known'
    BY <1>1, <1>3, <2>1 DEF CloseEvent, Goto, inputs, EndFacts, Known, Closed, First, ResultInv,
       ResultTypes
  <2>4. FieldEvent'
    BY <1>1, <1>3, <2>1 DEF CloseEvent, Goto, inputs, EndFacts, FieldEvent, Known, EndWaits,
       EventState, HandleInstalled, Closed, ResultInv, ResultTypes
  <2>5. EndWaits'
    BY <1>1, <1>3, <2>1 DEF CloseEvent, Goto, inputs, EndFacts, EndWaits, Closed, ResultInv,
       ResultTypes
  <2> QED
    BY <2>2, <2>3, <2>4, <2>5 DEF EndFacts
<1>4. CASE Forget
  <2>1. /\ \A u \in (Completer \cup Getter) \ {Ender} : pc'[u] = pc[u]
        /\ pc' \in [Completer \cup Getter -> Place]
    BY <1>1, <1>4, GotoMoves DEF Forget, ResultInv, Place
  <2>2. EndTypes'
    BY <1>4 DEF Forget, inputs, EndFacts, EndTypes
  <2>3. Known'
    BY <1>1, <1>4, <2>1 DEF Forget, Goto, inputs, EndFacts, Known, First, ResultInv, ResultTypes
  <2>4. FieldEvent'
    BY <1>1, <1>4, <2>1 DEF Forget, Goto, inputs, EndFacts, FieldEvent, ResultInv, ResultTypes
  <2>5. EndWaits'
    BY <1>1, <1>4, <2>1 DEF Forget, Goto, inputs, EndFacts, EndWaits, ResultInv, ResultTypes
  <2> QED
    BY <2>2, <2>3, <2>4, <2>5 DEF EndFacts
<1>5. CASE Finish
  <2>1. /\ \A u \in (Completer \cup Getter) \ {Ender} : pc'[u] = pc[u]
        /\ pc' \in [Completer \cup Getter -> Place]
    BY <1>1, <1>5, GotoMoves DEF Finish, ResultInv, Place
  <2>2. EndTypes'
    BY <1>5 DEF Finish, inputs, EndFacts, EndTypes
  <2>3. Known'
    BY <1>1, <1>5, <2>1 DEF Finish, Goto, inputs, EndFacts, Known, First, ResultInv, ResultTypes
  <2>4. FieldEvent'
    BY <1>1, <1>5, <2>1 DEF Finish, Goto, inputs, EndFacts, FieldEvent, ResultInv, ResultTypes
  <2>5. EndWaits'
    BY <1>1, <1>5, <2>1 DEF Finish, Goto, inputs, EndFacts, EndWaits, EndTypes, ResultInv,
       ResultTypes
  <2> QED
    BY <2>2, <2>3, <2>4, <2>5 DEF EndFacts
<1> QED
  BY <1>2, <1>3, <1>4, <1>5 DEF End

\* The facts hold at the start,
LEMMA InitEnds == Init => EndFacts
<1> SUFFICES ASSUME Init PROVE EndFacts
  OBVIOUS
<1>1. PICK c \in Completer :
        pc = [t \in Completer \cup Getter |->
                IF disposes /\ t \in Completer \ {c} THEN "end" ELSE "begin"]
  BY DEF Init
<1>2. pc[Ender] = "begin" /\ \A t \in Completer \cup Getter : pc[t] \in {"begin", "end"}
  BY <1>1, ResultAssumption DEF Getter
<1> QED
  BY <1>2 DEF Init, EndFacts, EndTypes, Known, FieldEvent, EndWaits, First

\* every step keeps them,
LEMMA NextEnds == ResultInv /\ EndFacts /\ [Next]_vars => EndFacts'
<1> SUFFICES ASSUME ResultInv, EndFacts, [Next]_vars PROVE EndFacts'
  OBVIOUS
<1>1. CASE UNCHANGED vars
  BY <1>1 DEF vars, inputs, EndFacts, EndTypes, Known, FieldEvent, EndWaits
<1>2. ASSUME NEW w \in Waiter, Wait(w) PROVE EndFacts'
  <2>1. w \in Getter /\ Ender \in Getter /\ Completer \cap Getter = {}
    BY ResultAssumption DEF Getter
  <2>2. /\ pc'[w] = "get" /\ \A u \in (Completer \cup Getter) \ {w} : pc'[u] = pc[u]
    BY <1>2, <2>1, GotoMoves DEF Wait, ResultInv, Place
  <2>3. EndTypes' /\ FieldEvent'
    <3>1. EndTypes'
      BY <1>2 DEF Wait, inputs, EndFacts, EndTypes
    <3>2. FieldEvent'
      BY <1>2, <2>1, <2>2 DEF Wait, Goto, inputs, EndFacts, FieldEvent
    <3> QED
      BY <3>1, <3>2
  <2>4. Known' /\ EndWaits'
    BY <1>2, <2>1, <2>2 DEF Wait, inputs, EndFacts, Known, EndWaits, First
  <2> QED
    BY <2>3, <2>4 DEF EndFacts
<1> QED
  BY <1>1, <1>2, CompleteEnds, GetEnds, EndEnds DEF Next

\* End comes back after a completion only, and fails only beside a pool that disposes.
THEOREM EndIsAfterCompletion == Spec => []EndAfterCompletion
<1>1. Spec => []EndFacts
  BY ResultInvHolds, InitEnds, NextEnds, PTL DEF Spec
<1>2. EndFacts => EndAfterCompletion
  BY DEF EndFacts, Known, EndWaits, EndAfterCompletion
<1> QED
  BY <1>1, <1>2, PTL

================================================================================
