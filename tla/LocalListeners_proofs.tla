------------------------- MODULE LocalListeners_proofs -------------------------
(***************************************************************************)
(* Theorems about the listeners that write where they are: in memory, to the*)
(* console and to files.                                                   *)
(***************************************************************************)
EXTENDS InMemoryTraceListener, ColoredConsoleTraceListener, RollingTextWriter,
        SequenceTheorems, FiniteSetTheorems, TLAPS

(***************************************************************************)
(* Proofs about the listeners that keep or show traces themselves:         *)
(* InMemoryTraceListener, for buffers of every size, and                   *)
(* ColoredConsoleTraceListener, for any threads, listeners and settings.   *)
(*                                                                         *)
(* RingHoldsLog is inductive together with the types: it says of every     *)
(* index which trace of the log is there, in two cases, before the buffer  *)
(* is full and from then on.  GetsLastTraces follows: from _current to the *)
(* end of the buffer either every index holds a trace or none does.        *)
(*                                                                         *)
(* OnlyHolder is inductive together with the types.  ColourIsReset speaks  *)
(* of the console when nobody writes; ColourExplained says what its colour *)
(* is meanwhile: the default, unless a call threw or one that sets the     *)
(* colour is under way.                                                    *)
(***************************************************************************)

--------------------------------------------------------------------------------
(* InMemoryTraceListener.                                                  *)

\* The initial buffer is empty and has the right type.
LEMMA InitTypeOK == MemInit => MemTypeOK
<1> SUFFICES ASSUME MemInit PROVE MemTypeOK
  OBVIOUS
<1>1. limit \in Nat
  BY LimitsAssumption DEF MemInit
<1>2. events \in [0..(limit - 1) -> Nat]
  BY <1>1 DEF MemInit, NoEvent
<1>3. log \in Seq(Nat \ {NoEvent})
  BY EmptySeq DEF MemInit
<1> QED
  BY <1>1, <1>2, <1>3 DEF MemInit, MemTypeOK

\* WriteTrace keeps the types: the index wraps before it leaves the buffer.
LEMMA WriteTraceTypeOK == MemTypeOK /\ WriteTrace => MemTypeOK'
<1> SUFFICES ASSUME MemTypeOK, WriteTrace PROVE MemTypeOK'
  OBVIOUS
<1>1. limit \in Nat /\ limit' = limit /\ limit > 0 /\ limit \in Limits
  BY LimitsAssumption DEF MemTypeOK, WriteTrace
<1>2. ThisTrace \in Nat \ {NoEvent}
  BY DEF MemTypeOK, ThisTrace, NoEvent
<1>3. events' \in [0..(limit - 1) -> Nat]
  BY <1>2 DEF MemTypeOK, WriteTrace
<1>4. log' \in Seq(Nat \ {NoEvent})
  BY <1>2, AppendProperties DEF MemTypeOK, WriteTrace
<1>5. current' \in Nat /\ current' < limit
  BY <1>1 DEF MemTypeOK, WriteTrace, NextIndex
<1>6. written' \in Nat
  BY <1>2 DEF WriteTrace
<1> QED
  BY <1>1, <1>3, <1>4, <1>5, <1>6 DEF MemTypeOK

\* Every step keeps the types.
LEMMA NextTypeOK == MemTypeOK /\ [MemNext]_memVars => MemTypeOK'
<1> SUFFICES ASSUME MemTypeOK, [MemNext]_memVars PROVE MemTypeOK'
  OBVIOUS
<1>1. CASE WriteTrace
  BY <1>1, WriteTraceTypeOK
<1>2. CASE WriteTraceThrows
  BY <1>2 DEF WriteTraceThrows, MemTypeOK, ThisTrace
<1>3. CASE Clear
  <2>1. limit \in Nat /\ limit' = limit
    BY <1>3, LimitsAssumption DEF MemTypeOK, Clear
  <2>2. events' \in [0..(limit - 1) -> Nat]
    BY <1>3, <2>1 DEF Clear, NoEvent
  <2>3. log' \in Seq(Nat \ {NoEvent})
    BY <1>3, EmptySeq DEF Clear
  <2> QED
    BY <1>3, <2>1, <2>2, <2>3 DEF MemTypeOK, Clear, FirstIndex
<1>4. CASE UNCHANGED memVars
  BY <1>4 DEF memVars, MemTypeOK
<1> QED
  BY <1>1, <1>2, <1>3, <1>4 DEF MemNext

\* The index stays within the buffer, whatever its size (_current, and the
\* accesses to _events in WriteTrace and GetEvents).
THEOREM MemTypeCorrect == MemSpec => []MemTypeOK
<1> QED
  BY InitTypeOK, NextTypeOK, PTL DEF MemSpec

\* WriteTrace keeps the ring in step with the log.
LEMMA WriteTraceRing == MemTypeOK /\ RingHoldsLog /\ WriteTrace => RingHoldsLog'
<1> SUFFICES ASSUME MemTypeOK, RingHoldsLog, WriteTrace PROVE RingHoldsLog'
  OBVIOUS
<1> DEFINE n == Len(log)
<1>1. limit \in Nat /\ limit' = limit /\ limit > 0 /\ current \in Nat /\ current < limit
  BY LimitsAssumption DEF MemTypeOK, WriteTrace
<1>2. n \in Nat /\ Len(log') = n + 1 /\ log'[n + 1] = ThisTrace
      /\ \A k \in 1..n : log'[k] = log[k]
  BY AppendProperties, LenProperties DEF MemTypeOK, WriteTrace, ThisTrace, NoEvent
<1>3. events' = [events EXCEPT ![current] = ThisTrace] /\ DOMAIN events = 0..(limit - 1)
  BY DEF MemTypeOK, WriteTrace
<1>4. current' = IF current + 1 >= limit THEN 0 ELSE current + 1
  BY DEF WriteTrace, NextIndex
<1>5. CASE n + 1 < limit
  <2>1. current = n /\ \A i \in 0..(limit - 1) : events[i] = IF i < n THEN log[i + 1] ELSE NoEvent
    BY <1>1, <1>2, <1>5 DEF RingHoldsLog
  <2>2. current' = n + 1
    BY <1>1, <1>2, <1>4, <1>5, <2>1
  <2>3. ASSUME NEW i \in 0..(limit - 1)
        PROVE  events'[i] = IF i < n + 1 THEN log'[i + 1] ELSE NoEvent
    <3>1. CASE i = n
      BY <1>1, <1>2, <1>3, <2>1, <3>1
    <3>2. CASE i < n
      <4>1. events'[i] = log[i + 1] /\ i + 1 \in 1..n
        BY <1>1, <1>2, <1>3, <2>1, <3>2
      <4> QED
        BY <1>2, <3>2, <4>1
    <3>3. CASE i > n
      BY <1>1, <1>2, <1>3, <2>1, <3>3
    <3> QED
      BY <1>1, <1>2, <3>1, <3>2, <3>3
  <2> QED
    BY <1>1, <1>2, <1>5, <2>2, <2>3 DEF RingHoldsLog
<1>6. CASE n + 1 = limit
  <2>1. current = n /\ \A i \in 0..(limit - 1) : events[i] = IF i < n THEN log[i + 1] ELSE NoEvent
    BY <1>1, <1>2, <1>6 DEF RingHoldsLog
  <2>2. current' = 0
    BY <1>1, <1>2, <1>4, <1>6, <2>1
  <2>3. ASSUME NEW i \in 0..(limit - 1)
        PROVE  events'[i] = log'[i + 1]
    <3>1. CASE i = n
      BY <1>1, <1>2, <1>3, <2>1, <3>1
    <3>2. CASE i # n
      BY <1>1, <1>2, <1>3, <1>6, <2>1, <3>2
    <3> QED
      BY <3>1, <3>2
  <2>4. ASSUME NEW i \in 0..(limit - 1)
        PROVE  /\ ~(i < current')
               /\ Len(log') - current' - limit + i + 1 = i + 1
    BY <1>1, <1>2, <1>6, <2>2
  <2> QED
    BY <1>1, <1>2, <1>6, <2>3, <2>4 DEF RingHoldsLog
<1>7. CASE n >= limit
  <2>1. \A i \in 0..(limit - 1) :
          events[i] = IF i < current THEN log[n - current + i + 1]
                                     ELSE log[n - current - limit + i + 1]
    BY <1>7 DEF RingHoldsLog
  <2>2. ASSUME NEW i \in 0..(limit - 1)
        PROVE  events'[i] = IF i < current' THEN log'[(n + 1) - current' + i + 1]
                                            ELSE log'[(n + 1) - current' - limit + i + 1]
    <3>1. CASE i = current
      <4>1. events'[i] = log'[n + 1]
        BY <1>1, <1>2, <1>3, <3>1
      <4>2. CASE current + 1 >= limit
        <5>1. current' = 0 /\ i = limit - 1
          BY <1>1, <1>4, <3>1, <4>2
        <5>2. (n + 1) - current' - limit + i + 1 = n + 1 /\ ~(i < current')
          BY <1>1, <1>2, <5>1
        <5> QED
          BY <4>1, <5>2
      <4>3. CASE current + 1 < limit
        <5>1. current' = i + 1
          BY <1>1, <1>4, <3>1, <4>3
        <5>2. (n + 1) - current' + i + 1 = n + 1 /\ i < current'
          BY <1>1, <1>2, <5>1
        <5> QED
          BY <4>1, <5>2
      <4> QED
        BY <1>1, <4>2, <4>3
    <3>2. CASE i < current
      <4>1. events'[i] = log[n - current + i + 1] /\ n - current + i + 1 \in 1..n
        BY <1>1, <1>2, <1>3, <1>7, <2>1, <3>2
      <4>2. events'[i] = log'[n - current + i + 1]
        BY <1>2, <4>1
      <4>3. CASE current + 1 >= limit
        <5>1. current' = 0 /\ current = limit - 1
          BY <1>1, <1>4, <4>3
        <5>2. (n + 1) - current' - limit + i + 1 = n - current + i + 1 /\ ~(i < current')
          BY <1>1, <1>2, <5>1
        <5> QED
          BY <4>2, <5>2
      <4>4. CASE current + 1 < limit
        <5>1. current' = current + 1
          BY <1>1, <1>4, <4>4
        <5>2. (n + 1) - current' + i + 1 = n - current + i + 1 /\ i < current'
          BY <1>1, <1>2, <3>2, <5>1
        <5> QED
          BY <4>2, <5>2
      <4> QED
        BY <1>1, <4>3, <4>4
    <3>3. CASE i > current
      <4>1. events'[i] = log[n - current - limit + i + 1] /\ n - current - limit + i + 1 \in 1..n
        BY <1>1, <1>2, <1>3, <1>7, <2>1, <3>3
      <4>2. events'[i] = log'[n - current - limit + i + 1]
        BY <1>2, <4>1
      <4>3. current' = current + 1
        BY <1>1, <1>4, <3>3
      <4>4. (n + 1) - current' - limit + i + 1 = n - current - limit + i + 1 /\ ~(i < current')
        BY <1>1, <1>2, <3>3, <4>3
      <4> QED
        BY <4>2, <4>4
    <3> QED
      BY <1>1, <3>1, <3>2, <3>3
  <2> QED
    BY <1>1, <1>2, <1>7, <2>2 DEF RingHoldsLog
<1> QED
  BY <1>1, <1>2, <1>5, <1>6, <1>7

\* Every step keeps the ring in step with the log.
LEMMA NextRing == MemTypeOK /\ RingHoldsLog /\ [MemNext]_memVars => RingHoldsLog'
<1> SUFFICES ASSUME MemTypeOK, RingHoldsLog, [MemNext]_memVars PROVE RingHoldsLog'
  OBVIOUS
<1>1. CASE WriteTrace
  BY <1>1, WriteTraceRing
<1>2. CASE WriteTraceThrows
  BY <1>2 DEF WriteTraceThrows, RingHoldsLog
<1>3. CASE Clear
  <2>1. limit \in Nat /\ limit' = limit /\ log' = <<>> /\ current' = 0
        /\ events' = [i \in 0..(limit - 1) |-> NoEvent]
    BY <1>3, LimitsAssumption DEF MemTypeOK, Clear, FirstIndex
  <2>2. Len(log') = 0
    BY <2>1
  <2> QED
    BY <2>1, <2>2 DEF RingHoldsLog
<1>4. CASE UNCHANGED memVars
  BY <1>4 DEF memVars, RingHoldsLog
<1> QED
  BY <1>1, <1>2, <1>3, <1>4 DEF MemNext

\* In every buffer, of whatever size, each index holds the trace of the log that the
\* order of GetEvents relies on (WriteTrace and Clear).
THEOREM RingCorrect == MemSpec => []RingHoldsLog
<1>1. MemInit => RingHoldsLog
  <2> SUFFICES ASSUME MemInit PROVE RingHoldsLog
    OBVIOUS
  <2>1. limit \in Nat /\ Len(log) = 0 /\ current = 0
    BY LimitsAssumption DEF MemInit
  <2> QED
    BY <2>1 DEF MemInit, RingHoldsLog
<1> QED
  BY <1>1, InitTypeOK, NextTypeOK, NextRing, PTL DEF MemSpec

Elem == Nat \ {NoEvent}

\* A function on 1..m is a sequence of length m.
LEMMA FunctionIsSeq ==
  ASSUME NEW S, NEW m \in Nat, NEW f \in [1..m -> S]
  PROVE  f \in Seq(S) /\ Len(f) = m
<1> QED
  OBVIOUS

\* The size of an interval that is not reversed by more than one.
LEMMA IntervalSize ==
  ASSUME NEW a \in Int, NEW b \in Int, a <= b + 1
  PROVE  Cardinality(a..b) = b - a + 1
<1>1. Cardinality(a..b) = IF a > b THEN 0 ELSE b - a + 1
  BY FS_Interval
<1> QED
  BY <1>1

\* When all indices from _current on hold a trace, they are read in turn.
LEMMA AllRecorded ==
  ASSUME limit \in Nat, current \in Nat, current <= limit,
         Recorded = current..(limit - 1)
  PROVE  /\ Cardinality(Recorded) = limit - current
         /\ \A k \in 1..(limit - current) : Nth(k) = current + k - 1
<1>1. Cardinality(Recorded) = limit - current
  <2>1. limit - 1 \in Int /\ current \in Int /\ current <= (limit - 1) + 1
    OBVIOUS
  <2>2. Cardinality(current..(limit - 1)) = (limit - 1) - current + 1
    BY <2>1, IntervalSize
  <2> QED
    BY <2>2
<1>2. ASSUME NEW i \in Recorded
      PROVE  Cardinality({j \in Recorded : j <= i}) = i - current + 1
  <2>1. {j \in Recorded : j <= i} = current..i
    OBVIOUS
  <2>2. i \in Int /\ current \in Int /\ current <= i + 1
    OBVIOUS
  <2>3. Cardinality(current..i) = i - current + 1
    BY <2>2, IntervalSize
  <2> QED
    BY <2>1, <2>3
<1>3. ASSUME NEW k \in 1..(limit - current)
      PROVE  Nth(k) = current + k - 1
  <2>1. current + k - 1 \in Recorded
    OBVIOUS
  <2>2. \A i \in Recorded : Cardinality({j \in Recorded : j <= i}) = k <=> i = current + k - 1
    BY <1>2
  <2> QED
    BY <2>1, <2>2 DEF Nth
<1> QED
  BY <1>1, <1>3

\* A part of the log is a sequence of traces.
LEMMA LastProperties ==
  ASSUME MemTypeOK, NEW n \in Nat
  PROVE  /\ LastTraces(n) \in Seq(Elem)
         /\ Len(LastTraces(n)) = IF Len(log) > n THEN n ELSE Len(log)
         /\ \A k \in 1..Len(LastTraces(n)) :
              LastTraces(n)[k] = log[IF Len(log) > n THEN Len(log) - n + k ELSE k]
<1> DEFINE m == IF Len(log) > n THEN Len(log) - n + 1 ELSE 1
<1>1. log \in Seq(Elem) /\ Len(log) \in Nat
  BY LenProperties DEF MemTypeOK, Elem
<1>2. m \in Nat /\ m >= 1 /\ m <= Len(log) + 1
  BY <1>1
<1>3. \A i \in m..Len(log) : log[i] \in Elem
  BY <1>1, <1>2, ElementOfSeq
<1>4. LastTraces(n) = SubSeq(log, m, Len(log))
  BY DEF LastTraces
<1> HIDE DEF m
<1>5. /\ SubSeq(log, m, Len(log)) \in Seq(Elem)
      /\ Len(SubSeq(log, m, Len(log))) = IF m <= Len(log) THEN Len(log) - m + 1 ELSE 0
      /\ \A k \in 1..(Len(log) - m + 1) : SubSeq(log, m, Len(log))[k] = log[m + k - 1]
  BY <1>1, <1>2, <1>3, SubSeqProperties
<1>6. Len(LastTraces(n)) = IF Len(log) > n THEN n ELSE Len(log)
  <2>1. Len(LastTraces(n)) = Len(log) - m + 1
    BY <1>1, <1>2, <1>4, <1>5
  <2>2. m = IF Len(log) > n THEN Len(log) - n + 1 ELSE 1
    BY DEF m
  <2> QED
    BY <1>1, <2>1, <2>2
<1>7. ASSUME NEW k \in 1..Len(LastTraces(n))
      PROVE  LastTraces(n)[k] = log[IF Len(log) > n THEN Len(log) - n + k ELSE k]
  <2>1. k \in 1..(Len(log) - m + 1) /\ LastTraces(n)[k] = log[m + k - 1]
    BY <1>1, <1>2, <1>4, <1>5
  <2> QED
    BY <1>1, <2>1 DEF m
<1> QED
  BY <1>4, <1>5, <1>6, <1>7

\* The ring in step with the log is what GetEvents needs.
LEMMA RingGivesLast == MemTypeOK /\ RingHoldsLog => GetsLastTraces
<1> SUFFICES ASSUME MemTypeOK, RingHoldsLog PROVE GetEvents = LastTraces(limit)
  BY DEF GetsLastTraces
<1> DEFINE n == Len(log)
           late == [k \in 1..Cardinality(Recorded) |-> events[Nth(k)]]
           early == [k \in 1..current |-> events[k - 1]]
<1>1. limit \in Nat /\ current \in Nat /\ current <= limit /\ (limit > 0 => current < limit)
  BY LimitsAssumption DEF MemTypeOK
<1>2. log \in Seq(Elem) /\ n \in Nat /\ \A k \in 1..n : log[k] \in Elem
  BY LenProperties, ElementOfSeq DEF MemTypeOK, Elem
<1>3. GetEvents = late \o early
  BY DEF GetEvents
<1>4. CASE n < limit
  <2>1. current = n /\ \A i \in 0..(limit - 1) : events[i] = IF i < n THEN log[i + 1] ELSE NoEvent
    BY <1>4 DEF RingHoldsLog
  <2>2. Recorded = {}
    BY <1>1, <2>1 DEF Recorded
  <2>3. late = <<>>
    BY <2>2, FS_EmptySet
  <2>4. \A k \in 1..n : early[k] = log[k]
    BY <1>1, <1>2, <1>4, <2>1
  <2>5. early \in Seq(Elem) /\ Len(early) = n
    <3>1. early \in [1..n -> Elem]
      BY <1>2, <2>1, <2>4
    <3> HIDE DEF early, n
    <3> QED
      BY <1>2, <3>1, FunctionIsSeq
  <2>6. GetEvents = early
    BY <1>3, <2>3, <2>5, ConcatEmptySeq
  <2>7. /\ LastTraces(limit) \in Seq(Elem) /\ Len(LastTraces(limit)) = n
        /\ \A k \in 1..n : LastTraces(limit)[k] = log[k]
    <3>1. ~(Len(log) > limit)
      BY <1>1, <1>2, <1>4
    <3> QED
      BY <1>1, <3>1, LastProperties
  <2> HIDE DEF early, late
  <2> QED
    BY <1>2, <2>4, <2>5, <2>6, <2>7, SeqEqual
<1>5. CASE n >= limit
  <2>1. \A i \in 0..(limit - 1) :
          events[i] = IF i < current THEN log[n - current + i + 1]
                                     ELSE log[n - current - limit + i + 1]
    BY <1>5 DEF RingHoldsLog
  <2>2. Recorded = current..(limit - 1)
    <3>1. ASSUME NEW i \in current..(limit - 1)
          PROVE  events[i] # NoEvent
      <4>1. events[i] = log[n - current - limit + i + 1] /\ n - current - limit + i + 1 \in 1..n
        BY <1>1, <1>2, <1>5, <2>1
      <4> QED
        BY <1>2, <4>1 DEF Elem
    <3> QED
      BY <3>1 DEF Recorded
  <2>3. Cardinality(Recorded) = limit - current
        /\ \A k \in 1..(limit - current) : Nth(k) = current + k - 1
    BY <1>1, <2>2, AllRecorded
  <2>4. ASSUME NEW k \in 1..(limit - current)
        PROVE  late[k] = log[n - limit + k] /\ late[k] \in Elem
    <3>1. late[k] = events[current + k - 1]
      BY <2>3
    <3>2. current + k - 1 \in 0..(limit - 1) /\ ~(current + k - 1 < current)
          /\ n - current - limit + (current + k - 1) + 1 = n - limit + k
      BY <1>1, <1>2
    <3>3. n - limit + k \in 1..n
      BY <1>1, <1>2, <1>5
    <3> HIDE DEF late, n
    <3> QED
      BY <1>2, <2>1, <3>1, <3>2, <3>3
  <2>5. ASSUME NEW k \in 1..current
        PROVE  early[k] = log[n - current + k] /\ early[k] \in Elem
    <3>1. early[k] = events[k - 1]
      OBVIOUS
    <3>2. k - 1 \in 0..(limit - 1) /\ k - 1 < current /\ n - current + (k - 1) + 1 = n - current + k
      BY <1>1, <1>2
    <3>3. n - current + k \in 1..n
      BY <1>1, <1>2, <1>5
    <3> HIDE DEF early, n
    <3> QED
      BY <1>2, <2>1, <3>1, <3>2, <3>3
  <2>6. late \in Seq(Elem) /\ Len(late) = limit - current
    <3>1. late \in [1..(limit - current) -> Elem]
      BY <2>3, <2>4
    <3>2. limit - current \in Nat
      BY <1>1
    <3> HIDE DEF late
    <3> QED
      BY <3>1, <3>2, FunctionIsSeq
  <2>7. early \in Seq(Elem) /\ Len(early) = current
    <3>1. early \in [1..current -> Elem]
      BY <2>5
    <3> HIDE DEF early
    <3> QED
      BY <1>1, <3>1, FunctionIsSeq
  <2> HIDE DEF late, early
  <2>8. /\ late \o early \in Seq(Elem)
        /\ Len(late \o early) = limit
        /\ \A k \in 1..limit : (late \o early)[k] =
             IF k <= limit - current THEN late[k] ELSE early[k - (limit - current)]
    <3>1. Len(late) + Len(early) = limit
      BY <1>1, <2>6, <2>7
    <3>2. /\ late \o early \in Seq(Elem)
          /\ Len(late \o early) = Len(late) + Len(early)
          /\ \A k \in 1..Len(late) + Len(early) : (late \o early)[k] =
               IF k <= Len(late) THEN late[k] ELSE early[k - Len(late)]
      BY <2>6, <2>7, ConcatProperties
    <3> QED
      BY <2>6, <3>1, <3>2
  <2>9. ASSUME NEW k \in 1..limit
        PROVE  (late \o early)[k] = log[n - limit + k]
    <3>1. CASE k <= limit - current
      <4>1. k \in 1..(limit - current)
        BY <1>1, <3>1
      <4>2. (late \o early)[k] = late[k]
        BY <2>8, <3>1
      <4> QED
        BY <2>4, <4>1, <4>2
    <3>2. CASE k > limit - current
      <4>1. k - (limit - current) \in 1..current
            /\ n - current + (k - (limit - current)) = n - limit + k
        BY <1>1, <1>2, <3>2
      <4>2. (late \o early)[k] = early[k - (limit - current)]
        BY <1>1, <2>8, <3>2
      <4> QED
        BY <2>5, <4>1, <4>2
    <3>3. k <= limit - current \/ k > limit - current
      BY <1>1
    <3> QED
      BY <3>1, <3>2, <3>3
  <2>10. /\ LastTraces(limit) \in Seq(Elem) /\ Len(LastTraces(limit)) = limit
         /\ \A k \in 1..limit : LastTraces(limit)[k] = log[n - limit + k]
    <3>1. LastTraces(limit) \in Seq(Elem)
      BY <1>1, LastProperties
    <3>2. Len(LastTraces(limit)) = IF n > limit THEN limit ELSE n
      BY <1>1, LastProperties
    <3>3. Len(LastTraces(limit)) = limit
      BY <1>1, <1>2, <1>5, <3>2
    <3>4. \A k \in 1..limit : LastTraces(limit)[k] = log[IF n > limit THEN n - limit + k ELSE k]
      BY <1>1, <3>3, LastProperties
    <3>5. \A k \in 1..limit : (IF n > limit THEN n - limit + k ELSE k) = n - limit + k
      BY <1>1, <1>2, <1>5
    <3> QED
      BY <3>1, <3>3, <3>4, <3>5
  <2> QED
    BY <1>1, <1>3, <2>8, <2>9, <2>10, SeqEqual, ZenonT(30)
<1> QED
  BY <1>1, <1>2, <1>4, <1>5

\* GetEvents returns the last traces since Clear, as many as there is room for, in
\* order, for buffers of every size and any history (WriteTrace, Clear, GetEvents).
THEOREM LastTracesCorrect == MemSpec => []GetsLastTraces
<1> QED
  BY MemTypeCorrect, RingCorrect, RingGivesLast, PTL

--------------------------------------------------------------------------------
(* ColoredConsoleTraceListener.                                            *)

CallRecord == [id : Nat, listener : Listener \cup ErrorListener, want : ConsoleColor,
               footer : BOOLEAN, pc : {"message", "footer", "reset"}, entered : BOOLEAN]

ConsoleTypeOK ==
  /\ settings \in [Keys -> Setting]
  /\ holder \in Thread \cup {NoThread}
  /\ calls \in [Thread -> Seq(CallRecord)]
  /\ lastCall \in Nat

ColourExplained ==
  colour = "default" \/ fault
    \/ \E t \in Thread : \E i \in DOMAIN calls[t] : calls[t][i].listener \in Listener

ConsoleInv == ConsoleTypeOK /\ OnlyHolder /\ ColourExplained

--------------------------------------------------------------------------------
(* The calls of a thread.                                                  *)

\* A colour is text.
LEMMA ColourType ==
  ASSUME settings \in [Keys -> Setting], NEW type \in EventType
  PROVE  ConsoleColour(type) \in ConsoleColor
<1>1. type \in Keys /\ "ActivityTracing" \in Keys
  BY DEF EventType, Keys
<1>2. DefaultColour(type) \in ConsoleColor
  BY DEF DefaultColour, ConsoleColor
<1> QED
  BY <1>1, <1>2 DEF ConsoleColour, IsColour

\* What is left of the calls when n of them end.
LEMMA CallsLeft ==
  ASSUME NEW s \in Seq(CallRecord), NEW n \in 1..Len(s)
  PROVE  /\ SubSeq(s, 1, Len(s) - n) \in Seq(CallRecord)
         /\ Len(SubSeq(s, 1, Len(s) - n)) = Len(s) - n
         /\ \A i \in 1..(Len(s) - n) : SubSeq(s, 1, Len(s) - n)[i] = s[i]
<1> DEFINE m == Len(s) - n
<1>1. m \in Nat /\ m <= Len(s) /\ Len(s) \in Nat
  OBVIOUS
<1>2. \A i \in 1..m : s[i] \in CallRecord
  BY <1>1
<1> HIDE DEF m
<1>3. /\ SubSeq(s, 1, m) \in Seq(CallRecord) /\ Len(SubSeq(s, 1, m)) = m
      /\ \A i \in 1..m : SubSeq(s, 1, m)[i] = s[i]
  BY <1>1, <1>2, SubSeqProperties
<1> QED
  BY <1>3 DEF m

\* A call that is in a place of the code exists, and is the last of its thread.
LEMMA InACall ==
  ASSUME ConsoleTypeOK, NEW t \in Thread, NEW pc, In(t, pc)
  PROVE  /\ calls[t] \in Seq(CallRecord) /\ Len(calls[t]) \in Nat /\ Len(calls[t]) >= 1
         /\ Last(calls[t]) = calls[t][Len(calls[t])]
<1>1. calls[t] \in Seq(CallRecord) /\ calls[t] # <<>>
  BY DEF ConsoleTypeOK, In
<1> QED
  BY <1>1 DEF Last

--------------------------------------------------------------------------------
(* Every step keeps the invariant.                                         *)

\* Enter: the thread holds the lock, and has one more call.
LEMMA EnterInv ==
  ASSUME ConsoleInv, NoThread \notin Thread, NEW t \in Thread,
         NEW l \in Listener \cup ErrorListener, NEW type \in EventType, NEW footer \in BOOLEAN,
         Enter(t, l, type, footer)
  PROVE  ConsoleInv'
<1> DEFINE new == [id |-> lastCall + 1, listener |-> l, want |-> ConsoleColour(type),
                   footer |-> footer, pc |-> "message", entered |-> FALSE]
           s == calls[t]
           r == [i \in DOMAIN s |-> IF i = Len(s) THEN [s[i] EXCEPT !.entered = TRUE] ELSE s[i]]
<1>1. /\ s \in Seq(CallRecord) /\ Len(s) \in Nat /\ DOMAIN s = 1..Len(s)
      /\ lastCall + 1 \in Nat
  BY DEF ConsoleInv, ConsoleTypeOK
<1>2. new \in CallRecord
  BY <1>1, ColourType DEF CallRecord, ConsoleInv, ConsoleTypeOK
<1>3. \A i \in 1..Len(s) : r[i] \in CallRecord /\ r[i].listener = s[i].listener
  <2> SUFFICES ASSUME NEW i \in 1..Len(s) PROVE r[i] \in CallRecord /\ r[i].listener = s[i].listener
    OBVIOUS
  <2>1. s[i] \in CallRecord
    BY <1>1
  <2> QED
    BY <1>1, <2>1 DEF CallRecord
<1>4. r \in Seq(CallRecord) /\ Len(r) = Len(s)
  <2>1. r \in [1..Len(s) -> CallRecord]
    BY <1>1, <1>3
  <2> QED
    BY <1>1, <2>1, IsASeq
<1>5. /\ calls' = [calls EXCEPT ![t] = Append(r, new)]
      /\ holder' = t /\ lastCall' = lastCall + 1 /\ settings' = settings /\ fault' = fault
      /\ holder \in {NoThread, t}
      /\ colour' = IF l \in Listener THEN ConsoleColour(type) ELSE colour
  BY DEF Enter, MayEnter
<1> HIDE DEF r, new
<1>6. /\ calls'[t] \in Seq(CallRecord) /\ Len(calls'[t]) = Len(s) + 1
      /\ \A i \in 1..Len(s) : calls'[t][i].listener = s[i].listener
      /\ calls'[t][Len(s) + 1] = new
      /\ \A u \in Thread \ {t} : calls'[u] = calls[u]
      /\ calls' \in [Thread -> Seq(CallRecord)]
  BY <1>1, <1>2, <1>3, <1>4, <1>5, AppendProperties DEF ConsoleInv, ConsoleTypeOK
<1>7. ConsoleTypeOK'
  BY <1>1, <1>5, <1>6 DEF ConsoleInv, ConsoleTypeOK
<1>8. OnlyHolder'
  <2>1. calls'[t] # <<>>
    BY <1>1, <1>6
  <2>2. \A u \in Thread \ {t} : calls'[u] = <<>>
    BY <1>5, <1>6 DEF ConsoleInv, OnlyHolder
  <2> QED
    BY <1>5, <2>1, <2>2 DEF OnlyHolder
<1>9. ColourExplained'
  <2>1. CASE l \in Listener
    <3>1. Len(s) + 1 \in DOMAIN calls'[t] /\ calls'[t][Len(s) + 1].listener \in Listener
      BY <1>1, <1>6, <2>1 DEF new
    <3> QED
      BY <3>1 DEF ColourExplained
  <2>2. CASE l \notin Listener
    <3>1. colour' = colour /\ fault' = fault
      BY <1>5, <2>2
    <3>2. ASSUME NEW u \in Thread, NEW i \in DOMAIN calls[u], calls[u][i].listener \in Listener
          PROVE  i \in DOMAIN calls'[u] /\ calls'[u][i].listener \in Listener
      <4>1. CASE u = t
        <5>1. i \in 1..Len(s) /\ s[i].listener \in Listener
          BY <1>1, <3>2, <4>1
        <5>2. calls'[t][i].listener = s[i].listener
          BY <1>6, <5>1
        <5>3. DOMAIN calls'[t] = 1..(Len(s) + 1)
          BY <1>6
        <5>4. i \in 1..(Len(s) + 1)
          BY <1>1, <5>1
        <5> QED
          BY <4>1, <5>1, <5>2, <5>3, <5>4
      <4>2. CASE u # t
        <5>1. calls'[u] = calls[u]
          BY <1>6, <4>2
        <5> QED
          BY <3>2, <5>1
      <4> QED
        BY <4>1, <4>2
    <3> QED
      BY <3>1, <3>2 DEF ConsoleInv, ColourExplained
  <2> QED
    BY <2>1, <2>2
<1> QED
  BY <1>7, <1>8, <1>9 DEF ConsoleInv

\* The lock and the calls when n calls of a thread end.
LEMMA LeaveInv ==
  ASSUME ConsoleTypeOK, OnlyHolder, NoThread \notin Thread, NEW t \in Thread, NEW n \in 1..Len(calls[t]),
         Leave(t, n), UNCHANGED <<settings, lastCall>>
  PROVE  /\ ConsoleTypeOK' /\ OnlyHolder'
         /\ DOMAIN calls'[t] = 1..(Len(calls[t]) - n)
         /\ \A i \in 1..(Len(calls[t]) - n) : calls'[t][i] = calls[t][i]
         /\ \A u \in Thread \ {t} : calls'[u] = calls[u]
<1> DEFINE s == calls[t]
           m == Len(s) - n
<1>1. s \in Seq(CallRecord) /\ Len(s) \in Nat /\ m \in Nat /\ (m = 0 <=> n = Len(s))
  BY DEF ConsoleTypeOK
<1>2. /\ SubSeq(s, 1, m) \in Seq(CallRecord) /\ Len(SubSeq(s, 1, m)) = m
      /\ \A i \in 1..m : SubSeq(s, 1, m)[i] = s[i]
  BY CallsLeft, <1>1
<1>3. /\ calls' = [calls EXCEPT ![t] = SubSeq(s, 1, m)]
      /\ holder' = IF n = Len(s) THEN NoThread ELSE holder
      /\ settings' = settings /\ lastCall' = lastCall
  BY DEF Leave
<1> HIDE DEF m
<1>4. /\ calls'[t] = SubSeq(s, 1, m) /\ \A u \in Thread \ {t} : calls'[u] = calls[u]
      /\ calls' \in [Thread -> Seq(CallRecord)]
  BY <1>2, <1>3 DEF ConsoleTypeOK
<1>5. ConsoleTypeOK'
  BY <1>3, <1>4 DEF ConsoleTypeOK
<1>6. calls[t] # <<>> /\ holder = t
  BY <1>1 DEF OnlyHolder
<1>7. calls'[t] # <<>> <=> m # 0
  <2>1. Len(calls'[t]) = m /\ calls'[t] \in Seq(CallRecord)
    BY <1>2, <1>4
  <2>2. calls'[t] = <<>> <=> Len(calls'[t]) = 0
    BY <2>1, EmptySeq
  <2> QED
    BY <2>1, <2>2
<1>8. OnlyHolder'
  BY <1>1, <1>3, <1>4, <1>6, <1>7 DEF OnlyHolder
<1>9. DOMAIN calls'[t] = 1..m /\ \A i \in 1..m : calls'[t][i] = calls[t][i]
  BY <1>1, <1>2, <1>4
<1> QED
  BY <1>4, <1>5, <1>8, <1>9 DEF m

\* Throw: a call that set the colour and does not reset it is remembered.
LEMMA ThrowInv ==
  ASSUME ConsoleInv, NoThread \notin Thread, NEW t \in Thread, NEW n \in 1..Len(calls[t]), Throw(t, n)
  PROVE  ConsoleInv'
<1>1. /\ ConsoleTypeOK' /\ OnlyHolder' /\ DOMAIN calls'[t] = 1..(Len(calls[t]) - n)
      /\ \A i \in 1..(Len(calls[t]) - n) : calls'[t][i] = calls[t][i]
      /\ \A u \in Thread \ {t} : calls'[u] = calls[u]
  BY LeaveInv DEF ConsoleInv, Throw
<1>2. /\ colour' = colour
      /\ fault' = (fault \/ \E i \in DOMAIN calls[t] :
                              i > Len(calls[t]) - n /\ calls[t][i].listener \in Listener)
  BY DEF Throw
<1>3. DOMAIN calls[t] = 1..Len(calls[t]) /\ Len(calls[t]) \in Nat
  BY DEF ConsoleInv, ConsoleTypeOK
<1>4. ASSUME ~fault', NEW u \in Thread, NEW i \in DOMAIN calls[u], calls[u][i].listener \in Listener
      PROVE  i \in DOMAIN calls'[u] /\ calls'[u][i].listener \in Listener
  <2>1. CASE u = t
    <3>1. ~(i > Len(calls[t]) - n)
      BY <1>2, <1>4, <2>1
    <3>2. i \in 1..(Len(calls[t]) - n)
      BY <1>3, <1>4, <2>1, <3>1
    <3> QED
      BY <1>1, <1>4, <2>1, <3>2
  <2> QED
    BY <1>1, <1>4, <2>1
<1>5. ColourExplained'
  BY <1>2, <1>4 DEF ConsoleInv, ColourExplained
<1> QED
  BY <1>1, <1>5 DEF ConsoleInv

\* ResetColour: a call on the standard output resets, another leaves all as it was.
LEMMA ResetColourInv ==
  ASSUME ConsoleInv, NoThread \notin Thread, NEW t \in Thread, ResetColour(t)
  PROVE  ConsoleInv'
<1>1. /\ calls[t] \in Seq(CallRecord) /\ Len(calls[t]) \in Nat /\ Len(calls[t]) >= 1
      /\ Last(calls[t]) = calls[t][Len(calls[t])]
  BY InACall DEF ConsoleInv, ResetColour
<1>2. /\ ConsoleTypeOK' /\ OnlyHolder' /\ DOMAIN calls'[t] = 1..(Len(calls[t]) - 1)
      /\ \A i \in 1..(Len(calls[t]) - 1) : calls'[t][i] = calls[t][i]
      /\ \A u \in Thread \ {t} : calls'[u] = calls[u]
  BY <1>1, LeaveInv DEF ConsoleInv, ResetColour
<1>3. ColourExplained'
  <2>1. CASE Last(calls[t]).listener \in Listener
    BY <2>1 DEF ResetColour, ColourExplained
  <2>2. CASE Last(calls[t]).listener \notin Listener
    <3>1. colour' = colour /\ (fault => fault')
      BY <2>2 DEF ResetColour
    <3>2. ASSUME NEW u \in Thread, NEW i \in DOMAIN calls[u], calls[u][i].listener \in Listener
          PROVE  i \in DOMAIN calls'[u] /\ calls'[u][i].listener \in Listener
      <4>1. CASE u = t
        <5>1. i \in 1..Len(calls[t]) /\ i # Len(calls[t])
          BY <1>1, <2>2, <3>2, <4>1
        <5>2. i \in 1..(Len(calls[t]) - 1)
          BY <1>1, <5>1
        <5> QED
          BY <1>2, <3>2, <4>1, <5>2
      <4> QED
        BY <1>2, <3>2, <4>1
    <3> QED
      BY <3>1, <3>2 DEF ConsoleInv, ColourExplained
  <2> QED
    BY <2>1, <2>2
<1> QED
  BY <1>2, <1>3 DEF ConsoleInv

\* Every step keeps the invariant.
LEMMA NextConsoleInv ==
  ASSUME NoThread \notin Thread PROVE ConsoleInv /\ [ConsoleNext]_consoleVars => ConsoleInv'
<1> SUFFICES ASSUME ConsoleInv, [ConsoleNext]_consoleVars PROVE ConsoleInv'
  OBVIOUS
<1>1. CASE UNCHANGED consoleVars
  BY <1>1 DEF consoleVars, ConsoleInv, ConsoleTypeOK, OnlyHolder, ColourExplained
<1>2. CASE ConsoleNext
  <2>1. PICK t \in Thread :
          \/ \E type \in EventType : SetConsoleColor(t, type, "Green")
          \/ \E l \in Listener \cup ErrorListener, type \in EventType, footer \in BOOLEAN :
               Enter(t, l, type, footer)
          \/ WriteMessage(t)
          \/ WriteFooter(t)
          \/ \E n \in 1..Len(calls[t]) : Throw(t, n)
          \/ ResetColour(t)
    BY <1>2 DEF ConsoleNext
  <2>2. CASE \E type \in EventType : SetConsoleColor(t, type, "Green")
    <3>1. PICK type \in EventType : settings' = [settings EXCEPT ![type] = "Green"]
      BY <2>2 DEF SetConsoleColor
    <3>2. settings' \in [Keys -> Setting]
      BY <3>1 DEF ConsoleInv, ConsoleTypeOK, Setting, ConsoleColor
    <3>3. UNCHANGED <<holder, colour, calls, lastCall, fault>>
      BY <2>2 DEF SetConsoleColor
    <3> QED
      BY <3>2, <3>3 DEF ConsoleInv, ConsoleTypeOK, OnlyHolder, ColourExplained
  <2>3. CASE \E l \in Listener \cup ErrorListener, type \in EventType, footer \in BOOLEAN :
               Enter(t, l, type, footer)
    BY <2>3, EnterInv
  <2>4. ASSUME NEW pc \in {"footer", "reset"}, NEW here, In(t, here), Goto(t, pc),
               UNCHANGED <<settings, holder, colour, lastCall, fault>>
        PROVE  ConsoleInv'
    <3>1. calls[t] \in Seq(CallRecord) /\ Len(calls[t]) \in Nat /\ Len(calls[t]) >= 1
      BY <2>4, InACall DEF ConsoleInv
    <3> DEFINE c == [calls[t] EXCEPT ![Len(calls[t])].pc = pc]
    <3>2. calls[t][Len(calls[t])] \in CallRecord
      BY <3>1
    <3>3. [calls[t][Len(calls[t])] EXCEPT !.pc = pc] \in CallRecord
          /\ [calls[t][Len(calls[t])] EXCEPT !.pc = pc].listener = calls[t][Len(calls[t])].listener
      BY <2>4, <3>2 DEF CallRecord
    <3>4. c \in Seq(CallRecord) /\ Len(c) = Len(calls[t])
      BY <3>1, <3>3, ExceptSeq
    <3>5. \A i \in DOMAIN calls[t] : i \in DOMAIN c /\ c[i].listener = calls[t][i].listener
      BY <3>1, <3>3, <3>4
    <3>6. calls' = [calls EXCEPT ![t] = c]
      BY <2>4 DEF Goto
    <3> HIDE DEF c
    <3>7. calls'[t] = c /\ \A u \in Thread \ {t} : calls'[u] = calls[u]
      BY <3>6 DEF ConsoleInv, ConsoleTypeOK
    <3>8. ConsoleTypeOK'
      BY <2>4, <3>4, <3>6 DEF ConsoleInv, ConsoleTypeOK
    <3>9. c # <<>> /\ calls[t] # <<>>
      BY <3>1, <3>4
    <3>10. OnlyHolder'
      BY <2>4, <3>7, <3>9 DEF ConsoleInv, OnlyHolder
    <3>11. ASSUME NEW u \in Thread, NEW i \in DOMAIN calls[u], calls[u][i].listener \in Listener
           PROVE  i \in DOMAIN calls'[u] /\ calls'[u][i].listener \in Listener
      BY <3>5, <3>7, <3>11
    <3>12. ColourExplained'
      BY <2>4, <3>11 DEF ConsoleInv, ColourExplained
    <3> QED
      BY <3>8, <3>10, <3>12 DEF ConsoleInv
  <2>5. CASE WriteMessage(t)
    <3>1. PICK pc \in {"footer", "reset"} : Goto(t, pc)
      BY <2>5 DEF WriteMessage
    <3> QED
      BY <2>4, <2>5, <3>1 DEF WriteMessage
  <2>6. CASE WriteFooter(t)
    BY <2>4, <2>6 DEF WriteFooter
  <2>7. CASE \E n \in 1..Len(calls[t]) : Throw(t, n)
    BY <2>7, ThrowInv
  <2>8. CASE ResetColour(t)
    BY <2>8, ResetColourInv
  <2> QED
    BY <2>1, <2>2, <2>3, <2>5, <2>6, <2>7, <2>8
<1> QED
  BY <1>1, <1>2

\* The initial states.
LEMMA InitConsoleInv ==
  ASSUME NoThread \notin Thread PROVE ConsoleInit => ConsoleInv
<1> SUFFICES ASSUME ConsoleInit PROVE ConsoleInv
  OBVIOUS
<1>1. ConsoleTypeOK
  BY EmptySeq DEF ConsoleInit, ConsoleTypeOK
<1>2. OnlyHolder
  BY DEF ConsoleInit, OnlyHolder
<1> QED
  BY <1>1, <1>2 DEF ConsoleInit, ConsoleInv, ColourExplained

\* Only the holder of the lock is in a call, however many threads write to however many
\* listeners (the static _consoleLock).
THEOREM OneWriter == ASSUME NoThread \notin Thread PROVE ConsoleSpec => []OnlyHolder
<1>1. ConsoleInit => ConsoleInv
  BY InitConsoleInv
<1>2. ConsoleInv /\ [ConsoleNext]_consoleVars => ConsoleInv'
  BY NextConsoleInv
<1>3. ConsoleInv => OnlyHolder
  BY DEF ConsoleInv
<1> QED
  BY <1>1, <1>2, <1>3, PTL DEF ConsoleSpec

\* When nobody writes, the console has its own colour, or the last call that set it threw
\* (the ends of WriteColored and WriteLineColored).
THEOREM ColourReset == ASSUME NoThread \notin Thread PROVE ConsoleSpec => []ColourIsReset
<1>1. ConsoleInit => ConsoleInv
  BY InitConsoleInv
<1>2. ConsoleInv /\ [ConsoleNext]_consoleVars => ConsoleInv'
  BY NextConsoleInv
<1>3. ConsoleInv => ColourIsReset
  <2> SUFFICES ASSUME ConsoleInv, holder = NoThread PROVE fault \/ colour = "default"
    BY DEF ColourIsReset
  <2>1. \A t \in Thread : calls[t] = <<>>
    BY DEF ConsoleInv, OnlyHolder
  <2>2. \A t \in Thread : DOMAIN calls[t] = {}
    BY <2>1
  <2> QED
    BY <2>2 DEF ConsoleInv, ColourExplained
<1> QED
  BY <1>1, <1>2, <1>3, PTL DEF ConsoleSpec
--------------------------------------------------------------------------------
(* What is on the screen.  A line can be told from what other threads      *)
(* write only while its call goes on, and its colour only until its        *)
(* footer traces.                                                          *)

Colours == ConsoleColor \cup {"default"}

PieceRecord == [id : Nat, thread : Thread, colour : Colours, listener : Listener \cup ErrorListener,
                want : Colours]

Numbered == /\ \A t \in Thread : \A k \in DOMAIN calls[t] : calls[t][k].id <= lastCall
            /\ \A i \in DOMAIN screen : screen[i].id <= lastCall

\* Only the innermost call of a thread was not entered again.
EnteredOnce ==
  \A t \in Thread : \A k \in DOMAIN calls[t] : k < Len(calls[t]) => calls[t][k].entered

InColour ==
  \A t \in Thread : \A k \in DOMAIN calls[t] :
    calls[t][k].listener \in Listener /\ ~calls[t][k].entered /\ calls[t][k].pc # "reset"
    => colour = calls[t][k].want

\* Since a call that goes on wrote first, only its thread did.
OwnSince ==
  \A t \in Thread : \A k \in DOMAIN calls[t], i \in DOMAIN screen :
    screen[i].id = calls[t][k].id => \A j \in i..Len(screen) : screen[j].thread = t

LinesInv ==
  /\ screen \in Seq(PieceRecord) /\ colour \in Colours
  /\ Numbered /\ EnteredOnce /\ InColour /\ OwnSince /\ LinesWholeAndColoured

\* The types of what the lines are about.
LEMMA LineTypes ==
  ASSUME ConsoleTypeOK, LinesInv
  PROVE  /\ \A t \in Thread : /\ calls[t] \in Seq(CallRecord) /\ Len(calls[t]) \in Nat
                              /\ DOMAIN calls[t] = 1..Len(calls[t])
                              /\ \A k \in DOMAIN calls[t] : calls[t][k] \in CallRecord
         /\ Len(screen) \in Nat /\ DOMAIN screen = 1..Len(screen)
         /\ \A i \in DOMAIN screen : screen[i] \in PieceRecord
<1>1. ASSUME NEW t \in Thread
      PROVE  /\ calls[t] \in Seq(CallRecord) /\ Len(calls[t]) \in Nat
             /\ DOMAIN calls[t] = 1..Len(calls[t])
             /\ \A k \in DOMAIN calls[t] : calls[t][k] \in CallRecord
  <2>1. calls[t] \in Seq(CallRecord)
    BY DEF ConsoleTypeOK
  <2> QED BY <2>1, LenProperties, ElementOfSeq
<1>2. screen \in Seq(PieceRecord)
  BY DEF LinesInv
<1> QED
  BY <1>1, <1>2, LenProperties, ElementOfSeq

\* Enter: the line of the call that enters is not on the screen.
LEMMA EnterLines ==
  ASSUME ConsoleInv, LinesInv, NoThread \notin Thread, NEW t \in Thread,
         NEW l \in Listener \cup ErrorListener, NEW type \in EventType, NEW footer \in BOOLEAN,
         Enter(t, l, type, footer)
  PROVE  LinesInv'
<1> DEFINE n == Len(calls[t])
<1>1. /\ colour' = (IF l \in Listener THEN ConsoleColour(type) ELSE colour)
      /\ lastCall' = lastCall + 1 /\ UNCHANGED screen /\ holder \in {NoThread, t}
  BY DEF Enter, MayEnter
<1>2. ConsoleColour(type) \in ConsoleColor /\ lastCall \in Nat /\ ConsoleTypeOK
  BY ColourType DEF ConsoleInv, ConsoleTypeOK
<1>3. /\ n \in Nat /\ DOMAIN calls[t] = 1..n /\ \A k \in 1..n : calls[t][k] \in CallRecord
      /\ \A i \in DOMAIN screen : screen[i] \in PieceRecord
  BY <1>2, LineTypes
\* The calls of the thread.
<1>4. /\ DOMAIN calls'[t] = 1..(n + 1) /\ Len(calls'[t]) = n + 1
      /\ \A k \in 1..n : /\ calls'[t][k].id = calls[t][k].id
                         /\ k < n => calls'[t][k].entered = calls[t][k].entered
                         /\ k = n => calls'[t][k].entered
      /\ calls'[t][n + 1].id = lastCall + 1
      /\ calls'[t][n + 1].want = ConsoleColour(type) /\ calls'[t][n + 1].listener = l
      /\ \A u \in Thread \ {t} : calls'[u] = calls[u]
  <2> DEFINE new == [id |-> lastCall + 1, listener |-> l, want |-> ConsoleColour(type),
                     footer |-> footer, pc |-> "message", entered |-> FALSE]
             s == calls[t]
             r == [i \in DOMAIN s |-> IF i = Len(s) THEN [s[i] EXCEPT !.entered = TRUE] ELSE s[i]]
  <2>1. new \in CallRecord
    BY <1>2 DEF CallRecord
  <2>2. \A i \in 1..n : /\ r[i] \in CallRecord /\ r[i].id = s[i].id
                        /\ i < n => r[i].entered = s[i].entered
                        /\ i = n => r[i].entered
    <3> SUFFICES ASSUME NEW i \in 1..n
                 PROVE  /\ r[i] \in CallRecord /\ r[i].id = s[i].id
                        /\ i < n => r[i].entered = s[i].entered
                        /\ i = n => r[i].entered
      OBVIOUS
    <3> DEFINE e == s[i]
    <3>1. e \in CallRecord /\ n \in Nat
      BY <1>3
    <3>2. r[i] = IF i = n THEN [e EXCEPT !.entered = TRUE] ELSE e
      BY <1>3
    <3> HIDE DEF e, r
    <3>3. /\ [e EXCEPT !.entered = TRUE] \in CallRecord
          /\ [e EXCEPT !.entered = TRUE].id = e.id /\ [e EXCEPT !.entered = TRUE].entered
      BY <3>1 DEF CallRecord
    <3>4. r[i] \in CallRecord /\ r[i].id = e.id /\ (i < n => r[i].entered = e.entered)
          /\ (i = n => r[i].entered)
      <4>1. CASE i = n
        <5>1. r[i] = [e EXCEPT !.entered = TRUE]
          BY <3>2, <4>1
        <5>2. ~(i < n)
          BY <3>1, <4>1
        <5> QED
          BY <3>3, <5>1, <5>2
      <4>2. CASE i # n
        <5>1. r[i] = e
          BY <3>2, <4>2
        <5> QED
          BY <3>1, <4>2, <5>1
      <4> QED BY <4>1, <4>2
    <3> QED
      BY <3>4 DEF e
  <2>3. r \in Seq(CallRecord) /\ Len(r) = n
    <3>1. r \in [1..n -> CallRecord]
      BY <1>3, <2>2
    <3> QED
      BY <1>3, <3>1, IsASeq
  <2>4. calls' = [calls EXCEPT ![t] = Append(r, new)]
    BY DEF Enter
  <2>5. new.id = lastCall + 1 /\ new.want = ConsoleColour(type) /\ new.listener = l
    OBVIOUS
  <2> HIDE DEF r, new
  <2>6. /\ Append(r, new) \in Seq(CallRecord) /\ Len(Append(r, new)) = n + 1
        /\ \A i \in 1..n : Append(r, new)[i] = r[i]
        /\ Append(r, new)[n + 1] = new
    BY <2>1, <2>3, AppendProperties
  <2>7. DOMAIN Append(r, new) = 1..(n + 1)
    BY <2>6, LenProperties
  <2>8. calls'[t] = Append(r, new) /\ \A u \in Thread \ {t} : calls'[u] = calls[u]
    BY <1>2, <2>4 DEF ConsoleTypeOK
  <2> QED
    BY <2>2, <2>5, <2>6, <2>7, <2>8
<1>5. \A u \in Thread \ {t} : DOMAIN calls'[u] = {}
  <2>1. \A u \in Thread \ {t} : calls[u] = <<>>
    BY <1>1 DEF ConsoleInv, OnlyHolder
  <2> QED
    BY <1>4, <2>1
<1> HIDE DEF n
<1>6. Numbered'
  <2>1. \A k \in 1..n : calls[t][k].id \in Nat /\ calls[t][k].id <= lastCall
    BY <1>3 DEF CallRecord, LinesInv, Numbered
  <2>2. \A i \in DOMAIN screen : screen[i].id \in Nat /\ screen[i].id <= lastCall
    BY <1>3 DEF PieceRecord, LinesInv, Numbered
  <2>3. ASSUME NEW k \in DOMAIN calls'[t]
        PROVE  calls'[t][k].id <= lastCall'
    <3>1. CASE k \in 1..n
      BY <1>1, <1>2, <1>4, <2>1, <3>1
    <3>2. CASE k = n + 1
      BY <1>1, <1>2, <1>4, <3>2
    <3> QED BY <1>3, <1>4, <3>1, <3>2
  <2>4. ASSUME NEW i \in DOMAIN screen'
        PROVE  screen'[i].id <= lastCall'
    BY <1>1, <1>2, <2>2
  <2> QED
    BY <1>5, <2>3, <2>4 DEF Numbered
<1>7. EnteredOnce'
  <2>1. ASSUME NEW k \in DOMAIN calls'[t], k < Len(calls'[t])
        PROVE  calls'[t][k].entered
    <3>1. k \in 1..n /\ (k < n \/ k = n)
      BY <1>3, <1>4, <2>1
    <3>2. k < n => calls[t][k].entered
      BY <1>3, <3>1 DEF LinesInv, EnteredOnce, n
    <3> QED
      BY <1>4, <3>1, <3>2
  <2> QED
    BY <1>5, <2>1 DEF EnteredOnce
<1>8. InColour'
  <2>1. ASSUME NEW k \in DOMAIN calls'[t], calls'[t][k].listener \in Listener, ~calls'[t][k].entered
        PROVE  colour' = calls'[t][k].want
    <3>1. k = n + 1
      BY <1>3, <1>4, <1>7, <2>1 DEF EnteredOnce
    <3> QED
      BY <1>1, <1>4, <2>1, <3>1
  <2> QED
    BY <1>5, <2>1 DEF InColour
<1>9. OwnSince'
  <2>1. ASSUME NEW k \in DOMAIN calls'[t], NEW i \in DOMAIN screen, screen[i].id = calls'[t][k].id
        PROVE  \A j \in i..Len(screen) : screen[j].thread = t
    <3>1. screen[i].id \in Nat /\ screen[i].id <= lastCall
      BY <1>3 DEF PieceRecord, LinesInv, Numbered
    <3>2. k # n + 1
      BY <1>2, <1>4, <2>1, <3>1
    <3>3. k \in DOMAIN calls[t] /\ calls'[t][k].id = calls[t][k].id
      BY <1>3, <1>4, <3>2
    <3> QED
      BY <2>1, <3>3 DEF LinesInv, OwnSince
  <2> QED
    BY <1>1, <1>5, <2>1 DEF OwnSince
<1> QED
  BY <1>1, <1>2, <1>6, <1>7, <1>8, <1>9 DEF LinesInv, LinesWholeAndColoured, Colours

\* WriteMessage and WriteFooter: a piece of the line of the innermost call.
LEMMA WriteLines ==
  ASSUME ConsoleInv, LinesInv, NEW t \in Thread, NEW here \in {"message", "footer"}, In(t, here),
         NEW pc \in {"footer", "reset"}, Goto(t, pc), screen' = Append(screen, Piece(t)),
         UNCHANGED <<colour, lastCall>>
  PROVE  LinesInv'
<1> DEFINE n == Len(calls[t])
           c == calls[t][n]
           p == Piece(t)
           m == Len(screen)
<1>1. /\ n \in Nat /\ n >= 1 /\ DOMAIN calls[t] = 1..n /\ \A k \in 1..n : calls[t][k] \in CallRecord
      /\ m \in Nat /\ DOMAIN screen = 1..m /\ \A i \in 1..m : screen[i] \in PieceRecord
      /\ Last(calls[t]) = c /\ c \in CallRecord /\ c.pc = here /\ calls[t] \in Seq(CallRecord)
  <2>1. n >= 1 /\ Last(calls[t]) = c
    BY InACall DEF ConsoleInv
  <2> QED
    BY <2>1, LineTypes DEF ConsoleInv, In
<1>2. /\ DOMAIN calls'[t] = 1..n /\ Len(calls'[t]) = n
      /\ \A k \in 1..n : /\ calls'[t][k].id = calls[t][k].id
                         /\ calls'[t][k].listener = calls[t][k].listener
                         /\ calls'[t][k].entered = calls[t][k].entered
                         /\ calls'[t][k].want = calls[t][k].want
                         /\ calls'[t][k].pc = calls[t][k].pc \/ k = n
      /\ \A u \in Thread \ {t} : calls'[u] = calls[u]
  <2> DEFINE d == [c EXCEPT !.pc = pc]
             s == [calls[t] EXCEPT ![n] = d]
  <2>1. /\ d \in CallRecord /\ d.id = c.id /\ d.listener = c.listener /\ d.entered = c.entered
        /\ d.want = c.want
    BY <1>1 DEF CallRecord
  <2> HIDE DEF d
  <2>2. /\ s \in Seq(CallRecord) /\ Len(s) = n /\ \A k \in 1..n : s[k] = IF k = n THEN d ELSE calls[t][k]
    BY <1>1, <2>1, ExceptSeq
  <2>3. DOMAIN s = 1..n
    BY <2>2, LenProperties
  <2>4. calls' = [calls EXCEPT ![t] = s]
    BY DEF Goto, d
  <2> HIDE DEF s
  <2>5. calls'[t] = s /\ \A u \in Thread \ {t} : calls'[u] = calls[u]
    BY <2>4 DEF ConsoleInv, ConsoleTypeOK
  <2> QED
    BY <2>1, <2>2, <2>3, <2>5
<1>3. /\ p \in PieceRecord /\ p.id = c.id /\ p.thread = t
      /\ p.listener = c.listener /\ p.colour = colour
      /\ p.want = IF c.entered THEN colour ELSE c.want
  <2>1. colour \in Colours
    BY DEF LinesInv
  <2>2. (IF c.entered THEN colour ELSE c.want) \in Colours
    BY <1>1, <2>1 DEF CallRecord, Colours
  <2>3. p = [id |-> c.id, thread |-> t, colour |-> colour, listener |-> c.listener,
             want |-> IF c.entered THEN colour ELSE c.want]
    BY <1>1 DEF Piece
  <2> HIDE DEF p
  <2> QED
    BY <1>1, <2>1, <2>2, <2>3 DEF CallRecord, PieceRecord
<1> HIDE DEF p
<1>4. /\ screen' \in Seq(PieceRecord) /\ Len(screen') = m + 1 /\ DOMAIN screen' = 1..(m + 1)
      /\ \A i \in 1..m : screen'[i] = screen[i]
      /\ screen'[m + 1] = p
  <2>1. screen \in Seq(PieceRecord) /\ screen' = Append(screen, p)
    BY DEF LinesInv, p
  <2>2. /\ Append(screen, p) \in Seq(PieceRecord) /\ Len(Append(screen, p)) = m + 1
        /\ \A i \in 1..m : Append(screen, p)[i] = screen[i]
        /\ Append(screen, p)[m + 1] = p
    BY <1>3, <2>1, AppendProperties
  <2> QED
    BY <2>1, <2>2, LenProperties
<1>5. \A u \in Thread \ {t} : DOMAIN calls'[u] = {}
  <2>1. holder = t
    BY DEF ConsoleInv, OnlyHolder, In
  <2>2. \A u \in Thread \ {t} : calls[u] = <<>>
    BY <2>1 DEF ConsoleInv, OnlyHolder
  <2> QED
    BY <1>2, <2>2
<1> HIDE DEF n, c, m
<1>6. n \in 1..n /\ c = calls[t][n]
  BY <1>1 DEF c
<1>7. Numbered'
  <2>1. \A k \in 1..n : calls'[t][k].id <= lastCall
    BY <1>1, <1>2 DEF LinesInv, Numbered
  <2>2. \A i \in 1..(m + 1) : screen'[i].id <= lastCall
    <3>1. p.id <= lastCall
      BY <1>1, <1>3, <1>6 DEF LinesInv, Numbered
    <3>2. \A i \in 1..m : screen'[i].id <= lastCall
      BY <1>1, <1>4 DEF LinesInv, Numbered
    <3>3. \A i \in 1..(m + 1) : i \in 1..m \/ i = m + 1
      BY <1>1
    <3> QED
      BY <1>4, <3>1, <3>2, <3>3
  <2> QED
    BY <1>2, <1>4, <1>5, <2>1, <2>2 DEF Numbered
<1>8. EnteredOnce'
  <2>1. \A k \in 1..n : k < n => calls[t][k].entered
    BY <1>1 DEF LinesInv, EnteredOnce, n
  <2> QED
    BY <1>2, <1>5, <2>1 DEF EnteredOnce
<1>9. InColour'
  <2>1. ASSUME NEW k \in 1..n, calls[t][k].listener \in Listener, ~calls[t][k].entered,
               calls'[t][k].pc # "reset"
        PROVE  colour = calls[t][k].want
    <3>1. calls[t][k].pc # "reset"
      BY <1>1, <1>2, <1>6, <2>1
    <3> QED
      BY <1>1, <2>1, <3>1 DEF LinesInv, InColour
  <2> QED
    BY <1>2, <1>5, <2>1 DEF InColour
<1>10. ASSUME NEW k \in 1..n, NEW i \in 1..(m + 1), screen'[i].id = calls[t][k].id,
              NEW j \in i..(m + 1)
       PROVE  screen'[j].thread = t
  <2>1. CASE j = m + 1
    BY <1>3, <1>4, <2>1
  <2>2. CASE j # m + 1
    <3>1. i \in 1..m /\ j \in i..m /\ j \in 1..m
      BY <1>1, <2>2
    <3>2. screen[j].thread = t
      BY <1>1, <1>4, <1>10, <3>1 DEF LinesInv, OwnSince, m
    <3> QED
      BY <1>4, <3>1, <3>2
  <2> QED BY <2>1, <2>2
<1>11. OwnSince'
  BY <1>2, <1>4, <1>5, <1>10 DEF OwnSince
<1>12. LinesWholeAndColoured'
  <2>1. ASSUME NEW i \in 1..(m + 1), screen'[i].listener \in Listener
        PROVE  screen'[i].colour = screen'[i].want
    <3>1. CASE i = m + 1
      <4>1. ~c.entered => colour = c.want
        BY <1>1, <1>3, <1>4, <1>6, <2>1, <3>1 DEF LinesInv, InColour
      <4> QED
        BY <1>3, <1>4, <3>1, <4>1
    <3>2. CASE i \in 1..m
      BY <1>1, <1>4, <2>1, <3>2 DEF LinesInv, LinesWholeAndColoured
    <3> QED BY <1>1, <3>1, <3>2
  <2>2. ASSUME NEW i \in 1..(m + 1), NEW j \in 1..(m + 1), screen'[i].id = screen'[j].id,
               NEW k \in i..j
        PROVE  screen'[k].thread = screen'[i].thread
    <3>1. CASE j = m + 1
      <4>1. screen'[i].id = calls[t][n].id
        BY <1>3, <1>4, <1>6, <2>2, <3>1
      <4>2. k \in i..(m + 1) /\ i \in i..(m + 1)
        BY <1>1, <3>1
      <4> QED
        BY <1>6, <1>10, <4>1, <4>2
    <3>2. CASE j # m + 1
      <4>1. i \in 1..m /\ j \in 1..m /\ k \in 1..m
        BY <1>1, <2>2, <3>2
      <4>2. \A x, y \in 1..m : screen[x].id = screen[y].id
                             => \A z \in x..y : screen[z].thread = screen[x].thread
        BY <1>1 DEF LinesInv, LinesWholeAndColoured
      <4>3. screen[k].thread = screen[i].thread
        BY <1>4, <2>2, <4>1, <4>2
      <4> QED
        BY <1>4, <4>1, <4>3
    <3> QED BY <3>1, <3>2
  <2> QED
    BY <1>4, <2>1, <2>2 DEF LinesWholeAndColoured
<1> QED
  BY <1>4, <1>7, <1>8, <1>9, <1>11, <1>12 DEF LinesInv

\* Throw and ResetColour: of the calls that are left the innermost was entered again.
LEMMA LeaveLines ==
  ASSUME ConsoleInv, LinesInv, NoThread \notin Thread, NEW t \in Thread, NEW n \in 1..Len(calls[t]),
         Leave(t, n), UNCHANGED <<settings, lastCall, screen>>, colour' \in Colours
  PROVE  LinesInv'
<1> DEFINE s == Len(calls[t])
           m == s - n
<1>1. ConsoleTypeOK /\ OnlyHolder
  BY DEF ConsoleInv
<1>2. /\ DOMAIN calls'[t] = 1..m /\ \A k \in 1..m : calls'[t][k] = calls[t][k]
      /\ \A u \in Thread \ {t} : calls'[u] = calls[u]
  BY <1>1, LeaveInv
<1>3. s \in Nat /\ DOMAIN calls[t] = 1..s
  BY <1>1, LineTypes
<1>4. \A u \in Thread \ {t} : DOMAIN calls'[u] = {}
  <2>1. calls[t] # <<>>
    BY <1>3
  <2>2. \A u \in Thread \ {t} : calls[u] = <<>>
    BY <1>1, <2>1 DEF OnlyHolder
  <2> QED
    BY <1>2, <2>2
<1>5. \A k \in DOMAIN calls'[t] : k \in DOMAIN calls[t] /\ k < s /\ calls'[t][k] = calls[t][k]
  BY <1>2, <1>3
<1>6. \A k \in DOMAIN calls'[t] : calls'[t][k].entered
  BY <1>5 DEF LinesInv, EnteredOnce
<1>7. Numbered' /\ EnteredOnce' /\ InColour' /\ OwnSince'
  BY <1>4, <1>5, <1>6 DEF LinesInv, Numbered, EnteredOnce, InColour, OwnSince
<1> QED
  BY <1>7 DEF LinesInv, LinesWholeAndColoured

\* Every step keeps the lines whole.
LEMMA NextLines ==
  ASSUME NoThread \notin Thread, ConsoleInv, LinesInv, [ConsoleNext]_consoleVars
  PROVE  LinesInv'
<1>1. CASE UNCHANGED consoleVars
  BY <1>1 DEF consoleVars, LinesInv, Numbered, EnteredOnce, InColour, OwnSince, LinesWholeAndColoured
<1>2. ASSUME NEW t \in Thread, NEW type \in EventType, SetConsoleColor(t, type, "Green")
      PROVE  LinesInv'
  BY <1>2 DEF SetConsoleColor, LinesInv, Numbered, EnteredOnce, InColour, OwnSince,
              LinesWholeAndColoured
<1>3. ASSUME NEW t \in Thread, WriteMessage(t)
      PROVE  LinesInv'
  <2>1. PICK pc \in {"footer", "reset"} : Goto(t, pc)
    BY <1>3 DEF WriteMessage
  <2> QED
    BY <1>3, <2>1, WriteLines DEF WriteMessage
<1>4. ASSUME NEW t \in Thread, WriteFooter(t)
      PROVE  LinesInv'
  BY <1>4, WriteLines DEF WriteFooter
<1>5. ASSUME NEW t \in Thread, NEW n \in 1..Len(calls[t]), Throw(t, n)
      PROVE  LinesInv'
  BY <1>5, LeaveLines DEF Throw, LinesInv
<1>6. ASSUME NEW t \in Thread, ResetColour(t)
      PROVE  LinesInv'
  <2>1. Len(calls[t]) \in Nat /\ Len(calls[t]) >= 1
    BY <1>6, InACall DEF ResetColour, ConsoleInv
  <2>2. 1 \in 1..Len(calls[t])
    BY <2>1
  <2>3. colour' \in Colours
    BY <1>6 DEF ResetColour, LinesInv, Colours
  <2> QED
    BY <1>6, <2>2, <2>3, LeaveLines DEF ResetColour
<1> QED
  BY <1>1, <1>2, <1>3, <1>4, <1>5, <1>6, EnterLines DEF ConsoleNext

\* The lines are whole at the start.
LEMMA InitLines == ConsoleInit => LinesInv
<1> SUFFICES ASSUME ConsoleInit PROVE LinesInv
  OBVIOUS
<1>1. screen \in Seq(PieceRecord) /\ DOMAIN screen = {} /\ \A t \in Thread : DOMAIN calls[t] = {}
  BY EmptySeq DEF ConsoleInit
<1> QED
  BY <1>1 DEF ConsoleInit, LinesInv, Colours, Numbered, EnteredOnce, InColour, OwnSince,
              LinesWholeAndColoured

\* Whoever else writes, in whatever colours, and whoever's footer traces, a line is whole and
\* in the colour of its event (WriteColored, WriteLineColored and GetConsoleColor).
THEOREM LinesAreWhole == ASSUME NoThread \notin Thread PROVE ConsoleSpec => []LinesWholeAndColoured
<1>1. ConsoleInit => ConsoleInv /\ LinesInv
  BY InitConsoleInv, InitLines
<1>2. ConsoleInv /\ LinesInv /\ [ConsoleNext]_consoleVars => (ConsoleInv /\ LinesInv)'
  BY NextConsoleInv, NextLines
<1>3. LinesInv => LinesWholeAndColoured
  BY DEF LinesInv
<1> QED
  BY <1>1, <1>2, <1>3, PTL DEF ConsoleSpec

--------------------------------------------------------------------------------
(***************************************************************************)
(* Proofs about RollingTextWriter, for any traces, processes, names and    *)
(* periods.                                                                *)
(*                                                                         *)
(* FiledOnce counts, and says nothing of a call that is under way, so it   *)
(* is not inductive.  Filed says for each trace in which file or buffer it *)
(* may be, and that it is in one; LockHeld says what a call relies on      *)
(* between its steps: nobody else moves the writer of its process.         *)
(***************************************************************************)

\* No trace is in a sequence twice.
Distinct(s) == \A i, j \in DOMAIN s : s[i] = s[j] => i = j

OnDisk(f) == Range(disk[f])
InBuffer(p) == IF IsOpen(p) THEN Range(currentWriter[p].buffer) ELSE {}
Kept(t) == line[t].pc = "written" /\ t \notin lost

\* The call that opens a writer, or writes, holds the lock of its process: it finds the
\* writer as it left it, but for Dispose, which leaves the path alone.
LockHeld ==
  /\ \A t \in Trace : line[t].pc # "unwritten" => line[t].proc \in Proc
  /\ \A t \in Trace : line[t].pc \in {"open", "ready"} => fileLock[line[t].proc] = t
  /\ \A t \in Trace : line[t].pc = "open" => currentWriter[line[t].proc] = None
  /\ \A t \in Trace : line[t].pc = "ready" => currentPath[line[t].proc] = line[t].path
  /\ \A p \in Proc : currentWriter[p] # None => currentWriter[p].file[1] = currentPath[p]

\* No file and no buffer holds a trace twice.
OneCopy ==
  /\ \A f \in File : Distinct(disk[f])
  /\ \A p \in Proc : IsOpen(p) => Distinct(currentWriter[p].buffer)

\* What a file or a buffer holds was written and not lost, for its period, and by its
\* process; what was written and not lost is in one of them.
Filed ==
  /\ \A t \in Trace : \A f, g \in File : t \in OnDisk(f) /\ t \in OnDisk(g) => f = g
  /\ \A t \in Trace : \A f \in File, p \in Proc : ~(t \in OnDisk(f) /\ t \in InBuffer(p))
  /\ \A t \in Trace : \A f \in File : t \in OnDisk(f) => Kept(t) /\ f[1] = line[t].path
  /\ \A t \in Trace : \A p \in Proc : t \in InBuffer(p) =>
       Kept(t) /\ line[t].proc = p /\ currentWriter[p].file[1] = line[t].path
  /\ \A t \in Trace : Kept(t) =>
       (\E p \in Proc : t \in InBuffer(p)) \/ \E f \in File : t \in OnDisk(f)
  /\ \A t \in Trace : t \in lost => line[t].pc = "written"

RollingInv == FileTypeOK /\ LockHeld /\ OneCopy /\ Filed /\ FlushedSurvives /\ RefusedOnlyIfClosed

--------------------------------------------------------------------------------
(* Sequences without repetition.                                           *)

\* What is appended to a sequence, all at once.
LEMMA ConcatDistinct ==
  ASSUME NEW s \in Seq(Trace), NEW u \in Seq(Trace), Distinct(s), Distinct(u),
         Range(s) \cap Range(u) = {}
  PROVE  s \o u \in Seq(Trace) /\ Distinct(s \o u) /\ Range(s \o u) = Range(s) \cup Range(u)
<1>1. /\ s \o u \in Seq(Trace) /\ Len(s \o u) = Len(s) + Len(u)
      /\ \A i \in 1..(Len(s) + Len(u)) : (s \o u)[i] = IF i <= Len(s) THEN s[i] ELSE u[i - Len(s)]
  BY ConcatProperties
<1>2. /\ DOMAIN s = 1..Len(s) /\ DOMAIN u = 1..Len(u) /\ Len(s) \in Nat /\ Len(u) \in Nat
      /\ DOMAIN (s \o u) = 1..(Len(s) + Len(u))
  BY <1>1
<1>3. \A i \in 1..(Len(s) + Len(u)) :
        \/ i \in DOMAIN s /\ (s \o u)[i] = s[i]
        \/ i - Len(s) \in DOMAIN u /\ i > Len(s) /\ (s \o u)[i] = u[i - Len(s)]
  BY <1>1, <1>2
<1>4. Distinct(s \o u)
  <2> SUFFICES ASSUME NEW i \in 1..(Len(s) + Len(u)), NEW j \in 1..(Len(s) + Len(u)),
                      (s \o u)[i] = (s \o u)[j]
               PROVE  i = j
    BY <1>2 DEF Distinct
  <2>1. \A a \in DOMAIN s, b \in DOMAIN u : s[a] # u[b]
    BY DEF Range
  <2>2. CASE i \in DOMAIN s /\ (s \o u)[i] = s[i]
    BY <1>3, <2>1, <2>2, ZenonT(30) DEF Distinct
  <2>3. CASE i - Len(s) \in DOMAIN u /\ i > Len(s) /\ (s \o u)[i] = u[i - Len(s)]
    <3>1. j - Len(s) \in DOMAIN u /\ (s \o u)[j] = u[j - Len(s)]
      BY <1>3, <2>1, <2>3
    <3>2. i - Len(s) = j - Len(s)
      BY <2>3, <3>1 DEF Distinct
    <3> QED
      BY <1>2, <3>2
  <2> QED
    BY <1>3, <2>2, <2>3
<1>5. Range(s \o u) = Range(s) \cup Range(u)
  <2>1. ASSUME NEW x, x \in Range(s \o u) PROVE x \in Range(s) \cup Range(u)
    BY <1>2, <1>3, <2>1 DEF Range
  <2>2. ASSUME NEW x, x \in Range(s) PROVE x \in Range(s \o u)
    <3>1. PICK i \in DOMAIN s : s[i] = x
      BY <2>2 DEF Range
    <3>2. i \in DOMAIN (s \o u) /\ (s \o u)[i] = x
      BY <1>1, <1>2, <3>1
    <3> QED
      BY <3>2 DEF Range
  <2>3. ASSUME NEW x, x \in Range(u) PROVE x \in Range(s \o u)
    <3>1. PICK i \in DOMAIN u : u[i] = x
      BY <2>3 DEF Range
    <3>2. Len(s) + i \in DOMAIN (s \o u) /\ (s \o u)[Len(s) + i] = u[(Len(s) + i) - Len(s)]
      BY <1>1, <1>2, <3>1
    <3>3. (Len(s) + i) - Len(s) = i
      BY <1>2, <3>1
    <3> QED
      BY <3>1, <3>2, <3>3 DEF Range
  <2> QED
    BY <2>1, <2>2, <2>3
<1> QED
  BY <1>1, <1>4, <1>5

\* One trace more.
LEMMA AppendDistinct ==
  ASSUME NEW s \in Seq(Trace), NEW t \in Trace, Distinct(s), t \notin Range(s)
  PROVE  /\ Append(s, t) \in Seq(Trace) /\ Distinct(Append(s, t))
         /\ Range(Append(s, t)) = Range(s) \cup {t}
<1>1. /\ Append(s, t) \in Seq(Trace) /\ Len(Append(s, t)) = Len(s) + 1
      /\ \A i \in 1..Len(s) : Append(s, t)[i] = s[i]
      /\ Append(s, t)[Len(s) + 1] = t
  BY AppendProperties
<1>2. /\ DOMAIN s = 1..Len(s) /\ Len(s) \in Nat
      /\ DOMAIN Append(s, t) = 1..(Len(s) + 1)
  BY <1>1
<1>3. \A i \in 1..(Len(s) + 1) : \/ i \in DOMAIN s /\ Append(s, t)[i] = s[i]
                                 \/ i = Len(s) + 1 /\ Append(s, t)[i] = t
  BY <1>1, <1>2
<1>4. Distinct(Append(s, t))
  BY <1>2, <1>3 DEF Distinct, Range
<1>5. Range(Append(s, t)) = Range(s) \cup {t}
  <2>1. ASSUME NEW x, x \in Range(Append(s, t)) PROVE x \in Range(s) \cup {t}
    BY <1>2, <1>3, <2>1 DEF Range
  <2>2. ASSUME NEW x, x \in Range(s) PROVE x \in Range(Append(s, t))
    <3>1. PICK i \in DOMAIN s : s[i] = x
      BY <2>2 DEF Range
    <3>2. i \in DOMAIN Append(s, t) /\ Append(s, t)[i] = x
      BY <1>1, <1>2, <3>1
    <3> QED
      BY <3>2 DEF Range
  <2>3. t \in Range(Append(s, t))
    <3>1. Len(s) + 1 \in DOMAIN Append(s, t)
      BY <1>2
    <3> QED
      BY <1>1, <3>1 DEF Range
  <2> QED
    BY <2>1, <2>2, <2>3
<1> QED
  BY <1>1, <1>4, <1>5

\* An empty file or buffer.
LEMMA EmptyDistinct == Distinct(<<>>) /\ Range(<<>>) = {} /\ <<>> \in Seq(Trace)
BY EmptySeq DEF Distinct, Range

--------------------------------------------------------------------------------
(* What the steps of a call do to its record, to the lock and to a writer. *)

PC == {"unwritten", "pathed", "open", "ready", "written", "failed", "refused"}
Line == [pc : PC, proc : Proc \cup {None}, path : Path, num : 0..(MaxStreamRetries - 1)]

\* The call of t goes from where it was to pc and does nothing to other calls.
Goes(t, pc) ==
  /\ line' \in [Trace -> Line]
  /\ line'[t].pc = pc /\ line'[t].proc = line[t].proc /\ line'[t].path = line[t].path
  /\ \A u \in Trace \ {t} : line'[u] = line[u]

\* The lock of process p is that of h, and the others are as they were.
Locks(p, h) ==
  /\ fileLock' \in [Proc -> Trace \cup {None}]
  /\ fileLock'[p] = h
  /\ \A q \in Proc \ {p} : fileLock'[q] = fileLock[q]

\* Return ends a call and frees the lock.
LEMMA ReturnEffect ==
  ASSUME FileTypeOK, NEW t \in Trace, line[t].proc \in Proc,
         NEW outcome \in {"written", "failed", "refused"}, Return(t, outcome)
  PROVE  Goes(t, outcome) /\ Locks(line[t].proc, None)
<1>1. line' = [line EXCEPT ![t] = [@ EXCEPT !.pc = outcome]] /\ line \in [Trace -> Line]
  BY DEF Return, FileTypeOK, Line, PC
<1>2. fileLock' = [fileLock EXCEPT ![line[t].proc] = None] /\ fileLock \in [Proc -> Trace \cup {None}]
  BY DEF Return, FileTypeOK
<1>3. Goes(t, outcome)
  BY <1>1 DEF Goes, Line, PC
<1> QED
  BY <1>2, <1>3 DEF Locks

\* Proceed takes the lock or keeps it.
LEMMA ProceedEffect ==
  ASSUME FileTypeOK, NEW t \in Trace, line[t].proc \in Proc, NEW pc \in {"open", "ready"},
         NEW num \in 0..(MaxStreamRetries - 1), Proceed(t, pc, num)
  PROVE  Goes(t, pc) /\ Locks(line[t].proc, t)
<1>1. line' = [line EXCEPT ![t] = [@ EXCEPT !.pc = pc, !.num = num]] /\ line \in [Trace -> Line]
  BY DEF Proceed, FileTypeOK, Line, PC
<1>2. fileLock' = [fileLock EXCEPT ![line[t].proc] = t] /\ fileLock \in [Proc -> Trace \cup {None}]
  BY DEF Proceed, FileTypeOK
<1>3. Goes(t, pc)
  BY <1>1 DEF Goes, Line, PC
<1> QED
  BY <1>2, <1>3 DEF Locks

\* The first name of a path exists.
LEMMA FirstName == 0 \in 0..(MaxStreamRetries - 1)
BY RollingAssumption

\* An open writer and its file.
LEMMA OpenWriter ==
  ASSUME FileTypeOK, NEW p \in Proc, currentWriter[p] # None
  PROVE  /\ currentWriter[p] \in Writer /\ currentWriter[p].file \in File
         /\ currentWriter[p].buffer \in Seq(Trace)
         /\ disk[currentWriter[p].file] \in Seq(Trace)
<1>1. currentWriter[p] \in Writer
  BY DEF FileTypeOK
<1> QED
  BY <1>1 DEF FileTypeOK, Writer

\* The writer of p stays, open or not, with buffer b; the others are as they were.
Stays(p, open, b) ==
  /\ currentWriter' \in [Proc -> Writer \cup {None}]
  /\ currentWriter'[p] # None /\ currentWriter'[p].file = currentWriter[p].file
  /\ currentWriter'[p].open = open /\ currentWriter'[p].buffer = b
  /\ \A q \in Proc \ {p} : currentWriter'[q] = currentWriter[q]

\* p has no writer any more; the others are as they were.
Gone(p) ==
  /\ currentWriter' \in [Proc -> Writer \cup {None}] /\ currentPath' \in [Proc -> Path \cup {None}]
  /\ currentWriter'[p] = None /\ currentPath'[p] = None
  /\ \A q \in Proc \ {p} : currentWriter'[q] = currentWriter[q] /\ currentPath'[q] = currentPath[q]

\* s is written to file f.
Grows(f, s) ==
  /\ disk' \in [File -> Seq(Trace)]
  /\ disk'[f] = disk[f] \o s
  /\ \A g \in File \ {f} : disk'[g] = disk[g]

\* A writer empties its buffer into the file, or loses it.
LEMMA EmptyBufferEffect ==
  ASSUME FileTypeOK, NEW p \in Proc, IsOpen(p), NEW works \in BOOLEAN, NEW stays \in BOOLEAN,
         EmptyBuffer(p, works, stays)
  PROVE  /\ Stays(p, stays, <<>>)
         /\ works => Grows(currentWriter[p].file, currentWriter[p].buffer) /\ UNCHANGED lost
         /\ ~works => lost' = lost \cup Range(currentWriter[p].buffer) /\ UNCHANGED disk
<1>1. /\ currentWriter[p] \in Writer /\ currentWriter[p].file \in File
      /\ currentWriter[p].buffer \in Seq(Trace) /\ disk[currentWriter[p].file] \in Seq(Trace)
  BY OpenWriter DEF IsOpen
<1>2. currentWriter' = [currentWriter EXCEPT ![p] = [@ EXCEPT !.open = stays, !.buffer = <<>>]]
  BY DEF EmptyBuffer
<1>3. currentWriter \in [Proc -> Writer \cup {None}] /\ disk \in [File -> Seq(Trace)]
  BY DEF FileTypeOK
<1>4. [currentWriter[p] EXCEPT !.open = stays, !.buffer = <<>>] \in Writer
  BY <1>1, EmptyDistinct DEF Writer
<1>5. Stays(p, stays, <<>>)
  BY <1>1, <1>2, <1>3, <1>4, RollingAssumption DEF Stays, Writer
<1>6. works => Grows(currentWriter[p].file, currentWriter[p].buffer) /\ UNCHANGED lost
  <2> SUFFICES ASSUME works PROVE Grows(currentWriter[p].file, currentWriter[p].buffer) /\ UNCHANGED lost
    OBVIOUS
  <2>1. disk' = [disk EXCEPT ![currentWriter[p].file] = @ \o currentWriter[p].buffer] /\ UNCHANGED lost
    BY DEF EmptyBuffer
  <2>2. disk[currentWriter[p].file] \o currentWriter[p].buffer \in Seq(Trace)
    BY <1>1, ConcatProperties
  <2> QED
    BY <1>1, <1>3, <2>1, <2>2 DEF Grows
<1> QED
  BY <1>5, <1>6 DEF EmptyBuffer

--------------------------------------------------------------------------------
(* The parts of the invariant, from what a step does.                      *)

\* A step of the call of t, which holds the lock of its process or takes it: h is t if it
\* goes on holding the lock, and the writers of other processes are left alone.
LEMMA CallKeepsLocks ==
  ASSUME FileTypeOK, LockHeld, NEW t \in Trace, NEW p \in Proc, line[t].proc = p,
         fileLock[p] \in {None, t}, NEW pc \in PC \ {"unwritten"}, NEW h, Goes(t, pc), Locks(p, h),
         pc \in {"open", "ready"} => h = t,
         \A q \in Proc \ {p} : currentWriter'[q] = currentWriter[q] /\ currentPath'[q] = currentPath[q],
         pc = "open" => currentWriter'[p] = None,
         pc = "ready" => currentPath'[p] = line[t].path,
         currentWriter'[p] # None => currentWriter'[p].file[1] = currentPath'[p]
  PROVE  LockHeld'
<1>1. ASSUME NEW u \in Trace, line'[u].pc # "unwritten" PROVE line'[u].proc \in Proc
  BY <1>1 DEF LockHeld, Goes
<1>2. ASSUME NEW u \in Trace \ {t}, line'[u].pc \in {"open", "ready"}
      PROVE  line'[u] = line[u] /\ line[u].proc \in Proc \ {p} /\ fileLock'[line[u].proc] = u
  <2>1. line'[u] = line[u]
    BY DEF Goes
  <2>2. line[u].proc \in Proc /\ fileLock[line[u].proc] = u
    BY <1>2, <2>1 DEF LockHeld
  <2>3. line[u].proc # p
    BY <2>2, TraceAssumption
  <2> QED
    BY <2>1, <2>2, <2>3 DEF Locks
<1>3. /\ line'[t].pc = pc /\ line'[t].proc = p /\ line'[t].path = line[t].path
      /\ pc \in {"open", "ready"} => fileLock'[p] = t
  BY DEF Goes, Locks
<1>4. ASSUME NEW u \in Trace, line'[u].pc \in {"open", "ready"} PROVE fileLock'[line'[u].proc] = u
  BY <1>2, <1>3, <1>4
<1>5. ASSUME NEW u \in Trace, line'[u].pc = "open" PROVE currentWriter'[line'[u].proc] = None
  BY <1>2, <1>3, <1>5 DEF LockHeld
<1>6. ASSUME NEW u \in Trace, line'[u].pc = "ready" PROVE currentPath'[line'[u].proc] = line'[u].path
  BY <1>2, <1>3, <1>6 DEF LockHeld
<1>7. ASSUME NEW q \in Proc, currentWriter'[q] # None PROVE currentWriter'[q].file[1] = currentPath'[q]
  BY <1>7 DEF LockHeld
<1> QED
  BY <1>1, <1>4, <1>5, <1>6, <1>7 DEF LockHeld

\* Flush, FlushFails and Dispose: the calls, the locks, the paths and the files of the
\* writers stay.
LEMMA WriterKeepsLocks ==
  ASSUME LockHeld, NEW p \in Proc, UNCHANGED <<line, fileLock, currentPath>>,
         \A q \in Proc : currentWriter'[q] = None <=> currentWriter[q] = None,
         \A q \in Proc : currentWriter'[q] # None => currentWriter'[q].file = currentWriter[q].file
  PROVE  LockHeld'
BY DEF LockHeld

\* The traces of the buffer of p, and new ones that were written by p, go to file d, stay in
\* the buffer or are lost; all else stays.
Moves(p, d, new, toDisk, buffered, dropped) ==
  /\ \A f \in File : OnDisk(f)' = IF f = d THEN OnDisk(f) \cup toDisk ELSE OnDisk(f)
  /\ InBuffer(p)' = buffered
  /\ \A q \in Proc \ {p} : InBuffer(q)' = InBuffer(q) /\ currentWriter'[q] = currentWriter[q]
  /\ lost' = lost \cup dropped
  /\ toDisk \cup buffered \cup dropped = InBuffer(p) \cup new
  /\ toDisk \cap buffered = {} /\ toDisk \cap dropped = {} /\ buffered \cap dropped = {}
  /\ \A t \in new : line[t].pc # "written" /\ line'[t].proc = p /\ line'[t].path = d[1]
  /\ \A t \in Trace : line'[t].pc = "written" <=> line[t].pc = "written" \/ t \in new
  /\ \A t \in Trace : line[t].pc = "written" =>
       line'[t].proc = line[t].proc /\ line'[t].path = line[t].path
  /\ InBuffer(p) # {} => currentWriter[p].file[1] = d[1]
  /\ buffered # {} => currentWriter'[p].file[1] = d[1]

\* A write, flush or close that moves traces to later places keeps each in one place.
LEMMA MoveFiled ==
  ASSUME Filed, NEW p \in Proc, NEW d \in File, NEW new \in SUBSET Trace,
         NEW toDisk, NEW buffered, NEW dropped, Moves(p, d, new, toDisk, buffered, dropped)
  PROVE  Filed'
<1> USE DEF Moves
<1>1. ASSUME NEW t \in Trace, t \in toDisk \cup buffered \cup dropped
      PROVE  /\ \A f \in File : t \notin OnDisk(f)
             /\ \A q \in Proc \ {p} : t \notin InBuffer(q)
             /\ t \notin lost /\ line'[t].pc = "written" /\ line'[t].proc = p /\ line'[t].path = d[1]
  <2>1. t \in InBuffer(p) \/ t \in new
    BY <1>1
  <2>2. CASE t \in InBuffer(p)
    BY <2>2 DEF Filed, Kept
  <2>3. CASE t \in new
    BY <2>3 DEF Filed, Kept
  <2> QED
    BY <2>1, <2>2, <2>3
<1>2. ASSUME NEW t \in Trace, t \notin InBuffer(p) \cup new
      PROVE  /\ t \notin toDisk /\ t \notin buffered /\ t \notin dropped /\ (Kept(t) <=> Kept(t)')
             /\ \A f \in File : t \in OnDisk(f)' <=> t \in OnDisk(f)
             /\ \A q \in Proc : t \in InBuffer(q)' <=> t \in InBuffer(q)
  BY <1>2 DEF Kept
<1>3. ASSUME NEW t \in Trace, NEW f \in File, NEW g \in File, t \in OnDisk(f)', t \in OnDisk(g)'
      PROVE  f = g
  BY <1>1, <1>2, <1>3 DEF Filed
<1>4. ASSUME NEW t \in Trace, NEW f \in File, NEW q \in Proc, t \in OnDisk(f)', t \in InBuffer(q)'
      PROVE  FALSE
  <2>1. CASE t \in InBuffer(p) \cup new
    BY <1>1, <1>4, <2>1
  <2>2. CASE t \notin InBuffer(p) \cup new
    BY <1>2, <1>4, <2>2 DEF Filed
  <2> QED
    BY <2>1, <2>2
<1>5. ASSUME NEW t \in Trace, NEW f \in File, t \in OnDisk(f)'
      PROVE  Kept(t)' /\ f[1] = line'[t].path
  <2>1. CASE t \in InBuffer(p) \cup new
    <3>1. f = d /\ t \in toDisk
      BY <1>1, <1>5, <2>1
    <3> QED
      BY <1>1, <2>1, <3>1 DEF Kept
  <2>2. CASE t \notin InBuffer(p) \cup new
    BY <1>2, <1>5, <2>2 DEF Filed, Kept
  <2> QED
    BY <2>1, <2>2
<1>6. ASSUME NEW t \in Trace, NEW q \in Proc, t \in InBuffer(q)'
      PROVE  Kept(t)' /\ line'[t].proc = q /\ currentWriter'[q].file[1] = line'[t].path
  <2>1. CASE t \in InBuffer(p) \cup new
    <3>1. q = p /\ t \in buffered
      BY <1>1, <1>6, <2>1
    <3> QED
      BY <1>1, <2>1, <3>1 DEF Kept
  <2>2. CASE t \notin InBuffer(p) \cup new
    <3>1. q # p /\ t \in InBuffer(q)
      BY <1>2, <1>6, <2>2
    <3> QED
      BY <1>2, <2>2, <3>1 DEF Filed, Kept
  <2> QED
    BY <2>1, <2>2
<1>7. ASSUME NEW t \in Trace, Kept(t)'
      PROVE  (\E q \in Proc : t \in InBuffer(q)') \/ \E f \in File : t \in OnDisk(f)'
  <2>1. CASE t \in InBuffer(p) \cup new
    <3>1. t \notin dropped
      BY <1>7 DEF Kept
    <3>2. t \in toDisk \/ t \in buffered
      BY <2>1, <3>1
    <3>3. t \in toDisk => t \in OnDisk(d)'
      OBVIOUS
    <3>4. t \in buffered => t \in InBuffer(p)'
      OBVIOUS
    <3> QED
      BY <3>2, <3>3, <3>4
  <2>2. CASE t \notin InBuffer(p) \cup new
    <3>1. Kept(t)
      BY <1>2, <1>7, <2>2
    <3>2. (\E q \in Proc : t \in InBuffer(q)) \/ \E f \in File : t \in OnDisk(f)
      BY <3>1 DEF Filed
    <3>3. \A q \in Proc : t \in InBuffer(q) => t \in InBuffer(q)'
      BY <1>2, <2>2
    <3>4. \A f \in File : t \in OnDisk(f) => t \in OnDisk(f)'
      BY <1>2, <2>2
    <3> QED
      BY <3>2, <3>3, <3>4
  <2> QED
    BY <2>1, <2>2
<1>8. ASSUME NEW t \in Trace, t \in lost' PROVE line'[t].pc = "written"
  BY <1>1, <1>8 DEF Filed
<1> QED
  BY <1>3, <1>4, <1>5, <1>6, <1>7, <1>8 DEF Filed

\* Nothing is written, moved or lost.
LEMMA UnmovedFiled ==
  ASSUME Filed, UNCHANGED <<disk, lost>>,
         \A q \in Proc : InBuffer(q)' = InBuffer(q),
         \A q \in Proc : InBuffer(q) # {} => currentWriter'[q].file = currentWriter[q].file,
         \A t \in Trace : line'[t].pc = "written" <=> line[t].pc = "written",
         \A t \in Trace : line[t].pc = "written" =>
           line'[t].proc = line[t].proc /\ line'[t].path = line[t].path
  PROVE  Filed'
<1>1. \A f \in File : OnDisk(f)' = OnDisk(f)
  BY DEF OnDisk
<1>2. \A t \in Trace : Kept(t)' <=> Kept(t)
  BY DEF Kept
<1>3. ASSUME NEW t \in Trace, NEW q \in Proc, t \in InBuffer(q)'
      PROVE  Kept(t)' /\ line'[t].proc = q /\ currentWriter'[q].file[1] = line'[t].path
  BY <1>2, <1>3 DEF Filed, Kept
<1>4. ASSUME NEW t \in Trace, NEW f \in File, t \in OnDisk(f)' PROVE Kept(t)' /\ f[1] = line'[t].path
  BY <1>1, <1>2, <1>4 DEF Filed, Kept
<1> QED
  BY <1>1, <1>2, <1>3, <1>4 DEF Filed

\* What is in the buffers after a step of the writer of p.
LEMMA BufferView ==
  ASSUME NEW p \in Proc, NEW open \in BOOLEAN, NEW b, Stays(p, open, b)
  PROVE  /\ InBuffer(p)' = IF open THEN Range(b) ELSE {}
         /\ \A q \in Proc \ {p} : InBuffer(q)' = InBuffer(q) /\ (IsOpen(q)' <=> IsOpen(q))
         /\ IsOpen(p)' <=> open
BY DEF Stays, InBuffer, IsOpen

\* And when p has no writer any more.
LEMMA NoBufferView ==
  ASSUME NEW p \in Proc, currentWriter'[p] = None,
         \A q \in Proc \ {p} : currentWriter'[q] = currentWriter[q]
  PROVE  /\ InBuffer(p)' = {} /\ ~IsOpen(p)'
         /\ \A q \in Proc \ {p} : InBuffer(q)' = InBuffer(q) /\ (IsOpen(q)' <=> IsOpen(q))
BY DEF InBuffer, IsOpen

\* What is on the disk after s was written to file f.
LEMMA DiskView ==
  ASSUME FileTypeOK, \A g \in File : Distinct(disk[g]), NEW f \in File, NEW s \in Seq(Trace),
         Distinct(s), Range(s) \cap OnDisk(f) = {}, Grows(f, s)
  PROVE  /\ \A g \in File : OnDisk(g)' = IF g = f THEN OnDisk(g) \cup Range(s) ELSE OnDisk(g)
         /\ \A g \in File : Distinct(disk'[g])
<1>1. disk[f] \in Seq(Trace)
  BY DEF FileTypeOK
<1>2. Distinct(disk[f] \o s) /\ Range(disk[f] \o s) = Range(disk[f]) \cup Range(s)
  BY <1>1, ConcatDistinct DEF OnDisk
<1> QED
  BY <1>2 DEF Grows, OnDisk

\* What was flushed stays on the disk.
LEMMA FlushedStays ==
  ASSUME FlushedSurvives, \A f \in File : OnDisk(f) \subseteq OnDisk(f)',
         \A t \in flushed' : t \in flushed \/ \E f \in File : t \in OnDisk(f)'
  PROVE  FlushedSurvives'
BY DEF FlushedSurvives, Places, OnDisk

\* A call goes on, or returns without having written: the writers stay as they are.
LEMMA CallOnlyInv ==
  ASSUME RollingInv, NEW t \in Trace, NEW p \in Proc, line[t].proc = p,
         line[t].pc \notin {"unwritten", "written"}, fileLock[p] \in {None, t},
         NEW pc \in {"open", "ready", "failed", "refused"}, NEW h \in Trace \cup {None},
         Goes(t, pc), Locks(p, h),
         pc \in {"open", "ready"} => h = t,
         UNCHANGED <<period, currentPath, currentWriter, disk, flushed, lost, closedBy>>,
         pc = "open" => currentWriter[p] = None,
         pc = "ready" => currentPath[p] = line[t].path
  PROVE  RollingInv'
<1>1. FileTypeOK'
  BY DEF RollingInv, FileTypeOK, Goes, Locks, Line, PC
<1>2. LockHeld'
  <2>1. currentWriter[p] # None => currentWriter[p].file[1] = currentPath[p]
    BY DEF RollingInv, LockHeld
  <2>2. pc \in PC \ {"unwritten"}
    BY DEF PC
  <2> QED
    BY <2>1, <2>2, CallKeepsLocks DEF RollingInv
<1>3. /\ \A q \in Proc : InBuffer(q)' = InBuffer(q) /\ (IsOpen(q)' <=> IsOpen(q))
      /\ \A f \in File : OnDisk(f)' = OnDisk(f)
  BY DEF InBuffer, IsOpen, OnDisk
<1>4. Filed'
  <2>1. /\ \A u \in Trace : line'[u].pc = "written" <=> line[u].pc = "written"
        /\ \A u \in Trace : line[u].pc = "written" =>
             line'[u].proc = line[u].proc /\ line'[u].path = line[u].path
    BY DEF Goes
  <2> QED
    BY <1>3, <2>1, UnmovedFiled DEF RollingInv
<1>5. OneCopy'
  BY <1>3 DEF RollingInv, OneCopy
<1>6. FlushedSurvives'
  BY <1>3, FlushedStays DEF RollingInv
<1>7. RefusedOnlyIfClosed'
  BY <1>3 DEF RollingInv, RefusedOnlyIfClosed
<1> QED
  BY <1>1, <1>2, <1>4, <1>5, <1>6, <1>7 DEF RollingInv

--------------------------------------------------------------------------------
(* Every step keeps the invariant.                                         *)

\* A call that is under way belongs to a process, and holds its lock if it opens a writer
\* or writes.
LEMMA OwnProcess ==
  ASSUME LockHeld, NEW t \in Trace, line[t].pc # "unwritten"
  PROVE  /\ line[t].proc \in Proc
         /\ line[t].pc \in {"open", "ready"} => fileLock[line[t].proc] = t
BY DEF LockHeld

\* The path of a call is computed.
LEMMA GetCurrentFilePathInv ==
  ASSUME RollingInv, NEW p \in Proc, NEW t \in Trace, GetCurrentFilePath(p, t) PROVE RollingInv'
<1>1. /\ line' = [line EXCEPT ![t] = [pc |-> "pathed", proc |-> p, path |-> period, num |-> 0]]
      /\ line[t].pc = "unwritten"
      /\ UNCHANGED <<period, fileLock, currentPath, currentWriter, disk, flushed, lost, closedBy>>
  BY DEF GetCurrentFilePath
<1>2. line \in [Trace -> Line] /\ period \in Path
  BY DEF RollingInv, FileTypeOK, Line, PC
<1>3. [pc |-> "pathed", proc |-> p, path |-> period, num |-> 0] \in Line
  BY <1>2, FirstName DEF Line, PC
<1>4. /\ line' \in [Trace -> Line] /\ line'[t].pc = "pathed" /\ line'[t].proc = p
      /\ \A u \in Trace \ {t} : line'[u] = line[u]
  BY <1>1, <1>2, <1>3
<1>5. FileTypeOK'
  BY <1>1, <1>4 DEF RollingInv, FileTypeOK, Line, PC
<1>6. LockHeld'
  BY <1>1, <1>4 DEF RollingInv, LockHeld
<1>7. /\ \A q \in Proc : InBuffer(q)' = InBuffer(q) /\ (IsOpen(q)' <=> IsOpen(q))
      /\ \A f \in File : OnDisk(f)' = OnDisk(f)
  BY <1>1 DEF InBuffer, IsOpen, OnDisk
<1>8. Filed'
  <2>1. /\ \A u \in Trace : line'[u].pc = "written" <=> line[u].pc = "written"
        /\ \A u \in Trace : line[u].pc = "written" =>
             line'[u].proc = line[u].proc /\ line'[u].path = line[u].path
    BY <1>1, <1>4
  <2> QED
    BY <1>1, <1>7, <2>1, UnmovedFiled DEF RollingInv
<1>9. OneCopy' /\ FlushedSurvives' /\ RefusedOnlyIfClosed'
  BY <1>1, <1>7, FlushedStays DEF RollingInv, OneCopy, RefusedOnlyIfClosed
<1> QED
  BY <1>5, <1>6, <1>8, <1>9 DEF RollingInv

\* The next period begins.
LEMMA NextPeriodInv ==
  ASSUME RollingInv, NextPeriod PROVE RollingInv'
<1>1. /\ period' = period + 1 /\ period < MaxPeriod
      /\ UNCHANGED <<line, fileLock, currentPath, currentWriter, disk, flushed, lost, closedBy>>
  BY DEF NextPeriod
<1>2. FileTypeOK'
  <2>1. period' \in Path
    BY <1>1, RollingAssumption DEF RollingInv, FileTypeOK, Path
  <2> QED
    BY <1>1, <2>1 DEF RollingInv, FileTypeOK
<1>3. /\ \A q \in Proc : InBuffer(q)' = InBuffer(q) /\ (IsOpen(q)' <=> IsOpen(q))
      /\ \A f \in File : OnDisk(f)' = OnDisk(f)
  BY <1>1 DEF InBuffer, IsOpen, OnDisk
<1>4. Filed'
  BY <1>1, <1>3, UnmovedFiled DEF RollingInv
<1>5. LockHeld' /\ OneCopy' /\ FlushedSurvives' /\ RefusedOnlyIfClosed'
  BY <1>1, <1>3, FlushedStays DEF RollingInv, LockHeld, OneCopy, RefusedOnlyIfClosed
<1> QED
  BY <1>2, <1>4, <1>5 DEF RollingInv

\* The writer is on the path already.
LEMMA KeepWriterInv ==
  ASSUME RollingInv, NEW t \in Trace, KeepWriter(t) PROVE RollingInv'
<1>1. /\ line[t].pc = "pathed" /\ fileLock[line[t].proc] = None
      /\ currentPath[line[t].proc] = line[t].path /\ Proceed(t, "ready", 0)
      /\ UNCHANGED <<period, currentPath, currentWriter, disk, flushed, lost, closedBy>>
  BY DEF KeepWriter, Enters, OnPath
<1>2. line[t].proc \in Proc
  BY <1>1, OwnProcess DEF RollingInv
<1>3. Goes(t, "ready") /\ Locks(line[t].proc, t)
  BY <1>1, <1>2, FirstName, ProceedEffect DEF RollingInv
<1> QED
  BY <1>1, <1>2, <1>3, CallOnlyInv

\* There is no writer to close.
LEMMA NoWriterInv ==
  ASSUME RollingInv, NEW t \in Trace, NoWriter(t) PROVE RollingInv'
<1>1. /\ line[t].pc = "pathed" /\ fileLock[line[t].proc] = None
      /\ currentWriter[line[t].proc] = None /\ Proceed(t, "open", 0)
      /\ UNCHANGED <<period, currentPath, currentWriter, disk, flushed, lost, closedBy>>
  BY DEF NoWriter, Enters
<1>2. line[t].proc \in Proc
  BY <1>1, OwnProcess DEF RollingInv
<1>3. Goes(t, "open") /\ Locks(line[t].proc, t)
  BY <1>1, <1>2, FirstName, ProceedEffect DEF RollingInv
<1> QED
  BY <1>1, <1>2, <1>3, CallOnlyInv

\* A call returns without having written or touched the writer.
LEMMA ReturnInv ==
  ASSUME RollingInv, NEW t \in Trace, line[t].pc \in {"open", "ready"},
         NEW outcome \in {"failed", "refused"}, Return(t, outcome),
         UNCHANGED <<period, currentPath, currentWriter, disk, flushed, lost, closedBy>>
  PROVE  RollingInv'
<1>1. line[t].proc \in Proc /\ fileLock[line[t].proc] = t
  BY OwnProcess DEF RollingInv
<1>2. Goes(t, outcome) /\ Locks(line[t].proc, None)
  BY <1>1, ReturnEffect DEF RollingInv
<1>3. outcome \in {"open", "ready", "failed", "refused"} /\ outcome \notin {"open", "ready"}
  OBVIOUS
<1> QED
  BY <1>1, <1>2, <1>3, CallOnlyInv

\* A name cannot be opened.
LEMMA BusyInv ==
  ASSUME RollingInv, NEW t \in Trace, Busy(t) PROVE RollingInv'
<1>1. /\ line[t].pc = "open"
      /\ IF MoreNames(t) THEN Proceed(t, "open", line[t].num + 1) ELSE Return(t, "failed")
      /\ UNCHANGED <<period, currentPath, currentWriter, disk, flushed, lost, closedBy>>
  BY DEF Busy
<1>2. line[t].proc \in Proc /\ fileLock[line[t].proc] = t /\ currentWriter[line[t].proc] = None
  BY <1>1, OwnProcess DEF RollingInv, LockHeld
<1>3. CASE MoreNames(t)
  <2>1. line[t].num + 1 \in 0..(MaxStreamRetries - 1)
    BY <1>3, RollingAssumption DEF MoreNames, RollingInv, FileTypeOK
  <2>2. Goes(t, "open") /\ Locks(line[t].proc, t)
    BY <1>1, <1>2, <1>3, <2>1, ProceedEffect DEF RollingInv
  <2> QED
    BY <1>1, <1>2, <2>2, CallOnlyInv
<1>4. CASE ~MoreNames(t)
  BY <1>1, <1>4, ReturnInv
<1> QED
  BY <1>3, <1>4

\* Opening fails for another reason, or the writer is closed.
LEMMA OpenFailsInv ==
  ASSUME RollingInv, NEW t \in Trace, OpenFails(t) \/ WriteClosed(t) PROVE RollingInv'
BY ReturnInv DEF OpenFails, WriteClosed

\* A name is opened.
LEMMA OpenInv ==
  ASSUME RollingInv, NEW t \in Trace, NEW p \in Proc, line[t].proc = p, Open(t) PROVE RollingInv'
<1>1. /\ line[t].pc = "open"
      /\ currentWriter' =
           [currentWriter EXCEPT ![p] = [file |-> Name(t), open |-> TRUE, buffer |-> <<>>]]
      /\ currentPath' = [currentPath EXCEPT ![p] = line[t].path]
      /\ Proceed(t, "ready", 0)
      /\ UNCHANGED <<period, disk, flushed, lost, closedBy>>
  BY DEF Open
<1>2. fileLock[p] = t /\ currentWriter[p] = None
  BY <1>1, OwnProcess DEF RollingInv, LockHeld
<1>3. Goes(t, "ready") /\ Locks(p, t)
  BY <1>1, FirstName, ProceedEffect DEF RollingInv
<1>4. Name(t) \in File /\ Name(t)[1] = line[t].path /\ line[t].path \in Path
  BY DEF RollingInv, FileTypeOK, Name, File
<1>5. [file |-> Name(t), open |-> TRUE, buffer |-> <<>>] \in Writer
  BY <1>4, EmptyDistinct DEF Writer
<1>6. /\ currentWriter \in [Proc -> Writer \cup {None}] /\ currentPath \in [Proc -> Path \cup {None}]
  BY DEF RollingInv, FileTypeOK
<1>7. /\ currentWriter' \in [Proc -> Writer \cup {None}] /\ currentPath' \in [Proc -> Path \cup {None}]
      /\ currentWriter'[p] # None /\ currentWriter'[p].file = Name(t)
      /\ currentWriter'[p].open = TRUE /\ currentWriter'[p].buffer = <<>>
      /\ currentPath'[p] = line[t].path
      /\ \A q \in Proc \ {p} : currentWriter'[q] = currentWriter[q] /\ currentPath'[q] = currentPath[q]
  BY <1>1, <1>4, <1>5, <1>6, RollingAssumption
<1>8. FileTypeOK'
  <2>1. \A q \in Proc : (currentPath'[q] = None) = (currentWriter'[q] = None)
    BY <1>4, <1>7, RollingAssumption DEF RollingInv, FileTypeOK
  <2> QED
    BY <1>1, <1>3, <1>7, <2>1 DEF RollingInv, FileTypeOK, Goes, Locks, Line, PC
<1>9. LockHeld'
  <2>1. "ready" \in PC \ {"unwritten"}
    BY DEF PC
  <2> QED
    BY <1>2, <1>3, <1>4, <1>7, <2>1, CallKeepsLocks DEF RollingInv
<1>10. /\ \A q \in Proc : InBuffer(q)' = InBuffer(q)
       /\ \A q \in Proc : InBuffer(q) # {} => currentWriter'[q].file = currentWriter[q].file
       /\ \A q \in Proc \ {p} : IsOpen(q)' <=> IsOpen(q)
       /\ IsOpen(p)' /\ ~IsOpen(p)
  BY <1>2, <1>7, EmptyDistinct, ZenonT(30) DEF InBuffer, IsOpen
<1>11. Filed'
  <2>1. /\ \A u \in Trace : line'[u].pc = "written" <=> line[u].pc = "written"
        /\ \A u \in Trace : line[u].pc = "written" =>
             line'[u].proc = line[u].proc /\ line'[u].path = line[u].path
    BY <1>1, <1>3 DEF Goes
  <2> QED
    BY <1>1, <1>10, <2>1, UnmovedFiled DEF RollingInv
<1>12. OneCopy'
  BY <1>1, <1>7, <1>10, EmptyDistinct DEF RollingInv, OneCopy
<1>13. FlushedSurvives'
  <2>1. \A f \in File : OnDisk(f)' = OnDisk(f)
    BY <1>1 DEF OnDisk
  <2> QED
    BY <1>1, <2>1, FlushedStays DEF RollingInv
<1>14. RefusedOnlyIfClosed'
  BY <1>1, <1>7, <1>10 DEF RollingInv, RefusedOnlyIfClosed
<1> QED
  BY <1>8, <1>9, <1>11, <1>12, <1>13, <1>14 DEF RollingInv

--------------------------------------------------------------------------------
(* The steps which empty a buffer.                                         *)

\* The writer of p empties its buffer, and no trace is written.
LEMMA EmptiedFiled ==
  ASSUME RollingInv, NEW p \in Proc, IsOpen(p), NEW works \in BOOLEAN, NEW stays \in BOOLEAN,
         EmptyBuffer(p, works, stays),
         \A t \in Trace : line'[t].pc = "written" <=> line[t].pc = "written",
         \A t \in Trace : line[t].pc = "written" =>
           line'[t].proc = line[t].proc /\ line'[t].path = line[t].path
  PROVE  /\ Filed' /\ OneCopy'
         /\ Stays(p, stays, <<>>) /\ InBuffer(p)' = {}
         /\ disk' \in [File -> Seq(Trace)] /\ lost' \subseteq Trace /\ (works => lost' = lost)
         /\ \A f \in File : OnDisk(f) \subseteq OnDisk(f)'
         /\ IsOpen(p)' <=> stays
         /\ \A q \in Proc \ {p} : IsOpen(q)' <=> IsOpen(q)
<1> DEFINE d == currentWriter[p].file
           toDisk == IF works THEN InBuffer(p) ELSE {}
           dropped == IF works THEN {} ELSE InBuffer(p)
<1>1. /\ Stays(p, stays, <<>>)
      /\ works => Grows(d, currentWriter[p].buffer) /\ UNCHANGED lost
      /\ ~works => lost' = lost \cup Range(currentWriter[p].buffer) /\ UNCHANGED disk
  BY EmptyBufferEffect DEF RollingInv
<1>2. /\ d \in File /\ currentWriter[p].buffer \in Seq(Trace)
      /\ Distinct(currentWriter[p].buffer) /\ InBuffer(p) = Range(currentWriter[p].buffer)
  BY OpenWriter DEF RollingInv, OneCopy, IsOpen, InBuffer
<1>3. InBuffer(p) \subseteq Trace
  BY <1>2, ElementOfSeq, LenProperties DEF Range
<1>4. /\ InBuffer(p)' = {} /\ (IsOpen(p)' <=> stays)
      /\ \A q \in Proc \ {p} : InBuffer(q)' = InBuffer(q) /\ (IsOpen(q)' <=> IsOpen(q))
  BY <1>1, BufferView, EmptyDistinct
<1>5. InBuffer(p) \cap OnDisk(d) = {}
  BY <1>2, <1>3 DEF RollingInv, Filed
<1>6. /\ \A f \in File : OnDisk(f)' = IF f = d THEN OnDisk(f) \cup toDisk ELSE OnDisk(f)
      /\ \A f \in File : Distinct(disk'[f])
      /\ disk' \in [File -> Seq(Trace)]
  <2>1. CASE works
    <3>1. /\ \A f \in File : OnDisk(f)' = IF f = d THEN OnDisk(f) \cup InBuffer(p) ELSE OnDisk(f)
          /\ \A f \in File : Distinct(disk'[f])
      BY <1>1, <1>2, <1>5, <2>1, DiskView DEF RollingInv, OneCopy
    <3> QED
      BY <1>1, <2>1, <3>1 DEF Grows
  <2>2. CASE ~works
    BY <1>1, <2>2 DEF OnDisk, RollingInv, OneCopy, FileTypeOK
  <2> QED
    BY <2>1, <2>2
<1>7. OneCopy'
  BY <1>1, <1>4, <1>6, EmptyDistinct DEF RollingInv, OneCopy, Stays
<1>8. lost' = lost \cup dropped /\ (works => lost' = lost) /\ lost' \subseteq Trace
  BY <1>1, <1>2, <1>3 DEF RollingInv, FileTypeOK
<1>9. \A q \in Proc \ {p} : currentWriter'[q] = currentWriter[q]
  BY <1>1 DEF Stays
<1>10. Filed'
  <2> HIDE DEF d
  <2>1. InBuffer(p) # {} => currentWriter[p].file[1] = d[1]
    BY DEF d
  <2>2. Moves(p, d, {}, toDisk, {}, dropped)
    BY <1>4, <1>6, <1>8, <1>9, <2>1 DEF Moves
  <2> HIDE DEF toDisk, dropped
  <2> QED
    BY <1>2, <2>2, MoveFiled DEF RollingInv
<1>11. \A f \in File : OnDisk(f) \subseteq OnDisk(f)'
  BY <1>6
<1> QED
  BY <1>1, <1>4, <1>6, <1>7, <1>8, <1>10, <1>11

\* The types of the writers, after a writer emptied its buffer.
LEMMA EmptiedTypes ==
  ASSUME FileTypeOK, NEW p \in Proc, currentWriter[p] # None, NEW open, NEW b, Stays(p, open, b),
         UNCHANGED currentPath
  PROVE  /\ currentWriter' \in [Proc -> Writer \cup {None}]
         /\ \A q \in Proc : (currentPath'[q] = None) = (currentWriter'[q] = None)
         /\ \A q \in Proc : currentWriter'[q] = None <=> currentWriter[q] = None
         /\ \A q \in Proc : currentWriter'[q] # None => currentWriter'[q].file = currentWriter[q].file
BY DEF FileTypeOK, Stays

\* Closing fails.
LEMMA CloseFailsInv ==
  ASSUME RollingInv, NEW t \in Trace, NEW p \in Proc, line[t].proc = p, CloseFails(t) PROVE RollingInv'
<1>1. /\ line[t].pc = "pathed" /\ fileLock[p] = None /\ IsOpen(p)
      /\ EmptyBuffer(p, FALSE, FALSE)
      /\ closedBy' = closedBy \cup {p} /\ Return(t, "failed")
      /\ UNCHANGED <<period, currentPath, flushed>>
  BY DEF CloseFails, Enters
<1>2. Goes(t, "failed") /\ Locks(p, None)
  BY <1>1, ReturnEffect DEF RollingInv
<1>3. /\ \A u \in Trace : line'[u].pc = "written" <=> line[u].pc = "written"
      /\ \A u \in Trace : line[u].pc = "written" =>
           line'[u].proc = line[u].proc /\ line'[u].path = line[u].path
  BY <1>1, <1>2 DEF Goes
<1>4. /\ Filed' /\ OneCopy' /\ Stays(p, FALSE, <<>>)
      /\ disk' \in [File -> Seq(Trace)] /\ lost' \subseteq Trace
      /\ \A f \in File : OnDisk(f) \subseteq OnDisk(f)'
      /\ \A q \in Proc \ {p} : IsOpen(q)' <=> IsOpen(q)
  BY <1>1, <1>3, EmptiedFiled
<1>5. /\ currentWriter' \in [Proc -> Writer \cup {None}] /\ currentWriter[p] # None
      /\ \A q \in Proc : (currentPath'[q] = None) = (currentWriter'[q] = None)
      /\ \A q \in Proc : currentWriter'[q] # None => currentWriter'[q].file = currentWriter[q].file
      /\ \A q \in Proc : currentWriter'[q] = None <=> currentWriter[q] = None
  BY <1>1, <1>4, EmptiedTypes DEF RollingInv, IsOpen
<1>6. FileTypeOK'
  BY <1>1, <1>2, <1>4, <1>5 DEF RollingInv, FileTypeOK, Goes, Locks, Line, PC
<1>7. LockHeld'
  <2>1. "failed" \in PC \ {"unwritten"}
    BY DEF PC
  <2>2. currentWriter'[p].file[1] = currentPath'[p]
    BY <1>1, <1>5 DEF RollingInv, LockHeld
  <2>3. \A q \in Proc \ {p} : currentWriter'[q] = currentWriter[q] /\ currentPath'[q] = currentPath[q]
    BY <1>1, <1>4 DEF Stays
  <2> QED
    BY <1>1, <1>2, <2>1, <2>2, <2>3, CallKeepsLocks DEF RollingInv
<1>8. FlushedSurvives'
  BY <1>1, <1>4, FlushedStays DEF RollingInv
<1>9. RefusedOnlyIfClosed'
  BY <1>1, <1>4, <1>5 DEF RollingInv, RefusedOnlyIfClosed
<1> QED
  BY <1>4, <1>6, <1>7, <1>8, <1>9 DEF RollingInv

\* The disk fails while a trace is written.
LEMMA WriteFailsInv ==
  ASSUME RollingInv, NEW t \in Trace, NEW p \in Proc, line[t].proc = p, WriteFails(t) PROVE RollingInv'
<1>1. /\ line[t].pc = "ready" /\ IsOpen(p) /\ EmptyBuffer(p, FALSE, TRUE) /\ Return(t, "failed")
      /\ UNCHANGED <<period, currentPath, flushed, closedBy>>
  BY DEF WriteFails
<1>2. Goes(t, "failed") /\ Locks(p, None) /\ fileLock[p] = t
  BY <1>1, ReturnEffect, OwnProcess DEF RollingInv
<1>3. /\ \A u \in Trace : line'[u].pc = "written" <=> line[u].pc = "written"
      /\ \A u \in Trace : line[u].pc = "written" =>
           line'[u].proc = line[u].proc /\ line'[u].path = line[u].path
  BY <1>1, <1>2 DEF Goes
<1>4. /\ Filed' /\ OneCopy' /\ Stays(p, TRUE, <<>>) /\ IsOpen(p)'
      /\ disk' \in [File -> Seq(Trace)] /\ lost' \subseteq Trace
      /\ \A f \in File : OnDisk(f) \subseteq OnDisk(f)'
      /\ \A q \in Proc \ {p} : IsOpen(q)' <=> IsOpen(q)
  BY <1>1, <1>3, EmptiedFiled
<1>5. /\ currentWriter' \in [Proc -> Writer \cup {None}] /\ currentWriter[p] # None
      /\ \A q \in Proc : (currentPath'[q] = None) = (currentWriter'[q] = None)
      /\ \A q \in Proc : currentWriter'[q] # None => currentWriter'[q].file = currentWriter[q].file
      /\ \A q \in Proc : currentWriter'[q] = None <=> currentWriter[q] = None
  BY <1>1, <1>4, EmptiedTypes DEF RollingInv, IsOpen
<1>6. FileTypeOK'
  BY <1>1, <1>2, <1>4, <1>5 DEF RollingInv, FileTypeOK, Goes, Locks, Line, PC
<1>7. LockHeld'
  <2>1. "failed" \in PC \ {"unwritten"}
    BY DEF PC
  <2>2. currentWriter'[p].file[1] = currentPath'[p]
    BY <1>1, <1>5 DEF RollingInv, LockHeld
  <2>3. \A q \in Proc \ {p} : currentWriter'[q] = currentWriter[q] /\ currentPath'[q] = currentPath[q]
    BY <1>1, <1>4 DEF Stays
  <2> QED
    BY <1>1, <1>2, <2>1, <2>2, <2>3, CallKeepsLocks DEF RollingInv
<1>8. FlushedSurvives'
  BY <1>1, <1>4, FlushedStays DEF RollingInv
<1>9. RefusedOnlyIfClosed'
  BY <1>1, <1>4, <1>5 DEF RollingInv, RefusedOnlyIfClosed
<1> QED
  BY <1>4, <1>6, <1>7, <1>8, <1>9 DEF RollingInv

\* Flush or Dispose empties the buffer of an open writer, or tries to: it stays open, or its
\* process is one which closed it.
LEMMA EmptyInv ==
  ASSUME RollingInv, NEW p \in Proc, IsOpen(p), NEW works \in BOOLEAN, NEW stays \in BOOLEAN,
         EmptyBuffer(p, works, stays), UNCHANGED <<period, line, fileLock, currentPath>>,
         stays \/ p \in closedBy', closedBy' \subseteq Proc, closedBy \subseteq closedBy',
         flushed' \subseteq Trace,
         \A t \in flushed' : t \in flushed \/ (works /\ Kept(t) /\ line[t].proc = p)
  PROVE  RollingInv'
<1>1. /\ Filed' /\ OneCopy' /\ Stays(p, stays, <<>>) /\ InBuffer(p)' = {}
      /\ disk' \in [File -> Seq(Trace)] /\ lost' \subseteq Trace /\ (works => lost' = lost)
      /\ \A f \in File : OnDisk(f) \subseteq OnDisk(f)'
      /\ IsOpen(p)' <=> stays
      /\ \A q \in Proc \ {p} : IsOpen(q)' <=> IsOpen(q)
  BY EmptiedFiled
<1>2. /\ currentWriter' \in [Proc -> Writer \cup {None}]
      /\ \A q \in Proc : (currentPath'[q] = None) = (currentWriter'[q] = None)
      /\ \A q \in Proc : currentWriter'[q] = None <=> currentWriter[q] = None
      /\ \A q \in Proc : currentWriter'[q] # None => currentWriter'[q].file = currentWriter[q].file
  BY <1>1, EmptiedTypes DEF RollingInv, IsOpen
<1>3. FileTypeOK'
  BY <1>1, <1>2 DEF RollingInv, FileTypeOK
<1>4. LockHeld'
  BY <1>2, WriterKeepsLocks DEF RollingInv
<1>5. FlushedSurvives'
  <2>1. ASSUME NEW t \in Trace, works, Kept(t), line[t].proc = p PROVE \E f \in File : t \in OnDisk(f)'
    <3>1. Kept(t)' /\ line'[t].proc = p
      BY <1>1, <2>1 DEF Kept
    <3>2. (\E q \in Proc : t \in InBuffer(q)') \/ \E f \in File : t \in OnDisk(f)'
      BY <1>1, <3>1 DEF Filed
    <3>3. \A q \in Proc : t \in InBuffer(q)' => line'[t].proc = q
      BY <1>1 DEF Filed
    <3> QED
      BY <1>1, <3>1, <3>2, <3>3
  <2> QED
    BY <1>1, <2>1, FlushedStays DEF RollingInv
<1>6. RefusedOnlyIfClosed'
  <2>1. ASSUME NEW q \in Proc, currentWriter'[q] # None, ~IsOpen(q)' PROVE q \in closedBy'
    BY <1>1, <1>2, <2>1 DEF RollingInv, RefusedOnlyIfClosed
  <2> QED
    BY <2>1 DEF RefusedOnlyIfClosed
<1> QED
  BY <1>1, <1>3, <1>4, <1>5, <1>6 DEF RollingInv

\* Flush.
LEMMA FlushInv ==
  ASSUME RollingInv, NEW p \in Proc, Flush(p) PROVE RollingInv'
<1>1. /\ currentWriter[p] # None => IsOpen(p)
      /\ IF currentWriter[p] = None
         THEN UNCHANGED <<currentWriter, disk, lost>> ELSE EmptyBuffer(p, TRUE, TRUE)
      /\ flushed' = flushed \cup (Written(p) \ lost)
      /\ UNCHANGED <<period, line, fileLock, currentPath, closedBy>>
  BY DEF Flush, FlushWriter
<1>2. /\ flushed' \subseteq Trace /\ closedBy \subseteq Proc
      /\ \A t \in flushed' : t \in flushed \/ (Kept(t) /\ line[t].proc = p)
  BY <1>1 DEF Written, Kept, RollingInv, FileTypeOK
<1>3. CASE currentWriter[p] # None
  BY <1>1, <1>2, <1>3, EmptyInv
<1>4. CASE currentWriter[p] = None
  <2>1. /\ \A q \in Proc : InBuffer(q)' = InBuffer(q) /\ (IsOpen(q)' <=> IsOpen(q))
        /\ \A f \in File : OnDisk(f)' = OnDisk(f)
        /\ InBuffer(p) = {}
    BY <1>1, <1>4 DEF InBuffer, IsOpen, OnDisk
  <2>2. FileTypeOK' /\ LockHeld'
    BY <1>1, <1>2, <1>4, WriterKeepsLocks DEF RollingInv, FileTypeOK
  <2>3. Filed'
    BY <1>1, <1>4, <2>1, UnmovedFiled DEF RollingInv
  <2>4. ASSUME NEW t \in Trace, Kept(t), line[t].proc = p PROVE \E f \in File : t \in OnDisk(f)'
    BY <2>1, <2>4 DEF RollingInv, Filed
  <2>5. FlushedSurvives'
    BY <1>2, <2>1, <2>4, FlushedStays DEF RollingInv
  <2>6. OneCopy' /\ RefusedOnlyIfClosed'
    BY <1>1, <1>4, <2>1 DEF RollingInv, OneCopy, RefusedOnlyIfClosed
  <2> QED
    BY <2>2, <2>3, <2>5, <2>6 DEF RollingInv
<1> QED
  BY <1>3, <1>4

\* Flush throws.
LEMMA FlushFailsInv ==
  ASSUME RollingInv, NEW p \in Proc, FlushFails(p) PROVE RollingInv'
<1>1. /\ IsOpen(p) /\ EmptyBuffer(p, FALSE, TRUE)
      /\ UNCHANGED <<period, line, fileLock, currentPath, flushed, closedBy>>
  BY DEF FlushFails
<1>2. flushed' \subseteq Trace /\ closedBy' \subseteq Proc
  BY <1>1 DEF RollingInv, FileTypeOK
<1> QED
  BY <1>1, <1>2, EmptyInv

\* Dispose.
LEMMA DisposeInv ==
  ASSUME RollingInv, NEW p \in Proc, Dispose(p) PROVE RollingInv'
<1>1. /\ closedBy' = closedBy \cup {p}
      /\ \/ IsOpen(p) /\ \E works \in BOOLEAN : EmptyBuffer(p, works, FALSE)
         \/ ~IsOpen(p) /\ UNCHANGED <<currentWriter, disk, lost>>
      /\ UNCHANGED <<period, line, fileLock, currentPath, flushed>>
  BY DEF Dispose
<1>2. flushed' \subseteq Trace /\ closedBy' \subseteq Proc /\ closedBy \subseteq closedBy'
  BY <1>1 DEF RollingInv, FileTypeOK
<1>3. CASE IsOpen(p)
  <2>1. PICK works \in BOOLEAN : EmptyBuffer(p, works, FALSE)
    BY <1>1, <1>3
  <2> QED
    BY <1>1, <1>2, <1>3, <2>1, EmptyInv
<1>4. CASE ~IsOpen(p)
  <2>1. /\ \A q \in Proc : InBuffer(q)' = InBuffer(q) /\ (IsOpen(q)' <=> IsOpen(q))
        /\ \A f \in File : OnDisk(f)' = OnDisk(f)
    BY <1>1, <1>4 DEF InBuffer, IsOpen, OnDisk
  <2>2. FileTypeOK' /\ LockHeld'
    BY <1>1, <1>2, <1>4, WriterKeepsLocks DEF RollingInv, FileTypeOK
  <2>3. Filed' /\ FlushedSurvives'
    BY <1>1, <1>4, <2>1, UnmovedFiled, FlushedStays DEF RollingInv
  <2>4. OneCopy' /\ RefusedOnlyIfClosed'
    BY <1>1, <1>4, <2>1 DEF RollingInv, OneCopy, RefusedOnlyIfClosed
  <2> QED
    BY <2>2, <2>3, <2>4 DEF RollingInv
<1> QED
  BY <1>3, <1>4

--------------------------------------------------------------------------------
(* The steps which write a trace, close a writer or lose one.              *)

\* What an open buffer holds: traces that were written and are in no file.
LEMMA OpenBuffer ==
  ASSUME RollingInv, NEW p \in Proc, IsOpen(p)
  PROVE  /\ currentWriter[p] \in Writer /\ currentWriter[p].file \in File
         /\ currentWriter[p].buffer \in Seq(Trace) /\ Distinct(currentWriter[p].buffer)
         /\ InBuffer(p) = Range(currentWriter[p].buffer) /\ InBuffer(p) \subseteq Trace
         /\ \A f \in File : InBuffer(p) \cap OnDisk(f) = {}
<1>1. /\ currentWriter[p] \in Writer /\ currentWriter[p].file \in File
      /\ currentWriter[p].buffer \in Seq(Trace) /\ Distinct(currentWriter[p].buffer)
      /\ InBuffer(p) = Range(currentWriter[p].buffer)
  BY OpenWriter DEF RollingInv, OneCopy, IsOpen, InBuffer
<1>2. InBuffer(p) \subseteq Trace
  BY <1>1, ElementOfSeq, LenProperties DEF Range
<1> QED
  BY <1>1, <1>2 DEF RollingInv, Filed

\* A trace which is not written is nowhere.
LEMMA NewTrace ==
  ASSUME RollingInv, NEW t \in Trace, line[t].pc # "written"
  PROVE  /\ \A f \in File : t \notin OnDisk(f)
         /\ \A p \in Proc : t \notin InBuffer(p)
         /\ t \notin lost
BY DEF RollingInv, Filed, Kept

\* The call of t returns from writing: the writer of p is still open, with buffer b, and the
\* disk may have grown.
LEMMA WrittenInv ==
  ASSUME RollingInv, NEW t \in Trace, NEW p \in Proc, line[t].proc = p, line[t].pc = "ready",
         IsOpen(p), NEW b \in Seq(Trace), Distinct(b), Stays(p, TRUE, b), Return(t, "written"),
         NEW toDisk, disk' \in [File -> Seq(Trace)], \A f \in File : Distinct(disk'[f]),
         \A f \in File : OnDisk(f)' = IF f = currentWriter[p].file
                                      THEN OnDisk(f) \cup toDisk ELSE OnDisk(f),
         toDisk \cup Range(b) = InBuffer(p) \cup {t}, toDisk \cap Range(b) = {},
         UNCHANGED <<period, currentPath, flushed, lost, closedBy>>
  PROVE  RollingInv'
<1> DEFINE d == currentWriter[p].file
<1>1. Goes(t, "written") /\ Locks(p, None) /\ fileLock[p] = t
  BY ReturnEffect, OwnProcess DEF RollingInv
<1>2. /\ InBuffer(p)' = Range(b) /\ IsOpen(p)'
      /\ \A q \in Proc \ {p} : /\ InBuffer(q)' = InBuffer(q) /\ (IsOpen(q)' <=> IsOpen(q))
                              /\ currentWriter'[q] = currentWriter[q]
  BY BufferView DEF Stays
<1>3. /\ currentWriter' \in [Proc -> Writer \cup {None}] /\ currentWriter[p] # None
      /\ \A q \in Proc : (currentPath'[q] = None) = (currentWriter'[q] = None)
      /\ \A q \in Proc : currentWriter'[q] # None => currentWriter'[q].file = currentWriter[q].file
      /\ \A q \in Proc : currentWriter'[q] = None <=> currentWriter[q] = None
  BY EmptiedTypes DEF RollingInv, IsOpen
<1>4. d \in File /\ d[1] = line[t].path
  BY OpenBuffer DEF RollingInv, LockHeld, IsOpen
<1>5. FileTypeOK'
  BY <1>1, <1>3 DEF RollingInv, FileTypeOK, Goes, Locks, Line, PC
<1>6. LockHeld'
  <2>1. "written" \in PC \ {"unwritten"}
    BY DEF PC
  <2>2. currentWriter'[p].file[1] = currentPath'[p]
    BY <1>3 DEF RollingInv, LockHeld
  <2>3. \A q \in Proc \ {p} : currentWriter'[q] = currentWriter[q] /\ currentPath'[q] = currentPath[q]
    BY <1>2
  <2> QED
    BY <1>1, <2>1, <2>2, <2>3, CallKeepsLocks DEF RollingInv
<1>7. Filed'
  <2>1. currentWriter'[p].file = d
    BY <1>3 DEF Stays
  <2>2. line'[t].proc = p /\ line'[t].path = d[1] /\ line'[t].pc = "written"
    BY <1>1, <1>4 DEF Goes
  <2>3. \A u \in Trace : line'[u].pc = "written" <=> line[u].pc = "written" \/ u \in {t}
    BY <1>1 DEF Goes
  <2>4. \A u \in Trace : line[u].pc = "written" =>
          line'[u].proc = line[u].proc /\ line'[u].path = line[u].path
    BY <1>1 DEF Goes
  <2>5. Moves(p, d, {t}, toDisk, Range(b), {})
    BY <1>2, <1>4, <2>1, <2>2, <2>3, <2>4 DEF Moves
  <2> HIDE DEF d
  <2> QED
    BY <1>4, <2>5, MoveFiled DEF RollingInv
<1>8. OneCopy'
  BY <1>2 DEF RollingInv, OneCopy, Stays
<1>9. FlushedSurvives'
  BY FlushedStays DEF RollingInv
<1>10. RefusedOnlyIfClosed'
  BY <1>2, <1>3 DEF RollingInv, RefusedOnlyIfClosed
<1> QED
  BY <1>5, <1>6, <1>7, <1>8, <1>9, <1>10 DEF RollingInv

\* The text goes into the buffer.
LEMMA WriteInv ==
  ASSUME RollingInv, NEW t \in Trace, NEW p \in Proc, line[t].proc = p, Write(t) PROVE RollingInv'
<1> DEFINE b == Append(currentWriter[p].buffer, t)
<1>1. /\ line[t].pc = "ready" /\ IsOpen(p) /\ Return(t, "written")
      /\ currentWriter' = [currentWriter EXCEPT ![p].buffer = Append(@, t)]
      /\ UNCHANGED <<period, currentPath, disk, flushed, lost, closedBy>>
  BY DEF Write
<1>2. /\ currentWriter[p] \in Writer /\ InBuffer(p) = Range(currentWriter[p].buffer)
      /\ currentWriter[p].buffer \in Seq(Trace) /\ Distinct(currentWriter[p].buffer)
      /\ t \notin Range(currentWriter[p].buffer)
  BY <1>1, OpenBuffer, NewTrace
<1>3. b \in Seq(Trace) /\ Distinct(b) /\ Range(b) = InBuffer(p) \cup {t}
  BY <1>2, AppendDistinct
<1>4. Stays(p, TRUE, b)
  <2>1. currentWriter \in [Proc -> Writer \cup {None}]
    BY DEF RollingInv, FileTypeOK
  <2>2. /\ currentWriter'[p].file = currentWriter[p].file /\ currentWriter'[p].open = TRUE
        /\ currentWriter'[p].buffer = b
    BY <1>1, <1>2, <2>1 DEF Writer, IsOpen
  <2>3. currentWriter'[p] \in Writer
    BY <1>1, <1>2, <1>3, <2>1 DEF Writer
  <2>4. \A q \in Proc \ {p} : currentWriter'[q] = currentWriter[q]
    BY <1>1, <2>1
  <2>5. currentWriter' \in [Proc -> Writer \cup {None}]
    BY <1>1, <2>1, <2>3, <2>4
  <2> QED
    BY <2>2, <2>3, <2>4, <2>5, RollingAssumption DEF Stays
<1>5. /\ disk' \in [File -> Seq(Trace)] /\ \A f \in File : Distinct(disk'[f])
      /\ \A f \in File : OnDisk(f)' = OnDisk(f)
  BY <1>1 DEF RollingInv, FileTypeOK, OneCopy, OnDisk
<1>6. \A f \in File : OnDisk(f)' = IF f = currentWriter[p].file THEN OnDisk(f) \cup {} ELSE OnDisk(f)
  BY <1>5
<1>7. {} \cup Range(b) = InBuffer(p) \cup {t} /\ {} \cap Range(b) = {}
  BY <1>3
<1> HIDE DEF b
<1> DEFINE none == {}
<1>8. /\ \A f \in File : OnDisk(f)' = IF f = currentWriter[p].file THEN OnDisk(f) \cup none ELSE OnDisk(f)
      /\ none \cup Range(b) = InBuffer(p) \cup {t} /\ none \cap Range(b) = {}
  BY <1>6, <1>7
<1> HIDE DEF none
<1> QED
  BY <1>1, <1>3, <1>4, <1>5, <1>8, WrittenInv, ZenonT(30)

\* The text goes through the buffer to the disk.
LEMMA WriteThroughInv ==
  ASSUME RollingInv, NEW t \in Trace, NEW p \in Proc, line[t].proc = p, WriteThrough(t)
  PROVE  RollingInv'
<1> DEFINE b == Append(currentWriter[p].buffer, t)
           d == currentWriter[p].file
<1>1. /\ line[t].pc = "ready" /\ IsOpen(p) /\ Return(t, "written")
      /\ disk' = [disk EXCEPT ![d] = @ \o b]
      /\ currentWriter' = [currentWriter EXCEPT ![p] = [@ EXCEPT !.buffer = <<>>]]
      /\ UNCHANGED <<period, currentPath, flushed, lost, closedBy>>
  BY DEF WriteThrough
<1>2. /\ currentWriter[p] \in Writer /\ d \in File /\ InBuffer(p) = Range(currentWriter[p].buffer)
      /\ currentWriter[p].buffer \in Seq(Trace) /\ Distinct(currentWriter[p].buffer)
      /\ t \notin Range(currentWriter[p].buffer) /\ t \notin OnDisk(d)
      /\ InBuffer(p) \cap OnDisk(d) = {}
  BY <1>1, OpenBuffer, NewTrace
<1>3. b \in Seq(Trace) /\ Distinct(b) /\ Range(b) = InBuffer(p) \cup {t}
  BY <1>2, AppendDistinct
<1> HIDE DEF b
<1>4. Stays(p, TRUE, <<>>)
  <2>1. currentWriter \in [Proc -> Writer \cup {None}]
    BY DEF RollingInv, FileTypeOK
  <2>2. [currentWriter[p] EXCEPT !.buffer = <<>>] \in Writer
    BY <1>2, EmptyDistinct DEF Writer
  <2> QED
    BY <1>1, <1>2, <2>1, <2>2, RollingAssumption DEF Stays, Writer, IsOpen
<1>5. Grows(d, b)
  <2>1. disk \in [File -> Seq(Trace)]
    BY DEF RollingInv, FileTypeOK
  <2>2. disk[d] \o b \in Seq(Trace)
    BY <1>2, <1>3, <2>1, ConcatProperties
  <2> HIDE DEF d
  <2> QED
    BY <1>1, <1>2, <2>1, <2>2 DEF Grows
<1>6. /\ \A f \in File : OnDisk(f)' = IF f = d THEN OnDisk(f) \cup Range(b) ELSE OnDisk(f)
      /\ \A f \in File : Distinct(disk'[f])
  <2> HIDE DEF d
  <2>1. Range(b) \cap OnDisk(d) = {}
    BY <1>2, <1>3
  <2> QED
    BY <1>2, <1>3, <1>5, <2>1, DiskView DEF RollingInv, OneCopy
<1>7. disk' \in [File -> Seq(Trace)]
  BY <1>5 DEF Grows
<1>8. Range(b) \cup Range(<<>>) = InBuffer(p) \cup {t} /\ Range(b) \cap Range(<<>>) = {}
  BY <1>3, EmptyDistinct
<1> DEFINE none == <<>>
           ours == Range(b)
<1>9. /\ none \in Seq(Trace) /\ Distinct(none) /\ Stays(p, TRUE, none)
      /\ ours \cup Range(none) = InBuffer(p) \cup {t} /\ ours \cap Range(none) = {}
      /\ \A f \in File : OnDisk(f)' = IF f = currentWriter[p].file THEN OnDisk(f) \cup ours ELSE OnDisk(f)
  BY <1>4, <1>6, <1>8, EmptyDistinct
<1>10. /\ line[t].pc = "ready" /\ IsOpen(p) /\ Return(t, "written")
       /\ UNCHANGED <<period, currentPath, flushed, lost, closedBy>>
       /\ \A f \in File : Distinct(disk'[f])
  BY <1>1, <1>6
<1> HIDE DEF none, ours, d
<1> QED
  BY <1>7, <1>9, <1>10, WrittenInv

\* The writer of another path is closed.
LEMMA CloseWriterInv ==
  ASSUME RollingInv, NEW t \in Trace, NEW p \in Proc, line[t].proc = p, CloseWriter(t)
  PROVE  RollingInv'
<1> DEFINE d == currentWriter[p].file
<1>1. /\ line[t].pc = "pathed" /\ fileLock[p] = None /\ currentWriter[p] # None
      /\ disk' = IF IsOpen(p) THEN [disk EXCEPT ![d] = @ \o currentWriter[p].buffer] ELSE disk
      /\ currentWriter' = [currentWriter EXCEPT ![p] = None]
      /\ currentPath' = [currentPath EXCEPT ![p] = None]
      /\ Proceed(t, "open", 0) /\ UNCHANGED <<period, flushed, lost, closedBy>>
  BY DEF CloseWriter, Enters, Closed, Forget
<1>2. Goes(t, "open") /\ Locks(p, t)
  BY <1>1, FirstName, ProceedEffect DEF RollingInv
<1>3. /\ currentWriter' \in [Proc -> Writer \cup {None}] /\ currentPath' \in [Proc -> Path \cup {None}]
      /\ currentWriter'[p] = None /\ currentPath'[p] = None
      /\ \A q \in Proc \ {p} : currentWriter'[q] = currentWriter[q] /\ currentPath'[q] = currentPath[q]
  BY <1>1 DEF RollingInv, FileTypeOK
<1>4. /\ InBuffer(p)' = {} /\ ~IsOpen(p)'
      /\ \A q \in Proc \ {p} : InBuffer(q)' = InBuffer(q) /\ (IsOpen(q)' <=> IsOpen(q))
  BY <1>3, NoBufferView
<1>5. d \in File
  BY <1>1, OpenWriter DEF RollingInv
<1>6. /\ \A f \in File : OnDisk(f)' = IF f = d THEN OnDisk(f) \cup InBuffer(p) ELSE OnDisk(f)
      /\ \A f \in File : Distinct(disk'[f])
      /\ disk' \in [File -> Seq(Trace)]
  <2>1. CASE IsOpen(p)
    <3>1. /\ currentWriter[p].buffer \in Seq(Trace) /\ Distinct(currentWriter[p].buffer)
          /\ InBuffer(p) = Range(currentWriter[p].buffer)
          /\ Range(currentWriter[p].buffer) \cap OnDisk(d) = {}
      BY <1>5, <2>1, OpenBuffer
    <3>2. Grows(d, currentWriter[p].buffer)
      <4>1. disk \in [File -> Seq(Trace)]
        BY DEF RollingInv, FileTypeOK
      <4>2. disk[d] \o currentWriter[p].buffer \in Seq(Trace)
        BY <1>5, <3>1, <4>1, ConcatProperties
      <4> QED
        BY <1>1, <1>5, <2>1, <4>1, <4>2 DEF Grows
    <3> HIDE DEF d
    <3> QED
      BY <1>5, <3>1, <3>2, DiskView DEF RollingInv, OneCopy, Grows
  <2>2. CASE ~IsOpen(p)
    BY <1>1, <2>2 DEF InBuffer, OnDisk, RollingInv, OneCopy, FileTypeOK
  <2> QED
    BY <2>1, <2>2
<1>7. FileTypeOK'
  <2>1. \A q \in Proc : (currentPath'[q] = None) = (currentWriter'[q] = None)
    BY <1>3, SMTT(30) DEF RollingInv, FileTypeOK
  <2> QED
    BY <1>1, <1>2, <1>3, <1>6, <2>1 DEF RollingInv, FileTypeOK, Goes, Locks, Line, PC
<1>8. LockHeld'
  <2>1. "open" \in PC \ {"unwritten"}
    BY DEF PC
  <2> QED
    BY <1>1, <1>2, <1>3, <2>1, CallKeepsLocks DEF RollingInv
<1>9. Filed'
  <2>1. /\ \A u \in Trace : line'[u].pc = "written" <=> line[u].pc = "written" \/ u \in {}
        /\ \A u \in Trace : line[u].pc = "written" =>
             line'[u].proc = line[u].proc /\ line'[u].path = line[u].path
    BY <1>1, <1>2 DEF Goes
  <2>2. Moves(p, d, {}, InBuffer(p), {}, {})
    BY <1>1, <1>3, <1>4, <1>6, <2>1 DEF Moves
  <2> HIDE DEF d
  <2> QED
    BY <1>5, <2>2, MoveFiled DEF RollingInv
<1>10. OneCopy'
  BY <1>3, <1>4, <1>6 DEF RollingInv, OneCopy
<1>11. FlushedSurvives'
  <2>1. \A f \in File : OnDisk(f) \subseteq OnDisk(f)'
    BY <1>6
  <2> QED
    BY <1>1, <2>1, FlushedStays DEF RollingInv
<1>12. RefusedOnlyIfClosed'
  BY <1>1, <1>3, <1>4 DEF RollingInv, RefusedOnlyIfClosed
<1> QED
  BY <1>7, <1>8, <1>9, <1>10, <1>11, <1>12 DEF RollingInv

\* A process crashes.
LEMMA CrashInv ==
  ASSUME RollingInv, NEW p \in Proc, Crash(p) PROVE RollingInv'
<1>1. /\ lost' = IF IsOpen(p) THEN lost \cup Range(currentWriter[p].buffer) ELSE lost
      /\ currentWriter' = [currentWriter EXCEPT ![p] = None]
      /\ currentPath' = [currentPath EXCEPT ![p] = None]
      /\ fileLock' = [fileLock EXCEPT ![p] = None]
      /\ line' = [t \in Trace |-> IF line[t].proc = p /\ line[t].pc \in {"pathed", "open", "ready"}
                                  THEN [line[t] EXCEPT !.pc = "failed"] ELSE line[t]]
      /\ closedBy' = closedBy \ {p} /\ UNCHANGED <<period, disk, flushed>>
  BY DEF Crash
<1>2. /\ line' \in [Trace -> Line]
      /\ \A t \in Trace : line'[t].proc = line[t].proc /\ line'[t].path = line[t].path
      /\ \A t \in Trace : IF line[t].proc = p /\ line[t].pc \in {"pathed", "open", "ready"}
                          THEN line'[t].pc = "failed" ELSE line'[t].pc = line[t].pc
  <2> SUFFICES ASSUME NEW t \in Trace
               PROVE  /\ line'[t] \in Line
                      /\ line'[t].proc = line[t].proc /\ line'[t].path = line[t].path
                      /\ IF line[t].proc = p /\ line[t].pc \in {"pathed", "open", "ready"}
                         THEN line'[t].pc = "failed" ELSE line'[t].pc = line[t].pc
    BY <1>1
  <2>1. line[t] \in Line
    BY DEF RollingInv, FileTypeOK, Line, PC
  <2> QED
    BY <1>1, <2>1 DEF Line, PC
<1>3. /\ currentWriter' \in [Proc -> Writer \cup {None}] /\ currentPath' \in [Proc -> Path \cup {None}]
      /\ fileLock' \in [Proc -> Trace \cup {None}]
      /\ currentWriter'[p] = None /\ currentPath'[p] = None
      /\ \A q \in Proc \ {p} : /\ currentWriter'[q] = currentWriter[q] /\ currentPath'[q] = currentPath[q]
                              /\ fileLock'[q] = fileLock[q]
  BY <1>1 DEF RollingInv, FileTypeOK
<1>4. /\ InBuffer(p)' = {} /\ ~IsOpen(p)'
      /\ \A q \in Proc \ {p} : InBuffer(q)' = InBuffer(q) /\ (IsOpen(q)' <=> IsOpen(q))
  BY <1>3, NoBufferView
<1>5. /\ \A f \in File : OnDisk(f)' = OnDisk(f)
      /\ lost' = lost \cup InBuffer(p)
  BY <1>1 DEF OnDisk, InBuffer
<1>6. InBuffer(p) \subseteq Trace
  BY OpenBuffer DEF InBuffer
<1>7. FileTypeOK'
  <2>1. \A q \in Proc : (currentPath'[q] = None) = (currentWriter'[q] = None)
    BY <1>3 DEF RollingInv, FileTypeOK
  <2> QED
    BY <1>1, <1>2, <1>3, <1>5, <1>6, <2>1 DEF RollingInv, FileTypeOK, Line, PC
<1>8. LockHeld'
  <2>1. ASSUME NEW t \in Trace, line'[t].pc # "unwritten" PROVE line'[t].proc \in Proc
    BY <1>2, <2>1 DEF RollingInv, LockHeld
  <2>2. ASSUME NEW t \in Trace, line'[t].pc \in {"open", "ready"}
        PROVE  line[t].pc = line'[t].pc /\ line'[t].proc = line[t].proc /\ line[t].proc \in Proc \ {p}
    BY <1>2, <2>2 DEF RollingInv, LockHeld
  <2>3. \A t \in Trace : line'[t].pc \in {"open", "ready"} => fileLock'[line'[t].proc] = t
    BY <1>3, <2>2 DEF RollingInv, LockHeld
  <2>4. \A t \in Trace : line'[t].pc = "open" => currentWriter'[line'[t].proc] = None
    BY <1>3, <2>2 DEF RollingInv, LockHeld
  <2>5. \A t \in Trace : line'[t].pc = "ready" => currentPath'[line'[t].proc] = line'[t].path
    BY <1>2, <1>3, <2>2 DEF RollingInv, LockHeld
  <2>6. \A q \in Proc : currentWriter'[q] # None => currentWriter'[q].file[1] = currentPath'[q]
    BY <1>3 DEF RollingInv, LockHeld
  <2> QED
    BY <2>1, <2>3, <2>4, <2>5, <2>6 DEF LockHeld
<1>9. Filed'
  <2>1. \A t \in Trace : line'[t].pc = "written" <=> line[t].pc = "written"
    BY <1>2
  <2>2. ASSUME NEW d \in File, InBuffer(p) # {} => currentWriter[p].file[1] = d[1]
        PROVE  Moves(p, d, {}, {}, {}, InBuffer(p))
    BY <1>2, <1>3, <1>4, <1>5, <2>1, <2>2 DEF Moves
  <2>3. \E d \in File : InBuffer(p) # {} => currentWriter[p].file[1] = d[1]
    <3>1. CASE currentWriter[p] # None
      BY <3>1, OpenWriter DEF RollingInv
    <3>2. CASE currentWriter[p] = None
      <4>1. <<1, 0>> \in File /\ InBuffer(p) = {}
        BY <3>2, RollingAssumption DEF File, Path, InBuffer, IsOpen
      <4> QED
        BY <4>1
    <3> QED
      BY <3>1, <3>2
  <2> QED
    BY <2>2, <2>3, MoveFiled DEF RollingInv
<1>10. OneCopy' /\ FlushedSurvives' /\ RefusedOnlyIfClosed'
  <2>1. OneCopy'
    BY <1>1, <1>3, <1>4 DEF RollingInv, OneCopy
  <2>2. FlushedSurvives'
    BY <1>1, <1>5, FlushedStays DEF RollingInv
  <2>3. RefusedOnlyIfClosed'
    BY <1>1, <1>3, <1>4 DEF RollingInv, RefusedOnlyIfClosed
  <2> QED
    BY <2>1, <2>2, <2>3
<1> QED
  BY <1>7, <1>8, <1>9, <1>10 DEF RollingInv

--------------------------------------------------------------------------------
(* The theorems.                                                           *)

\* The invariant holds at the start.
LEMMA RollingInitInv == ASSUME RollingInit PROVE RollingInv
<1>1. 1 \in Path /\ 0 \in 0..(MaxStreamRetries - 1)
  BY RollingAssumption, FirstName DEF Path
<1>2. [pc |-> "unwritten", proc |-> None, path |-> 1, num |-> 0] \in Line
  BY <1>1 DEF Line, PC
<1>3. FileTypeOK
  BY <1>1, <1>2, EmptyDistinct DEF RollingInit, FileTypeOK, Line, PC
<1>4. /\ \A t \in Trace : line[t].pc = "unwritten"
      /\ \A p \in Proc : currentWriter[p] = None /\ ~IsOpen(p) /\ InBuffer(p) = {}
      /\ \A f \in File : disk[f] = <<>> /\ OnDisk(f) = {}
      /\ lost = {} /\ flushed = {}
  BY EmptyDistinct DEF RollingInit, IsOpen, InBuffer, OnDisk
<1>5. LockHeld
  BY <1>4 DEF LockHeld
<1>6. OneCopy /\ Filed /\ FlushedSurvives /\ RefusedOnlyIfClosed
  BY <1>4, EmptyDistinct DEF OneCopy, Filed, Kept, FlushedSurvives, RefusedOnlyIfClosed
<1> QED
  BY <1>3, <1>5, <1>6 DEF RollingInv

\* Every step keeps the invariant.
LEMMA RollingNextInv == ASSUME RollingInv, [RollingNext]_fileVars PROVE RollingInv'
<1>1. CASE NextPeriod
  BY <1>1, NextPeriodInv
<1>2. ASSUME NEW t \in Trace, WriteLine(t) PROVE RollingInv'
  <2>1. CASE \E p \in Proc : GetCurrentFilePath(p, t)
    BY <2>1, GetCurrentFilePathInv
  <2>2. CASE KeepWriter(t) \/ NoWriter(t) \/ Busy(t) \/ OpenFails(t) \/ WriteClosed(t)
    BY <2>2, KeepWriterInv, NoWriterInv, BusyInv, OpenFailsInv
  <2>3. CASE CloseWriter(t) \/ CloseFails(t) \/ Open(t) \/ Write(t) \/ WriteThrough(t) \/ WriteFails(t)
    <3>1. line[t].pc # "unwritten"
      BY <2>3 DEF CloseWriter, CloseFails, Open, Write, WriteThrough, WriteFails, Enters
    <3>2. line[t].proc \in Proc
      BY <3>1, OwnProcess DEF RollingInv
    <3> QED
      BY <2>3, <3>2, CloseWriterInv, CloseFailsInv, OpenInv, WriteInv, WriteThroughInv, WriteFailsInv
  <2> QED
    BY <1>2, <2>1, <2>2, <2>3 DEF WriteLine
<1>3. ASSUME NEW p \in Proc, Flush(p) \/ FlushFails(p) \/ Dispose(p) \/ Crash(p) PROVE RollingInv'
  BY <1>3, FlushInv, FlushFailsInv, DisposeInv, CrashInv
<1>4. CASE UNCHANGED fileVars
  <2>1. /\ UNCHANGED <<period, line, fileLock, currentPath, currentWriter, disk, flushed, lost, closedBy>>
        /\ \A q \in Proc : InBuffer(q)' = InBuffer(q) /\ (IsOpen(q)' <=> IsOpen(q))
        /\ \A f \in File : OnDisk(f)' = OnDisk(f)
    BY <1>4 DEF fileVars, InBuffer, IsOpen, OnDisk
  <2>2. Filed' /\ FlushedSurvives'
    BY <2>1, UnmovedFiled, FlushedStays DEF RollingInv
  <2>3. FileTypeOK' /\ LockHeld' /\ OneCopy' /\ RefusedOnlyIfClosed'
    BY <2>1 DEF RollingInv, FileTypeOK, LockHeld, OneCopy, RefusedOnlyIfClosed
  <2> QED
    BY <2>2, <2>3 DEF RollingInv
<1> QED
  BY <1>1, <1>2, <1>3, <1>4 DEF RollingNext

\* The invariant holds in every reachable state.
THEOREM RollingInvariant == RollingSpec => []RollingInv
BY RollingInitInv, RollingNextInv, PTL DEF RollingSpec

\* A sequence without repetition holds a trace of it once.
LEMMA CountOnce ==
  ASSUME NEW s, Distinct(s), NEW t \in Range(s) PROVE Count(t, s) = 1
<1>1. PICK i \in DOMAIN s : s[i] = t
  BY DEF Range
<1>2. {j \in DOMAIN s : s[j] = t} = {i}
  BY <1>1 DEF Distinct
<1> QED
  BY <1>2, FS_Singleton DEF Count

\* A trace whose call returned is in one place, once, unless a crash or the disk lost it:
\* FiledOnce counts what Filed says.
LEMMA FiledOnceFromInv == ASSUME RollingInv PROVE FiledOnce
<1> SUFFICES ASSUME NEW t \in Trace
             PROVE  /\ \A f \in Places(t) : Count(t, disk[f]) = 1
                    /\ \A p \in Buffers(t) : Count(t, currentWriter[p].buffer) = 1
                    /\ Cardinality(Places(t)) + Cardinality(Buffers(t)) =
                         IF line[t].pc = "written" /\ t \notin lost THEN 1 ELSE 0
  BY DEF FiledOnce
<1>1. /\ \A f \in Places(t) : Count(t, disk[f]) = 1
      /\ \A p \in Buffers(t) : Count(t, currentWriter[p].buffer) = 1
  BY CountOnce DEF RollingInv, OneCopy, Places, Buffers
<1>2. /\ \A f : f \in Places(t) <=> f \in File /\ t \in OnDisk(f)
      /\ \A p : p \in Buffers(t) <=> p \in Proc /\ t \in InBuffer(p)
  BY DEF Places, OnDisk, Buffers, InBuffer
<1>3. CASE ~Kept(t)
  <2>1. Places(t) = {} /\ Buffers(t) = {}
    BY <1>2, <1>3 DEF RollingInv, Filed
  <2> QED
    BY <1>1, <1>3, <2>1, FS_EmptySet DEF Kept
<1>4. ASSUME Kept(t), NEW p \in Proc, t \in InBuffer(p)
      PROVE  Cardinality(Places(t)) = 0 /\ Cardinality(Buffers(t)) = 1
  <2>1. Places(t) = {} /\ Buffers(t) = {p}
    BY <1>2, <1>4 DEF RollingInv, Filed
  <2> QED
    BY <2>1, FS_EmptySet, FS_Singleton
<1>5. ASSUME Kept(t), NEW f \in File, t \in OnDisk(f)
      PROVE  Cardinality(Places(t)) = 1 /\ Cardinality(Buffers(t)) = 0
  <2>1. Places(t) = {f} /\ Buffers(t) = {}
    BY <1>2, <1>5 DEF RollingInv, Filed
  <2> QED
    BY <2>1, FS_EmptySet, FS_Singleton
<1>6. CASE Kept(t)
  <2>1. (\E p \in Proc : t \in InBuffer(p)) \/ \E f \in File : t \in OnDisk(f)
    BY <1>6 DEF RollingInv, Filed
  <2>2. Cardinality(Places(t)) + Cardinality(Buffers(t)) = 1
    BY <1>4, <1>5, <1>6, <2>1
  <2> QED
    BY <1>1, <1>6, <2>2 DEF Kept
<1> QED
  BY <1>3, <1>6

\* The types of the variables, for any traces, processes, names and periods.
THEOREM FileTypes == RollingSpec => []FileTypeOK
<1>1. RollingInv => FileTypeOK
  BY DEF RollingInv
<1> QED
  BY <1>1, RollingInvariant, PTL

\* Rolling over, falling back to another name, a late trace that rolls back and an unlocked
\* Dispose neither drop a trace nor write it twice.
THEOREM TracesFiledOnce == RollingSpec => []FiledOnce
BY FiledOnceFromInv, RollingInvariant, PTL

\* A trace is in a file of the period of its time stamp.
THEOREM TracesInRightFile == RollingSpec => []RightFile
<1>1. RollingInv => RightFile
  BY DEF RollingInv, RightFile, Filed, Places, OnDisk, Buffers, InBuffer
<1> QED
  BY <1>1, RollingInvariant, PTL

\* What was written before a Flush that returned is on the disk.
THEOREM FlushedTracesSurvive == RollingSpec => []FlushedSurvives
<1>1. RollingInv => FlushedSurvives
  BY DEF RollingInv
<1> QED
  BY <1>1, RollingInvariant, PTL

\* Only after Dispose, or a failed close, is a trace refused by a closed writer.
THEOREM OnlyClosedRefuses == RollingSpec => []RefusedOnlyIfClosed
<1>1. RollingInv => RefusedOnlyIfClosed
  BY DEF RollingInv
<1> QED
  BY <1>1, RollingInvariant, PTL

================================================================================
