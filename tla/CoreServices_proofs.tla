-------------------------- MODULE CoreServices_proofs --------------------------
(***************************************************************************)
(* Proofs about PropertyWriters, for any values that contain one another   *)
(* in any way, TraceConfigurationMonitor, for any number of handlers and   *)
(* saves, and Scopes, for any number of flows, activities and operations.  *)
(***************************************************************************)
EXTENDS PropertyWriters, TraceConfigurationMonitor, Scopes, SequenceTheorems, TLAPS

--------------------------------------------------------------------------------
\* The end of a sequence, and what is before it.
LEMMA FrontFacts ==
  ASSUME NEW S, NEW s \in Seq(S), s # <<>>
  PROVE  /\ Len(s) \in Nat /\ Len(s) >= 1 /\ Last(s) = s[Len(s)] /\ Last(s) \in S
         /\ Front(s) \in Seq(S) /\ Len(Front(s)) = Len(s) - 1
         /\ \A i \in 1..(Len(s) - 1) : Front(s)[i] = s[i]
<1> DEFINE m == Len(s) - 1
<1>1. Len(s) \in Nat /\ Len(s) >= 1 /\ m \in Nat /\ DOMAIN s = 1..Len(s)
  BY EmptySeq, LenProperties
<1>2. \A i \in 1..m : s[i] \in S
  BY <1>1, ElementOfSeq
<1>3. Front(s) = SubSeq(s, 1, m)
  BY DEF Front
<1>4. Last(s) = s[Len(s)] /\ Last(s) \in S
  BY <1>1, ElementOfSeq DEF Last
<1> HIDE DEF m
<1>5. /\ SubSeq(s, 1, m) \in Seq(S) /\ Len(SubSeq(s, 1, m)) = m
      /\ \A i \in 1..m : SubSeq(s, 1, m)[i] = s[i]
  BY <1>1, <1>2, SubSeqProperties
<1> QED
  BY <1>1, <1>3, <1>4, <1>5 DEF m

--------------------------------------------------------------------------------
(* PropertyWriters.                                                        *)

Calls == {"json", "text", "dictionary", "list", "destructure"}

Frame == [value : Value, call : Calls, arrayCount : Nat, destructureCount : Nat]

WritersTypeOK == graph.members \in [Value -> SUBSET Value] /\ path \in Seq(Frame)

\* The counts of a call inside a ToString, and how they tell where that ToString is.
Counted(i) ==
  LET c == path[i]
      depth == c.arrayCount + c.destructureCount
  IN /\ c.call \in {"text", "dictionary"} => c.arrayCount = 0 /\ c.destructureCount <= 1
     /\ c.call = "text" => depth = 0
     /\ c.arrayCount <= 1 /\ c.destructureCount <= 2
     /\ i - depth \in DOMAIN path /\ path[i - depth].call = "text"

\* The strengthening: the calls of a payload come first, each with another value; the
\* others are counted.
WriterInv ==
  /\ \A i, j \in DOMAIN path : path[i].call = "json" /\ path[j].call = "json"
                               /\ path[i].value = path[j].value => i = j
  /\ \A i \in DOMAIN path : path[i].call # "json" => Counted(i)
--------------------------------------------------------------------------------
(* The types.                                                              *)

\* A call that goes into a value of the right type keeps the types.
LEMMA GoesTypeOK ==
  ASSUME WritersTypeOK, NEW v \in Value, NEW call \in Calls, NEW a \in Nat, NEW d \in Nat,
         Goes(v, call, a, d), UNCHANGED graph
  PROVE  WritersTypeOK'
<1>1. [value |-> v, call |-> call, arrayCount |-> a, destructureCount |-> d] \in Frame
  BY DEF Frame
<1> QED
  BY <1>1, AppendProperties DEF WritersTypeOK, Goes

\* What a member of the innermost call is, and where it is.
LEMMA TopType ==
  ASSUME WritersTypeOK, path # <<>>
  PROVE  /\ Len(path) \in Nat /\ Len(path) >= 1 /\ Last(path) = path[Len(path)]
         /\ Last(path) \in Frame /\ graph.members[Last(path).value] \subseteq Value
<1>1. Len(path) \in Nat /\ Len(path) >= 1 /\ path[Len(path)] \in Frame
  BY DEF WritersTypeOK
<1> QED
  BY <1>1 DEF WritersTypeOK, Frame, Last

\* The text and the payload go into a value by calls of these kinds only.
LEMMA TextCalls ==
  ASSUME NEW v, NEW a, NEW d, WriteTextValue(v, a, d) \/ Destructure(v, a, d) \/ WriteString(v)
         \/ WriteJsonValue(v)
  PROVE  \/ Goes(v, "dictionary", a, d + 1) \/ Goes(v, "list", a + 1, d)
         \/ Goes(v, "destructure", a, d + 1) \/ Goes(v, "text", 0, 0) \/ Goes(v, "json", 0, 0)
BY Zenon DEF WriteTextValue, Destructure, WriteString, WriteJsonValue

\* The end of the innermost call leaves the others as they were.
LEMMA FrontOfPath ==
  ASSUME WritersTypeOK, path # <<>>
  PROVE  /\ Front(path) \in Seq(Frame) /\ Len(Front(path)) = Len(path) - 1
         /\ \A i \in 1..(Len(path) - 1) : Front(path)[i] = path[i]
BY FrontFacts DEF WritersTypeOK

\* Every step keeps the types.
LEMMA NextTypeOK == WritersTypeOK /\ [WritersNext]_writerVars => WritersTypeOK'
<1> SUFFICES ASSUME WritersTypeOK, [WritersNext]_writerVars PROVE WritersTypeOK'
  OBVIOUS
<1>1. ASSUME NEW v \in Value, NEW a \in Nat, NEW d \in Nat, UNCHANGED graph,
             WriteTextValue(v, a, d) \/ Destructure(v, a, d) \/ WriteString(v) \/ WriteJsonValue(v)
      PROVE  WritersTypeOK'
  <2>1. a + 1 \in Nat /\ d + 1 \in Nat /\ 0 \in Nat
    OBVIOUS
  <2>2. {"dictionary", "list", "destructure", "text", "json"} \subseteq Calls
    BY DEF Calls
  <2> QED
    BY <1>1, <2>1, <2>2, TextCalls, GoesTypeOK
<1>2. CASE BeginFormat /\ UNCHANGED graph
  BY <1>1, <1>2 DEF BeginFormat
<1>3. CASE WriteMember /\ UNCHANGED graph
  <2>1. Last(path).arrayCount \in Nat /\ Last(path).destructureCount \in Nat
        /\ graph.members[Last(path).value] \subseteq Value
    BY <1>3, TopType DEF WriteMember, Frame
  <2> QED
    BY <1>1, <1>3, <2>1 DEF WriteMember
<1>4. CASE EndMembers /\ UNCHANGED graph
  BY <1>4, FrontOfPath DEF EndMembers, WritersTypeOK
<1>5. CASE UNCHANGED writerVars
  BY <1>5 DEF writerVars, WritersTypeOK
<1> QED
  BY <1>2, <1>3, <1>4, <1>5 DEF WritersNext

--------------------------------------------------------------------------------
(* The strengthening.                                                      *)

\* A new call in its place, the others being where they were.
LEMMA GoesWriterInv ==
  ASSUME WritersTypeOK, WriterInv, NEW v \in Value, NEW call \in Calls, NEW a \in Nat, NEW d \in Nat,
         Goes(v, call, a, d),
         call = "json" => \A i \in DOMAIN path : path[i].value # v,
         call # "json" =>
           /\ call \in {"text", "dictionary"} => a = 0 /\ d <= 1
           /\ a <= 1 /\ d <= 2
           /\ \/ call = "text" /\ a + d = 0
              \/ /\ call # "text" /\ (Len(path) + 1) - (a + d) \in DOMAIN path
                 /\ path[(Len(path) + 1) - (a + d)].call = "text"
  PROVE  WriterInv'
<1> DEFINE f == [value |-> v, call |-> call, arrayCount |-> a, destructureCount |-> d]
           n == Len(path)
<1>1. f \in Frame /\ path \in Seq(Frame) /\ n \in Nat
  BY DEF Frame, WritersTypeOK
<1>2. /\ path' \in Seq(Frame) /\ DOMAIN path' = 1..(n + 1) /\ DOMAIN path = 1..n
      /\ \A i \in 1..n : path'[i] = path[i]
      /\ path'[n + 1] = f
  BY <1>1, AppendProperties DEF Goes
<1>3. \A i, j \in DOMAIN path' : path'[i].call = "json" /\ path'[j].call = "json"
                               /\ path'[i].value = path'[j].value => i = j
  <2> SUFFICES ASSUME NEW i \in 1..(n + 1), NEW j \in 1..(n + 1), path'[i].call = "json",
                      path'[j].call = "json", path'[i].value = path'[j].value
               PROVE  i = j
    BY <1>2
  <2>1. CASE i \in 1..n /\ j \in 1..n
    BY <1>2, <2>1 DEF WriterInv
  <2>2. CASE i \in 1..n /\ j = n + 1
    BY <1>2, <2>2
  <2>3. CASE i = n + 1 /\ j \in 1..n
    BY <1>2, <2>3
  <2> QED
    BY <1>1, <2>1, <2>2, <2>3
<1>4. ASSUME NEW i \in 1..n, path[i].call # "json" PROVE Counted(i)'
  <2>1. Counted(i)
    BY <1>2, <1>4 DEF WriterInv
  <2>2. path'[i] = path[i]
    BY <1>2
  <2>3. i - (path[i].arrayCount + path[i].destructureCount) \in 1..n
    BY <1>2, <2>1 DEF Counted
  <2> QED
    BY <1>1, <1>2, <2>1, <2>2, <2>3 DEF Counted
<1>5. ASSUME NEW i, i = n + 1, call # "json" PROVE Counted(i)'
  <2>1. f.call = call /\ f.arrayCount = a /\ f.destructureCount = d
    OBVIOUS
  <2>2. i - (a + d) \in DOMAIN path' /\ path'[i - (a + d)].call = "text"
    <3>1. CASE call = "text" /\ a + d = 0
      BY <1>1, <1>2, <1>5, <2>1, <3>1
    <3>2. CASE (n + 1) - (a + d) \in 1..n /\ path[(n + 1) - (a + d)].call = "text"
      BY <1>1, <1>2, <1>5, <3>2
    <3> QED
      BY <1>2, <1>5, <3>1, <3>2
  <2> HIDE DEF f
  <2>3. path'[i].arrayCount = a /\ path'[i].destructureCount = d /\ path'[i].call = call
    BY <1>2, <1>5, <2>1
  <2>4. call = "text" => a + d = 0
    BY <1>5
  <2> QED
    BY <1>5, <2>2, <2>3, <2>4 DEF Counted
<1>6. \A i \in DOMAIN path' : path'[i].call # "json" => Counted(i)'
  <2> SUFFICES ASSUME NEW i \in 1..(n + 1), path'[i].call # "json" PROVE Counted(i)'
    BY <1>2
  <2>1. CASE i \in 1..n
    BY <1>2, <1>4, <2>1
  <2>2. CASE i = n + 1
    BY <1>2, <1>5, <2>2
  <2> QED
    BY <1>1, <2>1, <2>2
<1> QED
  BY <1>3, <1>6 DEF WriterInv

\* The ToString of a value.
LEMMA WriteStringInv ==
  ASSUME WritersTypeOK, WriterInv, NEW v \in Value, WriteString(v) PROVE WriterInv'
<1>1. Goes(v, "text", 0, 0)
  BY DEF WriteString
<1>2. "text" \in Calls /\ 0 \in Nat
  BY DEF Calls
<1> QED
  BY <1>1, <1>2, GoesWriterInv

\* A value of a payload: a collection is not among those that are being written.
LEMMA WriteJsonValueInv ==
  ASSUME WritersTypeOK, WriterInv, NEW v \in Value, WriteJsonValue(v) PROVE WriterInv'
<1>1. CASE WriteString(v)
  BY <1>1, WriteStringInv
<1>2. CASE v \notin ParentCollections /\ Goes(v, "json", 0, 0)
  <2>1. \A i \in DOMAIN path : path[i].value # v
    BY <1>2 DEF ParentCollections
  <2> QED
    BY <1>2, <2>1, GoesWriterInv DEF Calls
<1> QED
  BY <1>1, <1>2 DEF WriteJsonValue

\* A member of a call inside a ToString: its counts add up to one more.
LEMMA WriteTextMemberInv ==
  ASSUME WritersTypeOK, WriterInv, path # <<>>, Last(path).call # "json", NEW v \in Value,
         \/ WriteTextValue(v, Last(path).arrayCount, Last(path).destructureCount)
         \/ /\ Last(path).call \in {"text", "dictionary"}
            /\ Destructure(v, Last(path).arrayCount, Last(path).destructureCount)
  PROVE  WriterInv'
<1> DEFINE n == Len(path)
           a == path[n].arrayCount
           d == path[n].destructureCount
<1>1. n \in Nat /\ n >= 1 /\ n \in DOMAIN path /\ Last(path) = path[n] /\ a \in Nat /\ d \in Nat
  BY TopType DEF WritersTypeOK, Frame
<1>2. /\ path[n].call \in {"text", "dictionary"} => a = 0 /\ d <= 1
      /\ a <= 1 /\ d <= 2 /\ n - (a + d) \in DOMAIN path /\ path[n - (a + d)].call = "text"
  BY <1>1 DEF WriterInv, Counted
<1> HIDE DEF n, a, d
<1>3. (n + 1) - ((a + 1) + d) = n - (a + d) /\ (n + 1) - (a + (d + 1)) = n - (a + d)
  BY <1>1
<1>4. a + 1 \in Nat /\ d + 1 \in Nat
  BY <1>1
<1>5. CASE d < 1 /\ a < 1 /\ Goes(v, "dictionary", a, d + 1)
  BY <1>1, <1>2, <1>3, <1>4, <1>5, GoesWriterInv DEF Calls, n
<1>6. CASE a < 1 /\ Goes(v, "list", a + 1, d)
  BY <1>1, <1>2, <1>3, <1>4, <1>6, GoesWriterInv, SMTT(30) DEF Calls, n
<1>7. CASE path[n].call \in {"text", "dictionary"} /\ Goes(v, "destructure", a, d + 1)
  BY <1>1, <1>2, <1>3, <1>4, <1>7, GoesWriterInv DEF Calls, n
<1>8. CASE WriteString(v)
  BY <1>8, WriteStringInv
<1> QED
  BY <1>1, <1>5, <1>6, <1>7, <1>8 DEF WriteTextValue, Destructure, a, d

\* Every step keeps the strengthening.
LEMMA NextWriterInv == WritersTypeOK /\ WriterInv /\ [WritersNext]_writerVars => WriterInv'
<1> SUFFICES ASSUME WritersTypeOK, WriterInv, [WritersNext]_writerVars PROVE WriterInv'
  OBVIOUS
<1>1. CASE BeginFormat
  BY <1>1, WriteStringInv, WriteJsonValueInv DEF BeginFormat
<1>2. CASE WriteMember
  <2>1. PICK v \in graph.members[Last(path).value] :
         \/ Last(path).call = "json" /\ WriteJsonValue(v)
         \/ Last(path).call # "json"
              /\ WriteTextValue(v, Last(path).arrayCount, Last(path).destructureCount)
         \/ Last(path).call \in {"text", "dictionary"}
              /\ Destructure(v, Last(path).arrayCount, Last(path).destructureCount)
    BY <1>2 DEF WriteMember
  <2>2. path # <<>> /\ v \in Value
    BY <1>2, TopType DEF WriteMember
  <2> QED
    BY <2>1, <2>2, WriteJsonValueInv, WriteTextMemberInv
<1>3. CASE EndMembers
  <2>1. /\ path' = Front(path) /\ Len(path) \in Nat /\ DOMAIN path = 1..Len(path)
        /\ DOMAIN path' = 1..(Len(path) - 1)
        /\ \A i \in 1..(Len(path) - 1) : path'[i] = path[i]
    BY <1>3, FrontOfPath DEF EndMembers, WritersTypeOK
  <2>2. ASSUME NEW i \in DOMAIN path', path'[i].call # "json" PROVE Counted(i)'
    <3>1. i \in DOMAIN path /\ path'[i] = path[i] /\ Counted(i)
      BY <2>1, <2>2 DEF WriterInv
    <3>2. path[i] \in Frame
      BY <3>1 DEF WritersTypeOK
    <3>3. i - (path[i].arrayCount + path[i].destructureCount) \in 1..i
      BY <2>1, <3>1, <3>2 DEF Counted, Frame
    <3>4. i - (path[i].arrayCount + path[i].destructureCount) \in 1..(Len(path) - 1)
      BY <2>1, <3>3
    <3> QED
      BY <2>1, <3>1, <3>4 DEF Counted
  <2>3. \A i, j \in DOMAIN path' : path'[i].call = "json" /\ path'[j].call = "json"
                               /\ path'[i].value = path'[j].value => i = j
    BY <2>1 DEF WriterInv
  <2> QED
    BY <2>2, <2>3 DEF WriterInv
<1>4. CASE UNCHANGED writerVars
  BY <1>4 DEF writerVars, WriterInv, Counted
<1> QED
  BY <1>1, <1>2, <1>3, <1>4 DEF WritersNext

\* The initial state.
LEMMA InitWriterInv == WritersInit => WritersTypeOK /\ WriterInv
BY DEF WritersInit, WritersTypeOK, WriterInv

\* The strengthening gives the bounds.
LEMMA CountsBound == WritersTypeOK /\ WriterInv => NestingBounded
<1> SUFFICES ASSUME WritersTypeOK, WriterInv, NEW i \in DOMAIN path, path[i].call # "json"
             PROVE  \E j \in DOMAIN path : path[j].call = "text" /\ j <= i /\ i <= j + 3
  BY DEF NestingBounded, WriterInv
<1> DEFINE depth == path[i].arrayCount + path[i].destructureCount
<1>1. Counted(i) /\ path[i] \in Frame /\ i \in Nat
  BY DEF WriterInv, WritersTypeOK
<1>2. i - depth \in DOMAIN path /\ path[i - depth].call = "text"
  BY <1>1 DEF Counted
<1>3. i - depth <= i /\ i <= (i - depth) + 3
  BY <1>1 DEF Counted, Frame
<1> QED
  BY <1>2, <1>3

\* However values contain one another, no collection of a payload is written inside
\* itself, and a ToString writes at most three values inside one another
\* (StructuredPropertyFormatter.WritePropertyValue, SeqPayloadFormatter.WritePropertyValue).
THEOREM WritersNestBounded == WritersSpec => []NestingBounded
<1>1. WritersInit => WritersTypeOK /\ WriterInv
  BY InitWriterInv
<1>2. WritersTypeOK /\ WriterInv /\ [WritersNext]_writerVars => (WritersTypeOK /\ WriterInv)'
  BY NextTypeOK, NextWriterInv
<1>3. WritersTypeOK /\ WriterInv => NestingBounded
  BY CountsBound
<1> QED
  BY <1>1, <1>2, <1>3, PTL DEF WritersSpec

--------------------------------------------------------------------------------
(* TraceConfigurationMonitor.  ChangesAreLoaded is not inductive: it says  *)
(* nothing while a handler runs.  HandlerToGo says then that one of the    *)
(* handlers that run began after the last save, or failed only after it:   *)
(* every failure of such a handler counts.                                 *)

MonitorTypes ==
  /\ pending \in Nat
  /\ retryCount \in [Handler -> 0..Tries]
  /\ failed \in Nat

HandlerToGo == \E h \in Handler : retryCount[h] < Tries /\ retryCount[h] <= failed

Outdated == loaded # file.version => missed \/ failed >= Tries \/ pending > 0 \/ HandlerToGo

MonitorInv == MonitorTypes /\ Outdated

\* The types of the counters are kept by every step.
LEMMA TypesStep == ASSUME MonitorTypes, [MonitorNext]_monitorVars PROVE MonitorTypes'
<1> USE DEF MonitorTypes, Tries
<1>1. CASE Save BY <1>1 DEF Save
<1>2. CASE Close BY <1>2 DEF Close
<1>3. CASE Start BY <1>3 DEF Start
<1>4. ASSUME NEW w \in {"stopped", "disposed"}, End(w) PROVE MonitorTypes'
  BY <1>4 DEF End
<1>5. ASSUME NEW h \in Handler, BeginChanged(h) PROVE MonitorTypes'
  BY <1>5 DEF BeginChanged, Running
<1>6. ASSUME NEW h \in Handler, Refresh(h) PROVE MonitorTypes'
  BY <1>6 DEF Refresh, Running
<1>7. ASSUME NEW h \in Handler, RefreshThrows(h) PROVE MonitorTypes'
  BY <1>7 DEF RefreshThrows, Running
<1>8. CASE UNCHANGED monitorVars BY <1>8 DEF monitorVars
<1> QED
  BY <1>1, <1>2, <1>3, <1>4, <1>5, <1>6, <1>7, <1>8 DEF MonitorNext, watcher_Changed

\* An outdated configuration is noticed, or its loss recorded, after every step.
LEMMA OutdatedStep == ASSUME MonitorInv, [MonitorNext]_monitorVars PROVE Outdated'
<1> USE DEF MonitorInv, MonitorTypes, Tries
<1>1. CASE Save
  BY <1>1 DEF Save, Outdated, HandlerToGo
<1>2. CASE Close
  BY <1>2 DEF Close, Outdated, HandlerToGo
<1>3. CASE Start
  BY <1>3 DEF Start, Outdated, HandlerToGo
<1>4. ASSUME NEW w \in {"stopped", "disposed"}, End(w) PROVE Outdated'
  BY <1>4 DEF End, Outdated, HandlerToGo
<1>5. ASSUME NEW h \in Handler, BeginChanged(h) PROVE Outdated'
  \* The handler that begins has failed never, however little failed since the save.
  <2>1. retryCount'[h] < Tries /\ retryCount'[h] <= failed'
    BY <1>5 DEF BeginChanged
  <2> QED BY <2>1 DEF Outdated, HandlerToGo
<1>6. ASSUME NEW h \in Handler, Refresh(h) PROVE Outdated'
  BY <1>6 DEF Refresh, Outdated
<1>7. ASSUME NEW h \in Handler, RefreshThrows(h) PROVE Outdated'
  <2>1. /\ failed' = failed + 1
        /\ retryCount' = [retryCount EXCEPT ![h] = @ + 1]
        /\ UNCHANGED <<file, loaded, pending, missed>>
    BY <1>7 DEF RefreshThrows
  <2>2. CASE ~HandlerToGo
    BY <2>1, <2>2 DEF Outdated
  <2>3. CASE HandlerToGo
    \* Its failures, and those since the save, are one more, or those since the save are.
    <3>1. PICK g \in Handler : retryCount[g] < Tries /\ retryCount[g] <= failed
      BY <2>3 DEF HandlerToGo
    <3>2. retryCount'[g] <= failed' /\ retryCount'[g] <= Tries
      BY <2>1, <3>1
    <3>3. CASE retryCount'[g] < Tries
      BY <3>2, <3>3 DEF Outdated, HandlerToGo
    <3>4. CASE retryCount'[g] = Tries
      BY <2>1, <3>2, <3>4 DEF Outdated
    <3> QED BY <2>1, <3>2, <3>3, <3>4
  <2> QED BY <2>2, <2>3
<1>8. CASE UNCHANGED monitorVars
  BY <1>8 DEF monitorVars, Outdated, HandlerToGo
<1> QED
  BY <1>1, <1>2, <1>3, <1>4, <1>5, <1>6, <1>7, <1>8 DEF MonitorNext, watcher_Changed

\* When no event is left and no handler runs, the configuration is that of the file, unless
\* a save raised no event that was handled or the refresh failed three times since
\* (watcher_Changed), for any number of pool threads and saves.
THEOREM Reloaded == MonitorSpec => []ChangesAreLoaded
<1>1. MonitorInit => MonitorInv
  BY DEF MonitorInit, MonitorInv, MonitorTypes, Outdated, Tries
<1>2. MonitorInv /\ [MonitorNext]_monitorVars => MonitorInv'
  BY TypesStep, OutdatedStep DEF MonitorInv
<1>3. MonitorInv => ChangesAreLoaded
  BY DEF MonitorInv, MonitorTypes, Outdated, HandlerToGo, ChangesAreLoaded, Running, Tries
<1> QED BY <1>1, <1>2, <1>3, PTL DEF MonitorSpec

--------------------------------------------------------------------------------
(* Scopes.  What the invariant needs to say is who may write to a stack    *)
(* that somebody else sees.  Chain orders the flows that run on one        *)
(* thread, each before those it called: only the last of them runs, so     *)
(* that a flow that runs shares a copy only with flows that wait for it,   *)
(* whose operations are older than its own.                                *)

Live(f) == state[f] \in {"running", "calling"}

Open == [kind : {"activity", "logical", "data"}, id : Nat, previous : Nat, disturbed : BOOLEAN]

ScopeTypes ==
  /\ state \in [Flow -> {"unborn", "running", "calling", "ended"}]
  /\ caller \in [Flow -> Flow \cup {NoFlow}]
  /\ owns \in [Flow -> BOOLEAN]
  /\ stackOf \in [Flow -> Flow \cup {NoFlow}]
  /\ stack \in [Flow -> Seq(Nat)]
  /\ activity \in [Flow -> Nat]
  /\ scopes \in [Flow -> Seq(Open)]
  /\ lastId \in Nat
  /\ own = [f \in Flow |-> own[f]]
  /\ base \in [Flow -> Nat]
  /\ disturbed \in [Flow -> BOOLEAN]
  /\ early \in BOOLEAN

\* R[x] has the flows that were called by x, or by a flow x called, and so on, where none of
\* the callers went on since.
Chain(R) ==
  /\ \A x, y \in Flow : y \in R[x] => state[x] = "calling" /\ Live(y) /\ x # y
  /\ \A x, y, z \in Flow : y \in R[x] /\ z \in R[y] => z \in R[x]
  /\ \A x, y, z \in Flow : y \in R[x] /\ z \in R[x]
                           => y = z \/ z \in R[y] \/ y \in R[z]
  /\ \A g \in Flow : caller[g] # NoFlow =>
       /\ g \in R[caller[g]]
       /\ \A x \in Flow : g \in R[x] => x = caller[g] \/ caller[g] \in R[x]

\* Only flows that were called since see a flow's copy.
Shared(R) == \A f, h \in Flow : Live(h) /\ stackOf[h] = f /\ h # f => h \in R[f]

\* The scopes of a flow are older than those of the flows that keep it from going on.
Older(R) == \A x, y \in Flow : y \in R[x] =>
              \A i \in DOMAIN scopes[x], j \in DOMAIN scopes[y] : scopes[x][i].id < scopes[y][j].id

Chained == \E R \in [Flow -> SUBSET Flow] : Chain(R) /\ Shared(R) /\ Older(R)

\* The scopes of a flow, the oldest first.
Nested ==
  \A f \in Flow :
    /\ \A i, j \in DOMAIN scopes[f] : i < j => scopes[f][i].id < scopes[f][j].id
    /\ \A i \in DOMAIN scopes[f] : scopes[f][i].id <= lastId
    /\ ~Live(f) => scopes[f] = <<>>

Rising(s, n) == /\ \A i, j \in DOMAIN s : i < j => s[i] < s[j]
                /\ \A i \in DOMAIN s : s[i] <= n

\* The operations of the scopes `open' are on the stack s.
On(open, s) == \A i \in DOMAIN open : open[i].kind # "activity" => Contains(s, open[i].id)

Stacks == \A f \in Flow : Rising(stack[f], lastId) /\ On(scopes[f], Seen(f))

\* Before a structured data scope was early, a flow that has scopes owns its context.
Kept ==
  /\ \A f \in Flow : owns[f] => stackOf[f] \in {f, NoFlow} /\ state[f] # "unborn"
  /\ ~early => \A f \in Flow : /\ ~owns[f] => scopes[f] = <<>>
                               /\ Live(f) => Seen(f) = own[f]

\* A scope has in `previous' the activity inside the scopes around it.
Activities ==
  \A f \in Flow :
    /\ ~disturbed[f] => IsActivityInside(activity[f], base[f], scopes[f], Len(scopes[f]))
    /\ \A n \in DOMAIN scopes[f] : ~scopes[f][n].disturbed =>
         IsActivityInside(scopes[f][n].previous, base[f], scopes[f], n - 1)

ScopesInv == ScopeTypes /\ Chained /\ Nested /\ Stacks /\ Kept /\ Activities /\ TracedInside

--------------------------------------------------------------------------------
(* Sequences of operations and of scopes.                                  *)

\* A push keeps the operations in the order they began.
LEMMA RisingPush ==
  ASSUME NEW n \in Nat, NEW s \in Seq(Nat), Rising(s, n)
  PROVE  Rising(Append(s, n + 1), n + 1) /\ Append(s, n + 1) \in Seq(Nat)
<1>1. /\ Append(s, n + 1) \in Seq(Nat) /\ Len(Append(s, n + 1)) = Len(s) + 1
      /\ \A i \in 1..Len(s) : Append(s, n + 1)[i] = s[i]
      /\ Append(s, n + 1)[Len(s) + 1] = n + 1
  BY AppendProperties
<1>2. DOMAIN s = 1..Len(s) /\ Len(s) \in Nat
      /\ DOMAIN Append(s, n + 1) = 1..(Len(s) + 1)
  BY <1>1, LenProperties
<1>3. \A i \in 1..Len(s) : s[i] <= n /\ s[i] \in Nat
  BY <1>2, ElementOfSeq DEF Rising
<1> DEFINE t == Append(s, n + 1)
<1>4. \A i, j \in 1..Len(s) : i < j => s[i] < s[j]
  BY <1>2 DEF Rising
<1> HIDE DEF t
<1>5. /\ Len(s) \in Nat /\ DOMAIN t = 1..(Len(s) + 1) /\ t[Len(s) + 1] = n + 1
      /\ \A i \in 1..Len(s) : t[i] = s[i]
  BY <1>1, <1>2 DEF t
<1>6. Rising(t, n + 1)
  <2>1. ASSUME NEW i \in DOMAIN t, NEW j \in DOMAIN t, i < j
        PROVE  t[i] < t[j]
    <3>1. i \in 1..Len(s)
      BY <1>5, <2>1
    <3>2. CASE j \in 1..Len(s)
      BY <1>4, <1>5, <2>1, <3>1, <3>2
    <3>3. CASE j = Len(s) + 1
      <4>1. t[i] = s[i] /\ t[j] = n + 1 /\ s[i] <= n /\ s[i] \in Nat
        BY <1>3, <1>5, <3>1, <3>3
      <4> QED BY <4>1
    <3> QED BY <1>5, <3>2, <3>3
  <2>2. ASSUME NEW i \in DOMAIN t
        PROVE  t[i] <= n + 1
    BY <1>3, <1>5
  <2> QED BY <2>1, <2>2 DEF Rising
<1> QED
  BY <1>1, <1>6 DEF t

\* So does a pop.
LEMMA RisingPop ==
  ASSUME NEW n \in Nat, NEW s \in Seq(Nat), Rising(s, n), s # <<>>
  PROVE  Rising(Front(s), n) /\ Front(s) \in Seq(Nat)
<1>1. /\ Len(s) \in Nat /\ Len(s) >= 1 /\ DOMAIN s = 1..Len(s)
      /\ Front(s) \in Seq(Nat) /\ DOMAIN Front(s) = 1..(Len(s) - 1)
      /\ \A i \in 1..(Len(s) - 1) : Front(s)[i] = s[i]
  BY FrontFacts, LenProperties
<1> DEFINE t == Front(s)
<1>2. /\ \A i, j \in 1..Len(s) : i < j => s[i] < s[j]
      /\ \A i \in 1..Len(s) : s[i] <= n
  BY <1>1 DEF Rising
<1> HIDE DEF t
<1>3. /\ Len(s) \in Nat /\ DOMAIN t = 1..(Len(s) - 1)
      /\ \A i \in DOMAIN t : i \in 1..Len(s) /\ t[i] = s[i]
  BY <1>1 DEF t
<1>4. Rising(t, n)
  BY <1>2, <1>3 DEF Rising
<1> QED
  BY <1>1, <1>4 DEF t

\* A larger bound bounds it too.
LEMMA RisingMore ==
  ASSUME NEW n \in Nat, NEW m \in Nat, n <= m, NEW s \in Seq(Nat), Rising(s, n)
  PROVE  Rising(s, m)
<1>1. \A i \in DOMAIN s : s[i] \in Nat
  BY LenProperties, ElementOfSeq
<1> QED
  BY <1>1 DEF Rising

\* A push leaves on the stack what is there, and puts the operation there.
LEMMA PushContains ==
  ASSUME NEW s \in Seq(Nat), NEW x \in Nat
  PROVE  Contains(Append(s, x), x) /\ \A y : Contains(s, y) => Contains(Append(s, x), y)
<1>1. /\ Len(Append(s, x)) = Len(s) + 1 /\ Len(s) \in Nat
      /\ \A i \in 1..Len(s) : Append(s, x)[i] = s[i]
      /\ Append(s, x)[Len(s) + 1] = x
  BY AppendProperties, LenProperties
<1> QED
  BY <1>1 DEF Contains

\* A pop takes none of the operations older than one that is on the stack.
LEMMA PopContains ==
  ASSUME NEW n, NEW s \in Seq(Nat), Rising(s, n), NEW x, Contains(s, x)
  PROVE  /\ s # <<>>
         /\ \A y \in Nat : y < x /\ Contains(s, y) => Contains(Front(s), y)
<1> DEFINE l == Len(s)
<1>1. l \in Nat /\ DOMAIN s = 1..l /\ \A i \in 1..l : s[i] \in Nat
  BY LenProperties, ElementOfSeq
<1>2. s # <<>>
  BY <1>1, EmptySeq DEF Contains
<1>3. Len(Front(s)) = l - 1 /\ \A i \in 1..(l - 1) : Front(s)[i] = s[i]
  BY <1>2, FrontFacts
<1>4. \A i, j \in 1..l : i < j => s[i] < s[j]
  BY <1>1 DEF Rising
<1>5. PICK k \in 1..l : s[k] = x
  BY DEF Contains
<1>6. ASSUME NEW y \in Nat, y < x, NEW i \in 1..l, s[i] = y
      PROVE  i \in 1..(l - 1) /\ Front(s)[i] = y
  <2> HIDE DEF l
  <2>1. k = l \/ k < l
    BY <1>1, <1>5
  <2>2. s[k] <= s[l]
    BY <1>1, <1>4, <1>5, <2>1
  <2>3. i # l
    BY <1>1, <1>5, <1>6, <2>2
  <2> QED
    BY <1>1, <1>3, <1>6, <2>3
<1> QED
  BY <1>2, <1>3, <1>6 DEF Contains

\* Whether an activity is the one inside n scopes depends on these scopes only.
LEMMA InsideOfPrefix ==
  ASSUME NEW a, NEW b, NEW n \in Nat, NEW s, NEW t, \A i \in 1..n : s[i] = t[i],
         IsActivityInside(a, b, s, n)
  PROVE  IsActivityInside(a, b, t, n)
BY DEF IsActivityInside

\* The activity inside an operation is the one around it.
LEMMA InsideOperation ==
  ASSUME NEW a, NEW b, NEW n \in Nat, NEW s, s[n + 1].kind # "activity"
  PROVE  IsActivityInside(a, b, s, n + 1) <=> IsActivityInside(a, b, s, n)
<1>1. 1..(n + 1) = 1..n \cup {n + 1} /\ n + 1 \notin 1..n
  OBVIOUS
<1>2. ASSUME NEW i \in 1..n
      PROVE  (i + 1)..(n + 1) = (i + 1)..n \cup {n + 1}
  OBVIOUS
<1> QED
  BY <1>1, <1>2, Zenon DEF IsActivityInside

\* The activity inside an ActivityScope is its own.
LEMMA InsideActivity ==
  ASSUME NEW a, NEW b, NEW n \in Nat, NEW s, s[n + 1].kind = "activity"
  PROVE  IsActivityInside(a, b, s, n + 1) <=> a = s[n + 1].id
<1>1. 1..(n + 1) = 1..n \cup {n + 1} /\ (n + 1 + 1)..(n + 1) = {}
  OBVIOUS
<1>2. ASSUME NEW i \in 1..n
      PROVE  n + 1 \in (i + 1)..(n + 1)
  OBVIOUS
<1> QED
  BY <1>1, <1>2, Zenon DEF IsActivityInside

--------------------------------------------------------------------------------
(* What the step of a flow that runs does to its scopes and its stack.     *)

\* Scopes of f may end, and one with a new number may begin.
Scoped(f) ==
  /\ lastId' \in Nat /\ lastId <= lastId'
  /\ scopes' \in [Flow -> Seq(Open)]
  /\ \A h \in Flow \ {f} : scopes'[h] = scopes[h]
  /\ \A j \in DOMAIN scopes'[f] :
       \/ j \in DOMAIN scopes[f] /\ scopes'[f][j] = scopes[f][j]
       \/ j = Len(scopes[f]) + 1 /\ scopes'[f][j].id = lastId + 1 /\ lastId' = lastId + 1

\* f sees the stack s then, and so may those that see the same copy; nobody else sees
\* another stack than before.
Becomes(f, s) ==
  /\ owns' \in [Flow -> BOOLEAN] /\ \A h \in Flow \ {f} : owns'[h] = owns[h]
  /\ owns'[f] => stackOf'[f] \in {f, NoFlow}
  /\ stackOf' \in [Flow -> Flow \cup {NoFlow}] /\ stackOf'[f] \in {f, stackOf[f]}
  /\ \A h \in Flow \ {f} : stackOf'[h] = stackOf[h]
  /\ stack' \in [Flow -> Seq(Nat)] /\ \A h \in Flow : stack'[h] \in {stack[h], s}
  /\ Seen(f)' = s
  /\ \A h \in Flow \ {f} : Live(h) /\ Seen(h)' # Seen(h) =>
       stackOf[f] # NoFlow /\ stackOf[h] = stackOf[f] /\ Seen(h)' = s

\* Nobody sees the stack of f change but f.
Alone(f) == \A h \in Flow \ {f} : Live(h) => Seen(h)' = Seen(h)

\* The scopes of a flow after one more began.
LEMMA BeginFacts ==
  ASSUME ScopeTypes, NEW f \in Flow, NEW x \in Open,
         scopes' = [scopes EXCEPT ![f] = Append(@, x)]
  PROVE  /\ scopes' \in [Flow -> Seq(Open)]
         /\ \A h \in Flow \ {f} : scopes'[h] = scopes[h]
         /\ Len(scopes[f]) \in Nat /\ DOMAIN scopes[f] = 1..Len(scopes[f])
         /\ Len(scopes'[f]) = Len(scopes[f]) + 1
         /\ DOMAIN scopes'[f] = 1..(Len(scopes[f]) + 1)
         /\ \A i \in 1..Len(scopes[f]) : scopes'[f][i] = scopes[f][i]
         /\ scopes'[f][Len(scopes[f]) + 1] = x
<1>1. scopes[f] \in Seq(Open) /\ scopes'[f] = Append(scopes[f], x)
  BY DEF ScopeTypes
<1>2. /\ Append(scopes[f], x) \in Seq(Open)
      /\ Len(Append(scopes[f], x)) = Len(scopes[f]) + 1
      /\ \A i \in 1..Len(scopes[f]) : Append(scopes[f], x)[i] = scopes[f][i]
      /\ Append(scopes[f], x)[Len(scopes[f]) + 1] = x
  BY <1>1, AppendProperties
<1>3. /\ Len(scopes[f]) \in Nat /\ DOMAIN scopes[f] = 1..Len(scopes[f])
      /\ DOMAIN Append(scopes[f], x) = 1..Len(Append(scopes[f], x))
  BY <1>1, <1>2, LenProperties
<1> QED
  BY <1>1, <1>2, <1>3 DEF ScopeTypes

\* The scopes of a flow after the innermost one ended.
LEMMA EndFacts ==
  ASSUME ScopeTypes, NEW f \in Flow, scopes[f] # <<>>,
         scopes' = [scopes EXCEPT ![f] = Front(@)]
  PROVE  /\ scopes' \in [Flow -> Seq(Open)]
         /\ \A h \in Flow \ {f} : scopes'[h] = scopes[h]
         /\ Len(scopes[f]) \in Nat /\ Len(scopes[f]) >= 1
         /\ DOMAIN scopes[f] = 1..Len(scopes[f])
         /\ Len(scopes'[f]) = Len(scopes[f]) - 1
         /\ DOMAIN scopes'[f] = 1..(Len(scopes[f]) - 1)
         /\ \A i \in 1..(Len(scopes[f]) - 1) : scopes'[f][i] = scopes[f][i]
         /\ Last(scopes[f]) = scopes[f][Len(scopes[f])] /\ Last(scopes[f]) \in Open
<1>1. scopes[f] \in Seq(Open) /\ scopes'[f] = Front(scopes[f])
  BY DEF ScopeTypes
<1>2. /\ Len(scopes[f]) \in Nat /\ Len(scopes[f]) >= 1
      /\ Last(scopes[f]) = scopes[f][Len(scopes[f])] /\ Last(scopes[f]) \in Open
      /\ Front(scopes[f]) \in Seq(Open) /\ Len(Front(scopes[f])) = Len(scopes[f]) - 1
      /\ \A i \in 1..(Len(scopes[f]) - 1) : Front(scopes[f])[i] = scopes[f][i]
  BY <1>1, FrontFacts
<1>3. /\ DOMAIN scopes[f] = 1..Len(scopes[f])
      /\ DOMAIN Front(scopes[f]) = 1..Len(Front(scopes[f]))
  BY <1>1, <1>2, LenProperties
<1> QED
  BY <1>1, <1>2, <1>3 DEF ScopeTypes

\* The flow that runs is the last of its chain: nobody else sees its copy, and who sees the
\* same copy as it waits for it, in older scopes.
LEMMA LastOfChain ==
  ASSUME ScopeTypes, Chained, NEW f \in Flow, state[f] = "running", NEW h \in Flow, h # f, Live(h)
  PROVE  /\ stackOf[h] # f
         /\ stackOf[f] # NoFlow /\ stackOf[h] = stackOf[f] =>
              \A i \in DOMAIN scopes[h], j \in DOMAIN scopes[f] : scopes[h][i].id < scopes[f][j].id
<1>1. PICK R \in [Flow -> SUBSET Flow] : Chain(R) /\ Shared(R) /\ Older(R)
  BY DEF Chained
<1>2. \A y \in Flow : y \notin R[f]
  BY <1>1 DEF Chain
<1>3. stackOf[h] # f
  BY <1>1, <1>2 DEF Shared
<1>4. ASSUME stackOf[f] # NoFlow, stackOf[h] = stackOf[f]
      PROVE  f \in R[h]
  <2> DEFINE c == stackOf[f]
  <2>1. c \in Flow /\ stackOf[h] = c
    BY <1>4 DEF ScopeTypes
  <2>2. c # f
    BY <1>3, <1>4
  <2> HIDE DEF c
  <2>3. Live(f) /\ stackOf[f] = c
    BY DEF Live, c
  <2>4. f \in R[c]
    BY <1>1, <2>1, <2>2, <2>3 DEF Shared
  <2>5. CASE h = c
    BY <2>4, <2>5
  <2>6. CASE h # c
    <3>1. h \in R[c]
      BY <1>1, <2>1, <2>6 DEF Shared
    <3> QED
      BY <1>1, <1>2, <2>1, <2>4, <3>1 DEF Chain
  <2> QED
    BY <2>5, <2>6
<1> QED
  BY <1>1, <1>3, <1>4 DEF Older

\* Nothing is written.
LEMMA BecomesSame ==
  ASSUME ScopeTypes, Kept, NEW f \in Flow, UNCHANGED <<owns, stackOf, stack>>
  PROVE  Becomes(f, Seen(f)) /\ Alone(f)
<1>1. Seen(f)' = Seen(f) /\ \A h \in Flow : Seen(h)' = Seen(h)
  BY DEF Seen
<1> QED
  BY <1>1 DEF ScopeTypes, Kept, Becomes, Alone

\* The stack of f is written to a copy of its own.
LEMMA BecomesCopied ==
  ASSUME ScopeTypes, Chained, NEW f \in Flow, state[f] = "running", NEW s \in Seq(Nat),
         owns' = [owns EXCEPT ![f] = TRUE], stack' = [stack EXCEPT ![f] = s],
         \/ stackOf' = [stackOf EXCEPT ![f] = f]
         \/ /\ stackOf' = [stackOf EXCEPT ![f] = IF @ = NoFlow THEN NoFlow ELSE f]
            /\ s = Seen(f)
  PROVE  Becomes(f, s) /\ Alone(f) /\ owns'[f]
<1>1. /\ owns' \in [Flow -> BOOLEAN] /\ \A h \in Flow \ {f} : owns'[h] = owns[h]
      /\ owns'[f]
  BY DEF ScopeTypes
<1>2. /\ stackOf' \in [Flow -> Flow \cup {NoFlow}] /\ stackOf'[f] \in {f, stackOf[f]}
      /\ stackOf'[f] \in {f, NoFlow}
      /\ \A h \in Flow \ {f} : stackOf'[h] = stackOf[h]
      /\ stackOf'[f] = NoFlow => stackOf[f] = NoFlow /\ s = Seen(f)
  <2>1. stackOf \in [Flow -> Flow \cup {NoFlow}]
    BY DEF ScopeTypes
  <2>2. CASE stackOf' = [stackOf EXCEPT ![f] = f]
    BY <2>1, <2>2, ScopesAssumption
  <2>3. CASE stackOf' = [stackOf EXCEPT ![f] = IF @ = NoFlow THEN NoFlow ELSE f] /\ s = Seen(f)
    <3>1. CASE stackOf[f] = NoFlow
      BY <2>1, <2>3, <3>1
    <3>2. CASE stackOf[f] # NoFlow
      BY <2>1, <2>3, <3>2, ScopesAssumption
    <3> QED BY <3>1, <3>2
  <2> QED BY <2>2, <2>3
<1>3. /\ stack' \in [Flow -> Seq(Nat)] /\ stack'[f] = s
      /\ \A h \in Flow \ {f} : stack'[h] = stack[h]
  BY DEF ScopeTypes
<1>4. Seen(f)' = s
  BY <1>2, <1>3, ScopesAssumption DEF Seen
<1>5. ASSUME NEW h \in Flow, h # f, Live(h)
      PROVE  Seen(h)' = Seen(h)
  <2>1. stackOf[h] # f
    BY <1>5, LastOfChain
  <2> QED
    BY <1>2, <1>3, <1>5, <2>1 DEF Seen, ScopeTypes
<1> QED
  BY <1>1, <1>2, <1>3, <1>4, <1>5 DEF Becomes, Alone

\* The stack of f is written where it is.
LEMMA BecomesPut ==
  ASSUME ScopeTypes, Chained, Kept, NEW f \in Flow, state[f] = "running", NEW s \in Seq(Nat), Put(f, s)
  PROVE  /\ Becomes(f, s)
         /\ ~Shares(f) => Alone(f) /\ owns'[f]
<1>1. CASE stackOf[f] = NoFlow
  BY <1>1, BecomesCopied DEF Put, CopyAndPut
<1>2. CASE stackOf[f] # NoFlow
  <2>1. stackOf[f] \in Flow /\ stack' = [stack EXCEPT ![stackOf[f]] = s] /\ UNCHANGED <<owns, stackOf>>
    BY <1>2 DEF Put, ScopeTypes
  <2>2. /\ stack' \in [Flow -> Seq(Nat)] /\ stack'[stackOf[f]] = s
        /\ \A h \in Flow : h # stackOf[f] => stack'[h] = stack[h]
    BY <2>1 DEF ScopeTypes
  <2>3. Seen(f)' = s
    BY <1>2, <2>1, <2>2 DEF Seen
  <2>4. ASSUME NEW h \in Flow, h # f, Live(h), Seen(h)' # Seen(h)
        PROVE  stackOf[h] = stackOf[f] /\ Seen(h)' = s
    BY <2>1, <2>2, <2>4 DEF Seen, ScopeTypes
  <2>5. Becomes(f, s)
    BY <1>2, <2>1, <2>2, <2>3, <2>4 DEF Becomes, ScopeTypes, Kept
  <2>6. ASSUME ~Shares(f)
        PROVE  Alone(f) /\ owns'[f]
    <3>1. owns[f] /\ stackOf[f] = f
      BY <1>2, <2>6 DEF Shares, Kept
    <3> QED
      BY <2>1, <2>4, <3>1, LastOfChain DEF Alone
  <2> QED
    BY <2>5, <2>6
<1> QED
  BY <1>1, <1>2

\* What the step of a flow f that runs does, when it calls no method and leaves none: f sees
\* s after it.
Moves(f, s) ==
  /\ state[f] = "running" /\ UNCHANGED <<state, caller>>
  /\ s \in Seq(Nat) /\ Becomes(f, s) /\ Scoped(f)
  /\ Rising(s, lastId') /\ On(scopes'[f], s)
  /\ \A h \in Flow \ {f} : Live(h) /\ stackOf[f] # NoFlow /\ stackOf[h] = stackOf[f]
                           => On(scopes[h], s)
  /\ ~early' => ~early /\ Alone(f) /\ owns'[f] /\ own' = [own EXCEPT ![f] = s]

\* The numbers of scopes.
LEMMA ScopeIds ==
  ASSUME ScopeTypes, Nested, NEW h \in Flow, NEW i \in DOMAIN scopes[h]
  PROVE  scopes[h][i] \in Open /\ scopes[h][i].id \in Nat /\ scopes[h][i].id <= lastId
<1>1. scopes[h] \in Seq(Open)
  BY DEF ScopeTypes
<1>2. scopes[h][i] \in Open
  BY <1>1, LenProperties, ElementOfSeq
<1> QED
  BY <1>2 DEF Open, Nested

\* The parts of the invariant that the moves of all kinds keep.
LEMMA MoveChained ==
  ASSUME ScopeTypes, Chained, Nested, NEW f \in Flow, NEW s, Moves(f, s)
  PROVE  Chained'
<1>1. PICK R \in [Flow -> SUBSET Flow] : Chain(R) /\ Shared(R) /\ Older(R)
  BY DEF Chained
<1>2. /\ state[f] = "running" /\ UNCHANGED <<state, caller>> /\ lastId \in Nat
      /\ stackOf'[f] \in {f, stackOf[f]} /\ \A h \in Flow \ {f} : stackOf'[h] = stackOf[h]
      /\ \A h \in Flow \ {f} : scopes'[h] = scopes[h]
      /\ \A j \in DOMAIN scopes'[f] :
           \/ j \in DOMAIN scopes[f] /\ scopes'[f][j] = scopes[f][j]
           \/ scopes'[f][j].id = lastId + 1
  BY DEF Moves, Becomes, Scoped, ScopeTypes
<1>3. Chain(R)'
  BY <1>1, <1>2 DEF Chain, Live
<1>4. Shared(R)'
  BY <1>1, <1>2 DEF Shared, Live
<1>5. Older(R)'
  <2>1. SUFFICES ASSUME NEW x \in Flow, NEW y \in Flow, y \in R[x],
                        NEW i \in DOMAIN scopes'[x], NEW j \in DOMAIN scopes'[y]
                 PROVE  scopes'[x][i].id < scopes'[y][j].id
    BY DEF Older
  <2>2. x # f
    BY <1>1, <1>2, <2>1 DEF Chain
  <2>3. i \in DOMAIN scopes[x] /\ scopes'[x][i] = scopes[x][i]
    BY <1>2, <2>1, <2>2
  <2>4. CASE j \in DOMAIN scopes[y] /\ scopes'[y][j] = scopes[y][j]
    BY <1>1, <2>1, <2>3, <2>4 DEF Older
  <2>5. CASE scopes'[y][j].id = lastId + 1
    <3>1. scopes[x][i].id \in Nat /\ scopes[x][i].id <= lastId
      BY <2>3, ScopeIds
    <3> QED
      BY <1>2, <2>3, <2>5, <3>1
  <2> QED
    BY <1>2, <2>1, <2>4, <2>5
<1> QED
  BY <1>3, <1>4, <1>5 DEF Chained

\* The numbers of the scopes of a flow still rise.
LEMMA MoveNested ==
  ASSUME ScopeTypes, Nested, NEW f \in Flow, NEW s, Moves(f, s)
  PROVE  Nested'
<1>1. /\ state[f] = "running" /\ UNCHANGED state /\ lastId \in Nat
      /\ lastId' \in Nat /\ lastId <= lastId'
      /\ \A h \in Flow \ {f} : scopes'[h] = scopes[h]
  BY DEF Moves, Scoped, ScopeTypes
<1>2. \A j \in DOMAIN scopes'[f] :
        \/ j \in DOMAIN scopes[f] /\ scopes'[f][j] = scopes[f][j]
        \/ j = Len(scopes[f]) + 1 /\ scopes'[f][j].id = lastId + 1 /\ lastId' = lastId + 1
  BY DEF Moves, Scoped
<1>3. ASSUME NEW h \in Flow, NEW i \in DOMAIN scopes'[h]
      PROVE  scopes'[h][i].id <= lastId'
  BY <1>1, <1>2, ScopeIds
<1>4. ASSUME NEW h \in Flow, NEW i \in DOMAIN scopes'[h], NEW j \in DOMAIN scopes'[h], i < j
      PROVE  scopes'[h][i].id < scopes'[h][j].id
  <2>1. CASE h # f
    BY <1>1, <1>4, <2>1 DEF Nested
  <2>2. CASE h = f
    <3>1. scopes[f] \in Seq(Open) /\ Len(scopes[f]) \in Nat /\ DOMAIN scopes[f] = 1..Len(scopes[f])
      BY LenProperties DEF ScopeTypes
    <3>2. i \in DOMAIN scopes[f] /\ scopes'[f][i] = scopes[f][i]
      BY <1>2, <1>4, <2>2, <3>1
    <3>3. CASE j \in DOMAIN scopes[f] /\ scopes'[f][j] = scopes[f][j]
      BY <1>4, <2>2, <3>2, <3>3 DEF Nested
    <3>4. CASE scopes'[f][j].id = lastId + 1
      BY <1>1, <2>2, <3>2, <3>4, ScopeIds
    <3> QED
      BY <1>2, <2>2, <3>3, <3>4
  <2> QED
    BY <2>1, <2>2
<1>5. ASSUME NEW h \in Flow, ~Live(h)'
      PROVE  scopes'[h] = <<>>
  BY <1>1, <1>5 DEF Nested, Live
<1> QED
  BY <1>3, <1>4, <1>5 DEF Nested

\* The numbers on a stack still rise, and the operations of open scopes are there.
LEMMA MoveStacks ==
  ASSUME ScopeTypes, Nested, Stacks, NEW f \in Flow, NEW s, Moves(f, s)
  PROVE  Stacks'
<1>1. lastId' \in Nat /\ lastId \in Nat /\ lastId <= lastId' /\ s \in Seq(Nat) /\ Rising(s, lastId')
  BY DEF Moves, Scoped, ScopeTypes
<1>2. ASSUME NEW h \in Flow
      PROVE  Rising(stack'[h], lastId')
  <2>1. stack[h] \in Seq(Nat) /\ Rising(stack[h], lastId)
    BY DEF ScopeTypes, Stacks
  <2>2. Rising(stack[h], lastId')
    BY <1>1, <2>1, RisingMore
  <2>3. stack'[h] \in {stack[h], s}
    BY DEF Moves, Becomes
  <2> QED
    BY <1>1, <2>2, <2>3
<1>3. ASSUME NEW h \in Flow
      PROVE  On(scopes'[h], Seen(h)')
  <2>1. CASE h = f
    BY <2>1 DEF Moves, Becomes
  <2>2. CASE h # f /\ ~Live(h)
    <3>1. scopes'[h] = <<>>
      BY <2>2 DEF Nested, Moves, Scoped
    <3> QED
      BY <3>1 DEF On
  <2>3. CASE h # f /\ Live(h)
    <3>1. scopes'[h] = scopes[h] /\ On(scopes[h], Seen(h))
      BY <2>3 DEF Stacks, Moves, Scoped
    <3>2. CASE Seen(h)' = Seen(h)
      BY <3>1, <3>2
    <3>3. CASE Seen(h)' # Seen(h)
      <4>1. stackOf[f] # NoFlow /\ stackOf[h] = stackOf[f] /\ Seen(h)' = s
        BY <2>3, <3>3 DEF Moves, Becomes
      <4>2. On(scopes[h], s)
        BY <2>3, <4>1 DEF Moves
      <4> QED
        BY <3>1, <4>1, <4>2
    <3> QED
      BY <3>2, <3>3
  <2> QED
    BY <2>1, <2>2, <2>3
<1> QED
  BY <1>2, <1>3 DEF Stacks

\* Nobody but f sees another stack than its own scopes made.
LEMMA MoveKept ==
  ASSUME ScopeTypes, Kept, NEW f \in Flow, NEW s, Moves(f, s)
  PROVE  Kept'
<1>1. \A h \in Flow : owns'[h] => stackOf'[h] \in {h, NoFlow} /\ state'[h] # "unborn"
  BY DEF Kept, Moves, Becomes
<1>2. ASSUME ~early', NEW h \in Flow
      PROVE  (~owns'[h] => scopes'[h] = <<>>) /\ (Live(h)' => Seen(h)' = own'[h])
  <2>1. ~early /\ Alone(f) /\ owns'[f] /\ own' = [own EXCEPT ![f] = s] /\ UNCHANGED state
    BY <1>2 DEF Moves
  <2>2. own = [g \in Flow |-> own[g]]
    BY DEF ScopeTypes
  <2>3. own'[f] = s /\ \A g \in Flow \ {f} : own'[g] = own[g]
    BY <2>1, <2>2
  <2>4. CASE h = f
    BY <2>1, <2>3, <2>4 DEF Moves, Becomes
  <2>5. CASE h # f
    <3>1. owns'[h] = owns[h] /\ scopes'[h] = scopes[h]
      BY <2>5 DEF Moves, Becomes, Scoped
    <3>2. Live(h)' => Live(h) /\ Seen(h)' = Seen(h)
      BY <2>1, <2>5 DEF Alone, Live
    <3> QED
      BY <2>1, <2>3, <2>5, <3>1, <3>2 DEF Kept
  <2> QED
    BY <2>4, <2>5
<1> QED
  BY <1>1, <1>2 DEF Kept

--------------------------------------------------------------------------------
(* Scopes that begin and end.                                              *)

\* The stack a flow sees.
LEMMA SeenType ==
  ASSUME ScopeTypes, Stacks, NEW f \in Flow
  PROVE  Seen(f) \in Seq(Nat) /\ Rising(Seen(f), lastId)
<1>1. CASE stackOf[f] = NoFlow
  <2>1. Seen(f) = <<>>
    BY <1>1 DEF Seen
  <2>2. Rising(<<>>, lastId)
    BY DEF Rising
  <2> QED
    BY <2>1, <2>2, EmptySeq
<1>2. CASE stackOf[f] # NoFlow
  BY <1>2 DEF ScopeTypes, Stacks, Seen
<1> QED
  BY <1>1, <1>2

\* A scope that begins has the last number; if it fails there is none.
LEMMA Begun ==
  ASSUME ScopeTypes, NEW f \in Flow, NEW x \in Open, x.id = lastId + 1, lastId' = lastId + 1,
         scopes' = scopes \/ scopes' = [scopes EXCEPT ![f] = Append(@, x)],
         NEW s, On(scopes[f], s), x.kind # "activity" => Contains(s, x.id)
  PROVE  Scoped(f) /\ On(scopes'[f], s)
<1>1. lastId' \in Nat /\ lastId <= lastId'
  BY DEF ScopeTypes
<1>2. CASE scopes' = scopes
  BY <1>1, <1>2 DEF Scoped, ScopeTypes
<1>3. CASE scopes' = [scopes EXCEPT ![f] = Append(@, x)]
  <2>1. /\ scopes' \in [Flow -> Seq(Open)] /\ \A h \in Flow \ {f} : scopes'[h] = scopes[h]
        /\ \A j \in DOMAIN scopes'[f] :
             \/ j \in DOMAIN scopes[f] /\ scopes'[f][j] = scopes[f][j]
             \/ j = Len(scopes[f]) + 1 /\ scopes'[f][j] = x
    <3>1. /\ scopes' \in [Flow -> Seq(Open)] /\ \A h \in Flow \ {f} : scopes'[h] = scopes[h]
          /\ Len(scopes[f]) \in Nat /\ DOMAIN scopes[f] = 1..Len(scopes[f])
          /\ DOMAIN scopes'[f] = 1..(Len(scopes[f]) + 1)
          /\ \A i \in 1..Len(scopes[f]) : scopes'[f][i] = scopes[f][i]
          /\ scopes'[f][Len(scopes[f]) + 1] = x
      BY <1>3, BeginFacts
    <3> QED BY <3>1
  <2> QED
    BY <1>1, <2>1 DEF Scoped, On
<1> QED
  BY <1>2, <1>3

\* A scope that ends leaves the others.
LEMMA Ended ==
  ASSUME ScopeTypes, NEW f \in Flow, scopes[f] # <<>>, lastId' = lastId,
         scopes' = [scopes EXCEPT ![f] = Front(@)], NEW s, On(scopes[f], s)
  PROVE  Scoped(f) /\ On(scopes'[f], s)
<1>1. lastId' \in Nat /\ lastId <= lastId'
  BY DEF ScopeTypes
<1>2. /\ scopes' \in [Flow -> Seq(Open)] /\ \A h \in Flow \ {f} : scopes'[h] = scopes[h]
      /\ \A j \in DOMAIN scopes'[f] : j \in DOMAIN scopes[f] /\ scopes'[f][j] = scopes[f][j]
  <2>1. /\ scopes' \in [Flow -> Seq(Open)] /\ \A h \in Flow \ {f} : scopes'[h] = scopes[h]
        /\ Len(scopes[f]) \in Nat /\ Len(scopes[f]) >= 1
        /\ DOMAIN scopes[f] = 1..Len(scopes[f])
        /\ DOMAIN scopes'[f] = 1..(Len(scopes[f]) - 1)
        /\ \A i \in 1..(Len(scopes[f]) - 1) : scopes'[f][i] = scopes[f][i]
    BY EndFacts
  <2> QED BY <2>1
<1> QED
  BY <1>1, <1>2 DEF Scoped, On

\* The top of the stack is not older than the operation of the innermost scope, so that a
\* pop leaves all others that see it what they have there.
LEMMA Popped ==
  ASSUME ScopeTypes, Chained, Nested, Stacks, NEW f \in Flow, Innermost(f, "logical") \/ Innermost(f, "data"),
         scopes' = [scopes EXCEPT ![f] = Front(@)]
  PROVE  /\ Contains(Seen(f), Last(scopes[f]).id)
         /\ Front(Seen(f)) \in Seq(Nat) /\ Rising(Front(Seen(f)), lastId)
         /\ On(scopes'[f], Front(Seen(f)))
         /\ \A h \in Flow \ {f} : Live(h) /\ stackOf[f] # NoFlow /\ stackOf[h] = stackOf[f]
                                  => On(scopes[h], Front(Seen(f)))
<1> DEFINE s == Seen(f)
           n == Len(scopes[f])
           x == Last(scopes[f])
<1>1. s \in Seq(Nat) /\ Rising(s, lastId) /\ On(scopes[f], s) /\ state[f] = "running"
  BY SeenType DEF Stacks, Innermost
<1>2. scopes[f] # <<>> /\ x.kind # "activity"
  BY DEF Innermost
<1>3. /\ n \in Nat /\ n >= 1 /\ DOMAIN scopes[f] = 1..n /\ x = scopes[f][n]
      /\ DOMAIN scopes'[f] = 1..(n - 1)
      /\ \A i \in 1..(n - 1) : scopes'[f][i] = scopes[f][i]
  BY <1>2, EndFacts
<1>4. n \in DOMAIN scopes[f]
  BY <1>3
<1>5. Contains(s, x.id) /\ x.id \in Nat
  BY <1>1, <1>2, <1>3, <1>4, ScopeIds DEF On
<1> HIDE DEF s, x
<1>6. s # <<>> /\ \A y \in Nat : y < x.id /\ Contains(s, y) => Contains(Front(s), y)
  BY <1>1, <1>5, PopContains
<1>7. Front(s) \in Seq(Nat) /\ Rising(Front(s), lastId)
  BY <1>1, <1>6, RisingPop DEF ScopeTypes
<1>8. On(scopes'[f], Front(s))
  <2>1. SUFFICES ASSUME NEW i \in 1..(n - 1), scopes[f][i].kind # "activity"
                 PROVE  Contains(Front(s), scopes[f][i].id)
    BY <1>3 DEF On
  <2>2. i \in DOMAIN scopes[f] /\ i < n
    BY <1>3
  <2>3. scopes[f][i].id \in Nat /\ scopes[f][i].id < x.id
    BY <1>3, <1>4, <2>2, ScopeIds DEF Nested
  <2> QED
    BY <1>1, <1>6, <2>1, <2>2, <2>3 DEF On
<1>9. ASSUME NEW h \in Flow \ {f}, Live(h), stackOf[f] # NoFlow, stackOf[h] = stackOf[f]
      PROVE  On(scopes[h], Front(s))
  <2>1. SUFFICES ASSUME NEW i \in DOMAIN scopes[h], scopes[h][i].kind # "activity"
                 PROVE  Contains(Front(s), scopes[h][i].id)
    BY DEF On
  <2>2. scopes[h][i].id \in Nat /\ scopes[h][i].id < x.id
    BY <1>1, <1>3, <1>4, <1>9, ScopeIds, LastOfChain
  <2>3. Seen(h) = s /\ On(scopes[h], Seen(h))
    BY <1>9 DEF s, Seen, Stacks
  <2> QED
    BY <1>6, <2>1, <2>2, <2>3 DEF On
<1> QED
  BY <1>5, <1>7, <1>8, <1>9 DEF s, x

\* A scope that begins has in `previous' the activity around it.
LEMMA BeginActivities ==
  ASSUME ScopeTypes, Activities, NEW f \in Flow, NEW x \in Open,
         scopes' = [scopes EXCEPT ![f] = Append(@, x)], UNCHANGED base,
         x.previous = activity[f], x.disturbed = disturbed[f],
         \A h \in Flow \ {f} : activity'[h] = activity[h] /\ disturbed'[h] = disturbed[h],
         \/ x.kind # "activity" /\ activity'[f] = activity[f] /\ disturbed'[f] = disturbed[f]
         \/ x.kind = "activity" /\ activity'[f] = x.id
  PROVE  Activities'
<1> DEFINE n == Len(scopes[f])
<1>1. /\ \A h \in Flow \ {f} : scopes'[h] = scopes[h]
      /\ n \in Nat /\ DOMAIN scopes[f] = 1..n
      /\ Len(scopes'[f]) = n + 1 /\ DOMAIN scopes'[f] = 1..(n + 1)
      /\ \A i \in 1..n : scopes'[f][i] = scopes[f][i]
      /\ scopes'[f][n + 1] = x
  BY BeginFacts
<1> HIDE DEF n
<1>2. ASSUME NEW a, NEW m \in 0..n, IsActivityInside(a, base[f], scopes[f], m)
      PROVE  IsActivityInside(a, base[f], scopes'[f], m)
  <2>1. m \in Nat /\ \A i \in 1..m : scopes[f][i] = scopes'[f][i]
    BY <1>1
  <2> QED BY <1>2, <2>1, InsideOfPrefix
<1>3. ~disturbed[f] => IsActivityInside(activity[f], base[f], scopes'[f], n)
  BY <1>1, <1>2 DEF Activities, n
<1>4. ~disturbed'[f] => IsActivityInside(activity'[f], base[f], scopes'[f], n + 1)
  <2>1. scopes'[f][n + 1] = x /\ n \in Nat
    BY <1>1
  <2>2. CASE x.kind # "activity"
    <3>1. activity'[f] = activity[f] /\ disturbed'[f] = disturbed[f]
      BY <2>2
    <3>2. scopes'[f][n + 1].kind # "activity"
      BY <2>1, <2>2
    <3>3. IsActivityInside(activity[f], base[f], scopes'[f], n + 1)
             <=> IsActivityInside(activity[f], base[f], scopes'[f], n)
      BY <2>1, <3>2, InsideOperation
    <3> QED BY <1>3, <3>1, <3>3
  <2>3. CASE x.kind = "activity"
    <3>1. activity'[f] = x.id
      BY <2>3
    <3>2. scopes'[f][n + 1].kind = "activity"
      BY <2>1, <2>3
    <3>3. IsActivityInside(activity'[f], base[f], scopes'[f], n + 1)
             <=> activity'[f] = scopes'[f][n + 1].id
      BY <2>1, <3>2, InsideActivity
    <3> QED BY <2>1, <3>1, <3>3
  <2> QED BY <2>2, <2>3
<1>5. ASSUME NEW i \in DOMAIN scopes'[f], ~scopes'[f][i].disturbed
      PROVE  IsActivityInside(scopes'[f][i].previous, base[f], scopes'[f], i - 1)
  <2>1. CASE i = n + 1
    BY <1>1, <1>3, <1>5, <2>1
  <2>2. CASE i \in 1..n
    <3>1. IsActivityInside(scopes[f][i].previous, base[f], scopes[f], i - 1)
      BY <1>1, <1>5, <2>2 DEF Activities
    <3>2. i - 1 \in 0..n
      BY <1>1, <2>2
    <3> QED
      BY <1>1, <1>2, <2>2, <3>1, <3>2
  <2> QED
    BY <1>1, <2>1, <2>2
<1>6. ASSUME NEW h \in Flow
      PROVE  /\ ~disturbed'[h] =>
                  IsActivityInside(activity'[h], base'[h], scopes'[h], Len(scopes'[h]))
             /\ \A i \in DOMAIN scopes'[h] : ~scopes'[h][i].disturbed =>
                  IsActivityInside(scopes'[h][i].previous, base'[h], scopes'[h], i - 1)
  BY <1>1, <1>4, <1>5 DEF Activities
<1> QED
  BY <1>6 DEF Activities

\* One that ends leaves the activity around it, if it was not disturbed.
LEMMA EndActivities ==
  ASSUME ScopeTypes, Activities, NEW f \in Flow, scopes[f] # <<>>,
         scopes' = [scopes EXCEPT ![f] = Front(@)], UNCHANGED base,
         \A h \in Flow \ {f} : activity'[h] = activity[h] /\ disturbed'[h] = disturbed[h],
         \/ /\ Last(scopes[f]).kind # "activity"
            /\ activity'[f] = activity[f] /\ disturbed'[f] = disturbed[f]
         \/ disturbed'[f]
         \/ /\ activity'[f] = Last(scopes[f]).previous
            /\ disturbed'[f] = Last(scopes[f]).disturbed
  PROVE  Activities'
<1> DEFINE m == Len(scopes[f]) - 1
<1>1. /\ \A h \in Flow \ {f} : scopes'[h] = scopes[h]
      /\ m \in Nat /\ Len(scopes[f]) = m + 1 /\ DOMAIN scopes[f] = 1..(m + 1)
      /\ Len(scopes'[f]) = m /\ DOMAIN scopes'[f] = 1..m
      /\ \A i \in 1..m : scopes'[f][i] = scopes[f][i]
      /\ Last(scopes[f]) = scopes[f][m + 1]
  <2>1. /\ \A h \in Flow \ {f} : scopes'[h] = scopes[h]
        /\ Len(scopes[f]) \in Nat /\ Len(scopes[f]) >= 1
        /\ DOMAIN scopes[f] = 1..Len(scopes[f])
        /\ Len(scopes'[f]) = m /\ DOMAIN scopes'[f] = 1..m
        /\ \A i \in 1..m : scopes'[f][i] = scopes[f][i]
        /\ Last(scopes[f]) = scopes[f][Len(scopes[f])]
    BY EndFacts
  <2>2. m \in Nat /\ Len(scopes[f]) = m + 1
    BY <2>1
  <2> QED BY <2>1, <2>2
<1> HIDE DEF m
<1>2. ASSUME NEW a, NEW i \in 0..m, IsActivityInside(a, base[f], scopes[f], i)
      PROVE  IsActivityInside(a, base[f], scopes'[f], i)
  <2>1. i \in Nat /\ \A j \in 1..i : scopes[f][j] = scopes'[f][j]
    BY <1>1
  <2> QED BY <1>2, <2>1, InsideOfPrefix
<1>3. ~disturbed'[f] => IsActivityInside(activity'[f], base[f], scopes[f], m)
  <2>1. CASE Last(scopes[f]).kind # "activity" /\ activity'[f] = activity[f] /\ disturbed'[f] = disturbed[f]
    <3>1. ~disturbed[f] => IsActivityInside(activity[f], base[f], scopes[f], m + 1)
      BY <1>1 DEF Activities
    <3> QED
      BY <1>1, <2>1, <3>1, InsideOperation
  <2>2. CASE activity'[f] = Last(scopes[f]).previous /\ disturbed'[f] = Last(scopes[f]).disturbed
    <3>1. m + 1 \in DOMAIN scopes[f] /\ m + 1 - 1 = m
      BY <1>1
    <3> QED
      BY <1>1, <2>2, <3>1 DEF Activities
  <2> QED
    BY <2>1, <2>2
<1>4. ~disturbed'[f] => IsActivityInside(activity'[f], base[f], scopes'[f], m)
  BY <1>1, <1>2, <1>3
<1>5. ASSUME NEW i \in 1..m, ~scopes'[f][i].disturbed
      PROVE  IsActivityInside(scopes'[f][i].previous, base[f], scopes'[f], i - 1)
  <2>1. IsActivityInside(scopes[f][i].previous, base[f], scopes[f], i - 1)
    BY <1>1, <1>5 DEF Activities
  <2>2. i - 1 \in 0..m
    BY <1>1
  <2> QED
    BY <1>1, <1>2, <2>1, <2>2
<1>6. ASSUME NEW h \in Flow
      PROVE  /\ ~disturbed'[h] =>
                  IsActivityInside(activity'[h], base'[h], scopes'[h], Len(scopes'[h]))
             /\ \A i \in DOMAIN scopes'[h] : ~scopes'[h][i].disturbed =>
                  IsActivityInside(scopes'[h][i].previous, base'[h], scopes'[h], i - 1)
  BY <1>1, <1>4, <1>5 DEF Activities
<1> QED
  BY <1>6 DEF Activities

--------------------------------------------------------------------------------
(* The steps.                                                              *)

\* A move keeps the invariant, with the activities and the trace it leaves.
LEMMA MoveInv ==
  ASSUME ScopesInv, NEW f \in Flow, NEW s, Moves(f, s),
         activity' \in [Flow -> Nat], UNCHANGED base,
         own' = own \/ \E o : own' = [own EXCEPT ![f] = o],
         disturbed' \in [Flow -> BOOLEAN], early' \in BOOLEAN,
         Activities', TracedInside'
  PROVE  ScopesInv'
<1>1. own' = [h \in Flow |-> own'[h]]
  BY DEF ScopesInv, ScopeTypes
<1>2. ScopeTypes'
  BY <1>1 DEF ScopesInv, ScopeTypes, Moves, Becomes, Scoped
<1>3. Chained' /\ Nested' /\ Stacks' /\ Kept'
  BY MoveChained, MoveNested, MoveStacks, MoveKept DEF ScopesInv
<1> QED
  BY <1>2, <1>3 DEF ScopesInv

\* The record of a scope that begins.
LEMMA OpenedType ==
  ASSUME ScopeTypes, NEW f \in Flow, NEW kind \in {"activity", "logical", "data"}
  PROVE  LET x == [kind |-> kind, id |-> lastId + 1, previous |-> activity[f],
                   disturbed |-> disturbed[f]]
         IN  /\ x \in Open /\ x.kind = kind /\ x.id = lastId + 1
             /\ x.previous = activity[f] /\ x.disturbed = disturbed[f]
             /\ Opened(f, kind, lastId + 1) = [scopes EXCEPT ![f] = Append(@, x)]
BY DEF ScopeTypes, Open, Opened

\* StartScope, whether or not a listener throws.
LEMMA NewActivityStep ==
  ASSUME ScopesInv, NEW f \in Flow, NEW throws \in BOOLEAN, NewActivityScope(f, throws)
  PROVE  ScopesInv'
<1> USE DEF ScopesInv
<1>1. PICK x \in Open : /\ x.kind = "activity" /\ x.id = lastId + 1
                        /\ x.previous = activity[f] /\ x.disturbed = disturbed[f]
                        /\ Opened(f, "activity", lastId + 1) = [scopes EXCEPT ![f] = Append(@, x)]
  BY OpenedType
<1>2. /\ state[f] = "running" /\ UNCHANGED <<state, caller, own, base, early>>
      /\ lastId' = lastId + 1 /\ lastId \in Nat
      /\ activity' = [activity EXCEPT ![f] = lastId + 1]
      /\ disturbed' = [disturbed EXCEPT ![f] = @ \/ throws]
      /\ scopes' = IF throws THEN scopes ELSE Opened(f, "activity", lastId + 1)
      /\ TracedActivity(lastId + 1, lastId + 1, FALSE)
  BY DEF NewActivityScope, ScopeTypes
<1>3. Seen(f) \in Seq(Nat) /\ Rising(Seen(f), lastId) /\ On(scopes[f], Seen(f))
  BY SeenType DEF Stacks
<1>4. Becomes(f, Seen(f)) /\ Alone(f) /\ owns'[f]
  BY <1>2, <1>3, BecomesCopied DEF NewActivityScope
<1>5. scopes' = scopes \/ scopes' = [scopes EXCEPT ![f] = Append(@, x)]
  BY <1>1, <1>2
<1>6. Scoped(f) /\ On(scopes'[f], Seen(f))
  BY <1>1, <1>2, <1>3, <1>5, Begun
<1>7. ~early' => own' = [own EXCEPT ![f] = Seen(f)]
  <2>1. own = [h \in Flow |-> own[h]]
    BY DEF ScopeTypes
  <2>2. ~early => Seen(f) = own[f]
    BY <1>2 DEF Kept, Live
  <2> QED
    BY <1>2, <2>1, <2>2
<1>8. Moves(f, Seen(f))
  <2>1. Rising(Seen(f), lastId')
    <3>1. lastId' \in Nat /\ lastId \in Nat /\ lastId <= lastId'
      BY <1>2
    <3> QED BY <1>3, <3>1, RisingMore
  <2>2. \A h \in Flow : stackOf[f] # NoFlow /\ stackOf[h] = stackOf[f] => Seen(h) = Seen(f)
    BY DEF Seen
  <2>3. \A h \in Flow : On(scopes[h], Seen(h))
    BY DEF Stacks
  <2> QED
    BY <1>2, <1>3, <1>4, <1>6, <1>7, <2>1, <2>2, <2>3 DEF Moves
<1>9. /\ activity' \in [Flow -> Nat] /\ disturbed' \in [Flow -> BOOLEAN]
      /\ activity'[f] = lastId + 1 /\ disturbed'[f] = (disturbed[f] \/ throws)
      /\ \A h \in Flow \ {f} : activity'[h] = activity[h] /\ disturbed'[h] = disturbed[h]
  BY <1>2 DEF ScopeTypes
<1>10. Activities'
  <2>1. CASE throws
    BY <1>2, <1>9, <2>1 DEF Activities
  <2>2. CASE ~throws
    BY <1>1, <1>2, <1>9, <2>2, BeginActivities
  <2> QED BY <2>1, <2>2
<1>11. TracedInside'
  BY <1>2 DEF TracedActivity, TracedInside
<1> HIDE DEF ScopesInv
<1> QED
  BY <1>2, <1>8, <1>9, <1>10, <1>11, MoveInv DEF ScopesInv, ScopeTypes

\* A push of a new operation.
LEMMA PushMoves ==
  ASSUME ScopesInv, NEW f \in Flow, state[f] = "running", UNCHANGED <<state, caller>>,
         NEW x \in Open, x.id = lastId + 1, lastId' = lastId + 1,
         scopes' = scopes \/ scopes' = [scopes EXCEPT ![f] = Append(@, x)],
         Becomes(f, Append(Seen(f), lastId + 1)),
         own' = [own EXCEPT ![f] = Append(@, lastId + 1)],
         ~early' => ~early /\ Alone(f) /\ owns'[f]
  PROVE  Moves(f, Append(Seen(f), lastId + 1)) /\ Contains(Append(Seen(f), lastId + 1), lastId + 1)
<1> USE DEF ScopesInv
<1> DEFINE s == Append(Seen(f), lastId + 1)
<1>1. lastId \in Nat /\ Seen(f) \in Seq(Nat) /\ Rising(Seen(f), lastId)
  BY SeenType DEF ScopeTypes
<1>2. s \in Seq(Nat) /\ Rising(s, lastId + 1)
  BY <1>1, RisingPush
<1>3. Contains(s, lastId + 1) /\ \A y : Contains(Seen(f), y) => Contains(s, y)
  BY <1>1, PushContains
<1> HIDE DEF s
<1>4. \A h \in Flow : On(scopes[h], Seen(f)) => On(scopes[h], s)
  BY <1>3 DEF On
<1>5. On(scopes[f], s)
  BY <1>4 DEF Stacks
<1>6. Scoped(f) /\ On(scopes'[f], s)
  BY <1>3, <1>5, Begun
<1>7. \A h \in Flow : stackOf[f] # NoFlow /\ stackOf[h] = stackOf[f] => On(scopes[h], Seen(f))
  BY DEF Seen, Stacks
<1>8. ~early => own' = [own EXCEPT ![f] = s]
  <2>1. ~early => Seen(f) = own[f]
    BY DEF Kept, Live
  <2> QED
    BY <2>1 DEF s
<1> QED
  BY <1>2, <1>3, <1>4, <1>6, <1>7, <1>8 DEF Moves, s

\* The constructor of LogicalOperationScope.
LEMMA NewLogicalStep ==
  ASSUME ScopesInv, NEW f \in Flow, NEW throws \in BOOLEAN, NewLogicalOperationScope(f, throws)
  PROVE  ScopesInv'
<1> DEFINE s == Append(Seen(f), lastId + 1)
<1>1. ScopeTypes /\ Chained /\ Nested /\ Stacks /\ Kept /\ Activities
  BY DEF ScopesInv
<1>2. PICK x \in Open : /\ x.kind = "logical" /\ x.id = lastId + 1
                        /\ x.previous = activity[f] /\ x.disturbed = disturbed[f]
                        /\ Opened(f, "logical", lastId + 1) = [scopes EXCEPT ![f] = Append(@, x)]
  BY <1>1, OpenedType
<1>3. /\ state[f] = "running" /\ UNCHANGED <<state, caller, activity, base, disturbed, early>>
      /\ lastId' = lastId + 1
      /\ scopes' = IF throws THEN scopes ELSE [scopes EXCEPT ![f] = Append(@, x)]
      /\ CopyAndPut(f, s) /\ TracedStack(lastId + 1, s)
      /\ own' = [own EXCEPT ![f] = Append(@, lastId + 1)]
  BY <1>2 DEF NewLogicalOperationScope
<1>4. s \in Seq(Nat)
  <2>1. lastId + 1 \in Nat /\ Seen(f) \in Seq(Nat)
    BY <1>1, SeenType DEF ScopeTypes
  <2> QED BY <2>1, AppendProperties
<1>5. Becomes(f, s) /\ Alone(f) /\ owns'[f]
  BY <1>1, <1>3, <1>4, BecomesCopied DEF CopyAndPut
<1>6. Moves(f, s) /\ Contains(s, lastId + 1)
  BY <1>2, <1>3, <1>5, PushMoves
<1> HIDE DEF s
<1>7. Activities'
  <2>1. CASE throws
    BY <1>1, <1>3, <2>1 DEF Activities
  <2>2. CASE ~throws
    BY <1>1, <1>2, <1>3, <2>2, BeginActivities
  <2> QED BY <2>1, <2>2
<1>8. TracedInside'
  BY <1>3, <1>6 DEF TracedStack, TracedInside
<1> QED
  BY <1>1, <1>3, <1>6, <1>7, <1>8, MoveInv DEF ScopeTypes

\* The constructor of StructuredDataScope.
LEMMA NewDataStep ==
  ASSUME ScopesInv, NEW f \in Flow, NewStructuredDataScope(f)
  PROVE  ScopesInv'
<1> DEFINE s == Append(Seen(f), lastId + 1)
<1>1. ScopeTypes /\ Chained /\ Nested /\ Stacks /\ Kept /\ Activities /\ TracedInside
  BY DEF ScopesInv
<1>2. PICK x \in Open : /\ x.kind = "data" /\ x.id = lastId + 1
                        /\ x.previous = activity[f] /\ x.disturbed = disturbed[f]
                        /\ Opened(f, "data", lastId + 1) = [scopes EXCEPT ![f] = Append(@, x)]
  BY <1>1, OpenedType
<1>3. /\ state[f] = "running" /\ UNCHANGED <<state, caller, activity, trace, base, disturbed>>
      /\ lastId' = lastId + 1 /\ early' = (early \/ Shares(f))
      /\ scopes' = [scopes EXCEPT ![f] = Append(@, x)] /\ Put(f, s)
      /\ own' = [own EXCEPT ![f] = Append(@, lastId + 1)]
  BY <1>2 DEF NewStructuredDataScope
<1>4. s \in Seq(Nat)
  <2>1. lastId + 1 \in Nat /\ Seen(f) \in Seq(Nat)
    BY <1>1, SeenType DEF ScopeTypes
  <2> QED BY <2>1, AppendProperties
<1>5. Becomes(f, s) /\ (~Shares(f) => Alone(f) /\ owns'[f])
  BY <1>1, <1>3, <1>4, BecomesPut
<1>6. Moves(f, s)
  BY <1>2, <1>3, <1>5, PushMoves
<1> HIDE DEF s
<1>7. Activities'
  BY <1>1, <1>2, <1>3, BeginActivities
<1>8. TracedInside'
  BY <1>1, <1>3 DEF TracedInside
<1>9. early' \in BOOLEAN
  BY <1>1, <1>3 DEF ScopeTypes, Shares
<1> QED
  BY <1>1, <1>3, <1>6, <1>7, <1>8, <1>9, MoveInv DEF ScopeTypes

\* StopScope.
LEMMA StopStep ==
  ASSUME ScopesInv, NEW f \in Flow, NEW throws \in BOOLEAN, StopScope(f, throws)
  PROVE  ScopesInv'
<1> DEFINE x == Last(scopes[f])
<1>1. ScopeTypes /\ Chained /\ Nested /\ Stacks /\ Kept /\ Activities
  BY DEF ScopesInv
<1>2. /\ state[f] = "running" /\ scopes[f] # <<>> /\ x.kind = "activity"
      /\ scopes' = [scopes EXCEPT ![f] = Front(@)]
      /\ UNCHANGED <<state, caller, owns, stackOf, stack, lastId, own, base, early>>
      /\ TracedActivity(x.id, activity[f], disturbed[f])
      /\ activity' = [activity EXCEPT ![f] = IF throws THEN @ ELSE x.previous]
      /\ disturbed' = [disturbed EXCEPT ![f] = IF throws THEN TRUE ELSE x.disturbed]
  BY DEF StopScope, Innermost
<1>3. Seen(f) \in Seq(Nat) /\ Rising(Seen(f), lastId) /\ On(scopes[f], Seen(f))
  BY <1>1, SeenType DEF Stacks
<1>4. Becomes(f, Seen(f)) /\ Alone(f)
  BY <1>1, <1>2, BecomesSame
<1>5. Scoped(f) /\ On(scopes'[f], Seen(f))
  BY <1>1, <1>2, <1>3, Ended
<1>6. ~early => owns[f] /\ own' = [own EXCEPT ![f] = Seen(f)]
  <2>1. own = [h \in Flow |-> own[h]]
    BY <1>1 DEF ScopeTypes
  <2>2. ~early => Seen(f) = own[f] /\ owns[f]
    BY <1>1, <1>2 DEF Kept, Live
  <2> QED
    BY <1>2, <2>1, <2>2
<1>7. Moves(f, Seen(f))
  <2>1. \A h \in Flow : stackOf[f] # NoFlow /\ stackOf[h] = stackOf[f] => On(scopes[h], Seen(f))
    BY <1>1 DEF Seen, Stacks
  <2> QED
    BY <1>2, <1>3, <1>4, <1>5, <1>6, <2>1 DEF Moves
<1>8. /\ x \in Open /\ Len(scopes[f]) \in Nat /\ Len(scopes[f]) >= 1
      /\ x = scopes[f][Len(scopes[f])]
  BY <1>1, <1>2, EndFacts
<1> HIDE DEF x
<1>9. /\ activity' \in [Flow -> Nat] /\ disturbed' \in [Flow -> BOOLEAN]
      /\ activity'[f] = (IF throws THEN activity[f] ELSE x.previous)
      /\ disturbed'[f] = (IF throws THEN TRUE ELSE x.disturbed)
      /\ \A h \in Flow \ {f} : activity'[h] = activity[h] /\ disturbed'[h] = disturbed[h]
  BY <1>1, <1>2, <1>8 DEF ScopeTypes, Open
<1>10. Activities'
  BY <1>1, <1>2, <1>9, EndActivities DEF x
<1>11. TracedInside'
  <2>1. ~disturbed[f] => IsActivityInside(activity[f], base[f], scopes[f], Len(scopes[f]))
    BY <1>1 DEF Activities
  <2>2. PICK m \in Nat : Len(scopes[f]) = m + 1
    <3>1. Len(scopes[f]) - 1 \in Nat /\ Len(scopes[f]) = (Len(scopes[f]) - 1) + 1
      BY <1>8
    <3> QED BY <3>1
  <2>3. ~disturbed[f] => activity[f] = x.id
    BY <1>2, <1>8, <2>1, <2>2, InsideActivity
  <2> QED
    BY <1>2, <2>3 DEF TracedActivity, TracedInside
<1> QED
  BY <1>1, <1>2, <1>7, <1>9, <1>10, <1>11, MoveInv DEF ScopeTypes

\* A pop of the operation of the innermost scope.
LEMMA PopMoves ==
  ASSUME ScopesInv, NEW f \in Flow, Innermost(f, "logical") \/ Innermost(f, "data"),
         UNCHANGED <<state, caller, lastId, early>>,
         scopes' = [scopes EXCEPT ![f] = Front(@)],
         Put(f, Front(Seen(f))), own' = [own EXCEPT ![f] = Front(@)]
  PROVE  Moves(f, Front(Seen(f)))
<1> DEFINE s == Front(Seen(f))
<1>1. ScopeTypes /\ Chained /\ Nested /\ Stacks /\ Kept
  BY DEF ScopesInv
<1>2. state[f] = "running" /\ scopes[f] # <<>>
  BY DEF Innermost
<1>3. /\ s \in Seq(Nat) /\ Rising(s, lastId) /\ On(scopes'[f], s)
      /\ \A h \in Flow \ {f} : Live(h) /\ stackOf[f] # NoFlow /\ stackOf[h] = stackOf[f]
                               => On(scopes[h], s)
  BY <1>1, Popped
<1>4. Becomes(f, s) /\ (~Shares(f) => Alone(f) /\ owns'[f])
  BY <1>1, <1>2, <1>3, BecomesPut
<1>5. Scoped(f)
  BY <1>1, <1>2, Ended DEF Stacks
<1>6. ~early => ~Shares(f) /\ own' = [own EXCEPT ![f] = s]
  <2>1. ~early => Seen(f) = own[f] /\ owns[f]
    BY <1>1, <1>2 DEF Kept, Live
  <2> QED
    BY <2>1 DEF Shares
<1> QED
  BY <1>2, <1>3, <1>4, <1>5, <1>6 DEF Moves

\* Dispose of LogicalOperationScope.
LEMMA DisposeLogicalStep ==
  ASSUME ScopesInv, NEW f \in Flow, NEW throws \in BOOLEAN, DisposeLogicalOperation(f, throws)
  PROVE  ScopesInv'
<1> DEFINE x == Last(scopes[f])
<1>1. ScopeTypes /\ Chained /\ Nested /\ Stacks /\ Kept /\ Activities
  BY DEF ScopesInv
<1>2. /\ Innermost(f, "logical") /\ state[f] = "running" /\ scopes[f] # <<>> /\ x.kind = "logical"
      /\ scopes' = [scopes EXCEPT ![f] = Front(@)] /\ TracedStack(x.id, Seen(f))
      /\ UNCHANGED <<state, caller, activity, lastId, base, disturbed, early>>
      /\ throws => UNCHANGED <<owns, stackOf, stack, own>>
      /\ ~throws => Put(f, Front(Seen(f))) /\ own' = [own EXCEPT ![f] = Front(@)]
  BY DEF DisposeLogicalOperation, Innermost
<1>3. Contains(Seen(f), x.id)
  BY <1>1, <1>2, Popped
<1>4. Activities'
  BY <1>1, <1>2, EndActivities
<1>5. TracedInside'
  BY <1>2, <1>3 DEF TracedStack, TracedInside
<1>6. CASE throws
  <2>1. Seen(f) \in Seq(Nat) /\ Rising(Seen(f), lastId) /\ On(scopes[f], Seen(f))
    BY <1>1, SeenType DEF Stacks
  <2>2. Becomes(f, Seen(f)) /\ Alone(f)
    BY <1>1, <1>2, <1>6, BecomesSame
  <2>3. Scoped(f) /\ On(scopes'[f], Seen(f))
    BY <1>1, <1>2, <2>1, Ended
  <2>4. ~early => owns[f] /\ own' = [own EXCEPT ![f] = Seen(f)]
    <3>1. own = [h \in Flow |-> own[h]]
      BY <1>1 DEF ScopeTypes
    <3>2. ~early => Seen(f) = own[f] /\ owns[f]
      BY <1>1, <1>2 DEF Kept, Live
    <3> QED
      BY <1>2, <1>6, <3>1, <3>2
  <2>5. \A h \in Flow : stackOf[f] # NoFlow /\ stackOf[h] = stackOf[f] => On(scopes[h], Seen(f))
    BY <1>1 DEF Seen, Stacks
  <2>6. Moves(f, Seen(f))
    BY <1>2, <1>6, <2>1, <2>2, <2>3, <2>4, <2>5 DEF Moves
  <2> QED
    BY <1>1, <1>2, <1>4, <1>5, <1>6, <2>6, MoveInv DEF ScopeTypes
<1>7. CASE ~throws
  <2>1. Moves(f, Front(Seen(f)))
    BY <1>2, <1>7, PopMoves
  <2>2. \E o : own' = [own EXCEPT ![f] = o]
    BY <1>2, <1>7
  <2> QED
    BY <1>1, <1>2, <1>4, <1>5, <2>1, <2>2, MoveInv DEF ScopeTypes
<1> QED
  BY <1>6, <1>7

\* Dispose of StructuredDataScope.
LEMMA DisposeDataStep ==
  ASSUME ScopesInv, NEW f \in Flow, DisposeStructuredData(f)
  PROVE  ScopesInv'
<1>1. ScopeTypes /\ Activities /\ TracedInside
  BY DEF ScopesInv
<1>2. /\ Innermost(f, "data") /\ scopes[f] # <<>> /\ Last(scopes[f]).kind = "data"
      /\ scopes' = [scopes EXCEPT ![f] = Front(@)] /\ Put(f, Front(Seen(f)))
      /\ own' = [own EXCEPT ![f] = Front(@)]
      /\ UNCHANGED <<state, caller, activity, lastId, trace, base, disturbed, early>>
  BY DEF DisposeStructuredData, Innermost
<1>3. Moves(f, Front(Seen(f)))
  BY <1>2, PopMoves
<1>4. Activities'
  BY <1>1, <1>2, EndActivities
<1>5. TracedInside'
  BY <1>1, <1>2 DEF TracedInside
<1>6. \E o : own' = [own EXCEPT ![f] = o]
  BY <1>2
<1> QED
  BY <1>1, <1>2, <1>3, <1>4, <1>5, <1>6, MoveInv DEF ScopeTypes

\* A call puts the flow that is called at the end of the chain of its caller.
LEMMA CallStep ==
  ASSUME ScopesInv, NEW f \in Flow, NEW g \in Flow, Call(f, g)
  PROVE  ScopesInv'
<1>1. ScopeTypes /\ Chained /\ Nested /\ Stacks /\ Kept /\ Activities /\ TracedInside
  BY DEF ScopesInv
<1>2. /\ state[f] = "running" /\ state[g] = "unborn" /\ f # g
      /\ state' = [state EXCEPT ![f] = "calling", ![g] = "running"]
      /\ caller' = [caller EXCEPT ![g] = f] /\ stackOf' = [stackOf EXCEPT ![g] = stackOf[f]]
      /\ activity' = [activity EXCEPT ![g] = activity[f]] /\ own' = [own EXCEPT ![g] = own[f]]
      /\ base' = [base EXCEPT ![g] = activity[f]]
      /\ UNCHANGED <<owns, stack, scopes, lastId, trace, disturbed, early>>
  BY DEF Call
<1>3. /\ state'[f] = "calling" /\ state'[g] = "running"
      /\ \A h \in Flow \ {f, g} : state'[h] = state[h]
      /\ caller'[g] = f /\ \A h \in Flow \ {g} : caller'[h] = caller[h]
      /\ stackOf'[g] = stackOf[f] /\ \A h \in Flow \ {g} : stackOf'[h] = stackOf[h]
      /\ activity'[g] = activity[f] /\ base'[g] = activity[f]
      /\ \A h \in Flow \ {g} : activity'[h] = activity[h] /\ base'[h] = base[h]
      /\ own'[g] = own[f] /\ \A h \in Flow \ {g} : own'[h] = own[h]
  BY <1>1, <1>2 DEF ScopeTypes
<1>4. ScopeTypes'
  <2>1. own' = [h \in Flow |-> own'[h]]
    BY <1>1, <1>2 DEF ScopeTypes
  <2> QED
    BY <1>1, <1>2, <2>1 DEF ScopeTypes
<1>5. scopes[g] = <<>>
  BY <1>1, <1>2 DEF Nested, Live
<1>6. Chained'
  <2>1. PICK R \in [Flow -> SUBSET Flow] : Chain(R) /\ Shared(R) /\ Older(R)
    BY <1>1 DEF Chained
  <2> DEFINE Q == [x \in Flow |-> IF x = f \/ f \in R[x] THEN R[x] \cup {g} ELSE R[x]]
  <2>2. Q \in [Flow -> SUBSET Flow]
    OBVIOUS
  <2>3. \A x, y \in Flow : y \in Q[x] <=> y \in R[x] \/ (y = g /\ (x = f \/ f \in R[x]))
    OBVIOUS
  <2>4. \A x \in Flow : g \notin R[x] /\ x \notin R[g] /\ x \notin R[f]
    BY <1>2, <2>1 DEF Chain, Live
  <2> HIDE DEF Q
  <2>5. Chain(Q)'
    <3>1. \A x, y \in Flow : y \in Q[x] => state'[x] = "calling" /\ Live(y)' /\ x # y
      <4>1. SUFFICES ASSUME NEW x \in Flow, NEW y \in Flow, y \in Q[x]
                     PROVE  state'[x] = "calling" /\ Live(y)' /\ x # y
        OBVIOUS
      <4>2. CASE y \in R[x]
        <5>1. state[x] = "calling" /\ Live(y) /\ x # y
          BY <2>1, <4>2 DEF Chain
        <5> QED
          BY <1>2, <1>3, <5>1 DEF Live
      <4>3. CASE y = g /\ (x = f \/ f \in R[x])
        <5>1. x = f \/ state[x] = "calling"
          BY <2>1, <4>3 DEF Chain
        <5> QED
          BY <1>2, <1>3, <4>3, <5>1, ZenonT(30) DEF Live
      <4> QED
        BY <2>3, <4>1, <4>2, <4>3
    <3>2. \A x, y, z \in Flow : y \in Q[x] /\ z \in Q[y] => z \in Q[x]
      BY <1>2, <2>1, <2>3, <2>4 DEF Chain
    <3>3. \A x, y, z \in Flow : y \in Q[x] /\ z \in Q[x]
                                => y = z \/ z \in Q[y] \/ y \in Q[z]
      BY <1>2, <2>1, <2>3, <2>4 DEF Chain
    <3>4. ASSUME NEW h \in Flow, caller'[h] # NoFlow
          PROVE  /\ h \in Q[caller'[h]]
                 /\ \A x \in Flow : h \in Q[x] => x = caller'[h] \/ caller'[h] \in Q[x]
      <4>1. CASE h = g
        BY <1>2, <1>3, <2>3, <2>4, <4>1
      <4>2. CASE h # g
        <5>1. caller'[h] = caller[h] /\ caller[h] \in Flow
          BY <1>1, <1>3, <3>4, <4>2 DEF ScopeTypes
        <5>2. h \in R[caller[h]] /\ \A x \in Flow : h \in R[x] => x = caller[h] \/ caller[h] \in R[x]
          BY <2>1, <3>4, <5>1 DEF Chain
        <5> QED
          BY <2>3, <4>2, <5>1, <5>2
      <4> QED BY <4>1, <4>2
    <3> QED
      BY <3>1, <3>2, <3>3, <3>4 DEF Chain
  <2>6. Shared(Q)'
    <3>1. SUFFICES ASSUME NEW c \in Flow, NEW h \in Flow, Live(h)', stackOf'[h] = c, h # c
                   PROVE  h \in Q[c]
      BY DEF Shared
    <3>2. CASE h = g
      <4>1. stackOf[f] = c /\ Live(f)
        BY <1>2, <1>3, <3>1, <3>2 DEF Live
      <4> QED
        BY <2>1, <2>3, <3>1, <3>2, <4>1 DEF Shared
    <3>3. CASE h # g
      <4>1. stackOf[h] = c /\ Live(h)
        BY <1>2, <1>3, <3>1, <3>3 DEF Live
      <4> QED
        BY <2>1, <2>3, <3>1, <4>1 DEF Shared
    <3> QED BY <3>2, <3>3
  <2>7. Older(Q)'
    BY <1>2, <1>5, <2>1, <2>3 DEF Older
  <2> QED
    BY <2>2, <2>5, <2>6, <2>7 DEF Chained
<1>7. Nested'
  BY <1>1, <1>2, <1>3, <1>5 DEF Nested, Live
<1>8. \A h \in Flow \ {g} : Seen(h)' = Seen(h)
  BY <1>2, <1>3 DEF Seen
<1>9. Seen(g)' = Seen(f)
  BY <1>2, <1>3 DEF Seen
<1>10. Stacks'
  <2>1. \A h \in Flow : Rising(stack'[h], lastId')
    BY <1>1, <1>2 DEF Stacks
  <2>2. ASSUME NEW h \in Flow PROVE On(scopes'[h], Seen(h)')
    <3>1. CASE h = g
      BY <1>2, <1>5, <3>1 DEF On
    <3>2. CASE h # g
      BY <1>1, <1>2, <1>8, <3>2 DEF Stacks
    <3> QED BY <3>1, <3>2
  <2> QED
    BY <2>1, <2>2 DEF Stacks
<1>11. Kept'
  <2>1. ASSUME NEW h \in Flow, owns'[h]
        PROVE  stackOf'[h] \in {h, NoFlow} /\ state'[h] # "unborn"
    <3>1. owns[h]
      BY <1>2, <2>1
    <3>2. stackOf[h] \in {h, NoFlow} /\ state[h] # "unborn"
      BY <1>1, <3>1 DEF Kept
    <3>3. h # g
      BY <1>2, <3>2
    <3>4. stackOf'[h] = stackOf[h] /\ (h = f \/ state'[h] = state[h])
      BY <1>3, <3>3
    <3> QED
      BY <1>3, <3>2, <3>4
  <2>2. ASSUME ~early', NEW h \in Flow
        PROVE  (~owns'[h] => scopes'[h] = <<>>) /\ (Live(h)' => Seen(h)' = own'[h])
    <3>1. CASE h = g
      BY <1>1, <1>2, <1>3, <1>5, <1>9, <2>2, <3>1 DEF Kept, Live
    <3>2. CASE h # g
      BY <1>1, <1>2, <1>3, <1>8, <2>2, <3>2, ZenonT(30) DEF Kept, Live
    <3> QED BY <3>1, <3>2
  <2> QED
    BY <2>1, <2>2 DEF Kept
<1>12. Activities'
  <2>1. ASSUME NEW h \in Flow
        PROVE  /\ ~disturbed'[h] =>
                    IsActivityInside(activity'[h], base'[h], scopes'[h], Len(scopes'[h]))
               /\ \A i \in DOMAIN scopes'[h] : ~scopes'[h][i].disturbed =>
                    IsActivityInside(scopes'[h][i].previous, base'[h], scopes'[h], i - 1)
    <3>1. CASE h = g
      BY <1>2, <1>3, <1>5, <3>1 DEF IsActivityInside
    <3>2. CASE h # g
      BY <1>1, <1>2, <1>3, <3>2 DEF Activities
    <3> QED BY <3>1, <3>2
  <2> QED
    BY <2>1 DEF Activities
<1>13. TracedInside'
  BY <1>1, <1>2 DEF TracedInside
<1> QED
  BY <1>4, <1>6, <1>7, <1>10, <1>11, <1>12, <1>13 DEF ScopesInv

\* The last of a chain leaves it.
LEMMA LeaveChained ==
  ASSUME ScopeTypes, Chained, NEW g \in Flow, NEW live \in {"running", "ended"},
         state[g] = "running", state' = Resume(g, live), caller' = [caller EXCEPT ![g] = NoFlow],
         live = "running" => caller[g] # NoFlow /\ stackOf'[g] \in {g, NoFlow},
         \A h \in Flow \ {g} : stackOf'[h] = stackOf[h], UNCHANGED scopes
  PROVE  Chained'
<1>1. PICK R \in [Flow -> SUBSET Flow] : Chain(R) /\ Shared(R) /\ Older(R)
  BY DEF Chained
<1> DEFINE Q == [x \in Flow |-> R[x] \ {g}]
           c == caller[g]
<1>2. Q \in [Flow -> SUBSET Flow]
  OBVIOUS
<1>3. \A x, y \in Flow : y \in Q[x] <=> y \in R[x] /\ y # g
  OBVIOUS
<1>4. \A x \in Flow : x \notin R[g]
  BY <1>1 DEF Chain
<1> HIDE DEF Q
<1>5. /\ caller'[g] = NoFlow /\ \A h \in Flow \ {g} : caller'[h] = caller[h]
      /\ state'[g] = live
      /\ \A h \in Flow \ {g} : state'[h] = state[h] \/ (h = c /\ state'[h] = "running")
  <2>1. CASE c = NoFlow
    BY <2>1 DEF ScopeTypes, Resume
  <2>2. CASE c # NoFlow
    <3>1. c \in Flow /\ g \in R[c]
      BY <1>1, <2>2 DEF ScopeTypes, Chain
    <3>2. c # g
      BY <1>4, <3>1
    <3> QED
      BY <2>2, <3>1, <3>2 DEF ScopeTypes, Resume
  <2> QED BY <2>1, <2>2
\* Nobody else was called by the caller, which goes on.
<1>6. c \in Flow => \A y \in Flow : y \notin Q[c]
  <2>1. SUFFICES ASSUME c \in Flow, NEW y \in Flow, y \in R[c], y # g
                 PROVE  FALSE
    BY <1>3
  <2>2. g \in R[c] /\ \A x \in Flow : g \in R[x] => x = c \/ c \in R[x]
    BY <1>1, <2>1, ScopesAssumption DEF Chain
  <2>3. g \in R[y]
    BY <1>1, <1>4, <2>1, <2>2 DEF Chain
  <2>4. y # c /\ c \notin R[c]
    BY <1>1, <2>1 DEF Chain
  <2>5. c \in R[y]
    BY <2>1, <2>2, <2>3, <2>4
  <2> QED
    BY <1>1, <2>1, <2>4, <2>5 DEF Chain
<1>7. Chain(Q)'
  <2>1. ASSUME NEW x \in Flow, NEW y \in Flow, y \in Q[x]
        PROVE  state'[x] = "calling" /\ Live(y)' /\ x # y
    <3>1. y \in R[x] /\ y # g /\ x # c /\ x # g
      BY <1>3, <1>4, <1>6, <2>1
    <3>2. state[x] = "calling" /\ Live(y) /\ x # y
      BY <1>1, <3>1 DEF Chain
    <3> QED
      BY <1>5, <3>1, <3>2 DEF Live
  <2>2. \A x, y, z \in Flow : y \in Q[x] /\ z \in Q[y] => z \in Q[x]
    BY <1>1, <1>3 DEF Chain
  <2>3. \A x, y, z \in Flow : y \in Q[x] /\ z \in Q[x] => y = z \/ z \in Q[y] \/ y \in Q[z]
    BY <1>1, <1>3 DEF Chain
  <2>4. ASSUME NEW h \in Flow, caller'[h] # NoFlow
        PROVE  /\ h \in Q[caller'[h]]
               /\ \A x \in Flow : h \in Q[x] => x = caller'[h] \/ caller'[h] \in Q[x]
    <3>1. h # g /\ caller'[h] = caller[h] /\ caller[h] \in Flow
      BY <1>5, <2>4 DEF ScopeTypes
    <3>2. h \in R[caller[h]] /\ \A x \in Flow : h \in R[x] => x = caller[h] \/ caller[h] \in R[x]
      BY <1>1, <2>4, <3>1 DEF Chain
    <3>3. caller[h] # g
      BY <1>4, <3>2
    <3> QED
      BY <1>3, <3>1, <3>2, <3>3
  <2> QED
    BY <2>1, <2>2, <2>3, <2>4 DEF Chain
<1>8. Shared(Q)'
  <2>1. SUFFICES ASSUME NEW k \in Flow, NEW h \in Flow, Live(h)', stackOf'[h] = k, h # k
                 PROVE  h \in Q[k]
    BY DEF Shared
  <2>2. h # g
    BY <1>5, <2>1, ScopesAssumption DEF Live
  <2>3. Live(h) /\ stackOf[h] = k
    <3>1. c \in Flow => Live(c)
      BY <1>1, ScopesAssumption DEF Chain, Live
    <3> QED
      BY <1>5, <2>1, <2>2, <3>1 DEF Live
  <2> QED
    BY <1>1, <1>3, <2>1, <2>2, <2>3 DEF Shared
<1>9. Older(Q)'
  <2>1. SUFFICES ASSUME NEW x \in Flow, NEW y \in Flow, y \in Q[x]
                 PROVE  \A i \in DOMAIN scopes[x], j \in DOMAIN scopes[y] :
                          scopes[x][i].id < scopes[y][j].id
    BY DEF Older
  <2> QED
    BY <1>1, <1>3, <2>1 DEF Older
<1> QED
  BY <1>2, <1>7, <1>8, <1>9 DEF Chained

\* Nobody but g and its caller is another than before.
LEMMA ResumeFacts ==
  ASSUME ScopeTypes, Chained, NEW g \in Flow, NEW live \in {"running", "ended"},
         state[g] = "running", state' = Resume(g, live), caller' = [caller EXCEPT ![g] = NoFlow]
  PROVE  /\ state' \in [Flow -> {"unborn", "running", "calling", "ended"}]
         /\ caller' \in [Flow -> Flow \cup {NoFlow}]
         /\ state'[g] = live
         /\ \A h \in Flow \ {g} : (Live(h)' <=> Live(h)) /\ (state'[h] = "unborn" <=> state[h] = "unborn")
<1>1. PICK R \in [Flow -> SUBSET Flow] : Chain(R)
  BY DEF Chained
<1>2. caller' \in [Flow -> Flow \cup {NoFlow}]
  BY DEF ScopeTypes
<1>3. CASE caller[g] = NoFlow
  BY <1>2, <1>3 DEF ScopeTypes, Resume, Live
<1>4. CASE caller[g] # NoFlow
  <2>1. caller[g] \in Flow /\ state[caller[g]] = "calling"
    BY <1>1, <1>4 DEF ScopeTypes, Chain
  <2>2. /\ state' \in [Flow -> {"unborn", "running", "calling", "ended"}]
        /\ state'[g] = live /\ state'[caller[g]] = "running"
        /\ \A h \in Flow : h # g /\ h # caller[g] => state'[h] = state[h]
    BY <1>4, <2>1 DEF ScopeTypes, Resume
  <2> QED
    BY <1>2, <2>1, <2>2 DEF Live
<1> QED
  BY <1>3, <1>4

\* The first await of a method.
LEMMA FirstAwaitStep ==
  ASSUME ScopesInv, NEW g \in Flow, FirstAwait(g)
  PROVE  ScopesInv'
<1>1. ScopeTypes /\ Chained /\ Nested /\ Stacks /\ Kept /\ Activities /\ TracedInside
  BY DEF ScopesInv
<1>2. /\ state[g] = "running" /\ caller[g] # NoFlow /\ state' = Resume(g, "running")
      /\ caller' = [caller EXCEPT ![g] = NoFlow] /\ owns' = [owns EXCEPT ![g] = TRUE]
      /\ stack' = [stack EXCEPT ![g] = Seen(g)]
      /\ stackOf' = [stackOf EXCEPT ![g] = IF @ = NoFlow THEN NoFlow ELSE g]
      /\ UNCHANGED <<activity, scopes, lastId, trace, own, base, disturbed, early>>
  BY DEF FirstAwait, history
<1>3. Seen(g) \in Seq(Nat) /\ Rising(Seen(g), lastId)
  BY <1>1, SeenType
<1>4. Becomes(g, Seen(g)) /\ Alone(g) /\ owns'[g]
  BY <1>1, <1>2, <1>3, BecomesCopied
<1>5. /\ state' \in [Flow -> {"unborn", "running", "calling", "ended"}]
      /\ caller' \in [Flow -> Flow \cup {NoFlow}] /\ state'[g] = "running"
      /\ \A h \in Flow \ {g} : (Live(h)' <=> Live(h)) /\ (state'[h] = "unborn" <=> state[h] = "unborn")
  BY <1>1, <1>2, ResumeFacts
<1>6. Live(g) /\ Live(g)'
  BY <1>2, <1>5 DEF Live
<1>7. ScopeTypes'
  BY <1>1, <1>2, <1>4, <1>5 DEF ScopeTypes, Becomes
<1>8. Chained'
  <2>1. stackOf'[g] \in {g, NoFlow} /\ \A h \in Flow \ {g} : stackOf'[h] = stackOf[h]
    BY <1>4 DEF Becomes
  <2> QED
    BY <1>1, <1>2, <2>1, LeaveChained
<1>9. Nested'
  BY <1>1, <1>2, <1>5, <1>6 DEF Nested
<1>10. \A h \in Flow : Live(h) => Seen(h)' = Seen(h)
  BY <1>4 DEF Becomes, Alone
<1>11. Stacks'
  <2>1. \A h \in Flow : Rising(stack'[h], lastId')
    BY <1>1, <1>2, <1>3, <1>4 DEF Stacks, Becomes
  <2>2. ASSUME NEW h \in Flow
        PROVE  On(scopes'[h], Seen(h)')
    <3>1. CASE Live(h)
      BY <1>1, <1>2, <1>10, <3>1 DEF Stacks
    <3>2. CASE ~Live(h)
      BY <1>1, <1>2, <3>2 DEF Nested, On
    <3> QED BY <3>1, <3>2
  <2> QED
    BY <2>1, <2>2 DEF Stacks
<1>12. Kept'
  <2>1. ASSUME NEW h \in Flow, owns'[h]
        PROVE  stackOf'[h] \in {h, NoFlow} /\ state'[h] # "unborn"
    <3>1. CASE h = g
      BY <1>4, <1>5, <3>1 DEF Becomes
    <3>2. CASE h # g
      BY <1>1, <1>4, <1>5, <2>1, <3>2 DEF Becomes, Kept
    <3> QED BY <3>1, <3>2
  <2>2. ASSUME ~early', NEW h \in Flow
        PROVE  (~owns'[h] => scopes'[h] = <<>>) /\ (Live(h)' => Seen(h)' = own'[h])
    <3>1. (Live(h)' <=> Live(h)) /\ (owns[h] => owns'[h])
      BY <1>4, <1>5, <1>6 DEF Becomes
    <3> QED
      BY <1>1, <1>2, <1>10, <2>2, <3>1 DEF Kept
  <2> QED
    BY <2>1, <2>2 DEF Kept
<1>13. Activities' /\ TracedInside'
  BY <1>1, <1>2 DEF Activities, TracedInside
<1> QED
  BY <1>7, <1>8, <1>9, <1>11, <1>12, <1>13 DEF ScopesInv

\* The end of a method.
LEMMA ReturnStep ==
  ASSUME ScopesInv, NEW g \in Flow, Return(g)
  PROVE  ScopesInv'
<1>1. ScopeTypes /\ Chained /\ Nested /\ Stacks /\ Kept /\ Activities /\ TracedInside
  BY DEF ScopesInv
<1>2. /\ state[g] = "running" /\ scopes[g] = <<>> /\ state' = Resume(g, "ended")
      /\ caller' = [caller EXCEPT ![g] = NoFlow]
      /\ UNCHANGED <<owns, stackOf, stack, activity, scopes, lastId, trace, own, base, disturbed, early>>
  BY DEF Return, history
<1>3. /\ state' \in [Flow -> {"unborn", "running", "calling", "ended"}]
      /\ caller' \in [Flow -> Flow \cup {NoFlow}] /\ state'[g] = "ended"
      /\ \A h \in Flow \ {g} : (Live(h)' <=> Live(h)) /\ (state'[h] = "unborn" <=> state[h] = "unborn")
  BY <1>1, <1>2, ResumeFacts
<1>4. \A h \in Flow : Seen(h)' = Seen(h) /\ (Live(h)' => Live(h))
  BY <1>2, <1>3 DEF Seen, Live
<1>5. ScopeTypes'
  BY <1>1, <1>2, <1>3 DEF ScopeTypes
<1>6. Chained'
  BY <1>1, <1>2, LeaveChained
<1>7. Nested'
  BY <1>1, <1>2, <1>3 DEF Nested
<1>8. Stacks'
  BY <1>1, <1>2, <1>4 DEF Stacks
<1>9. Kept'
  BY <1>1, <1>2, <1>3, <1>4 DEF Kept
<1>10. Activities' /\ TracedInside'
  BY <1>1, <1>2 DEF Activities, TracedInside
<1> QED
  BY <1>5, <1>6, <1>7, <1>8, <1>9, <1>10 DEF ScopesInv

\* The invariant holds at first.
LEMMA InitScopes == ScopesInit => ScopesInv
<1> SUFFICES ASSUME ScopesInit PROVE ScopesInv
  OBVIOUS
<1> USE ScopesAssumption DEF ScopesInit
<1>1. ScopeTypes
  BY EmptySeq DEF ScopeTypes
<1>2. Chained
  <2>1. [f \in Flow |-> {}] \in [Flow -> SUBSET Flow]
    OBVIOUS
  <2>2. Chain([f \in Flow |-> {}]) /\ Shared([f \in Flow |-> {}]) /\ Older([f \in Flow |-> {}])
    BY DEF Chain, Shared, Older
  <2> QED
    BY <2>1, <2>2 DEF Chained
<1>3. Nested /\ Stacks /\ Kept
  <2>1. \A f \in Flow : stack[f] = <<>> /\ scopes[f] = <<>> /\ Seen(f) = <<>> /\ own[f] = <<>>
    BY DEF Seen
  <2>2. DOMAIN <<>> = {}
    OBVIOUS
  <2>3. \A f \in Flow : Rising(stack[f], lastId) /\ On(scopes[f], Seen(f))
    BY <2>1, <2>2 DEF Rising, On
  <2>4. \A f \in Flow : owns[f] => stackOf[f] = NoFlow /\ state[f] # "unborn"
    OBVIOUS
  <2> QED
    BY <2>1, <2>2, <2>3, <2>4 DEF Nested, Stacks, Kept
<1>4. Activities /\ TracedInside
  BY DEF Activities, IsActivityInside, TracedInside
<1> QED
  BY <1>1, <1>2, <1>3, <1>4 DEF ScopesInv

\* Every step keeps the invariant.
LEMMA NextScopes == ScopesInv /\ [ScopesNext]_scopeVars => ScopesInv'
<1> SUFFICES ASSUME ScopesInv, [ScopesNext]_scopeVars PROVE ScopesInv'
  OBVIOUS
<1>1. CASE UNCHANGED scopeVars
  <2>1. ScopeTypes'
    BY <1>1 DEF scopeVars, ScopesInv, ScopeTypes
  <2>2. Chained'
    BY <1>1 DEF scopeVars, ScopesInv, Chained, Chain, Shared, Older, Live
  <2>3. Nested' /\ Stacks' /\ Kept'
    BY <1>1 DEF scopeVars, ScopesInv, Nested, Stacks, Kept, Live, Seen
  <2>4. Activities' /\ TracedInside'
    BY <1>1 DEF scopeVars, ScopesInv, Activities, TracedInside
  <2> QED
    BY <2>1, <2>2, <2>3, <2>4 DEF ScopesInv
<1>2. CASE ScopesNext
  <2>1. PICK f \in Flow : \/ \E g \in Flow : Call(f, g)
                          \/ FirstAwait(f)
                          \/ Return(f)
                          \/ \E throws \in BOOLEAN :
                               \/ NewActivityScope(f, throws)
                               \/ StopScope(f, throws)
                               \/ NewLogicalOperationScope(f, throws)
                               \/ DisposeLogicalOperation(f, throws)
                          \/ NewStructuredDataScope(f)
                          \/ DisposeStructuredData(f)
    BY <1>2 DEF ScopesNext
  <2> QED
    BY <2>1, CallStep, FirstAwaitStep, ReturnStep, NewActivityStep, StopStep, NewLogicalStep,
       DisposeLogicalStep, NewDataStep, DisposeDataStep
<1> QED
  BY <1>1, <1>2

\* The invariant of the scopes, for any flows, kinds of scope and numbers of scopes.
THEOREM ScopesInvariant == ScopesSpec => []ScopesInv
BY InitScopes, NextScopes, PTL DEF ScopesSpec

\* A flow sees the stack its own ActivityScopes and LogicalOperationScopes made of the one it
\* was called with, however many flows run on its thread and wherever listeners throw, unless
\* a StructuredDataScope was begun before a first await (ScopeAsyncShouldPreserve).
THEOREM StacksAreKept == ScopesSpec => []StackPreservedUnlessEarly
<1>1. ScopesInv => StackPreservedUnlessEarly
  BY DEF ScopesInv, Kept, Live, StackPreservedUnlessEarly, StackPreserved
<1> QED
  BY <1>1, ScopesInvariant, PTL

\* A flow has the activity of its innermost open ActivityScope, or the one it began with,
\* unless a scope begun inside failed (ActivityScope.StartScope and StopScope).
THEOREM ActivityIsInnermost == ScopesSpec => []ActivityOfInnermost
<1>1. ScopesInv => ActivityOfInnermost
  BY DEF ScopesInv, Activities, ActivityOfInnermost
<1> QED
  BY <1>1, ScopesInvariant, PTL

\* The Start and Stop events of a scope are traced inside it, whatever operations other
\* flows and scopes that failed left on its stack (the constructors and Dispose).
THEOREM EventsTracedInside == ScopesSpec => []TracedInside
<1>1. ScopesInv => TracedInside
  BY DEF ScopesInv
<1> QED
  BY <1>1, ScopesInvariant, PTL
================================================================================
