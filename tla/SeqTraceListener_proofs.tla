------------------------ MODULE SeqTraceListener_proofs ------------------------
(***************************************************************************)
(* Theorems about what SeqTraceListener is built from, for every value of  *)
(* the constants: the batch sender, what is recorded and sent of a trace,  *)
(* and the escaping of a text.                                             *)
(***************************************************************************)
EXTENDS SeqBatchSender, SeqTraceData, Escaping, BasicLemmas, SequenceTheorems

--------------------------------------------------------------------------------
(* SeqBatchSender: the batch sender.                                       *)

(* Every action leaves a worker in a record of the type Run. *)
LEMMA RunTypes ==
  /\ NoRun \in Run /\ NewRun \in Run
  /\ [NoRun EXCEPT !.pc = "wait"] \in Run
<1>1. <<>> \in Seq(Message) /\ 0 \in 0..MaxRetries
  BY SenderAssumption
<1> QED BY <1>1 DEF NoRun, NewRun, Run

(* Store keeps the log of the server well typed. *)
LEMMA StoreType ==
  ASSUME server \in Seq(Seq(Message)), NEW batch \in Seq(Message),
         NEW reply, Store(batch, reply)
  PROVE  server' \in Seq(Seq(Message))
BY DEF Store

\* The types hold at the start,
LEMMA TypeInit == Init => TypeOK
<1> SUFFICES ASSUME Init PROVE TypeOK
  OBVIOUS
<1>1. queue \in Seq(Message) /\ Len(queue) <= MaxQueueSize
      /\ accepted \in Seq(Message) /\ server \in Seq(Seq(Message))
  BY SenderAssumption DEF Init
<1> QED BY <1>1, RunTypes DEF Init, TypeOK, Fates

\* and every step keeps them.
LEMMA TypeNext == TypeOK /\ [Next]_vars => TypeOK'
<1> SUFFICES ASSUME TypeOK, [Next]_vars PROVE TypeOK'
  OBVIOUS
<1> USE SenderAssumption
<1>1. ASSUME NEW m \in Message, Enqueue(m) PROVE TypeOK'
  BY <1>1 DEF Enqueue, TypeOK, shared, Fates
<1>2. ASSUME NEW m \in Message, EnqueueTraceData(m) PROVE TypeOK'
  <2>1. /\ settings' \in Settings /\ server' \in Seq(Seq(Message))
    BY <1>2 DEF EnqueueTraceData, TypeOK
  <2>2. /\ queue' \in Seq(Message) /\ Len(queue') <= MaxQueueSize
        /\ accepted' \in Seq(Message)
        /\ fate' \in [Message -> Fates]
    <3>1. CASE Len(queue) < MaxQueueSize
      <4>1. /\ queue' = Append(queue, m) /\ accepted' = Append(accepted, m)
            /\ fate' = [fate EXCEPT ![m] = "queued"]
        BY <1>2, <3>1 DEF EnqueueTraceData, Admit
      <4>2. Len(queue') = Len(queue) + 1 /\ Len(queue) \in Nat
        BY <4>1 DEF TypeOK
      <4> QED BY <3>1, <4>1, <4>2 DEF TypeOK, Fates
    <3>2. CASE ~(Len(queue) < MaxQueueSize)
      BY <1>2, <3>2 DEF EnqueueTraceData, Admit, TypeOK, Fates
    <3> QED BY <3>1, <3>2
  <2>3. /\ isProcessing' \in BOOLEAN /\ sendTrigger' \in BOOLEAN
        /\ worker' \in [Worker -> Run]
    BY <1>2, RunTypes DEF EnqueueTraceData, WakeWorker, StartWorker, TypeOK
  <2> QED BY <2>1, <2>2, <2>3 DEF TypeOK
<1>3. ASSUME NEW m \in Message, PostIndividually(m) PROVE TypeOK'
  <2>1. server' \in Seq(Seq(Message))
    <3>1. PICK reply \in Replies : Store(<<m>>, reply)
      BY <1>3 DEF PostIndividually
    <3>2. <<m>> \in Seq(Message)
      OBVIOUS
    <3>3. server \in Seq(Seq(Message))
      BY DEF TypeOK
    <3> QED BY <3>1, <3>2, <3>3, StoreType, Zenon
  <2> QED BY <1>3, <2>1 DEF PostIndividually, TypeOK, shared, Fates
<1>4. ASSUME NEW n \in BatchSizes, SetBatchSize(n) PROVE TypeOK'
  BY <1>4 DEF SetBatchSize, TypeOK, shared, Settings
<1>5. ASSUME NEW w \in Worker, WaitSignalled(w) PROVE TypeOK'
  BY <1>5 DEF WaitSignalled, TypeOK, Run
<1>6. ASSUME NEW w \in Worker, WaitTimedOut(w) PROVE TypeOK'
  BY <1>6 DEF WaitTimedOut, TypeOK, Run, shared
<1>7. ASSUME NEW w \in Worker, TakeBatch(w) PROVE TypeOK'
  <2> DEFINE count == IF Len(queue) < settings.batchSize THEN Len(queue) ELSE settings.batchSize
  <2>1. queue \in Seq(Message) /\ Len(queue) \in Nat /\ settings.batchSize \in Nat
    <3>1. settings.batchSize \in BatchSizes
      BY DEF TypeOK, Settings
    <3>2. settings.batchSize \in Nat
      BY <3>1
    <3>3. queue \in Seq(Message) /\ Len(queue) \in Nat
      BY DEF TypeOK
    <3> QED BY <3>2, <3>3
  <2>2. count \in 0..Len(queue)
    BY <2>1
  <2>3. /\ queue' = SubSeq(queue, count + 1, Len(queue))
        /\ worker' = [worker EXCEPT ![w].pc = "post", ![w].batch = SubSeq(queue, 1, count)]
        /\ UNCHANGED <<settings, isProcessing, sendTrigger, fate, accepted, server>>
    BY <1>7 DEF TakeBatch
  <2> HIDE DEF count
  <2>4. /\ SubSeq(queue, 1, count) \in Seq(Message)
        /\ SubSeq(queue, count + 1, Len(queue)) \in Seq(Message)
        /\ Len(SubSeq(queue, count + 1, Len(queue))) <= Len(queue)
    BY <2>1, <2>2, SubSeqProperties
  <2>5. [worker[w] EXCEPT !.pc = "post", !.batch = SubSeq(queue, 1, count)] \in Run
    BY <2>4 DEF TypeOK, Run
  <2>6. worker' = [worker EXCEPT ![w] = [worker[w] EXCEPT !.pc = "post",
                                                         !.batch = SubSeq(queue, 1, count)]]
    BY <2>3 DEF TypeOK
  <2>7. worker' \in [Worker -> Run]
    BY <2>5, <2>6 DEF TypeOK
  <2>8. queue' \in Seq(Message) /\ Len(queue') <= MaxQueueSize
    BY <2>1, <2>3, <2>4 DEF TypeOK
  <2> QED BY <2>3, <2>7, <2>8 DEF TypeOK
<1>8. ASSUME NEW w \in Worker, Finish(w) PROVE TypeOK'
  BY <1>8, RunTypes DEF Finish, TypeOK
<1>9. ASSUME NEW w \in Worker, PostSucceeds(w) PROVE TypeOK'
  <2>1. server' \in Seq(Seq(Message))
    BY <1>9, StoreType DEF PostSucceeds, TypeOK, Run
  <2> QED BY <1>9, <2>1, RunTypes DEF PostSucceeds, ClearBatch, TypeOK, shared, Fates
<1>10. ASSUME NEW w \in Worker, PostFailsAbandon(w) PROVE TypeOK'
  <2>1. server' \in Seq(Seq(Message))
    BY <1>10, StoreType DEF PostFailsAbandon, TypeOK, Run
  <2> QED BY <1>10, <2>1, RunTypes DEF PostFailsAbandon, ClearBatch, TypeOK, Fates
<1>11. ASSUME NEW w \in Worker, PostFailsRetry(w) PROVE TypeOK'
  <2>1. server' \in Seq(Seq(Message))
    BY <1>11, StoreType DEF PostFailsRetry, TypeOK, Run
  <2>2. worker[w] \in Run /\ worker[w].retryCount < MaxRetries
    BY <1>11 DEF PostFailsRetry, RetriesExhausted, TypeOK, Run
  <2>3. BackOff(worker[w]) \in Run
    <3>1. CASE worker[w].retryTimeout = 0
      <4>1. BackOff(worker[w]) = [worker[w] EXCEPT !.retryCount = 1, !.retryTimeout = BatchTimeout]
        BY <3>1 DEF BackOff
      <4>2. 1 \in 0..MaxRetries
        BY <2>2 DEF Run
      <4> QED BY <2>2, <4>1, <4>2 DEF Run
    <3>2. CASE worker[w].retryTimeout # 0
      <4>1. BackOff(worker[w]) = [worker[w] EXCEPT
                !.retryCount = worker[w].retryCount + 1,
                !.retryTimeout = worker[w].retryTimeout + worker[w].retryTimeout]
        BY <3>2 DEF BackOff
      <4>2. /\ worker[w].retryCount + 1 \in 0..MaxRetries
            /\ worker[w].retryTimeout + worker[w].retryTimeout \in Nat
        BY <2>2 DEF Run
      <4> QED BY <2>2, <4>1, <4>2 DEF Run
    <3> QED BY <3>1, <3>2
  <2>4. worker' \in [Worker -> Run]
    <3>1. [BackOff(worker[w]) EXCEPT
             !.pc = LoopTop(worker[w].batch),
             !.attempts = IF worker[w].batch = <<>> THEN 0 ELSE @ + 1,
             !.emptied = @ \/ worker[w].batch = <<>>] \in Run
      <4>1. LoopTop(worker[w].batch) \in {"wait", "sleep"}
        BY DEF LoopTop
      <4>2. ASSUME NEW n \in Nat, NEW top \in {"wait", "sleep"}, NEW e \in BOOLEAN
            PROVE  [BackOff(worker[w]) EXCEPT !.pc = top, !.attempts = n, !.emptied = e] \in Run
        BY <2>3 DEF Run
      <4>3. (IF worker[w].batch = <<>> THEN 0 ELSE BackOff(worker[w]).attempts + 1) \in Nat
        BY <2>3 DEF Run
      <4>4. (BackOff(worker[w]).emptied \/ worker[w].batch = <<>>) \in BOOLEAN
        OBVIOUS
      <4> QED BY <4>1, <4>2, <4>3, <4>4
    <3> QED BY <1>11, <3>1 DEF PostFailsRetry, TypeOK
  <2> QED BY <1>11, <2>1, <2>4 DEF PostFailsRetry, TypeOK, shared
<1>12. ASSUME NEW w \in Worker, RetrySleep(w) PROVE TypeOK'
  BY <1>12 DEF RetrySleep, TypeOK, Run, shared
<1>13. CASE UNCHANGED vars
  BY <1>13 DEF vars, TypeOK
<1> QED
  BY <1>1, <1>2, <1>3, <1>4, <1>5, <1>6, <1>7, <1>8, <1>9, <1>10, <1>11, <1>12, <1>13
  DEF Next, WriteTrace, Process

(* Type correctness: in every reachable state the queue is within MaxQueueSize
   and no run of Process has counted more than MaxRetries retries. *)
THEOREM TypeCorrect == Spec => []TypeOK
BY TypeInit, TypeNext, PTL DEF Spec

--------------------------------------------------------------------------------
(***************************************************************************)
(* One run of Process at a time.  The invariant ties the flag, the queue,  *)
(* the event and the place of the run in its loop; none of the four parts  *)
(* is inductive on its own: a fresh run finds the event set only because   *)
(* no other run exists to consume it, and no other exists only because     *)
(* isProcessing is cleared in the critical section that sees the queue     *)
(* empty.                                                                  *)
(***************************************************************************)
RunInv == SingleWorker /\ NoStrandedMessage /\ FirstMessageImmediate

\* A step of a run that goes on leaves the set of runs as it is.
LEMMA RunGoesOn ==
  ASSUME TypeOK, NEW w \in Worker, worker[w].pc # "none",
         NEW r, worker' = [worker EXCEPT ![w] = r], r.pc # "none"
  PROVE  Live' = Live
BY DEF Live, TypeOK

\* The places in the loop that a step of Process leads from and to.
LEMMA ProcessSteps ==
  ASSUME TypeOK, NEW w \in Worker, Process(w)
  PROVE  /\ worker[w].pc # "none"
         /\ \A v \in Worker : v # w => worker'[v] = worker[v]
         /\ worker'[w].pc # "start"
         /\ \/ Finish(w)
            \/ Live' = Live /\ isProcessing' = isProcessing /\ (queue' # <<>> => queue # <<>>)
<1>1. CASE WaitSignalled(w)
  <2>1. worker' = [worker EXCEPT ![w] = [worker[w] EXCEPT !.pc = "take"]]
    BY <1>1 DEF WaitSignalled, TypeOK
  <2>2. [worker[w] EXCEPT !.pc = "take"].pc = "take"
    BY DEF TypeOK, Run
  <2>3. Live' = Live
    BY <1>1, <2>1, <2>2, RunGoesOn DEF WaitSignalled
  <2> QED BY <1>1, <2>1, <2>2, <2>3 DEF WaitSignalled, TypeOK
<1>2. CASE WaitTimedOut(w)
  <2>1. worker' = [worker EXCEPT ![w] = [worker[w] EXCEPT !.pc = "take"]]
    BY <1>2 DEF WaitTimedOut, TypeOK
  <2>2. [worker[w] EXCEPT !.pc = "take"].pc = "take"
    BY DEF TypeOK, Run
  <2>3. Live' = Live
    BY <1>2, <2>1, <2>2, RunGoesOn DEF WaitTimedOut
  <2> QED BY <1>2, <2>1, <2>2, <2>3 DEF WaitTimedOut, TypeOK, shared
<1>3. CASE TakeBatch(w)
  <2>1. PICK b : worker' = [worker EXCEPT ![w] = [worker[w] EXCEPT !.pc = "post", !.batch = b]]
    BY <1>3 DEF TakeBatch, TypeOK
  <2>2. [worker[w] EXCEPT !.pc = "post", !.batch = b].pc = "post"
    BY DEF TypeOK, Run
  <2>3. Live' = Live
    BY <1>3, <2>1, <2>2, RunGoesOn DEF TakeBatch
  <2> QED BY <1>3, <2>1, <2>2, <2>3 DEF TakeBatch, TypeOK
<1>4. CASE Finish(w)
  BY <1>4 DEF Finish, TypeOK, NoRun
<1>5. CASE PostSucceeds(w) \/ PostFailsAbandon(w)
  <2>1. worker' = [worker EXCEPT ![w] = [NoRun EXCEPT !.pc = "wait"]] /\ worker[w].pc = "post"
    BY <1>5 DEF PostSucceeds, PostFailsAbandon, ClearBatch
  <2>2. [NoRun EXCEPT !.pc = "wait"].pc = "wait"
    BY DEF NoRun
  <2>3. Live' = Live
    BY <2>1, <2>2, RunGoesOn
  <2> QED BY <1>5, <2>1, <2>2, <2>3 DEF PostSucceeds, PostFailsAbandon, TypeOK, shared
<1>6. CASE PostFailsRetry(w)
  <2> DEFINE r == [BackOff(worker[w]) EXCEPT
                     !.pc = LoopTop(worker[w].batch),
                     !.attempts = IF worker[w].batch = <<>> THEN 0 ELSE @ + 1,
                     !.emptied = @ \/ worker[w].batch = <<>>]
  <2>1. worker' = [worker EXCEPT ![w] = r] /\ worker[w].pc = "post"
    BY <1>6 DEF PostFailsRetry
  <2>2. r.pc = LoopTop(worker[w].batch)
    BY DEF TypeOK, Run, BackOff
  <2>3. r.pc \in {"wait", "sleep"}
    BY <2>2 DEF LoopTop
  <2> HIDE DEF r
  <2>4. Live' = Live
    BY <2>1, <2>3, RunGoesOn
  <2> QED BY <1>6, <2>1, <2>3, <2>4 DEF PostFailsRetry, TypeOK, shared
<1>7. CASE RetrySleep(w)
  <2>1. worker' = [worker EXCEPT ![w] = [worker[w] EXCEPT !.pc = "post"]]
    BY <1>7 DEF RetrySleep, TypeOK
  <2>2. [worker[w] EXCEPT !.pc = "post"].pc = "post"
    BY DEF TypeOK, Run
  <2>3. Live' = Live
    BY <1>7, <2>1, <2>2, RunGoesOn DEF RetrySleep
  <2> QED BY <1>7, <2>1, <2>2, <2>3 DEF RetrySleep, TypeOK, shared
<1> QED BY <1>1, <1>2, <1>3, <1>4, <1>5, <1>6, <1>7 DEF Process

\* What is known of the worker holds at the start,
LEMMA RunInit == Init => RunInv
BY DEF Init, RunInv, SingleWorker, NoStrandedMessage, FirstMessageImmediate, Live, NoRun

\* every step keeps it,
LEMMA RunNext == TypeOK /\ RunInv /\ [Next]_vars => RunInv'
<1> SUFFICES ASSUME TypeOK, RunInv, [Next]_vars PROVE RunInv'
  OBVIOUS
<1> USE DEF RunInv
<1>1. ASSUME NEW m \in Message, Enqueue(m) \/ PostIndividually(m) PROVE RunInv'
  BY <1>1 DEF Enqueue, PostIndividually, shared,
              SingleWorker, NoStrandedMessage, FirstMessageImmediate, Live
<1>2. ASSUME NEW m \in Message, EnqueueTraceData(m) PROVE RunInv'
  <2>1. CASE WakeWorker
    <3>1. Live' = Live /\ Live # {} /\ isProcessing' = isProcessing
      BY <2>1 DEF WakeWorker, SingleWorker, Live
    <3>2. FirstMessageImmediate'
      BY <2>1 DEF WakeWorker, FirstMessageImmediate
    <3> QED BY <3>1, <3>2 DEF SingleWorker, NoStrandedMessage
  <2>2. CASE StartWorker
    <3>1. PICK w \in Worker : worker' = [worker EXCEPT ![w] = NewRun]
      BY <2>2 DEF StartWorker
    <3>2. Live = {}
      BY <2>2 DEF StartWorker, SingleWorker
    <3>3. Live' = {w}
      BY <3>1, <3>2 DEF Live, NewRun, NoRun, TypeOK
    <3>4. isProcessing' /\ sendTrigger'
      BY <2>2 DEF StartWorker
    <3> QED BY <3>3, <3>4 DEF SingleWorker, NoStrandedMessage, FirstMessageImmediate
  <2> QED BY <1>2, <2>1, <2>2 DEF EnqueueTraceData
<1>3. ASSUME NEW n \in BatchSizes, SetBatchSize(n) PROVE RunInv'
  BY <1>3 DEF SetBatchSize, shared, SingleWorker, NoStrandedMessage, FirstMessageImmediate, Live
<1>4. ASSUME NEW w \in Worker, Process(w) PROVE RunInv'
  <2>1. w \in Live /\ \A v \in Worker : v # w => worker[v].pc = "none"
    BY <1>4, ProcessSteps DEF SingleWorker, Live
  <2>2. FirstMessageImmediate'
    BY <1>4, <2>1, ProcessSteps DEF FirstMessageImmediate
  <2>3. CASE Finish(w)
    <3>1. Live' = {}
      BY <2>1, <2>3 DEF Finish, Live, NoRun, TypeOK
    <3>2. ~isProcessing' /\ queue' = <<>>
      BY <2>3 DEF Finish
    <3> QED BY <2>2, <3>1, <3>2 DEF SingleWorker, NoStrandedMessage
  <2>4. CASE /\ Live' = Live /\ isProcessing' = isProcessing
             /\ queue' # <<>> => queue # <<>>
    BY <2>2, <2>4 DEF SingleWorker, NoStrandedMessage
  <2> QED BY <1>4, <2>3, <2>4, ProcessSteps
<1>5. CASE UNCHANGED vars
  BY <1>5 DEF vars, SingleWorker, NoStrandedMessage, FirstMessageImmediate, Live
<1> QED BY <1>1, <1>2, <1>3, <1>4, <1>5 DEF Next, WriteTrace

\* and so it always holds.
LEMMA RunInvariant == Spec => []RunInv
BY TypeCorrect, RunInit, RunNext, PTL DEF Spec

(* For any number of threads, at most one run of Process exists, and
   isProcessing says whether it does. *)
THEOREM OneRun == Spec => []SingleWorker
BY RunInvariant, PTL DEF RunInv

(* For any queue, batch size and interleaving of enqueues with the end of a
   run: a queued message has a run that will come for it. *)
THEOREM NothingStranded == Spec => []NoStrandedMessage
BY RunInvariant, PTL DEF RunInv

(* The first wait of a run never waits: the event set by the enqueue that
   started it is still set. *)
THEOREM FirstIsImmediate == Spec => []FirstMessageImmediate
BY RunInvariant, PTL DEF RunInv

--------------------------------------------------------------------------------
(***************************************************************************)
(* Retries.  The delay doubles as an indicator of "first failure", so the  *)
(* count of retries keeps up with the attempts only if BatchTimeout is not *)
(* zero; run SeqPoison shows what happens when it is.  The attempts keep   *)
(* up with the count while no batch was empty.                             *)
(***************************************************************************)
Keeps(run) == /\ run.attempts <= run.retryCount
              /\ run.retryTimeout = 0 => run.attempts = 0
              /\ ~run.emptied => run.retryCount <= run.attempts

RetryInv == \A w \in Worker : Keeps(worker[w])

\* Every step keeps the relation of attempts and timeout,
LEMMA RetryNext ==
  ASSUME BatchTimeout # 0
  PROVE  TypeOK /\ RetryInv /\ [Next]_vars => RetryInv'
<1> SUFFICES ASSUME TypeOK, RetryInv, [Next]_vars PROVE RetryInv'
  OBVIOUS
<1> USE SenderAssumption
<1>1. CASE UNCHANGED worker
  BY <1>1 DEF RetryInv
<1>2. ASSUME NEW m \in Message, EnqueueTraceData(m) PROVE RetryInv'
  <2>1. CASE WakeWorker
    BY <1>1, <2>1 DEF WakeWorker
  <2>2. CASE StartWorker
    BY <2>2 DEF StartWorker, NewRun, NoRun, RetryInv, Keeps, TypeOK
  <2> QED BY <1>2, <2>1, <2>2 DEF EnqueueTraceData
<1>3. ASSUME NEW w \in Worker, WaitSignalled(w) \/ WaitTimedOut(w) \/ TakeBatch(w) \/ RetrySleep(w)
      PROVE RetryInv'
  <2>1. \A v \in Worker : /\ worker'[v].attempts = worker[v].attempts
                          /\ worker'[v].retryCount = worker[v].retryCount
                          /\ worker'[v].retryTimeout = worker[v].retryTimeout
                          /\ worker'[v].emptied = worker[v].emptied
    <3>1. CASE WaitSignalled(w)
      BY <3>1 DEF WaitSignalled, TypeOK, Run
    <3>2. CASE WaitTimedOut(w)
      BY <3>2 DEF WaitTimedOut, TypeOK, Run
    <3>3. CASE TakeBatch(w)
      <4>1. PICK b : worker' = [worker EXCEPT ![w].pc = "post", ![w].batch = b]
        BY <3>3 DEF TakeBatch
      <4> QED BY <4>1 DEF TypeOK, Run
    <3>4. CASE RetrySleep(w)
      BY <3>4 DEF RetrySleep, TypeOK, Run
    <3> QED BY <1>3, <3>1, <3>2, <3>3, <3>4
  <2> QED BY <2>1 DEF RetryInv, Keeps
<1>4. ASSUME NEW w \in Worker, Finish(w) \/ PostSucceeds(w) \/ PostFailsAbandon(w) PROVE RetryInv'
  <2>1. PICK r \in {NoRun, [NoRun EXCEPT !.pc = "wait"]} : worker' = [worker EXCEPT ![w] = r]
    BY <1>4 DEF Finish, PostSucceeds, PostFailsAbandon, ClearBatch
  <2>2. Keeps(r)
    BY DEF NoRun, Keeps
  <2> QED BY <2>1, <2>2 DEF RetryInv, TypeOK
<1>5. ASSUME NEW w \in Worker, PostFailsRetry(w) PROVE RetryInv'
  <2> DEFINE run == worker[w]
             next == worker'[w]
  <2>1. \A v \in Worker \ {w} : worker'[v] = worker[v]
    BY <1>5 DEF PostFailsRetry, TypeOK
  <2>2. run \in Run /\ Keeps(run)
    BY DEF TypeOK, RetryInv
  <2>3. next = [BackOff(run) EXCEPT !.pc = LoopTop(run.batch),
                                    !.attempts = IF run.batch = <<>> THEN 0 ELSE @ + 1,
                                    !.emptied = @ \/ run.batch = <<>>]
    BY <1>5 DEF PostFailsRetry, TypeOK
  <2> HIDE DEF run, next
  <2>4. /\ next.retryCount = BackOff(run).retryCount
        /\ next.retryTimeout = BackOff(run).retryTimeout
        /\ next.attempts = IF run.batch = <<>> THEN 0 ELSE run.attempts + 1
        /\ ~next.emptied => ~run.emptied /\ run.batch # <<>>
    BY <2>2, <2>3 DEF BackOff, Run
  <2>5. ASSUME run.retryTimeout = 0 PROVE Keeps(next)
    <3>1. BackOff(run).retryCount = 1 /\ BackOff(run).retryTimeout = BatchTimeout
      BY <2>2, <2>5 DEF BackOff, Run
    <3>2. run.attempts = 0
      BY <2>2, <2>5 DEF Keeps
    <3> QED BY <2>4, <3>1, <3>2 DEF Keeps
  <2>6. ASSUME run.retryTimeout # 0 PROVE Keeps(next)
    <3>1. /\ BackOff(run).retryCount = run.retryCount + 1
          /\ BackOff(run).retryTimeout = run.retryTimeout + run.retryTimeout
      BY <2>2, <2>6 DEF BackOff, Run
    <3>2. run.retryCount \in Nat /\ run.retryTimeout \in Nat /\ run.attempts \in Nat
      BY <2>2 DEF Run
    <3> QED BY <2>2, <2>4, <2>6, <3>1, <3>2 DEF Keeps
  <2>7. Keeps(next)
    BY <2>5, <2>6
  <2> QED BY <2>1, <2>7 DEF RetryInv, next
<1>6. CASE UNCHANGED vars
  <2>1. UNCHANGED worker
    BY <1>6 DEF vars
  <2> QED BY <1>1, <2>1
<1> QED BY <1>1, <1>2, <1>3, <1>4, <1>5, <1>6
        DEF Next, WriteTrace, Process, Enqueue, PostIndividually, SetBatchSize

\* which holds at the start
LEMMA RetryInit == Init => RetryInv
BY DEF Init, RetryInv, Keeps, NoRun

\* and bounds the attempts on both sides.
LEMMA RetryBound == TypeOK /\ RetryInv => AttemptsBounded
BY SenderAssumption DEF TypeOK, Run, RetryInv, Keeps, AttemptsBounded, RetriesExhausted

(* With a positive BatchTimeout a batch is posted at most MaxRetries times
   after its first post, and no less often before it is given up, for every
   MaxRetries and every history of failures. *)
THEOREM PoisonBatchIsDropped ==
  ASSUME BatchTimeout # 0
  PROVE  Spec => []AttemptsBounded
<1>1. TypeOK /\ RetryInv /\ [Next]_vars => RetryInv'
  BY RetryNext
<1> QED BY <1>1, RetryInit, RetryBound, TypeCorrect, PTL DEF Spec
--------------------------------------------------------------------------------
(***************************************************************************)
(* The sender implements SeqDelivery.  With one run of Process, what the   *)
(* abstract line holds is the batch of that run followed by the queue; a   *)
(* batch is held only from TakeBatch to the end of its last post, and so   *)
(* taking one, which moves it from the queue to the run, changes nothing.  *)
(***************************************************************************)
BatchInv == \A w \in Worker : worker[w].pc \in {"none", "start", "wait", "take"}
                                => worker[w].batch = <<>>

\* What is known of the batch holds at the start,
LEMMA BatchInit == Init => BatchInv
BY DEF Init, BatchInv, NoRun

\* every step keeps it,
LEMMA BatchNext == TypeOK /\ BatchInv /\ [Next]_vars => BatchInv'
<1> SUFFICES ASSUME TypeOK, BatchInv, [Next]_vars PROVE BatchInv'
  OBVIOUS
<1>1. CASE UNCHANGED worker
  BY <1>1 DEF BatchInv
<1>2. ASSUME NEW m \in Message, EnqueueTraceData(m) PROVE BatchInv'
  <2>1. CASE WakeWorker
    BY <1>1, <2>1 DEF WakeWorker
  <2>2. CASE StartWorker
    BY <2>2 DEF StartWorker, NewRun, NoRun, BatchInv, TypeOK
  <2> QED BY <1>2, <2>1, <2>2 DEF EnqueueTraceData
<1>3. ASSUME NEW w \in Worker, WaitSignalled(w) PROVE BatchInv'
  BY <1>3 DEF WaitSignalled, TypeOK, Run, BatchInv
<1>4. ASSUME NEW w \in Worker, WaitTimedOut(w) PROVE BatchInv'
  BY <1>4 DEF WaitTimedOut, TypeOK, Run, BatchInv
<1>5. ASSUME NEW w \in Worker, TakeBatch(w) PROVE BatchInv'
  <2>1. PICK b : worker' = [worker EXCEPT ![w].pc = "post", ![w].batch = b]
    BY <1>5 DEF TakeBatch
  <2> QED BY <2>1 DEF TypeOK, Run, BatchInv
<1>6. ASSUME NEW w \in Worker, Finish(w) \/ PostSucceeds(w) \/ PostFailsAbandon(w) PROVE BatchInv'
  <2>1. PICK r \in {NoRun, [NoRun EXCEPT !.pc = "wait"]} : worker' = [worker EXCEPT ![w] = r]
    BY <1>6 DEF Finish, PostSucceeds, PostFailsAbandon, ClearBatch
  <2>2. r.batch = <<>>
    BY DEF NoRun
  <2> QED BY <2>1, <2>2 DEF BatchInv, TypeOK
<1>7. ASSUME NEW w \in Worker, PostFailsRetry(w) PROVE BatchInv'
  <2>1. /\ worker'[w].batch = worker[w].batch /\ worker'[w].pc = LoopTop(worker[w].batch)
        /\ \A v \in Worker \ {w} : worker'[v] = worker[v]
    BY <1>7 DEF PostFailsRetry, BackOff, TypeOK, Run
  <2> QED BY <2>1 DEF BatchInv, LoopTop
<1>8. ASSUME NEW w \in Worker, RetrySleep(w) PROVE BatchInv'
  BY <1>8 DEF RetrySleep, TypeOK, Run, BatchInv
<1>9. CASE UNCHANGED vars
  <2>1. UNCHANGED worker
    BY <1>9 DEF vars
  <2> QED BY <1>1, <2>1
<1> QED BY <1>1, <1>2, <1>3, <1>4, <1>5, <1>6, <1>7, <1>8, <1>9
        DEF Next, WriteTrace, Process, Enqueue, PostIndividually, SetBatchSize

\* and so it always holds.
LEMMA BatchInvariant == Spec => []BatchInv
BY TypeCorrect, BatchInit, BatchNext, PTL DEF Spec

\* What Held is without a run, and with one.
HeldIsLine == SingleWorker =>
  /\ Live = {} => Held = queue
  /\ \A w \in Live : Held = worker[w].batch \o queue

\* What one worker holds is its line,
LEMMA HeldFact == HeldIsLine
<1> SUFFICES ASSUME SingleWorker PROVE /\ Live = {} => Held = queue
                                       /\ \A w \in Live : Held = worker[w].batch \o queue
  BY DEF HeldIsLine
<1>1. Live = {} => Held = queue
  BY DEF Held
<1>2. ASSUME NEW w \in Live PROVE Held = worker[w].batch \o queue
  <2>1. {worker[v].batch : v \in Live} = {worker[w].batch}
    BY DEF SingleWorker
  <2>2. (CHOOSE b \in {worker[w].batch} : TRUE) = worker[w].batch
    OBVIOUS
  <2> QED BY <2>1, <2>2 DEF Held
<1> QED BY <1>1, <1>2

\* before a step and after it;
LEMMA HeldFactNext == HeldIsLine'
BY HeldFact, PTL

\* it is a sequence of messages.
LEMMA HeldType == ASSUME TypeOK, SingleWorker PROVE Held \in Seq(Message)
<1>1. CASE Live = {}
  BY <1>1, HeldFact DEF HeldIsLine, TypeOK
<1>2. ASSUME NEW w \in Live PROVE Held \in Seq(Message)
  <2>1. worker[w].batch \in Seq(Message) /\ queue \in Seq(Message)
    BY DEF TypeOK, Run, Live
  <2> QED BY <1>2, <2>1, HeldFact, ConcatProperties DEF HeldIsLine
<1> QED BY <1>1, <1>2

\* The invariants a step is simulated from.
StepInv == TypeOK /\ RunInv /\ BatchInv

\* A step of the one run that puts nothing in the queue.
LEMMA HeldStep ==
  ASSUME StepInv, StepInv', NEW w \in Worker, worker[w].pc # "none", worker'[w].pc # "none"
  PROVE  /\ Held = worker[w].batch \o queue /\ Held' = worker'[w].batch \o queue'
         /\ worker[w].batch \in Seq(Message) /\ queue \in Seq(Message)
         /\ worker'[w].batch \in Seq(Message) /\ queue' \in Seq(Message)
<1>1. w \in Live /\ w \in Live'
  BY DEF Live
<1>2. SingleWorker /\ SingleWorker'
  BY DEF StepInv, RunInv
<1> QED BY <1>1, <1>2, HeldFact, HeldFactNext DEF HeldIsLine, StepInv, TypeOK, Run

\* The line is what it was if neither the runs nor the queue changed.
LEMMA HeldSame ==
  ASSUME UNCHANGED <<worker, queue>> PROVE Held' = Held
BY DEF Held, Live

\* A post that succeeds stored its batch, unless no URL is configured.
LEMMA OkMeansStored ==
  ASSUME NEW reply \in Replies, reply.ok, NEW batch, batch # <<>>, Store(batch, reply)
  PROVE  server' = IF settings.hasServerUrl THEN Append(server, batch) ELSE server
<1>1. CASE settings.hasServerUrl
  <2>1. reply \in {[ok |-> TRUE, stored |-> TRUE]} \cup [ok : {FALSE}, stored : BOOLEAN]
    BY <1>1 DEF Replies
  <2>2. reply = [ok |-> TRUE, stored |-> TRUE]
    BY <2>1
  <2>3. reply.stored
    BY <2>2
  <2> QED BY <1>1, <2>3 DEF Store
<1>2. CASE ~settings.hasServerUrl
  <2>1. reply = [ok |-> TRUE, stored |-> FALSE]
    BY <1>2 DEF Replies
  <2>2. ~reply.stored
    BY <2>1
  <2> QED BY <1>2, <2>2 DEF Store
<1> QED BY <1>1, <1>2

\* Writing a trace offers it to the line.
LEMMA OfferStep == ASSUME StepInv, NEW m \in Message, Enqueue(m) PROVE Delivery!Next
<1>1. Held' = Held
  BY HeldSame DEF Enqueue, shared
<1>2. Delivery!Offer(m)
  BY <1>1 DEF Enqueue, Delivery!Offer
<1> QED BY <1>2 DEF Delivery!Next, Enqueue

\* A thread that posts its trace itself sends it alone.
LEMMA AloneStep == ASSUME StepInv, NEW m \in Message, PostIndividually(m) PROVE Delivery!Next
<1>1. Held' = Held
  BY HeldSame DEF PostIndividually, shared
<1>2. PICK reply \in Replies :
        /\ Store(<<m>>, reply)
        /\ fate' = [fate EXCEPT ![m] = IF reply.ok THEN "delivered"
                                       ELSE IF settings.ignoreErrors THEN "dropped" ELSE "raised"]
  BY DEF PostIndividually
<1>3. <<m>> # <<>>
  OBVIOUS
<1>4. CASE reply.ok
  <2>1. server' = IF settings.hasServerUrl THEN Append(server, <<m>>) ELSE server
    BY <1>2, <1>3, <1>4, OkMeansStored
  <2> QED BY <1>1, <1>2, <1>4, <2>1 DEF Delivery!SendAlone, Delivery!Next, PostIndividually
<1>5. CASE ~reply.ok
  <2>1. server' \in {server, Append(server, <<m>>)}
    BY <1>2 DEF Store
  <2> QED BY <1>1, <1>2, <1>5, <2>1 DEF Delivery!SendAlone, Delivery!Next, PostIndividually
<1> QED BY <1>4, <1>5

\* The line after a critical section of EnqueueTraceData: the run has the batch
\* it had, if there was one, and a new run has none.
LEMMA HeldEnqueue ==
  ASSUME StepInv, StepInv', NEW m \in Message, EnqueueTraceData(m)
  PROVE  \E b \in Seq(Message) : Held = b \o queue /\ Held' = b \o queue'
<1>1. CASE WakeWorker
  <2>1. PICK w \in Worker : worker[w].pc # "none"
    BY <1>1 DEF WakeWorker, StepInv, RunInv, SingleWorker, Live
  <2>2. worker'[w] = worker[w]
    BY <1>1 DEF WakeWorker
  <2> QED BY <2>1, <2>2, HeldStep
<1>2. CASE StartWorker
  <2>1. PICK w \in Worker : worker' = [worker EXCEPT ![w] = NewRun]
    BY <1>2 DEF StartWorker
  <2>2. worker'[w].pc = "start" /\ worker'[w].batch = <<>>
    BY <2>1 DEF NewRun, NoRun, StepInv, TypeOK
  <2>3. Held = queue
    BY <1>2, HeldFact DEF HeldIsLine, StartWorker, StepInv, RunInv, SingleWorker
  <2>4. Held' = <<>> \o queue'
    BY <2>2, HeldFactNext DEF HeldIsLine, StepInv, RunInv, Live
  <2>5. queue \in Seq(Message) /\ <<>> \in Seq(Message) /\ <<>> \o queue = queue
    BY EmptySeq, ConcatEmptySeq DEF StepInv, TypeOK
  <2> QED BY <2>3, <2>4, <2>5
<1> QED BY <1>1, <1>2 DEF EnqueueTraceData

\* The critical section of EnqueueTraceData accepts or refuses.
LEMMA EnqueueStep ==
  ASSUME StepInv, StepInv', NEW m \in Message, EnqueueTraceData(m) PROVE Delivery!Next
<1>1. PICK b \in Seq(Message) : Held = b \o queue /\ Held' = b \o queue'
  BY HeldEnqueue
<1>2. queue \in Seq(Message)
  BY DEF StepInv, TypeOK
<1>3. CASE Len(queue) < MaxQueueSize
  <2>1. queue' = Append(queue, m) /\ fate' = [fate EXCEPT ![m] = "queued"]
    BY <1>3 DEF EnqueueTraceData, Admit
  <2>2. Held' = Append(Held, m)
    <3>1. b \o Append(queue, m) = b \o (queue \o <<m>>)
      BY <1>2, AppendIsConcat
    <3>2. <<m>> \in Seq(Message)
      OBVIOUS
    <3>3. b \o (queue \o <<m>>) = (b \o queue) \o <<m>>
      BY <1>2, <3>2, ConcatAssociative
    <3>4. b \o queue \in Seq(Message)
      BY <1>2, ConcatProperties
    <3>5. (b \o queue) \o <<m>> = Append(b \o queue, m)
      BY <3>4, AppendIsConcat
    <3> QED BY <1>1, <2>1, <3>1, <3>3, <3>5
  <2> QED BY <2>1, <2>2 DEF EnqueueTraceData, Delivery!Accept, Delivery!Next
<1>4. CASE ~(Len(queue) < MaxQueueSize)
  <2>1. queue' = queue /\ fate' = [fate EXCEPT ![m] = "dropped"]
    BY <1>4 DEF EnqueueTraceData, Admit
  <2> QED BY <1>1, <2>1 DEF EnqueueTraceData, Delivery!Refuse, Delivery!Next
<1> QED BY <1>3, <1>4

\* A step that leaves the line, the server and the fates alone.
Unseen == UNCHANGED Delivery!vars

\* The steps of Process that settle nothing and post nothing are unseen.
LEMMA UnseenStep ==
  ASSUME StepInv, StepInv', NEW w \in Worker,
         WaitSignalled(w) \/ WaitTimedOut(w) \/ TakeBatch(w) \/ Finish(w) \/ RetrySleep(w)
  PROVE  Unseen
<1> SUFFICES Held' = Held
  BY DEF Unseen, Delivery!vars, WaitSignalled, WaitTimedOut, TakeBatch, Finish, RetrySleep, shared
<1>1. CASE WaitSignalled(w) \/ WaitTimedOut(w) \/ RetrySleep(w)
  <2>1. /\ worker[w].pc # "none" /\ worker'[w].pc # "none"
        /\ worker'[w].batch = worker[w].batch /\ queue' = queue
    BY <1>1 DEF WaitSignalled, WaitTimedOut, RetrySleep, shared, StepInv, TypeOK, Run
  <2> QED BY <2>1, HeldStep
<1>2. CASE TakeBatch(w)
  <2> DEFINE count == IF Len(queue) < settings.batchSize THEN Len(queue) ELSE settings.batchSize
  <2>1. /\ queue \in Seq(Message) /\ Len(queue) \in Nat /\ settings.batchSize \in BatchSizes
        /\ worker[w].pc = "take" /\ worker[w].batch = <<>>
    BY <1>2 DEF TakeBatch, StepInv, TypeOK, Settings, BatchInv
  <2>2. count \in 0..Len(queue)
    <3>1. settings.batchSize \in Nat
      BY <2>1, SenderAssumption
    <3> QED BY <2>1, <3>1
  <2>3. /\ queue' = SubSeq(queue, count + 1, Len(queue))
        /\ worker' = [worker EXCEPT ![w].pc = "post", ![w].batch = SubSeq(queue, 1, count)]
    BY <1>2 DEF TakeBatch
  <2> HIDE DEF count
  <2>4. worker'[w].pc = "post" /\ worker'[w].batch = SubSeq(queue, 1, count)
    <3>1. worker \in [Worker -> Run]
      BY DEF StepInv, TypeOK
    <3>2. worker'[w] = [worker[w] EXCEPT !.pc = "post", !.batch = SubSeq(queue, 1, count)]
      BY <2>3, <3>1
    <3>3. worker[w] \in Run
      BY <3>1
    <3> QED BY <3>2, <3>3 DEF Run
  <2>5. Held = <<>> \o queue /\ Held' = SubSeq(queue, 1, count) \o SubSeq(queue, count + 1, Len(queue))
    BY <2>1, <2>3, <2>4, HeldStep
  <2>6. <<>> \o queue = queue
    BY <2>1, ConcatEmptySeq
  <2>7. SubSeq(queue, 1, count) \o SubSeq(queue, count + 1, Len(queue)) = SubSeq(queue, 1, Len(queue))
    <3>1. 1 \in 1..Len(queue) + 1 /\ count \in (1 - 1)..Len(queue) /\ Len(queue) \in count..Len(queue)
      BY <2>1, <2>2
    <3> QED BY <2>1, <3>1, ConcatAdjacentSubSeq
  <2>8. SubSeq(queue, 1, Len(queue)) = queue
    BY <2>1, SubSeqFull
  <2> QED BY <2>5, <2>6, <2>7, <2>8
<1>3. CASE Finish(w)
  <2>1. /\ worker[w].pc = "take" /\ worker[w].batch = <<>> /\ queue = <<>> /\ queue' = <<>>
        /\ worker' = [worker EXCEPT ![w] = NoRun] /\ ~isProcessing'
    BY <1>3 DEF Finish, StepInv, BatchInv
  <2>2. Held = <<>> \o <<>>
    BY <2>1, HeldFact DEF HeldIsLine, StepInv, RunInv, Live
  <2>3. Held' = <<>>
    BY <2>1, HeldFactNext DEF HeldIsLine, StepInv, RunInv, SingleWorker
  <2>4. <<>> \o <<>> = <<>>
    BY EmptySeq, ConcatEmptySeq
  <2> QED BY <2>2, <2>3, <2>4
<1> QED BY <1>1, <1>2, <1>3

\* A run that posts its batch: the line starts with the batch.
LEMMA HeldPost ==
  ASSUME StepInv, NEW w \in Worker, worker[w].pc = "post"
  PROVE  /\ worker[w].batch \in Seq(Message) /\ queue \in Seq(Message)
         /\ Held = worker[w].batch \o queue
         /\ worker[w].batch # <<>> =>
              \E n \in 1..Len(Held) : /\ SubSeq(Held, 1, n) = worker[w].batch
                                      /\ SubSeq(Held, n + 1, Len(Held)) = queue
<1> DEFINE b == worker[w].batch
<1>1. b \in Seq(Message) /\ queue \in Seq(Message) /\ w \in Live
  BY DEF StepInv, TypeOK, Run, Live
<1>2. Held = b \o queue
  BY <1>1, HeldFact DEF HeldIsLine, StepInv, RunInv
<1> HIDE DEF b
<1>3. ASSUME b # <<>>
      PROVE  \E n \in 1..Len(Held) : /\ SubSeq(Held, 1, n) = b
                                     /\ SubSeq(Held, n + 1, Len(Held)) = queue
  <2>1. /\ Len(b) \in Nat \ {0} /\ Len(queue) \in Nat
        /\ Len(Held) = Len(b) + Len(queue)
    BY <1>1, <1>2, <1>3, EmptySeq, LenProperties, ConcatProperties
  <2>2. SubSeq(Held, 1, Len(b)) = b
    <3>1. 1 \in 1..Len(b) /\ Len(b) \in 1..Len(b)
      BY <2>1
    <3>2. SubSeq(b \o queue, 1, Len(b)) = SubSeq(b, 1, Len(b))
      BY <1>1, <3>1, SubSeqOfConcat1
    <3> QED BY <1>1, <1>2, <3>2, SubSeqFull
  <2>3. SubSeq(Held, Len(b) + 1, Len(Held)) = queue
    <3>1. CASE queue = <<>>
      BY <2>1, <3>1, EmptySeq, SubSeqEmpty
    <3>2. CASE queue # <<>>
      <4>1. Len(queue) # 0
        BY <1>1, <3>2, EmptySeq
      <4>2. /\ Len(b) + 1 \in (Len(b) + 1)..(Len(b) + Len(queue))
            /\ Len(b) + Len(queue) \in (Len(b) + 1)..(Len(b) + Len(queue))
            /\ (Len(b) + 1) - Len(b) = 1 /\ (Len(b) + Len(queue)) - Len(b) = Len(queue)
        BY <2>1, <4>1
      <4>3. SubSeq(b \o queue, Len(b) + 1, Len(b) + Len(queue))
              = SubSeq(queue, (Len(b) + 1) - Len(b), (Len(b) + Len(queue)) - Len(b))
        BY <1>1, <4>2, SubSeqOfConcat2
      <4>4. SubSeq(queue, 1, Len(queue)) = queue
        BY <1>1, SubSeqFull
      <4> QED BY <1>2, <2>1, <4>2, <4>3, <4>4
    <3> QED BY <3>1, <3>2
  <2>4. Len(b) \in 1..Len(Held)
    BY <2>1
  <2> QED BY <2>2, <2>3, <2>4
<1> QED BY <1>1, <1>2, <1>3 DEF b

\* What leaves the line with a batch of no message: nothing.
LEMMA ClearNothing ==
  ASSUME TypeOK, NEW w \in Worker, NEW f, ClearBatch(w, f), worker[w].batch = <<>>
  PROVE  fate' = fate
<1>1. ToSet(<<>>) = {}
  BY DEF ToSet
<1>2. fate' = [m \in Message |-> fate[m]]
  BY <1>1 DEF ClearBatch
<1> QED BY <1>2 DEF TypeOK

\* The end of a batch, however it ends.
LEMMA HeldClear ==
  ASSUME StepInv, StepInv', NEW w \in Worker, worker[w].pc = "post",
         NEW f, ClearBatch(w, f), queue' = queue
  PROVE  Held' = queue
<1>1. worker'[w].pc = "wait" /\ worker'[w].batch = <<>>
  BY DEF ClearBatch, NoRun, StepInv, TypeOK
<1>2. Held' = <<>> \o queue'
  BY <1>1, HeldStep
<1>3. queue \in Seq(Message)
  BY DEF StepInv, TypeOK
<1> QED BY <1>2, <1>3, ConcatEmptySeq

\* Clearing a batch settles the messages of the prefix it is.
LEMMA SettleBatch ==
  ASSUME NEW w \in Worker, NEW f, ClearBatch(w, f), NEW s, s = worker[w].batch
  PROVE  Delivery!Settle(s, f)
BY DEF ClearBatch, Delivery!Settle, ToSet, Delivery!ToSet

\* A successful post delivers the prefix.
LEMMA DeliverStep ==
  ASSUME StepInv, StepInv', NEW w \in Worker, PostSucceeds(w)
  PROVE  Delivery!Next \/ Unseen
<1>1. /\ worker[w].pc = "post" /\ ClearBatch(w, "delivered")
      /\ UNCHANGED <<settings, queue>>
  BY DEF PostSucceeds, shared
<1>2. PICK reply \in Replies : reply.ok /\ Store(worker[w].batch, reply)
  BY DEF PostSucceeds
<1>3. Held' = queue
  BY <1>1, HeldClear
<1>4. CASE worker[w].batch = <<>>
  <2>1. Held = queue
    BY <1>1, <1>4, HeldPost, ConcatEmptySeq
  <2>2. fate' = fate
    BY <1>1, <1>4, ClearNothing DEF StepInv
  <2>3. server' = server
    BY <1>2, <1>4 DEF Store
  <2> QED BY <1>1, <1>3, <2>1, <2>2, <2>3 DEF Unseen, Delivery!vars
<1>5. CASE worker[w].batch # <<>>
  <2>1. PICK n \in 1..Len(Held) : /\ SubSeq(Held, 1, n) = worker[w].batch
                                  /\ SubSeq(Held, n + 1, Len(Held)) = queue
    BY <1>1, <1>5, HeldPost
  <2>2. server' = IF settings.hasServerUrl THEN Append(server, worker[w].batch) ELSE server
    BY <1>2, <1>5, OkMeansStored
  <2>3. Delivery!Settle(SubSeq(Held, 1, n), "delivered")
    BY <1>1, <2>1, SettleBatch
  <2>4. Delivery!Deliver(n)
    BY <1>3, <2>1, <2>2, <2>3 DEF Delivery!Deliver
  <2> QED BY <1>1, <2>4 DEF Delivery!Next
<1> QED BY <1>4, <1>5

\* The last failure of a batch gives the prefix up.
LEMMA GiveUpStep ==
  ASSUME StepInv, StepInv', NEW w \in Worker, PostFailsAbandon(w)
  PROVE  Delivery!Next \/ Unseen
<1>1. /\ worker[w].pc = "post" /\ ClearBatch(w, "dropped")
      /\ UNCHANGED <<settings, queue>>
  BY DEF PostFailsAbandon
<1>2. PICK reply \in Replies : Store(worker[w].batch, reply)
  BY DEF PostFailsAbandon
<1>3. Held' = queue
  BY <1>1, HeldClear
<1>4. CASE worker[w].batch = <<>>
  <2>1. Held = queue
    BY <1>1, <1>4, HeldPost, ConcatEmptySeq
  <2>2. fate' = fate
    BY <1>1, <1>4, ClearNothing DEF StepInv
  <2>3. server' = server
    BY <1>2, <1>4 DEF Store
  <2> QED BY <1>1, <1>3, <2>1, <2>2, <2>3 DEF Unseen, Delivery!vars
<1>5. CASE worker[w].batch # <<>>
  <2>1. PICK n \in 1..Len(Held) : /\ SubSeq(Held, 1, n) = worker[w].batch
                                  /\ SubSeq(Held, n + 1, Len(Held)) = queue
    BY <1>1, <1>5, HeldPost
  <2>2. server' \in {server, Append(server, worker[w].batch)}
    BY <1>2 DEF Store
  <2>3. Delivery!Settle(SubSeq(Held, 1, n), "dropped")
    BY <1>1, <2>1, SettleBatch
  <2>4. Delivery!GiveUp(n)
    BY <1>3, <2>1, <2>2, <2>3 DEF Delivery!GiveUp
  <2> QED BY <1>1, <2>4 DEF Delivery!Next
<1> QED BY <1>4, <1>5

\* An earlier failure leaves the batch in the line; the server may have it.
LEMMA RetryStep ==
  ASSUME StepInv, StepInv', NEW w \in Worker, PostFailsRetry(w)
  PROVE  Delivery!Next \/ Unseen
<1>1. /\ worker[w].pc = "post" /\ UNCHANGED <<settings, queue, fate>>
  BY DEF PostFailsRetry, shared
<1>2. PICK reply \in Replies : Store(worker[w].batch, reply)
  BY DEF PostFailsRetry
<1>3. Held' = Held
  <2>1. worker'[w].batch = worker[w].batch /\ worker'[w].pc \in {"wait", "sleep"}
    BY DEF PostFailsRetry, BackOff, LoopTop, StepInv, TypeOK, Run
  <2> QED BY <1>1, <2>1, HeldStep
<1>4. CASE server' = server
  BY <1>1, <1>3, <1>4 DEF Unseen, Delivery!vars
<1>5. CASE server' # server
  <2>1. worker[w].batch # <<>> /\ server' = Append(server, worker[w].batch)
    BY <1>2, <1>5 DEF Store
  <2>2. PICK n \in 1..Len(Held) : SubSeq(Held, 1, n) = worker[w].batch
    BY <1>1, <2>1, HeldPost
  <2>3. Delivery!StoreUnacknowledged(n)
    BY <1>1, <1>3, <2>1, <2>2 DEF Delivery!StoreUnacknowledged
  <2> QED BY <1>1, <2>3 DEF Delivery!Next
<1> QED BY <1>4, <1>5

\* The listener starts as the abstract delivery starts,
LEMMA DeliveryInit == Init => Delivery!Init
<1> SUFFICES ASSUME Init PROVE Delivery!Init
  OBVIOUS
<1>1. Held = <<>>
  <2>1. Live = {} /\ SingleWorker
    BY DEF Init, Live, SingleWorker, NoRun
  <2> QED BY <2>1, HeldFact DEF HeldIsLine, Init
<1>2. settings.hasServerUrl \in BOOLEAN
  BY DEF Init, Settings
<1> QED BY <1>1, <1>2 DEF Init, Delivery!Init

\* and each of its steps is one of the delivery, or none.
LEMMA DeliveryNext == StepInv /\ StepInv' /\ [Next]_vars => [Delivery!Next]_(Delivery!vars)
<1> SUFFICES ASSUME StepInv, StepInv', [Next]_vars PROVE Delivery!Next \/ Unseen
  BY DEF Unseen
<1>1. ASSUME NEW m \in Message, WriteTrace(m) PROVE Delivery!Next
  BY <1>1, OfferStep, EnqueueStep, AloneStep DEF WriteTrace
<1>2. ASSUME NEW n \in BatchSizes, SetBatchSize(n) PROVE Unseen
  <2>1. Held' = Held
    BY <1>2, HeldSame DEF SetBatchSize, shared
  <2>2. settings'.hasServerUrl = settings.hasServerUrl
    BY <1>2 DEF SetBatchSize, StepInv, TypeOK, Settings
  <2> QED BY <1>2, <2>1, <2>2 DEF Unseen, Delivery!vars, SetBatchSize
<1>3. ASSUME NEW w \in Worker, Process(w) PROVE Delivery!Next \/ Unseen
  BY <1>3, UnseenStep, DeliverStep, GiveUpStep, RetryStep DEF Process
<1>4. CASE UNCHANGED vars
  <2>1. Held' = Held
    BY <1>4, HeldSame DEF vars
  <2> QED BY <1>4, <2>1 DEF vars, Unseen, Delivery!vars
<1> QED BY <1>1, <1>2, <1>3, <1>4 DEF Next

(* For any number of messages and threads, any batch size and any failures of
   the server: what Process and Enqueue do is what the abstract line allows.
   In particular a message leaves the sender only from the front, and none
   that was accepted is forgotten. *)
THEOREM SenderIsDelivery == Spec => ImplementsDelivery
<1>1. Spec => []StepInv
  BY TypeCorrect, RunInvariant, BatchInvariant, PTL DEF StepInv
<1> QED BY <1>1, DeliveryInit, DeliveryNext, PTL DEF Spec, ImplementsDelivery, Delivery!Spec

--------------------------------------------------------------------------------
(* SeqTraceData: what is recorded of a trace, and what is sent of it.       *)

KeysOnce(d) == \A m, n \in DOMAIN d : d[m][1] = d[n][1] => m = n

\* The names in a set of pairs, and in a sequence of them.
KeySet(pairs) == {p[1] : p \in pairs}

KeysOf(d) == KeySet(ToSet(d))

\* A pair with a new name goes to the end.
Appended(f, e, pair) ==
  /\ KeysOnce(f) /\ ToSet(f) = ToSet(e) \cup {pair}
  /\ \A key : key \in KeysOf(f) <=> (key \in KeysOf(e) \/ key = pair[1])

\* A pair with a new key goes to the end of a dictionary.
LEMMA AppendNew ==
  ASSUME NEW P, NEW e \in Seq(P), KeysOnce(e), NEW pair \in P, pair[1] \notin KeysOf(e)
  PROVE  Append(e, pair) \in Seq(P) /\ Appended(Append(e, pair), e, pair)
<1> DEFINE k == Len(e)
           f == Append(e, pair)
<1>1. /\ k \in Nat /\ f \in Seq(P) /\ Len(f) = k + 1 /\ f[k + 1] = pair
      /\ \A j \in 1..k : f[j] = e[j]
  BY AppendProperties
<1>2. DOMAIN f = 1..(k + 1) /\ DOMAIN e = 1..k
  BY <1>1
<1> HIDE DEF f
<1>3. ToSet(f) = {f[j] : j \in 1..(k + 1)} /\ ToSet(e) = {e[j] : j \in 1..k}
  BY <1>1, ToSetIsRange
<1>4. ToSet(f) = ToSet(e) \cup {pair}
  <2>1. \A j : j \in 1..(k + 1) <=> j \in 1..k \/ j = k + 1
    BY <1>1
  <2> QED BY <1>1, <1>3, <2>1
<1>5. \A j \in 1..k : e[j][1] # pair[1]
  BY <1>3 DEF KeysOf, KeySet
<1>6. KeysOnce(f)
  <2>1. ASSUME NEW m \in 1..(k + 1), NEW j \in 1..(k + 1), f[m][1] = f[j][1] PROVE m = j
    <3>1. CASE m \in 1..k /\ j \in 1..k
      BY <1>1, <1>2, <2>1, <3>1 DEF KeysOnce
    <3>2. CASE m = k + 1 /\ j \in 1..k
      BY <1>1, <1>5, <2>1, <3>2
    <3>3. CASE m \in 1..k /\ j = k + 1
      BY <1>1, <1>5, <2>1, <3>3
    <3>4. CASE m = k + 1 /\ j = k + 1
      BY <3>4
    <3> QED BY <1>1, <3>1, <3>2, <3>3, <3>4
  <2> QED BY <1>2, <2>1 DEF KeysOnce
<1>7. \A key : key \in KeysOf(f) <=> (key \in KeysOf(e) \/ key = pair[1])
  BY <1>4 DEF KeysOf, KeySet
<1> QED BY <1>1, <1>4, <1>6, <1>7 DEF Appended, f

\* The pairs of a dictionary after d[key] = value.
Replaced(pairs, key, value) == {p \in pairs : p[1] # key} \cup {<<key, value>>}

\* A value is replaced or added under its key.
LEMMA ReplacedFacts ==
  ASSUME NEW pairs, NEW key, NEW value
  PROVE  /\ KeySet(Replaced(pairs, key, value)) = KeySet(pairs) \cup {key}
         /\ \A p \in Replaced(pairs, key, value) :
              (p = <<key, value>> /\ p[1] = key) \/ (p \in pairs /\ p[1] # key)
<1> DEFINE new == <<key, value>>
<1>1. new[1] = key
  OBVIOUS
<1>2. Replaced(pairs, key, value) = {p \in pairs : p[1] # key} \cup {new}
  BY DEF Replaced
<1> HIDE DEF new
<1>3. \A p \in Replaced(pairs, key, value) : (p = new /\ p[1] = key) \/ (p \in pairs /\ p[1] # key)
  BY <1>1, <1>2
<1>4. {p[1] : p \in Replaced(pairs, key, value)} \subseteq {p[1] : p \in pairs} \cup {key}
  BY <1>1, <1>2
<1>5. ASSUME NEW p \in pairs PROVE p[1] \in {q[1] : q \in Replaced(pairs, key, value)}
  <2>1. CASE p[1] = key
    BY <1>1, <1>2, <2>1
  <2>2. CASE p[1] # key
    <3>1. p \in Replaced(pairs, key, value)
      BY <1>2, <1>5, <2>2
    <3> QED BY <3>1
  <2> QED BY <2>1, <2>2
<1>6. key \in {q[1] : q \in Replaced(pairs, key, value)}
  BY <1>1, <1>2
<1>7. {p[1] : p \in pairs} \cup {key} \subseteq {p[1] : p \in Replaced(pairs, key, value)}
  BY <1>5, <1>6
<1>8. KeySet(Replaced(pairs, key, value)) = KeySet(pairs) \cup {key}
  BY <1>4, <1>7, Zenon DEF KeySet
<1>9. \A p \in Replaced(pairs, key, value) : (p = <<key, value>> /\ p[1] = key) \/ (p \in pairs /\ p[1] # key)
  BY <1>3, Zenon DEF new
<1> QED BY <1>8, <1>9, Zenon

\* d[key] = value, for a key that is there and for one that is not.
LEMMA AssignFacts ==
  ASSUME NEW P, NEW d \in Seq(P), KeysOnce(d), NEW key, NEW value, <<key, value>> \in P
  PROVE  LET e == Assign(d, key, value) IN
         /\ e \in Seq(P) /\ KeysOnce(e)
         /\ ToSet(e) = Replaced(ToSet(d), key, value)
<1> DEFINE new == <<key, value>>
           e == Assign(d, key, value)
           l == Len(d)
<1>1. new \in P /\ new[1] = key /\ l \in Nat /\ DOMAIN d = 1..l
  OBVIOUS
<1>2. CASE \E m \in DOMAIN d : d[m][1] = key
  <2>1. PICK m \in 1..l : d[m][1] = key
    BY <1>1, <1>2
  <2>2. \A j \in 1..l : d[j][1] = key <=> j = m
    BY <1>1, <2>1 DEF KeysOnce
  <2>3. e = [j \in 1..l |-> IF d[j][1] = key THEN new ELSE d[j]]
    BY <1>1, <1>2 DEF Assign
  <2> HIDE DEF e, new
  <2>4. \A j \in 1..l : e[j] = IF j = m THEN new ELSE d[j]
    BY <2>2, <2>3
  <2>5. e \in Seq(P) /\ Len(e) = l /\ DOMAIN e = 1..l
    <3>1. \A j \in 1..l : d[j] \in P
      BY <1>1
    <3>2. e \in [1..l -> P]
      BY <1>1, <2>3, <3>1 DEF new
    <3> QED BY <1>1, <3>2, FunctionIsSeq
  <2>6. KeysOnce(e)
    BY <1>1, <2>2, <2>4, <2>5 DEF KeysOnce
  <2>7. ToSet(e) = {e[j] : j \in 1..l} /\ ToSet(d) = {d[j] : j \in 1..l}
    BY <2>5, ToSetIsRange
  <2>8. ToSet(e) = {p \in ToSet(d) : p[1] # key} \cup {new}
    BY <1>1, <2>1, <2>2, <2>4, <2>7
  <2> QED BY <2>5, <2>6, <2>8 DEF e, new, Replaced
<1>3. CASE ~\E m \in DOMAIN d : d[m][1] = key
  <2>1. e = Append(d, new) /\ \A j \in 1..l : d[j][1] # key
    BY <1>1, <1>3 DEF Assign
  <2> HIDE DEF e, new
  <2>2. ToSet(d) = {d[j] : j \in 1..l}
    BY ToSetIsRange
  <2>3. new[1] \notin KeysOf(d)
    BY <1>1, <2>1, <2>2 DEF KeysOf, KeySet
  <2>4. e \in Seq(P) /\ Appended(e, d, new)
    BY <1>1, <2>1, <2>3, AppendNew
  <2>5. ToSet(e) = {p \in ToSet(d) : p[1] # key} \cup {new}
    BY <2>1, <2>2, <2>4 DEF Appended
  <2> QED BY <2>4, <2>5 DEF e, new, Replaced, Appended
<1> QED BY <1>2, <1>3

IsLoop(g, d, s, skipped) ==
  /\ g[0] = d /\ AssignAll(d, s, skipped) = g[Len(s)]
  /\ \A n \in 0..Len(s) : n < Len(s) =>
       g[n + 1] = IF s[n + 1][1] \in skipped THEN g[n]
                  ELSE Assign(g[n], s[n + 1][1], s[n + 1][2])

\* The loop of AssignAll, as a function of the number of pairs it has been through.
LEMMA AssignAllLoop ==
  ASSUME NEW P, \A p \in P : p = <<p[1], p[2]>>,
         NEW d \in Seq(P), KeysOnce(d), NEW s \in Seq(P), NEW skipped
  PROVE  \E g : IsLoop(g, d, s, skipped)
<1> DEFINE l == Len(s)
           S == {e \in Seq(P) : KeysOnce(e)}
           next(n, e) == IF n \notin 1..l \/ s[n][1] \in skipped THEN e
                         ELSE Assign(e, s[n][1], s[n][2])
           step == [q \in Nat \X S |-> next(q[1] + 1, q[2])]
           Is(g) == g = [n \in 0..l |-> IF n = 0 THEN d
                                        ELSE IF s[n][1] \in skipped THEN g[n - 1]
                                        ELSE Assign(g[n - 1], s[n][1], s[n][2])]
           g == CHOOSE f : Is(f)
<1>1. l \in Nat /\ \A n \in 1..l : s[n] \in P /\ s[n] = <<s[n][1], s[n][2]>>
  OBVIOUS
<1>2. step \in [Nat \X S -> S]
  <2>1. ASSUME NEW n \in Nat, NEW e \in S PROVE next(n, e) \in S
    <3>1. CASE n \notin 1..l \/ s[n][1] \in skipped
      BY <2>1, <3>1
    <3>2. CASE n \in 1..l /\ s[n][1] \notin skipped
      <4>1. <<s[n][1], s[n][2]>> \in P
        BY <1>1, <3>2
      <4>2. Assign(e, s[n][1], s[n][2]) \in S
        BY <2>1, <4>1, AssignFacts
      <4> QED BY <3>2, <4>2
    <3> QED BY <3>1, <3>2
  <2>2. \A q \in Nat \X S : q[1] + 1 \in Nat /\ q[2] \in S
    OBVIOUS
  <2> HIDE DEF next, S
  <2>3. \A q \in Nat \X S : next(q[1] + 1, q[2]) \in S
    BY <2>1, <2>2
  <2> QED BY <2>3
<1>3. PICK h \in [0..l -> S] : Iterates(h, d, step, l)
  <2>1. d \in S
    OBVIOUS
  <2> HIDE DEF step, S, l
  <2> QED BY <1>1, <1>2, <2>1, Recursion
<1>4. Is(h)
  <2>1. ASSUME NEW n \in 1..l PROVE h[n] = next(n, h[n - 1])
    <3>1. n - 1 \in 0..l /\ n - 1 < l /\ n - 1 + 1 = n /\ n - 1 \in Nat
      BY <1>1
    <3>2. h[n - 1] \in S
      BY <1>3, <3>1
    <3> HIDE DEF S, next, l
    <3> QED BY <1>3, <3>1, <3>2 DEF Iterates
  <2> HIDE DEF S
  <2> QED BY <1>1, <1>3, <2>1 DEF Iterates
<1>5. AssignAll(d, s, skipped) = g[l]
  BY Zenon DEF AssignAll
<1>6. Is(g)
  <2> HIDE DEF Is
  <2> QED BY <1>4, Zenon
<1> HIDE DEF g
<1>7. g[0] = d /\ \A n \in 0..l : n < l => g[n + 1] = IF s[n + 1][1] \in skipped THEN g[n]
                                                  ELSE Assign(g[n], s[n + 1][1], s[n + 1][2])
  <2>1. g[0] = d
    BY <1>1, <1>6
  <2>2. ASSUME NEW n \in 0..l, n < l
        PROVE  g[n + 1] = IF s[n + 1][1] \in skipped THEN g[n]
                          ELSE Assign(g[n], s[n + 1][1], s[n + 1][2])
    <3>1. n + 1 \in 0..l /\ n + 1 # 0 /\ (n + 1) - 1 = n
      BY <1>1, <2>2
    <3> QED BY <1>6, <3>1
  <2> QED BY <2>1, <2>2
<1>8. IsLoop(g, d, s, skipped)
  BY <1>5, <1>7 DEF IsLoop
<1> QED BY <1>8

\* The names that are assigned by the first n pairs.
Given(s, skipped, n) == {s[m][1] : m \in {k \in 1..n : s[k][1] \notin skipped}}

\* Assigning a list of properties: each name that is given gets one of its values, the others keep
\* theirs.
LEMMA AssignAllFacts ==
  ASSUME NEW P, \A p \in P : p = <<p[1], p[2]>>,
         NEW d \in Seq(P), KeysOnce(d), NEW s \in Seq(P), NEW skipped
  PROVE  LET e == AssignAll(d, s, skipped)
             names == Given(s, skipped, Len(s))
         IN  /\ e \in Seq(P) /\ KeysOnce(e) /\ KeysOf(e) = KeysOf(d) \cup names
             /\ \A p \in ToSet(e) : IF p[1] \in names THEN p \in ToSet(s) ELSE p \in ToSet(d)
<1> DEFINE l == Len(s)
           names(n) == Given(s, skipped, n)
           Good(e, n) == /\ e \in Seq(P) /\ KeysOnce(e) /\ KeysOf(e) = KeysOf(d) \cup names(n)
                         /\ \A p \in ToSet(e) : IF p[1] \in names(n) THEN p \in ToSet(s) ELSE p \in ToSet(d)
<1>1. l \in Nat /\ \A n \in 1..l : s[n] = <<s[n][1], s[n][2]>> /\ s[n] \in P /\ s[n] \in ToSet(s)
  BY ToSetIsRange
<1>2. PICK g : IsLoop(g, d, s, skipped)
  BY AssignAllLoop
<1> DEFINE T == {n \in 0..l : Good(g[n], n)}
<1>3. 0 \in T
  <2>1. names(0) = {}
    BY DEF Given
  <2>2. Good(d, 0)
    BY <2>1
  <2> QED BY <1>1, <1>2, <2>2 DEF IsLoop
<1>4. ASSUME NEW n \in 0..l, n \in T, n < l PROVE n + 1 \in T
  <2> DEFINE key == s[n + 1][1]
             value == s[n + 1][2]
             old == g[n]
             new == Assign(old, key, value)
  <2>1. n + 1 \in 0..l /\ n + 1 \in 1..l /\ n \in Nat
    BY <1>1, <1>4
  <2>2. <<key, value>> \in P /\ s[n + 1] = <<key, value>> /\ s[n + 1] \in ToSet(s)
    BY <1>1, <2>1
  <2>3. \A k : k \in 1..(n + 1) <=> k \in 1..n \/ k = n + 1
    BY <2>1
  <2>4. Good(old, n)
    BY <1>4
  <2>5. CASE key \in skipped
    <3>1. names(n + 1) = names(n)
      BY <2>3, <2>5 DEF Given
    <3>2. g[n + 1] = old
      BY <1>2, <1>4, <2>5 DEF IsLoop
    <3> HIDE DEF old, names
    <3> QED BY <2>1, <2>4, <3>1, <3>2
  <2>6. CASE key \notin skipped
    <3>1. names(n + 1) = names(n) \cup {key}
      BY <2>3, <2>6 DEF Given
    <3>2. g[n + 1] = new
      BY <1>2, <1>4, <2>6 DEF IsLoop
    <3> HIDE DEF old, key, value, names
    <3>3. /\ new \in Seq(P) /\ KeysOnce(new)
          /\ ToSet(new) = Replaced(ToSet(old), key, value)
      <4>1. old \in Seq(P) /\ KeysOnce(old)
        BY <2>4
      <4> QED BY <2>2, <4>1, AssignFacts
    <3> HIDE DEF new
    <3>4. KeysOf(new) = KeysOf(old) \cup {key}
      BY <3>3, ReplacedFacts DEF KeysOf
    <3>5. ASSUME NEW p \in ToSet(new)
          PROVE  IF p[1] \in names(n + 1) THEN p \in ToSet(s) ELSE p \in ToSet(d)
      <4>1. p \in Replaced(ToSet(old), key, value)
        BY <3>3
      <4>2. (p = s[n + 1] /\ p[1] = key) \/ (p \in ToSet(old) /\ p[1] # key)
        BY <2>2, <4>1, ReplacedFacts
      <4>3. p \in ToSet(old) => IF p[1] \in names(n) THEN p \in ToSet(s) ELSE p \in ToSet(d)
        BY <2>4
      <4> QED BY <2>2, <3>1, <4>2, <4>3
    <3>6. Good(new, n + 1)
      BY <2>4, <3>1, <3>3, <3>4, <3>5
    <3> QED BY <2>1, <3>2, <3>6
  <2> QED BY <2>5, <2>6
<1>5. l \in T
  <2> HIDE DEF T, l
  <2>1. \A n \in 0..l : n \in T
    BY <1>1, <1>3, <1>4, UptoInd
  <2> QED BY <1>1, <2>1
<1> QED BY <1>2, <1>5 DEF IsLoop

--------------------------------------------------------------------------------
Traced == [call : Calls, stack : Stacks, source : BOOLEAN, threadId : BOOLEAN,
           recordStack : BOOLEAN, processData : BOOLEAN, processStack : BOOLEAN]

Origins == {"listener", "operation", "argument", "data"} \X Nat

\* What may be recorded: only collections and what operations have is live.
RecordedValues == {v \in [from : Origins, kind : PropertyKind, live : BOOLEAN] :
                     v.live => v.kind = "list" \/ v.from[1] = "operation"}

RecordedPairs == PropertyName \X RecordedValues

\* A recorded property is a name with a value.
LEMMA PairsAre == \A p \in RecordedPairs : p = <<p[1], p[2]>>
BY DEF RecordedPairs

\* Items and their properties.
LEMMA ItemFacts ==
  ASSUME seqTrace \in Traced
  PROVE  /\ seqTrace.stack \in Seq(Item)
         /\ seqTrace.call \in Calls
         /\ seqTrace.call.data # NoObject => seqTrace.call.data \in Seq(Item)
         /\ \A item \in Item : item.properties \in Seq(PropertyName \X PropertyKind)
<1>1. seqTrace.stack \in Stacks /\ seqTrace.call \in Calls
  BY DEF Traced
<1> QED BY <1>1, TraceDataAssumption

\* Properties, as they are kept or recorded.
KeptFrom(origin, properties) ==
  [m \in DOMAIN properties |-> <<properties[m][1], Kept(origin, properties[m][2])>>]
RecordedFrom(origin, properties) ==
  [m \in DOMAIN properties |-> <<properties[m][1], RecordedValue(origin, properties[m][2])>>]

\* Properties, as they are kept: the names of what was given, and the values of whoever gave it.
GivenBy(s, origin, properties, skipped) ==
  /\ s \in Seq(RecordedPairs)
  /\ Given(s, skipped, Len(s)) = KeysOf(properties) \ skipped
  /\ \A p \in ToSet(s) : p[2].from = origin

\* What one origin gives, as it is written in the model and by its names.
LEMMA KeptFacts ==
  ASSUME NEW properties \in Seq(PropertyName \X PropertyKind), NEW origin \in Origins,
         NEW s, NEW skipped,
         (s = KeptFrom(origin, properties) /\ origin[1] = "operation") \/ s = RecordedFrom(origin, properties)
  PROVE  GivenBy(s, origin, properties, skipped)
<1> DEFINE l == Len(properties)
<1> USE DEF KeptFrom, RecordedFrom
<1>1. l \in Nat /\ DOMAIN properties = 1..l /\ DOMAIN s = 1..l
  OBVIOUS
<1>2. ASSUME NEW m \in 1..l
      PROVE  /\ s[m] \in RecordedPairs /\ s[m][1] = properties[m][1]
             /\ s[m][2].from = origin
  <2>1. properties[m] \in PropertyName \X PropertyKind
    BY <1>1, <1>2
  <2>2. PICK name \in PropertyName, kind \in PropertyKind : properties[m] = <<name, kind>>
    BY <2>1
  <2>3. properties[m][1] = name /\ properties[m][2] = kind
    BY <2>2
  <2>4. CASE s[m] = <<name, Kept(origin, kind)>> /\ origin[1] = "operation"
    <3> DEFINE value == Kept(origin, kind)
    <3>1. value \in RecordedValues /\ value.from = origin
      BY <2>4 DEF Kept, RecordedValues
    <3> HIDE DEF value
    <3> QED BY <2>3, <2>4, <3>1 DEF RecordedPairs, value
  <2>5. CASE s[m] = <<name, RecordedValue(origin, kind)>>
    <3> DEFINE value == RecordedValue(origin, kind)
    <3>1. value \in RecordedValues /\ value.from = origin
      BY <2>5 DEF RecordedValue, RecordedValues
    <3> HIDE DEF value
    <3> QED BY <2>3, <2>5, <3>1 DEF RecordedPairs, value
  <2> QED BY <1>1, <1>2, <2>3, <2>4, <2>5
<1>3. s \in [1..l -> RecordedPairs]
  <2>1. s = [m \in 1..l |-> s[m]]
    BY <1>1
  <2> QED BY <1>2, <2>1
<1>4. s \in Seq(RecordedPairs) /\ Len(s) = l
  BY <1>1, <1>3, FunctionIsSeq
<1>5. ToSet(s) = {s[m] : m \in 1..l} /\ ToSet(properties) = {properties[m] : m \in 1..l}
  BY <1>4, ToSetIsRange
<1>6. Given(s, skipped, l) = KeysOf(properties) \ skipped
  <2>1. KeysOf(properties) = {properties[m][1] : m \in 1..l}
    BY <1>5 DEF KeysOf, KeySet
  <2> QED BY <1>2, <2>1 DEF Given
<1> QED BY <1>2, <1>4, <1>5, <1>6 DEF GivenBy

OperationStep(n, e) ==
  IF GivesProperties(seqTrace.stack[n], seqTrace.processStack)
  THEN AssignAll(e, OperationProperties(n), {"MessageTemplate"}) ELSE e

IsOperationLoop(g, d) ==
  /\ g[0] = d /\ AddOperations(d) = g[Len(seqTrace.stack)]
  /\ \A n \in 0..Len(seqTrace.stack) : n < Len(seqTrace.stack) => g[n + 1] = OperationStep(n + 1, g[n])

\* The properties of an operation.
LEMMA OperationFacts ==
  ASSUME seqTrace \in Traced, NEW n \in 1..Len(seqTrace.stack)
  PROVE  LET s == OperationProperties(n)
         IN  /\ s \in Seq(RecordedPairs)
             /\ Given(s, {"MessageTemplate"}, Len(s)) = NamesOf(seqTrace.stack[n]) \ {"MessageTemplate"}
             /\ \A p \in ToSet(s) : p[2].from = Of("operation", n)
<1> DEFINE properties == seqTrace.stack[n].properties
           origin == Of("operation", n)
           s == OperationProperties(n)
<1>1. seqTrace.stack \in Seq(Item) /\ properties \in Seq(PropertyName \X PropertyKind)
  <2>1. seqTrace.stack[n] \in Item
    BY ItemFacts
  <2> QED BY <2>1, ItemFacts
<1>2. origin \in Origins /\ origin[1] = "operation"
  <2>1. n \in Nat
    BY <1>1
  <2> QED BY <2>1 DEF Of, Origins
<1>3. s = KeptFrom(origin, properties)
  BY DEF OperationProperties, KeptFrom
<1>4. KeysOf(properties) = NamesOf(seqTrace.stack[n])
  BY DEF KeysOf, KeySet, NamesOf
<1> DEFINE skipped == {"MessageTemplate"}
<1> HIDE DEF properties, origin, s, skipped
<1>5. GivenBy(s, origin, properties, skipped)
  <2>1. properties \in Seq(PropertyName \X PropertyKind)
    BY <1>1
  <2>2. origin \in Origins
    BY <1>2
  <2>3. (s = KeptFrom(origin, properties) /\ origin[1] = "operation") \/ s = RecordedFrom(origin, properties)
    BY <1>2, <1>3
  <2> QED BY <2>1, <2>2, <2>3, KeptFacts
<1> QED BY <1>4, <1>5 DEF s, origin, skipped, GivenBy

\* What one operation does to the dictionary.
AfterOperation(f, e, n) ==
  /\ f \in Seq(RecordedPairs) /\ KeysOnce(f)
  /\ \A key : key \in KeysOf(f) <=> (key \in KeysOf(e) \/ n \in ScopesOf(key))
  /\ \A p \in ToSet(f) : IF n \in ScopesOf(p[1]) THEN p[2].from = Of("operation", n)
                         ELSE p \in ToSet(e)

\* One operation of the stack adds its properties under those that are there.
LEMMA OperationStepFacts ==
  ASSUME seqTrace \in Traced, NEW n \in 1..Len(seqTrace.stack),
         NEW e \in Seq(RecordedPairs), KeysOnce(e)
  PROVE  AfterOperation(OperationStep(n, e), e, n)
<1> DEFINE s == OperationProperties(n)
           f == OperationStep(n, e)
           names == Given(s, {"MessageTemplate"}, Len(s))
<1>1. \A key : n \in ScopesOf(key) <=>
               /\ GivesProperties(seqTrace.stack[n], seqTrace.processStack)
               /\ key \in NamesOf(seqTrace.stack[n]) \ {"MessageTemplate"}
  <2>1. n \in DOMAIN seqTrace.stack
    BY ItemFacts
  <2> QED BY <2>1 DEF ScopesOf
<1>2. CASE ~GivesProperties(seqTrace.stack[n], seqTrace.processStack)
  <2>1. f = e /\ \A key : n \notin ScopesOf(key)
    BY <1>1, <1>2 DEF OperationStep
  <2> HIDE DEF f
  <2> QED BY <2>1 DEF f, AfterOperation
<1>3. CASE GivesProperties(seqTrace.stack[n], seqTrace.processStack)
  <2>1. f = AssignAll(e, s, {"MessageTemplate"})
    BY <1>3 DEF OperationStep
  <2>2. /\ s \in Seq(RecordedPairs) /\ names = NamesOf(seqTrace.stack[n]) \ {"MessageTemplate"}
        /\ \A p \in ToSet(s) : p[2].from = Of("operation", n)
    BY OperationFacts
  <2>3. \A key : n \in ScopesOf(key) <=> key \in names
    BY <1>1, <1>3, <2>2
  <2> HIDE DEF s, f
  <2>4. /\ f \in Seq(RecordedPairs) /\ KeysOnce(f) /\ KeysOf(f) = KeysOf(e) \cup names
        /\ \A p \in ToSet(f) : IF p[1] \in names THEN p \in ToSet(s) ELSE p \in ToSet(e)
    BY <2>1, <2>2, PairsAre, AssignAllFacts
  <2> HIDE DEF names
  <2>5. \A key : key \in KeysOf(f) <=> (key \in KeysOf(e) \/ n \in ScopesOf(key))
    BY <2>3, <2>4
  <2>6. \A p \in ToSet(f) : IF n \in ScopesOf(p[1]) THEN p[2].from = Of("operation", n) ELSE p \in ToSet(e)
    BY <2>2, <2>3, <2>4
  <2> QED BY <2>4, <2>5, <2>6 DEF f, AfterOperation
<1> QED BY <1>2, <1>3

\* The loop over the stack is a function on its positions,
LEMMA AddOperationsLoop ==
  ASSUME seqTrace \in Traced, NEW d \in Seq(RecordedPairs), KeysOnce(d)
  PROVE  \E g : IsOperationLoop(g, d)
<1> DEFINE l == Len(seqTrace.stack)
           S == {e \in Seq(RecordedPairs) : KeysOnce(e)}
           next(n, e) == IF n \notin 1..l THEN e ELSE OperationStep(n, e)
           step == [q \in Nat \X S |-> next(q[1] + 1, q[2])]
           Is(g) == g = [n \in 0..l |->
                           IF n = 0 THEN d
                           ELSE IF GivesProperties(seqTrace.stack[n], seqTrace.processStack)
                           THEN AssignAll(g[n - 1], OperationProperties(n), {"MessageTemplate"})
                           ELSE g[n - 1]]
           g == CHOOSE f : Is(f)
<1>1. l \in Nat
  BY ItemFacts
<1>2. step \in [Nat \X S -> S]
  <2>1. ASSUME NEW n \in Nat, NEW e \in S PROVE next(n, e) \in S
    <3>1. CASE n \notin 1..l
      BY <2>1, <3>1
    <3>2. CASE n \in 1..l
      <4>1. OperationStep(n, e) \in S
        BY <2>1, <3>2, OperationStepFacts DEF AfterOperation
      <4> QED BY <3>2, <4>1
    <3> QED BY <3>1, <3>2
  <2>2. \A q \in Nat \X S : q[1] + 1 \in Nat /\ q[2] \in S
    OBVIOUS
  <2> HIDE DEF next, S
  <2>3. \A q \in Nat \X S : next(q[1] + 1, q[2]) \in S
    BY <2>1, <2>2
  <2> QED BY <2>3
<1>3. PICK h \in [0..l -> S] : Iterates(h, d, step, l)
  <2>1. d \in S
    OBVIOUS
  <2> HIDE DEF step, S, l
  <2> QED BY <1>1, <1>2, <2>1, Recursion
<1>4. Is(h)
  <2>1. ASSUME NEW n \in 1..l PROVE h[n] = OperationStep(n, h[n - 1])
    <3>1. n - 1 \in 0..l /\ n - 1 < l /\ n - 1 + 1 = n /\ n - 1 \in Nat
      BY <1>1
    <3>2. h[n - 1] \in S
      BY <1>3, <3>1
    <3>3. h[n] = step[<<n - 1, h[n - 1]>>]
      <4>1. h[n - 1 + 1] = step[<<n - 1, h[n - 1]>>]
        BY <1>3, <3>1 DEF Iterates
      <4> QED BY <3>1, <4>1
    <3>4. step[<<n - 1, h[n - 1]>>] = next(n, h[n - 1])
      <4> HIDE DEF S, next
      <4> QED BY <3>1, <3>2
    <3> QED BY <3>3, <3>4
  <2> HIDE DEF S
  <2> QED BY <1>1, <1>3, <2>1 DEF Iterates, OperationStep
<1>5. AddOperations(d) = g[l]
  BY Zenon DEF AddOperations
<1>6. Is(g)
  <2> HIDE DEF Is
  <2> QED BY <1>4, Zenon
<1> HIDE DEF g
<1>7. g[0] = d
  BY <1>1, <1>6
<1>8. ASSUME NEW n \in 0..l, n < l PROVE g[n + 1] = OperationStep(n + 1, g[n])
  <2>1. n + 1 \in 0..l /\ n + 1 # 0 /\ (n + 1) - 1 = n
    BY <1>1, <1>8
  <2> QED BY <1>6, <2>1 DEF OperationStep
<1>9. IsOperationLoop(g, d)
  BY <1>5, <1>7, <1>8 DEF IsOperationLoop
<1> QED BY <1>9

ScopesUpto(key, n) == ScopesOf(key) \cap (1..n)

IsLast(from, key, n) ==
  \E m \in ScopesUpto(key, n) : from = Of("operation", m) /\ \A k \in ScopesUpto(key, n) : k <= m

\* What the first n operations do to it.
AfterOperations(e, d, n) ==
  /\ e \in Seq(RecordedPairs) /\ KeysOnce(e)
  /\ \A key : key \in KeysOf(e) <=> (key \in KeysOf(d) \/ ScopesUpto(key, n) # {})
  /\ \A p \in ToSet(e) : IF ScopesUpto(p[1], n) = {} THEN p \in ToSet(d) ELSE IsLast(p[2].from, p[1], n)

\* whose last value is what all operations give.
LEMMA AddOperationsFacts ==
  ASSUME seqTrace \in Traced, NEW d \in Seq(RecordedPairs), KeysOnce(d)
  PROVE  AfterOperations(AddOperations(d), d, Len(seqTrace.stack))
<1> DEFINE l == Len(seqTrace.stack)
<1>1. l \in Nat
  BY ItemFacts
<1>2. PICK g : IsOperationLoop(g, d)
  BY AddOperationsLoop
<1> DEFINE T == {n \in 0..l : AfterOperations(g[n], d, n)}
<1>3. 0 \in T
  <2>1. \A key : ScopesUpto(key, 0) = {}
    BY DEF ScopesUpto
  <2>2. AfterOperations(d, d, 0)
    BY <2>1 DEF AfterOperations
  <2> QED BY <1>1, <1>2, <2>2 DEF IsOperationLoop
<1>4. ASSUME NEW n \in 0..l, n \in T, n < l PROVE n + 1 \in T
  <2> DEFINE old == g[n]
             new == g[n + 1]
  <2>1. n + 1 \in 0..l /\ n + 1 \in 1..l /\ n \in Nat
    BY <1>1, <1>4
  <2>2. AfterOperations(old, d, n)
    BY <1>4
  <2>3. new = OperationStep(n + 1, old)
    BY <1>2, <1>4 DEF IsOperationLoop
  <2> HIDE DEF old, new
  <2>4. AfterOperation(new, old, n + 1)
    BY <2>1, <2>2, <2>3, OperationStepFacts DEF AfterOperations
  <2>5. \A key : /\ n + 1 \in ScopesOf(key) => ScopesUpto(key, n + 1) = ScopesUpto(key, n) \cup {n + 1}
                /\ n + 1 \notin ScopesOf(key) => ScopesUpto(key, n + 1) = ScopesUpto(key, n)
    <3>1. \A k : k \in 1..(n + 1) <=> k \in 1..n \/ k = n + 1
      BY <2>1
    <3> QED BY <3>1 DEF ScopesUpto
  <2>6. ASSUME NEW key
        PROVE  key \in KeysOf(new) <=> (key \in KeysOf(d) \/ ScopesUpto(key, n + 1) # {})
    <3>1. key \in KeysOf(new) <=> (key \in KeysOf(old) \/ n + 1 \in ScopesOf(key))
      BY <2>4 DEF AfterOperation
    <3>2. key \in KeysOf(old) <=> (key \in KeysOf(d) \/ ScopesUpto(key, n) # {})
      BY <2>2 DEF AfterOperations
    <3>3. CASE n + 1 \in ScopesOf(key)
      <4>1. n + 1 \in ScopesUpto(key, n + 1)
        BY <2>1, <3>3 DEF ScopesUpto
      <4> QED BY <3>1, <3>3, <4>1
    <3>4. CASE n + 1 \notin ScopesOf(key)
      <4>1. ScopesUpto(key, n + 1) = ScopesUpto(key, n)
        BY <2>5, <3>4
      <4> QED BY <3>1, <3>2, <3>4, <4>1
    <3> QED BY <3>3, <3>4
  <2>7. ASSUME NEW p \in ToSet(new)
        PROVE  IF ScopesUpto(p[1], n + 1) = {} THEN p \in ToSet(d) ELSE IsLast(p[2].from, p[1], n + 1)
    <3> DEFINE key == p[1]
               from == p[2].from
    <3>1. IF n + 1 \in ScopesOf(key) THEN from = Of("operation", n + 1) ELSE p \in ToSet(old)
      BY <2>4 DEF AfterOperation
    <3>2. p \in ToSet(old) => IF ScopesUpto(key, n) = {} THEN p \in ToSet(d) ELSE IsLast(from, key, n)
      BY <2>2 DEF AfterOperations
    <3> HIDE DEF key, from
    <3>3. CASE n + 1 \in ScopesOf(key)
      <4>1. \A k \in ScopesUpto(key, n + 1) : k <= n + 1
        BY <2>1 DEF ScopesUpto
      <4>2. n + 1 \in ScopesUpto(key, n + 1)
        BY <2>1, <3>3 DEF ScopesUpto
      <4> QED BY <3>1, <3>3, <4>1, <4>2 DEF IsLast, key, from
    <3>4. CASE n + 1 \notin ScopesOf(key)
      <4>1. ScopesUpto(key, n + 1) = ScopesUpto(key, n)
        BY <2>5, <3>4
      <4> QED BY <3>1, <3>2, <3>4, <4>1 DEF IsLast, key, from
    <3> QED BY <3>3, <3>4
  <2>8. AfterOperations(new, d, n + 1)
    BY <2>4, <2>6, <2>7 DEF AfterOperations, AfterOperation
  <2> QED BY <2>1, <2>8 DEF new
<1>5. l \in T
  <2> HIDE DEF T, l
  <2>1. \A n \in 0..l : n \in T
    BY <1>1, <1>3, <1>4, UptoInd
  <2> QED BY <1>1, <2>1
<1> QED BY <1>2, <1>5 DEF IsOperationLoop

--------------------------------------------------------------------------------
\* Who gives a name its value, but for the trace's own data.
ScopedWinner(key) ==
  IF ScopesOf(key) # {} THEN Of("operation", Max(ScopesOf(key)))
  ELSE IF \/ key = "ThreadId" /\ seqTrace.threadId
          \/ key = "LogicalOperationStack" /\ seqTrace.recordStack /\ seqTrace.stack # <<>>
       THEN Of("listener", 1) ELSE NoObject

\* q has the names somebody gives a value, with the values of those.
WonBy(q, W(_)) ==
  /\ q \in Seq(RecordedPairs) /\ KeysOnce(q)
  /\ \A key : key \in KeysOf(q) <=> W(key) # NoObject
  /\ \A p \in ToSet(q) : p[2].from = W(p[1])

\* The origins of a property.
LEMMA OriginsFacts ==
  /\ \A n \in Nat : /\ Of("operation", n) \in Origins /\ Of("data", n) \in Origins
                   /\ Of("listener", n) \in Origins /\ Of("argument", n) \in Origins
  /\ NoObject \notin Origins
BY TraceDataAssumption DEF Of, Origins

\* The first entry.
LEMMA AttributeFacts ==
  ASSUME seqTrace \in Traced
  PROVE  /\ AddAttributeProperties \in Seq(RecordedPairs) /\ KeysOnce(AddAttributeProperties)
         /\ \A key : key \in KeysOf(AddAttributeProperties) <=> (key = "ThreadId" /\ seqTrace.threadId)
         /\ \A p \in ToSet(AddAttributeProperties) : p[2].from = Of("listener", 1)
<1> DEFINE d == AddAttributeProperties
           value == RecordedValue(Of("listener", 1), "literal")
           pair == <<"ThreadId", value>>
<1>1. value \in RecordedValues /\ value.from = Of("listener", 1)
  <2>1. Of("listener", 1) \in Origins /\ "literal" \in PropertyKind
    BY OriginsFacts DEF PropertyKind
  <2> QED BY <2>1 DEF RecordedValue, RecordedValues
<1> HIDE DEF value
<1>2. pair \in RecordedPairs /\ pair[1] = "ThreadId" /\ pair[2].from = Of("listener", 1)
  <2>1. "ThreadId" \in PropertyName
    BY DEF PropertyName
  <2> QED BY <1>1, <2>1 DEF RecordedPairs
<1>3. d = IF seqTrace.threadId THEN <<pair>> ELSE <<>>
  BY DEF AddAttributeProperties, value
<1> HIDE DEF d, pair
<1>4. CASE seqTrace.threadId
  <2>1. d = <<pair>>
    BY <1>3, <1>4
  <2>2. d \in Seq(RecordedPairs) /\ Len(d) = 1 /\ d[1] = pair
    BY <1>2, <2>1
  <2>3. ToSet(d) = {pair}
    <3>1. ToSet(d) = {d[n] : n \in 1..1}
      BY <2>2, ToSetIsRange
    <3>2. \A n : n \in 1..1 <=> n = 1
      OBVIOUS
    <3> QED BY <2>2, <3>1, <3>2
  <2>4. KeysOnce(d)
    BY <2>2 DEF KeysOnce
  <2> QED BY <1>2, <1>4, <2>2, <2>3, <2>4 DEF KeysOf, KeySet, d
<1>5. CASE ~seqTrace.threadId
  <2>1. d = <<>>
    BY <1>3, <1>5
  <2>2. d \in Seq(RecordedPairs) /\ ToSet(d) = {} /\ KeysOnce(d)
    BY <2>1 DEF ToSet, KeysOnce
  <2> QED BY <1>5, <2>2 DEF KeysOf, KeySet, d
<1> QED BY <1>4, <1>5

\* The outermost operation.
LEMMA MaxOfScopes ==
  ASSUME seqTrace \in Traced, NEW key, NEW from, IsLast(from, key, Len(seqTrace.stack))
  PROVE  ScopesOf(key) # {} /\ from = Of("operation", Max(ScopesOf(key)))
<1> DEFINE S == ScopesOf(key)
<1>1. ScopesUpto(key, Len(seqTrace.stack)) = S /\ S \subseteq Nat
  <2>1. DOMAIN seqTrace.stack = 1..Len(seqTrace.stack) /\ Len(seqTrace.stack) \in Nat
    BY ItemFacts
  <2> QED BY <2>1 DEF ScopesUpto, ScopesOf
<1>2. PICK m \in S : from = Of("operation", m) /\ \A k \in S : k <= m
  BY <1>1 DEF IsLast
<1>3. Max(S) = m
  <2>1. m \in S /\ \A y \in S : m >= y
    BY <1>1, <1>2
  <2>2. \A x \in S : (\A y \in S : x >= y) => x = m
    BY <1>1, <1>2
  <2>3. Max(S) = CHOOSE x \in S : \A y \in S : x >= y
    BY Zenon DEF Max
  <2> HIDE DEF S
  <2> QED BY <2>1, <2>2, <2>3
<1> QED BY <1>2, <1>3

\* After the stack, each property comes from the innermost scope that gives it.
LEMMA AddLogicalStackFacts ==
  ASSUME seqTrace \in Traced, ~StackThrows
  PROVE  WonBy(AddLogicalStack(AddAttributeProperties), ScopedWinner)
<1> DEFINE d == AddAttributeProperties
           e == AddOperations(d)
           q == AddLogicalStack(d)
           l == Len(seqTrace.stack)
           value == RecordedValue(Of("listener", 1), "recorded")
           pair == <<"LogicalOperationStack", value>>
           given == seqTrace.recordStack /\ seqTrace.stack # <<>>
<1>1. /\ d \in Seq(RecordedPairs) /\ KeysOnce(d)
      /\ \A key : key \in KeysOf(d) <=> (key = "ThreadId" /\ seqTrace.threadId)
      /\ \A p \in ToSet(d) : p[2].from = Of("listener", 1)
  BY AttributeFacts
<1>2. \A key : ScopesUpto(key, l) = ScopesOf(key) /\ ScopesOf(key) \subseteq 1..l
  <2>1. DOMAIN seqTrace.stack = 1..l
    BY ItemFacts
  <2> QED BY <2>1 DEF ScopesUpto, ScopesOf
<1>3. value \in RecordedValues /\ value.from = Of("listener", 1)
  <2>1. Of("listener", 1) \in Origins /\ "recorded" \in PropertyKind
    BY OriginsFacts DEF PropertyKind
  <2> QED BY <2>1 DEF RecordedValue, RecordedValues
<1> HIDE DEF value
<1>4. pair \in RecordedPairs /\ pair[1] = "LogicalOperationStack" /\ pair[2].from = Of("listener", 1)
  <2>1. "LogicalOperationStack" \in PropertyName
    BY DEF PropertyName
  <2> QED BY <1>3, <2>1 DEF RecordedPairs
<1>5. q = IF given THEN Append(e, pair) ELSE e
  BY DEF AddLogicalStack, value
<1>6. seqTrace.recordStack => ScopesOf("LogicalOperationStack") = {}
  BY DEF StackThrows, ScopesOf, NamesOf
<1>7. Of("listener", 1) # NoObject /\ \A n \in Nat : Of("operation", n) # NoObject
  BY OriginsFacts
<1> HIDE DEF d, e, q, l, pair
<1>8. AfterOperations(e, d, l)
  BY <1>1, AddOperationsFacts DEF e, l
<1>9. ASSUME NEW key PROVE ScopesOf(key) # {} => ScopedWinner(key) # NoObject
  <2>1. SUFFICES ASSUME ScopesOf(key) # {} PROVE ScopedWinner(key) # NoObject
    OBVIOUS
  <2>2. PICK n \in ScopesOf(key) : TRUE
    BY <2>1
  <2>3. ASSUME ScopesUpto(key, l) # {} PROVE \E from : IsLast(from, key, l)
    <3>1. key \in KeysOf(e)
      BY <1>8, <2>3 DEF AfterOperations
    <3>2. PICK p \in ToSet(e) : p[1] = key
      BY <3>1 DEF KeysOf, KeySet
    <3>3. IsLast(p[2].from, key, l)
      BY <1>8, <2>3, <3>2 DEF AfterOperations
    <3> QED BY <3>3
  <2>4. PICK from : IsLast(from, key, l)
    BY <1>2, <2>1, <2>3
  <2>5. PICK m \in ScopesUpto(key, l) : from = Of("operation", m)
    BY <2>4 DEF IsLast
  <2>6. m \in Nat
    BY <1>2, <2>5, ItemFacts DEF l
  <2>7. from # NoObject
    BY <1>7, <2>5, <2>6
  <2>8. from = Of("operation", Max(ScopesOf(key)))
    BY <2>4, MaxOfScopes DEF l
  <2> QED BY <2>1, <2>7, <2>8 DEF ScopedWinner
<1>10. \A p \in ToSet(e) : p[2].from = ScopedWinner(p[1])
  <2>1. ASSUME NEW p \in ToSet(e) PROVE p[2].from = ScopedWinner(p[1])
    <3> DEFINE key == p[1]
               from == p[2].from
    <3>1. IF ScopesOf(key) = {} THEN p \in ToSet(d) ELSE IsLast(from, key, l)
      BY <1>2, <1>8 DEF AfterOperations
    <3>2. p \in ToSet(d) => key = "ThreadId" /\ seqTrace.threadId /\ from = Of("listener", 1)
      BY <1>1 DEF KeysOf, KeySet
    <3> HIDE DEF key, from
    <3>3. CASE ScopesOf(key) = {}
      <4>1. from = ScopedWinner(key)
        BY <3>1, <3>2, <3>3 DEF ScopedWinner
      <4> QED BY <4>1 DEF key, from
    <3>4. CASE ScopesOf(key) # {}
      <4>1. from = Of("operation", Max(ScopesOf(key)))
        BY <3>1, <3>4, MaxOfScopes DEF l
      <4> QED BY <3>4, <4>1 DEF ScopedWinner, key, from
    <3> QED BY <3>3, <3>4
  <2> QED BY <2>1
<1>11. ASSUME NEW key PROVE key \in KeysOf(e) <=> (ScopesOf(key) # {} \/ (key = "ThreadId" /\ seqTrace.threadId))
  <2>1. key \in KeysOf(e) <=> (key \in KeysOf(d) \/ ScopesOf(key) # {})
    BY <1>2, <1>8 DEF AfterOperations
  <2> QED BY <1>1, <2>1
<1>12. e \in Seq(RecordedPairs) /\ KeysOnce(e)
  BY <1>8 DEF AfterOperations
<1>13. CASE ~given
  <2>1. q = e
    BY <1>5, <1>13
  <2>2. ASSUME NEW key PROVE key \in KeysOf(q) <=> ScopedWinner(key) # NoObject
    <3>1. CASE ScopesOf(key) # {}
      BY <1>9, <1>11, <2>1, <3>1
    <3>2. CASE ScopesOf(key) = {}
      BY <1>7, <1>11, <1>13, <2>1, <3>2 DEF ScopedWinner
    <3> QED BY <3>1, <3>2
  <2> QED BY <1>10, <1>12, <2>1, <2>2 DEF WonBy, q, d
<1>14. CASE given
  <2>1. q = Append(e, pair)
    BY <1>5, <1>14
  <2>2. pair[1] \notin KeysOf(e)
    BY <1>4, <1>6, <1>11, <1>14
  <2>3. q \in Seq(RecordedPairs) /\ Appended(q, e, pair)
    BY <1>4, <1>12, <2>1, <2>2, AppendNew
  <2>4. \A key : key \in KeysOf(q) <=> (key \in KeysOf(e) \/ key = "LogicalOperationStack")
    BY <1>4, <2>3 DEF Appended
  <2>5. ScopedWinner("LogicalOperationStack") = Of("listener", 1)
    BY <1>6, <1>14 DEF ScopedWinner
  <2>6. ASSUME NEW key PROVE key \in KeysOf(q) <=> ScopedWinner(key) # NoObject
    <3>1. CASE ScopesOf(key) # {}
      BY <1>9, <1>11, <2>4, <3>1
    <3>2. CASE key = "LogicalOperationStack"
      BY <1>7, <2>4, <2>5, <3>2
    <3>3. CASE ScopesOf(key) = {} /\ key # "LogicalOperationStack"
      BY <1>7, <1>11, <2>4, <3>3 DEF ScopedWinner
    <3> QED BY <3>1, <3>2, <3>3
  <2>7. \A p \in ToSet(q) : p[2].from = ScopedWinner(p[1])
    BY <1>4, <1>10, <2>3, <2>5 DEF Appended
  <2> QED BY <2>3, <2>6, <2>7 DEF WonBy, Appended, q, d
<1> QED BY <1>13, <1>14

--------------------------------------------------------------------------------
RecordedProperties ==
  IF IsStructured THEN AddStructuredData(AddLogicalStack(AddAttributeProperties))
  ELSE AddLogicalStack(AddAttributeProperties)

\* After the trace data too, each property comes from its winner.
LEMMA RecordedFacts ==
  ASSUME seqTrace \in Traced, ~StackThrows PROVE WonBy(RecordedProperties, Winner)
<1> DEFINE d == AddLogicalStack(AddAttributeProperties)
           q == RecordedProperties
           given == seqTrace.call.data[1].properties
           origin == Of("data", 1)
           s == RecordedFrom(origin, given)
<1>1. /\ d \in Seq(RecordedPairs) /\ KeysOnce(d)
      /\ \A key : key \in KeysOf(d) <=> ScopedWinner(key) # NoObject
      /\ \A p \in ToSet(d) : p[2].from = ScopedWinner(p[1])
  BY AddLogicalStackFacts DEF WonBy
<1>2. CASE ~IsStructured
  <2>1. q = d /\ \A key : Winner(key) = ScopedWinner(key)
    BY <1>2 DEF RecordedProperties, Winner, ScopedWinner
  <2> HIDE DEF q, d
  <2> QED BY <1>1, <2>1 DEF WonBy, q
<1>3. CASE IsStructured
  <2>1. given \in Seq(PropertyName \X PropertyKind)
    <3>1. seqTrace.call.data \in Seq(Item) /\ Len(seqTrace.call.data) = 1
      BY <1>3, ItemFacts DEF IsStructured
    <3>2. seqTrace.call.data[1] \in Item
      BY <3>1
    <3> QED BY <3>2, ItemFacts
  <2>2. origin \in Origins /\ origin # NoObject
    BY OriginsFacts
  <2>3. q = AssignAll(d, s, {})
    BY <1>3 DEF RecordedProperties, AddStructuredData, RecordedFrom
  <2>4. KeysOf(given) = NamesOf(seqTrace.call.data[1])
    BY DEF KeysOf, KeySet, NamesOf
  <2>5. \A key : Winner(key) = IF key \in KeysOf(given) THEN origin ELSE ScopedWinner(key)
    BY <1>3, <2>4 DEF Winner, ScopedWinner
  <2> HIDE DEF q, d, origin, given
  <2>6. GivenBy(s, origin, given, {})
    BY <2>1, <2>2, KeptFacts
  <2> HIDE DEF s
  <2> DEFINE names == Given(s, {}, Len(s))
  <2>7. /\ s \in Seq(RecordedPairs) /\ names = KeysOf(given)
        /\ \A p \in ToSet(s) : p[2].from = origin
    BY <2>6 DEF GivenBy
  <2>8. /\ q \in Seq(RecordedPairs) /\ KeysOnce(q) /\ KeysOf(q) = KeysOf(d) \cup names
        /\ \A p \in ToSet(q) : IF p[1] \in names THEN p \in ToSet(s) ELSE p \in ToSet(d)
    BY <1>1, <2>3, <2>7, PairsAre, AssignAllFacts
  <2> HIDE DEF names
  <2>9. ASSUME NEW key PROVE key \in KeysOf(q) <=> Winner(key) # NoObject
    BY <1>1, <2>2, <2>5, <2>7, <2>8
  <2>10. ASSUME NEW p \in ToSet(q) PROVE p[2].from = Winner(p[1])
    <3>1. CASE p[1] \in names
      BY <2>5, <2>7, <2>8, <3>1
    <3>2. CASE p[1] \notin names
      BY <1>1, <2>5, <2>7, <2>8, <3>2
    <3> QED BY <3>1, <3>2
  <2> QED BY <2>8, <2>9, <2>10 DEF WonBy, q
<1> QED BY <1>2, <1>3

--------------------------------------------------------------------------------
\* A property, as it is written.
WrittenPair(p) == <<SanitizeKey(p[1]), Written(p[2])>>

IsWriteLoop(g, q) ==
  /\ g[0] = <<>> /\ WriteProperties(q) = g[Len(q)]
  /\ \A n \in 0..Len(q) : n < Len(q) =>
       LET key == SanitizeKey(q[n + 1][1])
       IN  g[n + 1] = IF key \in FixedKeys \/ \E p \in ToSet(g[n]) : p[1] = key THEN g[n]
                      ELSE Append(g[n], WrittenPair(q[n + 1]))

\* The loop that writes the properties is a function on their positions,
LEMMA WriteLoop == ASSUME NEW P, NEW q \in Seq(P) PROVE \E g : IsWriteLoop(g, q)
<1> DEFINE l == Len(q)
           W == {WrittenPair(q[n]) : n \in 1..l}
           S == Seq(W)
           next(n, e) ==
             IF n \notin 1..l \/ SanitizeKey(q[n][1]) \in FixedKeys
                \/ \E p \in ToSet(e) : p[1] = SanitizeKey(q[n][1]) THEN e
             ELSE Append(e, WrittenPair(q[n]))
           step == [r \in Nat \X S |-> next(r[1] + 1, r[2])]
           Is(g) == g = [n \in 0..l |->
                           IF n = 0 THEN <<>> ELSE
                           LET key == SanitizeKey(q[n][1])
                           IN  IF key \in FixedKeys \/ \E p \in ToSet(g[n - 1]) : p[1] = key THEN g[n - 1]
                               ELSE Append(g[n - 1], <<key, Written(q[n][2])>>)]
           g == CHOOSE f : Is(f)
<1>1. l \in Nat
  OBVIOUS
<1>2. step \in [Nat \X S -> S]
  <2>1. ASSUME NEW n \in Nat, NEW e \in S PROVE next(n, e) \in S
    <3>1. n \in 1..l => Append(e, WrittenPair(q[n])) \in S
      <4>1. n \in 1..l => WrittenPair(q[n]) \in W
        OBVIOUS
      <4> HIDE DEF W
      <4> QED BY <2>1, <4>1, AppendProperties
    <3> HIDE DEF S
    <3> QED BY <2>1, <3>1
  <2>2. \A r \in Nat \X S : r[1] + 1 \in Nat /\ r[2] \in S
    OBVIOUS
  <2> HIDE DEF next, S
  <2>3. \A r \in Nat \X S : next(r[1] + 1, r[2]) \in S
    BY <2>1, <2>2
  <2> QED BY <2>3
<1>3. PICK h \in [0..l -> S] : Iterates(h, <<>>, step, l)
  <2>1. <<>> \in S
    OBVIOUS
  <2> HIDE DEF step, S, l
  <2> QED BY <1>1, <1>2, <2>1, Recursion
<1>4. Is(h)
  <2>1. ASSUME NEW n \in 1..l PROVE h[n] = next(n, h[n - 1])
    <3>1. n - 1 \in 0..l /\ n - 1 < l /\ n - 1 + 1 = n /\ n - 1 \in Nat
      BY <1>1
    <3>2. h[n - 1] \in S
      <4> HIDE DEF S
      <4> QED BY <1>3, <3>1
    <3>3. h[n] = step[<<n - 1, h[n - 1]>>]
      <4>1. h[n - 1 + 1] = step[<<n - 1, h[n - 1]>>]
        BY <1>3, <3>1 DEF Iterates
      <4> QED BY <3>1, <4>1
    <3>4. step[<<n - 1, h[n - 1]>>] = next(n, h[n - 1])
      <4> HIDE DEF S, next
      <4> QED BY <3>1, <3>2
    <3> QED BY <3>3, <3>4
  <2>2. h = [n \in 0..l |-> h[n]] /\ h[0] = <<>>
    <3> HIDE DEF S
    <3> QED BY <1>3 DEF Iterates
  <2>3. ASSUME NEW n \in 1..l
        PROVE  h[n] = LET key == SanitizeKey(q[n][1])
                      IN  IF key \in FixedKeys \/ \E p \in ToSet(h[n - 1]) : p[1] = key THEN h[n - 1]
                          ELSE Append(h[n - 1], <<key, Written(q[n][2])>>)
    BY <2>1 DEF WrittenPair
  <2>4. \A n \in 0..l : n # 0 => n \in 1..l
    BY <1>1
  <2> HIDE DEF S, l
  <2> QED BY <2>2, <2>3, <2>4
<1>5. WriteProperties(q) = g[l]
  BY Zenon DEF WriteProperties
<1>6. Is(g)
  <2> HIDE DEF Is
  <2> QED BY <1>4, Zenon
<1> HIDE DEF g
<1>7. g[0] = <<>>
  BY <1>1, <1>6
<1>8. ASSUME NEW n \in 0..l, n < l
      PROVE  LET key == SanitizeKey(q[n + 1][1])
             IN  g[n + 1] = IF key \in FixedKeys \/ \E p \in ToSet(g[n]) : p[1] = key THEN g[n]
                            ELSE Append(g[n], WrittenPair(q[n + 1]))
  <2>1. n + 1 \in 0..l /\ n + 1 # 0 /\ (n + 1) - 1 = n
    BY <1>1, <1>8
  <2> QED BY <1>6, <2>1 DEF WrittenPair
<1>9. IsWriteLoop(g, q)
  BY <1>5, <1>7, <1>8 DEF IsWriteLoop
<1> QED BY <1>9

\* What is written of the first n properties of q.
WrittenFrom(e, q, n) ==
  /\ KeysOnce(e)
  /\ \A key : key \in KeysOf(e) <=>
               (key \notin FixedKeys /\ \E m \in 1..n : key = SanitizeKey(q[m][1]))
  /\ \A p \in ToSet(e) : \E m \in 1..n : p = WrittenPair(q[m])

\* whose last value is all that was written.
LEMMA WriteFacts ==
  ASSUME NEW P, NEW q \in Seq(P) PROVE WrittenFrom(WriteProperties(q), q, Len(q))
<1> DEFINE l == Len(q)
           W == {WrittenPair(q[n]) : n \in 1..l}
<1>1. l \in Nat
  OBVIOUS
<1>2. PICK g : IsWriteLoop(g, q)
  BY WriteLoop
<1> DEFINE T == {n \in 0..l : g[n] \in Seq(W) /\ WrittenFrom(g[n], q, n)}
<1>3. 0 \in T
  <2>1. <<>> \in Seq(W) /\ KeysOnce(<<>>) /\ ToSet(<<>>) = {}
    BY DEF KeysOnce, ToSet
  <2>2. \A m : m \notin 1..0
    OBVIOUS
  <2>3. WrittenFrom(<<>>, q, 0)
    BY <2>1, <2>2 DEF WrittenFrom, KeysOf, KeySet
  <2>4. g[0] = <<>>
    BY <1>2 DEF IsWriteLoop
  <2>5. g[0] \in Seq(W) /\ WrittenFrom(g[0], q, 0)
    BY <2>1, <2>3, <2>4
  <2> HIDE DEF W
  <2> QED BY <1>1, <2>5
<1>4. ASSUME NEW n \in 0..l, n \in T, n < l PROVE n + 1 \in T
  <2> DEFINE old == g[n]
             new == g[n + 1]
             pair == WrittenPair(q[n + 1])
             key == SanitizeKey(q[n + 1][1])
  <2>1. n + 1 \in 0..l /\ n + 1 \in 1..l /\ n \in Nat
    BY <1>1, <1>4
  <2>2. \A m : m \in 1..(n + 1) <=> m \in 1..n \/ m = n + 1
    BY <2>1
  <2>3. old \in Seq(W) /\ WrittenFrom(old, q, n)
    BY <1>4
  <2>4. pair \in W /\ pair[1] = key
    BY <2>1 DEF WrittenPair
  <2>5. new = IF key \in FixedKeys \/ \E p \in ToSet(old) : p[1] = key THEN old ELSE Append(old, pair)
    BY <1>2, <1>4 DEF IsWriteLoop
  <2>6. key \in KeysOf(old) <=> \E p \in ToSet(old) : p[1] = key
    BY DEF KeysOf, KeySet
  <2>7. \A name : (\E m \in 1..(n + 1) : name = SanitizeKey(q[m][1]))
                    <=> ((\E m \in 1..n : name = SanitizeKey(q[m][1])) \/ name = key)
    BY <2>2
  <2>8. \A p : (\E m \in 1..(n + 1) : p = WrittenPair(q[m]))
                 <=> ((\E m \in 1..n : p = WrittenPair(q[m])) \/ p = pair)
    BY <2>2
  <2> HIDE DEF old, new, W, pair, key
  <2>9. CASE key \in FixedKeys \/ key \in KeysOf(old)
    <3>1. new = old
      BY <2>5, <2>6, <2>9
    <3>2. WrittenFrom(new, q, n + 1)
      BY <2>3, <2>7, <2>8, <2>9, <3>1 DEF WrittenFrom
    <3> QED BY <2>1, <2>3, <3>1, <3>2 DEF new
  <2>10. CASE key \notin FixedKeys /\ key \notin KeysOf(old)
    <3>1. new = Append(old, pair)
      BY <2>5, <2>6, <2>10
    <3>2. new \in Seq(W) /\ Appended(new, old, pair)
      BY <2>3, <2>4, <2>10, <3>1, AppendNew DEF WrittenFrom
    <3>3. ASSUME NEW name
          PROVE  name \in KeysOf(new) <=>
                   (name \notin FixedKeys /\ \E m \in 1..(n + 1) : name = SanitizeKey(q[m][1]))
      <4>1. name \in KeysOf(new) <=> (name \in KeysOf(old) \/ name = key)
        BY <2>4, <3>2 DEF Appended
      <4>2. name \in KeysOf(old) <=>
              (name \notin FixedKeys /\ \E m \in 1..n : name = SanitizeKey(q[m][1]))
        BY <2>3 DEF WrittenFrom
      <4> QED BY <2>7, <2>10, <4>1, <4>2
    <3>4. \A p \in ToSet(new) : \E m \in 1..(n + 1) : p = WrittenPair(q[m])
      BY <2>3, <2>8, <3>2 DEF WrittenFrom, Appended
    <3>5. WrittenFrom(new, q, n + 1)
      BY <3>2, <3>3, <3>4 DEF WrittenFrom, Appended
    <3> QED BY <2>1, <3>2, <3>5 DEF new
  <2> QED BY <2>9, <2>10
<1>5. l \in T
  <2> HIDE DEF T, l
  <2>1. \A n \in 0..l : n \in T
    BY <1>1, <1>3, <1>4, UptoInd
  <2> QED BY <1>1, <2>1
<1> QED BY <1>2, <1>5 DEF IsWriteLoop

--------------------------------------------------------------------------------
\* What was recorded has the names and the values of whoever gave them, and of the
\* application's objects it keeps collections.
Faithful ==
  /\ WonBy(traceData.properties, Winner)
  /\ \A n \in DOMAIN traceData.args : traceData.args[n].live => traceData.args[n].kind = "list"
  /\ \A n \in DOMAIN traceData.data : traceData.data[n].live => traceData.data[n].kind = "list"

TraceInv ==
  /\ seqTrace \in Traced
  /\ traceData # NoObject => Faithful
  /\ payload # NoObject => traceData # NoObject
  /\ PayloadAsTraced
  /\ RecordedWhenTraced

\* Who gives a name its value depends on the trace alone.
LEMMA TraceSteady ==
  ASSUME seqTrace' = seqTrace
  PROVE  /\ \A key : Winner(key)' = Winner(key)
         /\ (seqTrace \in Traced)' <=> seqTrace \in Traced
<1>1. IsStructured' = IsStructured
  BY DEF IsStructured, GivesProperties
<1>2. \A key : ScopesOf(key)' = ScopesOf(key)
  BY DEF ScopesOf, GivesProperties, NamesOf
<1>3. ASSUME NEW key PROVE Winner(key)' = Winner(key)
  BY <1>1, <1>2 DEF Winner
<1> QED BY <1>3 DEF Traced

\* The invariant holds at the start,
LEMMA TraceInvInit == TraceInit => TraceInv
BY DEF TraceInit, TraceInv, Traced, PayloadAsTraced, RecordedWhenTraced

\* creating the trace data keeps it,
LEMMA CreateFaithful ==
  ASSUME TraceInv, CreateTraceData PROVE TraceInv'
<1> DEFINE q == RecordedProperties
<1>1. /\ seqTrace \in Traced /\ seqTrace' = seqTrace /\ ~StackThrows
      /\ payload = NoObject /\ payload' = NoObject
  BY DEF TraceInv, CreateTraceData
<1>2. /\ traceData'.properties = q
      /\ traceData'.args = RecordedArgs /\ traceData'.data = RecordedData
  BY <1>1 DEF CreateTraceData, RecordedProperties
<1>3. WonBy(q, Winner)
  BY <1>1, RecordedFacts
<1> HIDE DEF q
<1>4. WonBy(traceData.properties, Winner)'
  <2>1. /\ q \in Seq(RecordedPairs) /\ KeysOnce(q)
        /\ \A key : key \in KeysOf(q) <=> Winner(key)' # NoObject
        /\ \A p \in ToSet(q) : p[2].from = Winner(p[1])'
    BY <1>1, <1>3, TraceSteady DEF WonBy
  <2> QED BY <1>2, <2>1 DEF WonBy
<1>5. \A n \in DOMAIN RecordedArgs : RecordedArgs[n].live => RecordedArgs[n].kind = "list"
  <2>1. CASE IsStructured \/ seqTrace.call.messageArgs = NoObject
    BY <2>1 DEF RecordedArgs
  <2>2. CASE ~(IsStructured \/ seqTrace.call.messageArgs = NoObject)
    <3>1. RecordedArgs = [n \in DOMAIN seqTrace.call.messageArgs |-> RecordedValue(Of("argument", n), seqTrace.call.messageArgs[n])]
      BY <2>2 DEF RecordedArgs
    <3>2. \A from, kind : RecordedValue(from, kind).live => RecordedValue(from, kind).kind = "list"
      BY DEF RecordedValue
    <3> QED BY <3>1, <3>2
  <2> QED BY <2>1, <2>2
<1>6. \A n \in DOMAIN RecordedData : RecordedData[n].live => RecordedData[n].kind = "list"
  <2>1. CASE IsStructured \/ seqTrace.call.data = NoObject
    BY <2>1 DEF RecordedData
  <2>2. CASE ~(IsStructured \/ seqTrace.call.data = NoObject)
    <3>1. RecordedData = [n \in DOMAIN seqTrace.call.data |-> RecordedValue(Of("data", n), seqTrace.call.data[n].kind)]
      BY <2>2 DEF RecordedData
    <3>2. \A from, kind : RecordedValue(from, kind).live => RecordedValue(from, kind).kind = "list"
      BY DEF RecordedValue
    <3> QED BY <3>1, <3>2
  <2> QED BY <2>1, <2>2
<1>7. Faithful'
  BY <1>2, <1>4, <1>5, <1>6 DEF Faithful
<1>8. PayloadAsTraced' /\ RecordedWhenTraced'
  BY <1>1 DEF PayloadAsTraced, RecordedWhenTraced
<1> QED BY <1>1, <1>7, <1>8, TraceSteady DEF TraceInv

\* writing the payload keeps it,
LEMMA ToJsonFaithful ==
  ASSUME TraceInv, ToJson PROVE TraceInv'
<1> DEFINE q == traceData.properties
           written == WriteProperties(q)
           given == {key \in PropertyName : Winner(key) # NoObject}
<1>1. /\ seqTrace' = seqTrace /\ traceData' = traceData /\ traceData # NoObject /\ Faithful
      /\ seqTrace \in Traced
  BY DEF TraceInv, ToJson
<1>2. /\ payload'.properties = written
      /\ payload'.args = [n \in DOMAIN traceData.args |-> Written(traceData.args[n])]
      /\ payload'.data = [n \in DOMAIN traceData.data |-> Written(traceData.data[n])]
  BY DEF ToJson
<1>3. /\ q \in Seq(RecordedPairs) /\ KeysOnce(q)
      /\ \A key : key \in KeysOf(q) <=> Winner(key) # NoObject
      /\ \A p \in ToSet(q) : p[2].from = Winner(p[1])
  BY <1>1 DEF Faithful, WonBy
<1>4. WrittenFrom(written, q, Len(q))
  BY <1>3, WriteFacts
<1>5. ToSet(q) = {q[m] : m \in 1..Len(q)} /\ ToSet(q) \subseteq RecordedPairs
  BY <1>3, ToSetIsRange
<1>6. FixedKeys' = FixedKeys
  BY <1>1 DEF FixedKeys
<1> HIDE DEF q, written
<1>7. KeysOf(q) = given
  <2>1. \A p \in ToSet(q) : p[1] \in PropertyName
    BY <1>5 DEF RecordedPairs
  <2> QED BY <1>3, <2>1 DEF KeysOf, KeySet
<1>8. \A m \in 1..Len(q) : /\ q[m][1] \in given /\ q[m][2].from = Winner(q[m][1])
                         /\ q[m][2] \in RecordedValues
  BY <1>3, <1>5, <1>7 DEF KeysOf, KeySet, RecordedPairs
<1>9. PayloadAsTraced'
  <2>1. \A m, n \in DOMAIN written : written[m][1] = written[n][1] => m = n
    BY <1>4 DEF WrittenFrom, KeysOnce
  <2>2. {p[1] : p \in ToSet(written)} = {SanitizeKey(key) : key \in given} \ FixedKeys
    <3>1. \A key : (\E m \in 1..Len(q) : key = SanitizeKey(q[m][1]))
                     <=> key \in {SanitizeKey(k) : k \in given}
      BY <1>5, <1>7 DEF KeysOf, KeySet
    <3> QED BY <1>4, <3>1 DEF WrittenFrom, KeysOf, KeySet
  <2>3. ASSUME NEW p \in ToSet(written)
        PROVE  \E key \in given : SanitizeKey(key) = p[1] /\ p[2].from = Winner(key)
    <3>1. PICK m \in 1..Len(q) : p = WrittenPair(q[m])
      BY <1>4 DEF WrittenFrom
    <3>2. p[1] = SanitizeKey(q[m][1]) /\ p[2].from = q[m][2].from
      BY <3>1 DEF WrittenPair, Written
    <3> QED BY <1>8, <3>2
  <2>4. \A key : Winner(key)' = Winner(key)
    BY <1>1, TraceSteady
  <2> HIDE DEF given
  <2>5. given' = given
    BY <2>4 DEF given
  <2> QED BY <1>2, <1>6, <2>1, <2>2, <2>3, <2>4, <2>5 DEF PayloadAsTraced, given
<1>10. RecordedWhenTraced'
  <2>1. ASSUME NEW value, value.live => value.kind = "list" \/ value.from[1] = "operation"
        PROVE  LET v == Written(value) IN v.stale => v.kind = "list" \/ v.from[1] = "operation"
    BY <2>1 DEF Written
  <2>2. ASSUME NEW p \in ToSet(written)
        PROVE  p[2].stale => p[2].kind = "list" \/ p[2].from[1] = "operation"
    <3>1. PICK m \in 1..Len(q) : p = WrittenPair(q[m])
      BY <1>4 DEF WrittenFrom
    <3>2. p[2] = Written(q[m][2])
      BY <3>1 DEF WrittenPair
    <3>3. q[m][2].live => q[m][2].kind = "list" \/ q[m][2].from[1] = "operation"
      BY <1>8 DEF RecordedValues
    <3> QED BY <2>1, <3>2, <3>3
  <2>3. ASSUME NEW v \in ToSet(payload'.args) \cup ToSet(payload'.data)
        PROVE  v.stale => v.kind = "list" \/ v.from[1] = "operation"
    <3>1. PICK value : v = Written(value) /\ (value.live => value.kind = "list")
      BY <1>1, <1>2 DEF ToSet, Faithful
    <3> QED BY <2>1, <3>1
  <2> QED BY <1>2, <2>2, <2>3 DEF RecordedWhenTraced
<1>11. Faithful'
  <2>1. \A key : Winner(key)' = Winner(key)
    BY <1>1, TraceSteady
  <2> QED BY <1>1, <2>1 DEF Faithful, WonBy
<1> QED BY <1>1, <1>9, <1>10, <1>11, TraceSteady DEF TraceInv

\* and so does every step.
LEMMA TraceInvStep == TraceInv /\ [TraceNext]_traceVars => TraceInv'
<1> SUFFICES ASSUME TraceInv, [TraceNext]_traceVars PROVE TraceInv'
  OBVIOUS
<1>1. CASE CreateTraceData
  BY <1>1, CreateFaithful
<1>2. CASE Change \/ UNCHANGED traceVars
  <2>1. /\ seqTrace' = seqTrace /\ traceData' = traceData /\ payload' = payload
        /\ UNCHANGED changed \/ payload = NoObject
    BY <1>2 DEF Change, traceVars
  <2>2. (\A key : Winner(key)' = Winner(key)) /\ FixedKeys' = FixedKeys
    BY <2>1, TraceSteady DEF FixedKeys
  <2>3. (traceData # NoObject => Faithful) => (traceData # NoObject => Faithful)'
    BY <2>1, <2>2 DEF Faithful, WonBy
  <2>4. PayloadAsTraced => PayloadAsTraced'
    BY <2>1, <2>2 DEF PayloadAsTraced
  <2>5. RecordedWhenTraced => RecordedWhenTraced'
    BY <2>1 DEF RecordedWhenTraced
  <2> QED BY <2>1, <2>3, <2>4, <2>5, TraceSteady DEF TraceInv
<1>3. CASE ToJson
  BY <1>3, ToJsonFaithful
<1> QED BY <1>1, <1>2, <1>3 DEF TraceNext

\* What was recorded, and what was written of it, at every step of SeqTraceListener.
THEOREM TraceInvariant == TraceSpec => []TraceInv
BY TraceInvInit, TraceInvStep, PTL DEF TraceSpec

\* For any calls, stacks of operations and settings: a payload has no name twice, and under each
\* the value of the one who gives it (SeqPayloadFormatter.ToJson).
THEOREM PayloadIsAsTraced == TraceSpec => []PayloadAsTraced
<1>1. TraceInv => PayloadAsTraced
  BY DEF TraceInv
<1> QED BY <1>1, TraceInvariant, PTL

\* What is sent is what was traced, however the application changes its objects before sending,
\* but for collections and properties of operations (SeqPayloadFormatter, GetRecordedValue).
THEOREM PayloadIsAsRecorded == TraceSpec => []RecordedWhenTraced
<1>1. TraceInv => RecordedWhenTraced
  BY DEF TraceInv
<1> QED BY <1>1, TraceInvariant, PTL

--------------------------------------------------------------------------------
(* Escaping: what is written is read back.                                  *)

\* Every character there is.
Chars == {"QUOT", "APOS", "BSL", "LF", "CTL", "n", "u", "0001", "AMP", "LT", "amp", "lt", "quot",
          "xA", "SEMI", "a"}

\* A text of two characters begins with them,
LEMMA PairIsSeq ==
  ASSUME NEW S, NEW a \in S, NEW b \in S, NEW e, e = <<a, b>>
  PROVE  e \in Seq(S) /\ Len(e) = 2 /\ e[1] = a /\ e[2] = b
OBVIOUS

\* and so does one of three.
LEMMA TripleIsSeq ==
  ASSUME NEW S, NEW a \in S, NEW b \in S, NEW c \in S, NEW e, e = <<a, b, c>>
  PROVE  e \in Seq(S) /\ Len(e) = 3 /\ e[1] = a /\ e[2] = b
OBVIOUS

\* An escape begins with a character that has one itself, and differs from the others in
\* the second.
IsEscape(e, first, second) ==
  e \in Seq(Chars) /\ Len(e) \in Nat /\ Len(e) >= 2 /\ e[1] = first /\ e[2] = second

\* The escapes of each writer: the payload,
LEMMA EscapesOfJson ==
  LET f == Escapes["json"]
  IN  /\ DOMAIN f = {"QUOT", "BSL", "LF", "CTL"}
      /\ IsEscape(f["QUOT"], "BSL", "QUOT") /\ IsEscape(f["BSL"], "BSL", "BSL")
      /\ IsEscape(f["LF"], "BSL", "n") /\ IsEscape(f["CTL"], "BSL", "u")
<1> DEFINE f == Escapes["json"]
<1>1. f = [c \in {"QUOT", "BSL", "LF", "CTL"} |->
             CASE c = "LF" -> <<"BSL", "n">> [] c = "CTL" -> <<"BSL", "u", "0001">>
               [] OTHER -> <<"BSL", c>>]
  BY DEF Escapes
<1> HIDE DEF f
<1>2. /\ DOMAIN f = {"QUOT", "BSL", "LF", "CTL"}
      /\ f["LF"] = <<"BSL", "n">> /\ f["CTL"] = <<"BSL", "u", "0001">>
      /\ f["QUOT"] = <<"BSL", "QUOT">> /\ f["BSL"] = <<"BSL", "BSL">>
  BY <1>1
<1>3. "QUOT" \in Chars /\ "BSL" \in Chars /\ "n" \in Chars /\ "u" \in Chars /\ "0001" \in Chars
  BY DEF Chars
<1>4. IsEscape(f["QUOT"], "BSL", "QUOT")
  BY <1>2, <1>3, PairIsSeq DEF IsEscape
<1>5. IsEscape(f["BSL"], "BSL", "BSL")
  BY <1>2, <1>3, PairIsSeq DEF IsEscape
<1>6. IsEscape(f["LF"], "BSL", "n")
  BY <1>2, <1>3, PairIsSeq DEF IsEscape
<1>7. IsEscape(f["CTL"], "BSL", "u")
  BY <1>2, <1>3, TripleIsSeq DEF IsEscape
<1> QED BY <1>2, <1>4, <1>5, <1>6, <1>7 DEF f

\* the property values,
LEMMA EscapesOfText ==
  LET f == Escapes["text"]
  IN  /\ DOMAIN f = {"APOS", "BSL"}
      /\ IsEscape(f["APOS"], "BSL", "APOS") /\ IsEscape(f["BSL"], "BSL", "BSL")
<1> DEFINE f == Escapes["text"]
<1>1. f = [c \in {"APOS", "BSL"} |-> <<"BSL", c>>]
  BY DEF Escapes
<1> HIDE DEF f
<1>2. DOMAIN f = {"APOS", "BSL"} /\ f["APOS"] = <<"BSL", "APOS">> /\ f["BSL"] = <<"BSL", "BSL">>
  BY <1>1
<1>3. "APOS" \in Chars /\ "BSL" \in Chars
  BY DEF Chars
<1>4. IsEscape(f["APOS"], "BSL", "APOS") /\ IsEscape(f["BSL"], "BSL", "BSL")
  BY <1>2, <1>3, PairIsSeq DEF IsEscape
<1> QED BY <1>2, <1>4 DEF f

\* and the XML of the rolling file.
LEMMA EscapesOfXml ==
  LET f == Escapes["xml"]
  IN  /\ DOMAIN f = {"AMP", "LT", "QUOT", "LF"}
      /\ IsEscape(f["AMP"], "AMP", "amp") /\ IsEscape(f["LT"], "AMP", "lt")
      /\ IsEscape(f["QUOT"], "AMP", "quot") /\ IsEscape(f["LF"], "AMP", "xA")
<1> DEFINE f == Escapes["xml"]
<1>1. f = [c \in {"AMP", "LT", "QUOT", "LF"} |->
             CASE c = "AMP" -> <<"AMP", "amp", "SEMI">> [] c = "LT" -> <<"AMP", "lt", "SEMI">>
               [] c = "QUOT" -> <<"AMP", "quot", "SEMI">> [] c = "LF" -> <<"AMP", "xA", "SEMI">>]
  BY DEF Escapes
<1> HIDE DEF f
<1>2. /\ DOMAIN f = {"AMP", "LT", "QUOT", "LF"}
      /\ f["AMP"] = <<"AMP", "amp", "SEMI">> /\ f["LT"] = <<"AMP", "lt", "SEMI">>
      /\ f["QUOT"] = <<"AMP", "quot", "SEMI">> /\ f["LF"] = <<"AMP", "xA", "SEMI">>
  BY <1>1
<1>3. /\ "AMP" \in Chars /\ "amp" \in Chars /\ "lt" \in Chars /\ "quot" \in Chars
      /\ "xA" \in Chars /\ "SEMI" \in Chars
  BY DEF Chars
<1>4. IsEscape(f["AMP"], "AMP", "amp")
  BY <1>2, <1>3, TripleIsSeq DEF IsEscape
<1>5. IsEscape(f["LT"], "AMP", "lt")
  BY <1>2, <1>3, TripleIsSeq DEF IsEscape
<1>6. IsEscape(f["QUOT"], "AMP", "quot")
  BY <1>2, <1>3, TripleIsSeq DEF IsEscape
<1>7. IsEscape(f["LF"], "AMP", "xA")
  BY <1>2, <1>3, TripleIsSeq DEF IsEscape
<1> QED BY <1>2, <1>4, <1>5, <1>6, <1>7 DEF f

\* The escapes of one writer: each begins with a character that is replaced, and no two have
\* the same second character.
EscapesApart(w) ==
  \A c \in DOMAIN Escapes[w] :
    LET e == Escapes[w][c]
    IN  /\ c \in Chars /\ e \in Seq(Chars) /\ Len(e) \in Nat /\ Len(e) >= 2
        /\ e[1] \in DOMAIN Escapes[w]
        /\ \A d \in DOMAIN Escapes[w] : Escapes[w][d][2] = e[2] => d = c

\* No escape of a writer is the beginning of another one.
LEMMA EscapesFacts == ASSUME NEW w \in DOMAIN Escapes PROVE EscapesApart(w)
<1>1. w \in {"json", "text", "xml"}
  BY DEF Escapes
<1>2. CASE w = "json"
  <2> DEFINE f == Escapes["json"]
  <2>1. ASSUME NEW c \in DOMAIN f
        PROVE  c \in Chars /\ f[c] \in Seq(Chars) /\ Len(f[c]) \in Nat /\ Len(f[c]) >= 2 /\ f[c][1] \in DOMAIN f
    BY EscapesOfJson DEF IsEscape, Chars
  <2>2. ASSUME NEW c \in DOMAIN f, NEW d \in DOMAIN f, f[d][2] = f[c][2] PROVE d = c
    BY <2>2, EscapesOfJson DEF IsEscape
  <2> QED BY <1>2, <2>1, <2>2 DEF EscapesApart
<1>3. CASE w = "text"
  <2> DEFINE f == Escapes["text"]
  <2>1. ASSUME NEW c \in DOMAIN f
        PROVE  c \in Chars /\ f[c] \in Seq(Chars) /\ Len(f[c]) \in Nat /\ Len(f[c]) >= 2 /\ f[c][1] \in DOMAIN f
    BY EscapesOfText DEF IsEscape, Chars
  <2>2. ASSUME NEW c \in DOMAIN f, NEW d \in DOMAIN f, f[d][2] = f[c][2] PROVE d = c
    BY <2>2, EscapesOfText DEF IsEscape
  <2> QED BY <1>3, <2>1, <2>2 DEF EscapesApart
<1>4. CASE w = "xml"
  <2> DEFINE f == Escapes["xml"]
  <2>1. ASSUME NEW c \in DOMAIN f
        PROVE  c \in Chars /\ f[c] \in Seq(Chars) /\ Len(f[c]) \in Nat /\ Len(f[c]) >= 2 /\ f[c][1] \in DOMAIN f
    BY EscapesOfXml DEF IsEscape, Chars
  <2>2. ASSUME NEW c \in DOMAIN f, NEW d \in DOMAIN f, f[d][2] = f[c][2] PROVE d = c
    BY <2>2, EscapesOfXml DEF IsEscape
  <2> QED BY <1>4, <2>1, <2>2 DEF EscapesApart
<1> QED BY <1>1, <1>2, <1>3, <1>4

\* What may be written is made of characters.
LEMMA AlphabetFacts == ASSUME NEW w \in DOMAIN Escapes PROVE Alphabet(w) \subseteq Chars
<1>1. EscapesApart(w)
  BY EscapesFacts
<1>2. ASSUME NEW c \in DOMAIN Escapes[w] PROVE c \in Chars /\ ToSet(Escapes[w][c]) \subseteq Chars
  BY <1>1, ToSetIsRange DEF EscapesApart
<1>3. "a" \in Chars
  BY DEF Chars
<1> QED BY <1>2, <1>3 DEF Alphabet

--------------------------------------------------------------------------------
\* What a character becomes, and what the first n characters of the text become.
Encoded(c) == IF Escaped(c) THEN Escapes[writer][c] ELSE <<c>>

IsCode(code) ==
  code[0] = <<>> /\ \A n \in 0..Len(text) : n < Len(text) => code[n + 1] = code[n] \o Encoded(text[n + 1])

Code == CHOOSE code \in [0..Len(text) -> Seq(Chars)] : IsCode(code)

TextOK == writer \in DOMAIN Escapes /\ text \in Seq(Chars) /\ Len(text) \in Nat

\* A character is written as one character or more.
LEMMA EncodedFacts ==
  ASSUME TextOK, NEW c \in Chars
  PROVE  Encoded(c) \in Seq(Chars) /\ Len(Encoded(c)) \in Nat /\ Len(Encoded(c)) >= 1
<1>1. CASE Escaped(c)
  <2>1. EscapesApart(writer) /\ Encoded(c) = Escapes[writer][c]
    BY <1>1, EscapesFacts DEF TextOK, Encoded
  <2> QED BY <1>1, <2>1 DEF EscapesApart, Escaped
<1>2. CASE ~Escaped(c)
  BY <1>2 DEF Encoded
<1> QED BY <1>1, <1>2

\* What is written for the first n characters.
LEMMA CodeFacts ==
  ASSUME TextOK PROVE Code \in [0..Len(text) -> Seq(Chars)] /\ IsCode(Code)
<1> DEFINE l == Len(text)
           S == Seq(Chars)
           next(n, s) == IF n \in 1..l THEN s \o Encoded(text[n]) ELSE s
           step == [q \in Nat \X S |-> next(q[1] + 1, q[2])]
<1>1. l \in Nat
  BY DEF TextOK
<1>2. step \in [Nat \X S -> S]
  <2>1. ASSUME NEW n \in Nat, NEW s \in S PROVE next(n, s) \in S
    <3>1. CASE n \in 1..l
      <4>1. text[n] \in Chars
        BY <3>1 DEF TextOK
      <4>2. Encoded(text[n]) \in Seq(Chars)
        BY <4>1, EncodedFacts
      <4>3. s \o Encoded(text[n]) \in Seq(Chars)
        BY <2>1, <4>2, ConcatProperties
      <4> QED BY <3>1, <4>3
    <3>2. CASE n \notin 1..l
      BY <2>1, <3>2
    <3> QED BY <3>1, <3>2
  <2>2. \A q \in Nat \X S : q[1] + 1 \in Nat /\ q[2] \in S
    OBVIOUS
  <2> HIDE DEF next, S
  <2>3. \A q \in Nat \X S : next(q[1] + 1, q[2]) \in S
    BY <2>1, <2>2
  <2> QED BY <2>3
<1>3. PICK h \in [0..l -> S] : Iterates(h, <<>>, step, l)
  <2>1. <<>> \in S
    OBVIOUS
  <2> HIDE DEF step, S, l
  <2> QED BY <1>1, <1>2, <2>1, Recursion
<1>4. ASSUME NEW n \in 0..l, n < l PROVE h[n + 1] = h[n] \o Encoded(text[n + 1])
  <2>1. n + 1 \in 1..l /\ n \in Nat
    BY <1>1, <1>4
  <2>2. h[n] \in S
    <3> HIDE DEF S, l
    <3> QED BY <1>3
  <2>3. h[n + 1] = step[<<n, h[n]>>]
    BY <1>3, <1>4 DEF Iterates
  <2>4. step[<<n, h[n]>>] = next(n + 1, h[n])
    <3> HIDE DEF S, next
    <3> QED BY <2>1, <2>2
  <2> QED BY <2>1, <2>3, <2>4
<1>5. IsCode(h)
  BY <1>3, <1>4 DEF IsCode, Iterates
<1> HIDE DEF IsCode
<1>6. \E code \in [0..Len(text) -> Seq(Chars)] : IsCode(code)
  BY <1>3, <1>5
<1> QED BY <1>6, Zenon DEF Code

\* One more character.
LEMMA CodeStep ==
  ASSUME TextOK, NEW n \in 1..Len(text)
  PROVE  /\ Code[n] = Code[n - 1] \o Encoded(text[n])
         /\ Code[n] \in Seq(Chars) /\ Code[n - 1] \in Seq(Chars) /\ text[n] \in Chars
<1>1. n - 1 \in 0..Len(text) /\ n - 1 < Len(text) /\ (n - 1) + 1 = n /\ n \in 0..Len(text)
  BY DEF TextOK
<1>2. Code \in [0..Len(text) -> Seq(Chars)] /\ IsCode(Code)
  BY CodeFacts
<1>3. Code[(n - 1) + 1] = Code[n - 1] \o Encoded(text[(n - 1) + 1])
  BY <1>1, <1>2 DEF IsCode
<1>4. text[n] \in Chars
  BY DEF TextOK
<1> QED BY <1>1, <1>2, <1>3, <1>4

--------------------------------------------------------------------------------
\* The scanner has written the code of what it has read, but for the clean segment.
EscapingInv ==
  /\ TextOK
  /\ i \in 1..(Len(text) + 1)
  /\ cleanSegmentStart \in 1..i
  /\ escapedResult \in Seq(Chars)
  /\ escapedResult \o SubSeq(text, cleanSegmentStart, i - 1) = Code[i - 1]

\* The invariant holds at the start.
LEMMA EscapingInvInit == EscapingInit => EscapingInv
<1> SUFFICES ASSUME EscapingInit PROVE EscapingInv
  OBVIOUS
<1>1. PICK n \in 0..MaxLength : text \in [1..n -> Alphabet(writer)]
  BY DEF EscapingInit
<1>2. n \in Nat /\ Alphabet(writer) \subseteq Chars
  BY AlphabetFacts, MaxLengthAssumption DEF EscapingInit
<1>3. text \in [1..n -> Chars]
  BY <1>1, <1>2
<1>4. TextOK
  BY <1>2, <1>3 DEF TextOK, EscapingInit
<1>5. Code[0] = <<>>
  BY <1>4, CodeFacts DEF IsCode
<1>6. SubSeq(text, 1, 0) = <<>> /\ <<>> \o <<>> = <<>> /\ <<>> \in Seq(Chars)
  BY SubSeqEmpty, ConcatEmptySeq
<1>7. i = 1 /\ cleanSegmentStart = 1 /\ escapedResult = <<>> /\ 1 - 1 = 0 /\ 1 \in 1..1
  BY DEF EscapingInit
<1>8. escapedResult \o SubSeq(text, cleanSegmentStart, i - 1) = Code[i - 1]
  BY <1>5, <1>6, <1>7
<1>9. i \in 1..(Len(text) + 1)
  BY <1>4, <1>7 DEF TextOK
<1> QED BY <1>4, <1>6, <1>7, <1>8, <1>9 DEF EscapingInv

\* What is to be written depends on the text only, which no step changes.
LEMMA CodeSteady ==
  ASSUME writer' = writer, text' = text PROVE Code' = Code /\ (TextOK' <=> TextOK)
<1>1. ASSUME NEW code PROVE IsCode(code)' <=> IsCode(code)
  BY DEF IsCode, Encoded, Escaped
<1> QED BY <1>1 DEF Code, TextOK

\* Every step keeps the invariant.
LEMMA EscapingInvStep == EscapingInv /\ [EscapingNext]_escapingVars => EscapingInv'
<1> SUFFICES ASSUME EscapingInv, [EscapingNext]_escapingVars PROVE EscapingInv'
  OBVIOUS
<1>1. /\ TextOK /\ i \in 1..(Len(text) + 1) /\ cleanSegmentStart \in 1..i
      /\ escapedResult \in Seq(Chars)
      /\ escapedResult \o SubSeq(text, cleanSegmentStart, i - 1) = Code[i - 1]
      /\ text \in Seq(Chars) /\ Len(text) \in Nat
  BY DEF EscapingInv, TextOK
<1>2. text' = text /\ writer' = writer
  BY DEF EscapingNext, escapingVars
<1>3. Code' = Code /\ TextOK'
  BY <1>1, <1>2, CodeSteady
<1> DEFINE segment == SubSeq(text, cleanSegmentStart, i - 1)
<1>4. segment \in Seq(Chars) /\ i - 1 \in Int /\ i \in Nat /\ cleanSegmentStart \in Nat
  <2>1. \A m \in cleanSegmentStart..(i - 1) : text[m] \in Chars
    BY <1>1
  <2> QED BY <1>1, <2>1, SubSeqProperties
<1>5. ASSUME i <= Len(text)
      PROVE  /\ i \in 1..Len(text) /\ i + 1 \in 1..(Len(text) + 1) /\ (i + 1) - 1 = i
             /\ Code[i] = Code[i - 1] \o Encoded(text[i])
             /\ Encoded(text[i]) \in Seq(Chars)
             /\ Code[i] \in Seq(Chars) /\ Code[i - 1] \in Seq(Chars)
  <2>1. i \in 1..Len(text)
    BY <1>1, <1>4, <1>5
  <2>2. /\ Code[i] = Code[i - 1] \o Encoded(text[i])
        /\ Code[i] \in Seq(Chars) /\ Code[i - 1] \in Seq(Chars) /\ text[i] \in Chars
    BY <1>1, <2>1, CodeStep
  <2>3. Encoded(text[i]) \in Seq(Chars)
    BY <1>1, <2>2, EncodedFacts
  <2> QED BY <1>1, <1>4, <2>1, <2>2, <2>3
<1>6. CASE EscapeCharacter
  <2>1. i <= Len(text) /\ Encoded(text[i]) = Escapes[writer][text[i]]
    BY <1>6 DEF EscapeCharacter, Encoded
  <2>2. escapedResult' = (escapedResult \o segment) \o Encoded(text[i])
    BY <1>6, <2>1 DEF EscapeCharacter
  <2>3. escapedResult' = Code[i]
    BY <1>1, <1>5, <2>1, <2>2
  <2>4. i' = i + 1 /\ cleanSegmentStart' = i + 1
    BY <1>6 DEF EscapeCharacter
  <2>5. SubSeq(text, i + 1, i) = <<>>
    BY <1>4, SubSeqEmpty
  <2>6. Code[i] \o <<>> = Code[i]
    BY <1>5, <2>1, ConcatEmptySeq
  <2>7. escapedResult' \o SubSeq(text', cleanSegmentStart', i' - 1) = Code'[i' - 1]
    BY <1>2, <1>3, <1>5, <2>1, <2>3, <2>4, <2>5, <2>6
  <2>8. cleanSegmentStart' \in 1..i' /\ i' \in 1..(Len(text') + 1) /\ escapedResult' \in Seq(Chars)
    BY <1>2, <1>4, <1>5, <2>1, <2>3, <2>4
  <2> QED BY <1>3, <2>7, <2>8 DEF EscapingInv
<1>7. CASE PassCharacter
  <2>1. /\ i <= Len(text) /\ Encoded(text[i]) = <<text[i]>> /\ i' = i + 1
        /\ cleanSegmentStart' = cleanSegmentStart /\ escapedResult' = escapedResult
    BY <1>7 DEF PassCharacter, Encoded
  <2>2. SubSeq(text, cleanSegmentStart, i) = segment \o <<text[i]>>
    <3>1. cleanSegmentStart \in 1..Len(text) /\ i \in cleanSegmentStart..Len(text)
      BY <1>1, <1>4, <2>1
    <3> QED BY <1>1, <3>1, SubSeqRecursiveSecond
  <2>3. escapedResult \o (segment \o <<text[i]>>) = (escapedResult \o segment) \o <<text[i]>>
    <3>1. <<text[i]>> \in Seq(Chars)
      BY <1>5, <2>1
    <3> HIDE DEF segment
    <3> QED BY <1>1, <1>4, <3>1, ConcatAssociative, SMTT(30)
  <2>4. escapedResult \o SubSeq(text, cleanSegmentStart, i) = Code[i]
    BY <1>1, <1>5, <2>1, <2>2, <2>3
  <2>5. escapedResult' \o SubSeq(text', cleanSegmentStart', i' - 1) = Code'[i' - 1]
    BY <1>2, <1>3, <1>5, <2>1, <2>4
  <2>6. cleanSegmentStart' \in 1..i' /\ i' \in 1..(Len(text') + 1)
    BY <1>1, <1>2, <1>4, <1>5, <2>1
  <2> QED BY <1>1, <1>3, <2>1, <2>5, <2>6 DEF EscapingInv
<1>8. CASE UNCHANGED escapingVars
  BY <1>1, <1>3, <1>8 DEF EscapingInv, escapingVars
<1> QED BY <1>6, <1>7, <1>8 DEF EscapingNext

--------------------------------------------------------------------------------
\* The place after the first n codes.
After(n) == Len(Code[n]) + 1

\* The codes of the first characters are the beginning of the whole code.
LEMMA CodeGrows ==
  ASSUME TextOK, NEW n \in 0..Len(text)
  PROVE  \A m \in 0..Len(text) : n <= m =>
           /\ Len(Code[n]) <= Len(Code[m])
           /\ \A k \in 1..Len(Code[n]) : Code[m][k] = Code[n][k]
<1> DEFINE l == Len(text)
           Begins(m) == /\ Len(Code[n]) <= Len(Code[m])
                        /\ \A k \in 1..Len(Code[n]) : Code[m][k] = Code[n][k]
           T == {m \in 0..l : n <= m => Begins(m)}
<1>1. l \in Nat /\ n \in Nat /\ \A m \in 0..l : Code[m] \in Seq(Chars) /\ Len(Code[m]) \in Nat
  BY CodeFacts DEF TextOK
<1>2. 0 \in T
  <2>1. n <= 0 => n = 0
    BY <1>1
  <2>2. n = 0 => Begins(0)
    BY <1>1
  <2> QED BY <1>1, <2>1, <2>2
<1>3. ASSUME NEW m \in 0..l, m \in T, m < l PROVE m + 1 \in T
  <2>1. m + 1 \in 1..l /\ m + 1 \in 0..l /\ (m + 1) - 1 = m
    BY <1>1, <1>3
  <2>2. CASE n <= m
    <3>1. Begins(m)
      BY <1>3, <2>2
    <3> DEFINE e == Encoded(text[m + 1])
    <3>2. Code[m + 1] = Code[m] \o e /\ e \in Seq(Chars) /\ Len(e) \in Nat
      <4>1. Code[m + 1] = Code[(m + 1) - 1] \o e /\ text[m + 1] \in Chars
        BY <2>1, CodeStep
      <4>2. e \in Seq(Chars) /\ Len(e) \in Nat
        BY <4>1, EncodedFacts
      <4> QED BY <2>1, <4>1, <4>2
    <3> HIDE DEF e
    <3>3. /\ Len(Code[m] \o e) = Len(Code[m]) + Len(e)
          /\ \A k \in 1..(Len(Code[m]) + Len(e)) :
               (Code[m] \o e)[k] = IF k <= Len(Code[m]) THEN Code[m][k] ELSE e[k - Len(Code[m])]
      BY <1>1, <3>2, ConcatProperties
    <3>4. Len(Code[n]) <= Len(Code[m + 1])
      BY <1>1, <3>1, <3>2, <3>3
    <3>5. ASSUME NEW k \in 1..Len(Code[n]) PROVE Code[m + 1][k] = Code[n][k]
      <4>1. k \in 1..(Len(Code[m]) + Len(e)) /\ k <= Len(Code[m])
        BY <1>1, <3>1, <3>2
      <4> QED BY <3>1, <3>2, <3>3, <4>1
    <3> QED BY <2>1, <3>4, <3>5
  <2>3. CASE n = m + 1
    BY <1>1, <2>1, <2>3
  <2>4. CASE ~(n <= m + 1)
    BY <2>1, <2>4
  <2>5. n <= m \/ n = m + 1 \/ ~(n <= m + 1)
    BY <1>1, <2>1
  <2> QED BY <2>2, <2>3, <2>4, <2>5
<1>4. \A m \in 0..l : m \in T
  <2> HIDE DEF T, l
  <2> QED BY <1>1, <1>2, <1>3, UptoInd
<1> QED BY <1>4

\* Where the n-th code is in the whole.
LEMMA CodeAt ==
  ASSUME TextOK, NEW n \in 1..Len(text)
  PROVE  LET s == Code[Len(text)]
             e == Encoded(text[n])
         IN  /\ After(n) = After(n - 1) + Len(e)
             /\ After(n - 1) \in Nat /\ After(n - 1) >= 1 /\ After(n) <= Len(s) + 1
             /\ \A j \in 1..Len(e) : s[After(n - 1) + j - 1] = e[j]
<1> DEFINE l == Len(text)
           s == Code[l]
           e == Encoded(text[n])
           old == Code[n - 1]
<1>1. l \in Nat /\ n \in Nat /\ n \in 0..l /\ l \in 0..l /\ n <= l
  BY DEF TextOK
<1>2. /\ Code[n] = old \o e /\ Code[n] \in Seq(Chars) /\ old \in Seq(Chars) /\ s \in Seq(Chars)
      /\ e \in Seq(Chars)
  BY <1>1, CodeStep, CodeFacts, EncodedFacts
<1>3. \A k \in 1..Len(Code[n]) : s[k] = Code[n][k]
  BY <1>1, CodeGrows
<1>4. Len(Code[n]) <= Len(s)
  BY <1>1, CodeGrows
<1>5. Len(old) \in Nat /\ Len(e) \in Nat /\ Len(s) \in Nat
  BY <1>2
<1> HIDE DEF old, e, s
<1>6. /\ Len(Code[n]) = Len(old) + Len(e)
      /\ \A k \in 1..(Len(old) + Len(e)) : Code[n][k] = IF k <= Len(old) THEN old[k] ELSE e[k - Len(old)]
  BY <1>2, ConcatProperties
<1>7. ASSUME NEW j \in 1..Len(e) PROVE s[Len(old) + j] = e[j]
  <2>1. /\ Len(old) + j \in 1..(Len(old) + Len(e)) /\ ~(Len(old) + j <= Len(old))
        /\ (Len(old) + j) - Len(old) = j
    BY <1>5
  <2> QED BY <1>3, <1>6, <2>1
<1>8. ASSUME NEW j \in 1..Len(e) PROVE s[(Len(old) + 1) + j - 1] = e[j]
  <2>1. (Len(old) + 1) + j - 1 = Len(old) + j
    BY <1>5
  <2> QED BY <1>7, <2>1
<1>9. After(n - 1) = Len(old) + 1 /\ After(n) = Len(Code[n]) + 1
  BY DEF After, old
<1>10. /\ After(n) = After(n - 1) + Len(e)
       /\ After(n - 1) \in Nat /\ After(n - 1) >= 1 /\ After(n) <= Len(s) + 1
  BY <1>4, <1>5, <1>6, <1>9
<1>11. \A j \in 1..Len(e) : s[After(n - 1) + j - 1] = e[j]
  BY <1>8, <1>9
<1> QED BY <1>10, <1>11 DEF e, s

\* What a reader finds there.
LEMMA ReadAt ==
  ASSUME TextOK, NEW n \in 1..Len(text)
  PROVE  LET s == Code[Len(text)]
             c == text[n]
             k == After(n - 1)
         IN  /\ StandsFor(s, k) = c /\ Width(s, k) = Len(Encoded(c))
             /\ Escaped(c) => c \in EscapeAt(s, k)
<1> DEFINE s == Code[Len(text)]
           c == text[n]
           e == Encoded(c)
           k == After(n - 1)
<1>1. /\ After(n) = k + Len(e) /\ k \in Nat /\ k >= 1 /\ After(n) <= Len(s) + 1
      /\ \A j \in 1..Len(e) : s[k + j - 1] = e[j]
  BY CodeAt
<1>2. /\ c \in Chars /\ EscapesApart(writer) /\ e \in Seq(Chars) /\ Len(e) \in Nat /\ Len(e) >= 1
      /\ s \in Seq(Chars) /\ Len(s) \in Nat
  <2>1. Len(text) \in 0..Len(text) /\ text[n] \in Chars /\ writer \in DOMAIN Escapes
    BY DEF TextOK
  <2>2. e \in Seq(Chars) /\ Len(e) \in Nat /\ Len(e) >= 1
    BY <2>1, EncodedFacts
  <2>3. EscapesApart(writer)
    BY <2>1, EscapesFacts
  <2>4. s \in Seq(Chars)
    BY <2>1, CodeFacts
  <2> QED BY <2>1, <2>2, <2>3, <2>4
<1>3. s[k] = e[1]
  <2>1. 1 \in 1..Len(e) /\ k + 1 - 1 = k
    BY <1>1, <1>2
  <2> QED BY <1>1, <2>1
<1> HIDE DEF s, k
<1>4. ASSUME NEW d \in EscapeAt(s, k)
      PROVE  /\ d \in DOMAIN Escapes[writer]
             /\ s[k] = Escapes[writer][d][1] /\ s[k + 1] = Escapes[writer][d][2]
  <2> DEFINE f == Escapes[writer][d]
  <2>1. d \in DOMAIN Escapes[writer] /\ \A m \in DOMAIN f : s[k + m - 1] = f[m]
    BY DEF EscapeAt
  <2>2. 1 \in DOMAIN f /\ 2 \in DOMAIN f
    BY <1>2, <2>1 DEF EscapesApart
  <2>3. k + 1 - 1 = k /\ k + 2 - 1 = k + 1
    BY <1>1
  <2> HIDE DEF f
  <2>4. s[k + 1 - 1] = f[1] /\ s[k + 2 - 1] = f[2]
    BY <2>1, <2>2
  <2> QED BY <2>1, <2>3, <2>4 DEF f
<1>5. CASE Escaped(c)
  <2>1. e = Escapes[writer][c] /\ c \in DOMAIN Escapes[writer] /\ Len(e) >= 2
    BY <1>2, <1>5 DEF Encoded, Escaped, EscapesApart
  <2>2. DOMAIN e = 1..Len(e)
    BY <1>2
  <2> HIDE DEF e
  <2>3. c \in EscapeAt(s, k)
    BY <1>1, <2>1, <2>2 DEF EscapeAt
  <2>4. s[k + 1] = e[2]
    BY <1>4, <2>1, <2>3
  <2>5. ASSUME NEW d \in EscapeAt(s, k) PROVE d = c
    <3>1. d \in DOMAIN Escapes[writer] /\ Escapes[writer][d][2] = Escapes[writer][c][2]
      BY <1>4, <2>1, <2>4
    <3> QED BY <1>2, <2>1, <3>1 DEF EscapesApart
  <2>6. EscapeAt(s, k) = {c}
    BY <2>3, <2>5
  <2>7. StandsFor(s, k) = c
    BY <2>6 DEF StandsFor
  <2>8. Width(s, k) = Len(e)
    BY <2>1, <2>6, <2>7 DEF Width
  <2> QED BY <2>3, <2>7, <2>8 DEF e, s, k
<1>6. CASE ~Escaped(c)
  <2>1. e = <<c>> /\ Len(e) = 1 /\ e[1] = c
    BY <1>6 DEF Encoded
  <2>2. ASSUME NEW d \in EscapeAt(s, k) PROVE FALSE
    <3>1. Escaped(s[k])
      BY <1>2, <1>4 DEF EscapesApart, Escaped
    <3> QED BY <1>3, <1>6, <2>1, <3>1
  <2>3. EscapeAt(s, k) = {}
    BY <2>2
  <2> QED BY <1>3, <1>6, <2>1, <2>3 DEF StandsFor, Width, s, k
<1> QED BY <1>5, <1>6

--------------------------------------------------------------------------------
\* A reader goes on by at least one character.
LEMMA WidthFacts ==
  ASSUME TextOK, NEW s, NEW k PROVE Width(s, k) \in Nat /\ Width(s, k) >= 1
<1>1. CASE EscapeAt(s, k) = {}
  BY <1>1 DEF Width
<1>2. CASE EscapeAt(s, k) # {}
  <2>1. StandsFor(s, k) \in EscapeAt(s, k)
    BY <1>2 DEF StandsFor
  <2>2. StandsFor(s, k) \in DOMAIN Escapes[writer]
    BY <2>1 DEF EscapeAt
  <2>3. EscapesApart(writer)
    BY EscapesFacts DEF TextOK
  <2> QED BY <1>2, <2>2, <2>3 DEF Width, EscapesApart
<1> QED BY <1>1, <1>2

\* The reader's places, and what it reads there.
IsStart(start, s) ==
  /\ start \in [0..Len(s) -> Nat] /\ start[0] = 1
  /\ \A n \in 0..Len(s) : n < Len(s) => start[n + 1] = start[n] + Width(s, start[n])

ReadWith(start, s) ==
  [n \in {m \in 1..Len(s) : start[m - 1] <= Len(s)} |-> StandsFor(s, start[n - 1])]

\* The reader goes from the start of one character to the start of the next.
LEMMA ReadingLoop ==
  ASSUME TextOK, NEW s \in Seq(Chars)
  PROVE  \E start : IsStart(start, s) /\ Reading(s) = ReadWith(start, s)
<1> DEFINE l == Len(s)
           step == [q \in Nat \X Nat |-> q[2] + Width(s, q[2])]
           Is(g) == g = [n \in 0..l |-> IF n = 0 THEN 1 ELSE g[n - 1] + Width(s, g[n - 1])]
           g == CHOOSE f : Is(f)
<1>1. l \in Nat
  OBVIOUS
<1>2. step \in [Nat \X Nat -> Nat]
  <2>1. \A q \in Nat \X Nat : q[2] + Width(s, q[2]) \in Nat
    BY WidthFacts
  <2> QED BY <2>1
<1>3. PICK h \in [0..l -> Nat] : Iterates(h, 1, step, l)
  <2> HIDE DEF step, l
  <2> QED BY <1>1, <1>2, Recursion
<1>4. Is(h)
  <2>1. ASSUME NEW n \in 1..l PROVE h[n] = h[n - 1] + Width(s, h[n - 1])
    <3>1. n - 1 \in 0..l /\ n - 1 < l /\ n - 1 + 1 = n /\ n - 1 \in Nat
      BY <1>1
    <3>2. h[n - 1 + 1] = step[<<n - 1, h[n - 1]>>]
      BY <1>3, <3>1 DEF Iterates
    <3>3. h[n - 1] \in Nat
      BY <1>3, <3>1
    <3> QED BY <3>1, <3>2, <3>3
  <2>2. h = [n \in 0..l |-> h[n]] /\ h[0] = 1
    BY <1>3 DEF Iterates
  <2>3. \A n \in 0..l : n # 0 => n \in 1..l
    BY <1>1
  <2> HIDE DEF l
  <2> QED BY <2>1, <2>2, <2>3
<1>5. Reading(s) = ReadWith(g, s)
  BY Zenon DEF Reading, ReadWith
<1>6. Is(g)
  <2> HIDE DEF Is
  <2> QED BY <1>4, Zenon
<1> HIDE DEF g
<1>7. ASSUME NEW n \in 0..l, n < l PROVE g[n + 1] = g[n] + Width(s, g[n])
  <2>1. n + 1 \in 0..l /\ n + 1 # 0 /\ (n + 1) - 1 = n
    BY <1>1, <1>7
  <2> QED BY <1>6, <2>1
<1>8. g[0] = 1 /\ DOMAIN g = 0..l /\ g = [n \in 0..l |-> g[n]]
  BY <1>1, <1>6
<1>9. \A n \in 0..l : g[n] \in Nat
  <2> DEFINE T == {n \in 0..l : g[n] \in Nat}
  <2>1. 0 \in T
    BY <1>1, <1>8
  <2>2. ASSUME NEW n \in 0..l, n \in T, n < l PROVE n + 1 \in T
    <3>1. g[n] \in Nat /\ Width(s, g[n]) \in Nat
      BY <2>2, WidthFacts
    <3>2. n + 1 \in 0..l
      BY <1>1, <2>2
    <3> QED BY <1>7, <2>2, <3>1, <3>2
  <2>3. \A n \in 0..l : n \in T
    <3> HIDE DEF T, l
    <3> QED BY <1>1, <2>1, <2>2, UptoInd
  <2> QED BY <2>3
<1>10. IsStart(g, s)
  BY <1>7, <1>8, <1>9 DEF IsStart
<1> QED BY <1>5, <1>10

\* The whole code is read back as the text.
LEMMA CodeReadsBack == ASSUME TextOK PROVE Reading(Code[Len(text)]) = text
<1> DEFINE l == Len(text)
           s == Code[l]
           L == Len(s)
<1>1. /\ l \in Nat /\ l \in 0..l /\ s \in Seq(Chars) /\ L \in Nat /\ text \in Seq(Chars)
      /\ \A n \in 0..l : Code[n] \in Seq(Chars) /\ After(n) \in Nat /\ After(n) >= 1
  <2>1. l \in Nat /\ text \in Seq(Chars)
    BY DEF TextOK
  <2>2. \A n \in 0..l : Code[n] \in Seq(Chars)
    BY CodeFacts
  <2> QED BY <2>1, <2>2 DEF After
<1>2. /\ After(0) = 1 /\ After(l) = L + 1
  <2>1. Code[0] = <<>>
    BY CodeFacts DEF IsCode
  <2> QED BY <2>1 DEF After
<1>3. PICK start : IsStart(start, s) /\ Reading(s) = ReadWith(start, s)
  BY <1>1, ReadingLoop
<1>4. ASSUME NEW n \in 1..l
      PROVE  /\ After(n) = After(n - 1) + Width(s, After(n - 1)) /\ After(n) > After(n - 1)
             /\ StandsFor(s, After(n - 1)) = text[n]
  <2>1. /\ StandsFor(s, After(n - 1)) = text[n] /\ Width(s, After(n - 1)) = Len(Encoded(text[n]))
        /\ After(n) = After(n - 1) + Len(Encoded(text[n]))
    BY ReadAt, CodeAt
  <2>2. text[n] \in Chars /\ n \in 0..l /\ n - 1 \in 0..l
    BY <1>1
  <2>3. Len(Encoded(text[n])) \in Nat /\ Len(Encoded(text[n])) >= 1
    BY <2>2, EncodedFacts
  <2> QED BY <1>1, <2>1, <2>2, <2>3
<1> HIDE DEF s
<1>5. \A n \in 0..l : n < After(n) /\ After(n) <= L + 1
  <2> DEFINE T == {n \in 0..l : n < After(n)}
             U == {n \in 0..l : After(n) <= L + 1}
  <2>1. 0 \in T /\ l \in U
    BY <1>1, <1>2
  <2>2. ASSUME NEW n \in 0..l, n < l
        PROVE  /\ n \in T => n + 1 \in T
               /\ n + 1 \in U => n \in U
    <3>1. n + 1 \in 1..l /\ n + 1 \in 0..l /\ (n + 1) - 1 = n
      BY <1>1, <2>2
    <3>2. After(n + 1) > After(n)
      <4>1. After(n + 1) > After((n + 1) - 1)
        BY <1>4, <3>1
      <4> QED BY <3>1, <4>1
    <3> QED BY <1>1, <3>1, <3>2
  <2>3. \A n \in 0..l : n \in T
    <3> HIDE DEF T, l
    <3> QED BY <1>1, <2>1, <2>2, UptoInd
  <2>4. \A n \in 0..l : n \in U
    <3> HIDE DEF U, l
    <3> QED BY <1>1, <2>1, <2>2, DownInd
  <2> QED BY <2>3, <2>4
<1>6. l <= L /\ \A n \in 0..l : n \in 0..L
  BY <1>1, <1>2, <1>5
<1>7. \A n \in 0..l : start[n] = After(n)
  <2> DEFINE T == {n \in 0..l : start[n] = After(n)}
  <2>1. 0 \in T
    BY <1>1, <1>2, <1>3 DEF IsStart
  <2>2. ASSUME NEW n \in 0..l, n \in T, n < l PROVE n + 1 \in T
    <3>1. n + 1 \in 1..l /\ n + 1 \in 0..l /\ (n + 1) - 1 = n /\ n \in 0..L /\ n < L
      BY <1>1, <1>6, <2>2
    <3>2. start[n + 1] = start[n] + Width(s, start[n])
      BY <1>3, <3>1 DEF IsStart
    <3>3. After(n + 1) = After((n + 1) - 1) + Width(s, After((n + 1) - 1))
      BY <1>4, <3>1
    <3>4. start[n + 1] = After(n + 1)
      BY <2>2, <3>1, <3>2, <3>3
    <3> QED BY <3>1, <3>4
  <2>3. \A n \in 0..l : n \in T
    <3> HIDE DEF T, l
    <3> QED BY <1>1, <2>1, <2>2, UptoInd
  <2> QED BY <2>3
<1>8. \A n \in 0..L : l <= n => start[n] > L
  <2> DEFINE T == {n \in 0..L : l <= n => start[n] > L}
  <2>1. 0 \in T
    <3>1. l <= 0 => l = 0
      BY <1>1
    <3>2. l = 0 => start[0] = L + 1
      BY <1>1, <1>2, <1>7
    <3> QED BY <1>1, <3>1, <3>2
  <2>2. ASSUME NEW n \in 0..L, n \in T, n < L PROVE n + 1 \in T
    <3>1. n + 1 \in 0..L /\ n \in Nat
      BY <1>1, <2>2
    <3>2. start[n + 1] = start[n] + Width(s, start[n]) /\ start[n] \in Nat
      BY <1>3, <2>2 DEF IsStart
    <3>3. Width(s, start[n]) \in Nat
      BY WidthFacts
    <3>4. CASE l <= n
      BY <1>1, <2>2, <3>1, <3>2, <3>3, <3>4
    <3>5. CASE l = n + 1
      BY <1>1, <1>2, <1>7, <3>1, <3>5
    <3>6. CASE ~(l <= n + 1)
      BY <3>1, <3>6
    <3> QED BY <1>1, <3>1, <3>4, <3>5, <3>6
  <2>3. \A n \in 0..L : n \in T
    <3> HIDE DEF T, L
    <3> QED BY <1>1, <2>1, <2>2, UptoInd
  <2> QED BY <2>3
<1>9. {m \in 1..L : start[m - 1] <= L} = 1..l
  <2>1. ASSUME NEW m \in 1..L PROVE start[m - 1] <= L <=> m \in 1..l
    <3>1. m \in Nat /\ m - 1 \in 0..L
      BY <1>1
    <3>2. CASE m \in 1..l
      <4>1. m - 1 \in 0..l /\ m \in 0..l
        BY <1>1, <3>2
      <4>2. start[m - 1] = After(m - 1) /\ After(m - 1) < After(m) /\ After(m) <= L + 1
        BY <1>4, <1>5, <1>7, <3>2, <4>1
      <4>3. After(m - 1) \in Nat /\ After(m) \in Nat
        BY <1>1, <4>1
      <4> QED BY <1>1, <3>2, <4>2, <4>3
    <3>3. CASE m \notin 1..l
      <4>1. l <= m - 1
        BY <1>1, <2>1, <3>3
      <4>2. start[m - 1] > L /\ start[m - 1] \in Nat
        BY <1>3, <1>8, <3>1, <4>1 DEF IsStart
      <4> QED BY <1>1, <3>3, <4>2
    <3> QED BY <3>2, <3>3
  <2>2. \A m \in 1..l : m \in 1..L
    BY <1>1, <1>6
  <2> QED BY <2>1, <2>2
<1>10. ReadWith(start, s) = [n \in 1..l |-> StandsFor(s, start[n - 1])]
  BY <1>9 DEF ReadWith
<1>11. \A n \in 1..l : StandsFor(s, start[n - 1]) = text[n]
  <2>1. \A n \in 1..l : n - 1 \in 0..l
    BY <1>1
  <2> QED BY <1>4, <1>7, <2>1
<1>12. text = [n \in 1..l |-> text[n]]
  BY <1>1
<1> QED BY <1>3, <1>10, <1>11, <1>12 DEF s

\* A replaced character in the whole code is inside an escape.
LEMMA OnlyInEscapes ==
  ASSUME TextOK, NEW k \in 1..Len(Code[Len(text)]), Escaped(Code[Len(text)][k])
  PROVE  LET s == Code[Len(text)]
         IN  \E j \in 1..k : \E c \in EscapeAt(s, j) : k < j + Len(Escapes[writer][c])
<1> DEFINE l == Len(text)
           s == Code[l]
           L == Len(s)
           T == {n \in 0..l : k < After(n)}
<1>1. /\ l \in Nat /\ l \in 0..l /\ s \in Seq(Chars) /\ L \in Nat
      /\ \A n \in 0..l : After(n) \in Nat
  <2>1. l \in Nat
    BY DEF TextOK
  <2>2. \A n \in 0..l : Code[n] \in Seq(Chars)
    BY CodeFacts
  <2> QED BY <2>1, <2>2 DEF After
<1>2. After(0) = 1 /\ After(l) = L + 1
  <2>1. Code[0] = <<>>
    BY CodeFacts DEF IsCode
  <2> QED BY <2>1 DEF After
<1>3. l \in T /\ T \in SUBSET Nat
  BY <1>1, <1>2
<1>4. PICK n \in T : \A m \in T : n <= m
  <2> HIDE DEF T
  <2> QED BY <1>3, LeastNat
<1>5. n # 0
  BY <1>1, <1>2, <1>4
<1>6. n \in 1..l /\ n - 1 \in 0..l
  BY <1>1, <1>4, <1>5
<1> DEFINE c == text[n]
           e == Encoded(c)
           j == After(n - 1)
<1>7. j <= k
  <2>1. n - 1 \notin T
    BY <1>1, <1>4, <1>6
  <2> QED BY <1>1, <1>6, <2>1
<1>8. /\ After(n) = j + Len(e) /\ j \in Nat /\ j >= 1
      /\ \A m \in 1..Len(e) : s[j + m - 1] = e[m]
  BY <1>6, CodeAt
<1>9. k < j + Len(e) /\ j \in 1..k
  BY <1>1, <1>4, <1>7, <1>8
<1>10. StandsFor(s, j) = c /\ (Escaped(c) => c \in EscapeAt(s, j))
  BY <1>6, ReadAt
<1>11. CASE Escaped(c)
  <2>1. e = Escapes[writer][c] /\ c \in EscapeAt(s, j)
    BY <1>10, <1>11 DEF Encoded
  <2> HIDE DEF j, e, c, s
  <2> QED BY <1>9, <2>1 DEF s
<1>12. CASE ~Escaped(c)
  <2>1. e = <<c>> /\ Len(e) = 1 /\ e[1] = c
    BY <1>12 DEF Encoded
  <2>2. k = j
    BY <1>1, <1>7, <1>8, <1>9, <2>1
  <2>3. s[j + 1 - 1] = c /\ j + 1 - 1 = j
    BY <1>8, <2>1
  <2> HIDE DEF j, e, c
  <2>4. s[k] = c
    BY <2>2, <2>3
  <2> QED BY <1>12, <2>4
<1> QED BY <1>11, <1>12

\* The invariant implies that what was written is read back.
LEMMA EscapingInvSafe == EscapingInv => ReadsBack
<1> SUFFICES ASSUME EscapingInv, i > Len(text) PROVE ReadsBack
  BY DEF ReadsBack
<1>1. TextOK /\ Len(text) \in Nat /\ i \in 1..(Len(text) + 1)
  BY DEF EscapingInv, TextOK
<1>2. i - 1 = Len(text)
  BY <1>1
<1>3. Result = Code[Len(text)]
  BY <1>2 DEF Result, EscapingInv
<1>4. DOMAIN Result = 1..Len(Result)
  <2>1. Len(text) \in 0..Len(text)
    BY <1>1
  <2>2. Result \in Seq(Chars)
    BY <1>1, <1>3, <2>1, CodeFacts
  <2> QED BY <2>2
<1>5. Reading(Result) = text
  BY <1>1, <1>3, CodeReadsBack
<1>6. ASSUME NEW k \in DOMAIN Result, Escaped(Result[k])
      PROVE  \E j \in 1..k : \E c \in EscapeAt(Result, j) : k < j + Len(Escapes[writer][c])
  <2>1. k \in 1..Len(Code[Len(text)]) /\ Escaped(Code[Len(text)][k])
    BY <1>3, <1>4, <1>6
  <2>2. \E j \in 1..k : \E c \in EscapeAt(Code[Len(text)], j) : k < j + Len(Escapes[writer][c])
    BY <1>1, <2>1, OnlyInEscapes
  <2> QED BY <1>3, <2>2
<1> QED BY <1>5, <1>6 DEF ReadsBack

\* How much of the text was copied, and how much is still to be, at every step of the loop.
THEOREM EscapingInvariant == EscapingSpec => []EscapingInv
BY EscapingInvInit, EscapingInvStep, PTL DEF EscapingSpec

\* For any text: a reader of the escapes gets it back, whichever of the three scanners wrote it.
THEOREM WhatIsWrittenReadsBack == EscapingSpec => []ReadsBack
BY EscapingInvariant, EscapingInvSafe, PTL

================================================================================
