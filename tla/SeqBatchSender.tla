----------------------------- MODULE SeqBatchSender -----------------------------
(***************************************************************************)
(* The batch sender of SeqTraceListener                                    *)
(* (Essential.Diagnostics.SeqTraceListener/Diagnostics/SeqBatchSender.cs). *)
(*                                                                         *)
(* Application threads call Enqueue.  With BatchSize > 0 the trace goes    *)
(* into a bounded queue, under stateLock, and a thread-pool thread running *)
(* Process takes batches from it and posts them over HTTP, outside the     *)
(* lock, retrying with a doubling delay.  With BatchSize = 0 the calling   *)
(* thread posts the trace itself.                                          *)
(*                                                                         *)
(* One action is one critical section, one wait, or one post together with *)
(* the bookkeeping on its result, which touches the worker's own locals.   *)
(* Time is abstract: a WaitOne may time out whenever the event is unset,   *)
(* a Sleep may end at any time.  retryTimeout counts in units of time.     *)
(***************************************************************************)
EXTENDS Naturals, Sequences, SequencesExt

CONSTANTS
  Message,           \* the traces the application writes, each written once
  Worker,            \* thread-pool threads available to run Process
  BatchSizes,        \* the values the BatchSize setting takes at run time
  MaxQueueSize,      \* the MaxQueueSize setting
  MaxRetries,        \* the MaxRetries setting
  BatchTimeout       \* the BatchTimeout setting, in units of time

ASSUME SenderAssumption ==
  /\ BatchSizes \subseteq Nat /\ BatchSizes # {}
  /\ MaxQueueSize \in Nat /\ MaxRetries \in Nat /\ BatchTimeout \in Nat

VARIABLES
  settings,      \* BatchSize, which may be set at run time; whether ServerUrl is
                 \* configured; IndividualSendIgnoreErrors
  isProcessing,  \* guarded by stateLock
  queue,         \* guarded by stateLock
  sendTrigger,   \* the AutoResetEvent: TRUE when signalled
  worker,        \* the locals of Process on each thread, with its place in the loop
  fate,          \* history: what became of each message
  accepted,      \* history: the messages admitted to the queue, in order
  server         \* the non-empty batches the server stored, in order of arrival

shared == <<isProcessing, queue, sendTrigger>>
vars == <<settings, isProcessing, queue, sendTrigger, worker, fate, accepted, server>>

(***************************************************************************)
(* pc: "none" no run of Process; "start" before the first WaitOne; "wait"  *)
(* before a later one; "take" about to take stateLock; "post" about to     *)
(* post; "sleep" before the back-off Sleep.  Two fields are history:       *)
(* attempts, how often the current batch has been posted, and emptied,     *)
(* whether a batch of no message was since the counters were reset.        *)
(***************************************************************************)
NoRun == [pc |-> "none", batch |-> <<>>, retryCount |-> 0, retryTimeout |-> 0,
          attempts |-> 0, emptied |-> FALSE]
NewRun == [NoRun EXCEPT !.pc = "start"]

Live == {w \in Worker : worker[w].pc # "none"}

Settings == [batchSize : BatchSizes, hasServerUrl : BOOLEAN, ignoreErrors : BOOLEAN]

Init == /\ settings \in Settings
        /\ isProcessing = FALSE
        /\ queue = <<>>
        /\ sendTrigger = FALSE
        /\ worker = [w \in Worker |-> NoRun]
        /\ fate = [m \in Message |-> "unsent"]
        /\ accepted = <<>>
        /\ server = <<>>

--------------------------------------------------------------------------------
(* The application: writing traces and changing the setting.               *)

\* WriteTrace calls Enqueue, which reads BatchSize before it takes the lock.
Enqueue(m) ==
  /\ fate[m] = "unsent"
  /\ fate' = [fate EXCEPT ![m] = IF settings.batchSize > 0 THEN "queueing" ELSE "posting"]
  /\ UNCHANGED <<settings, shared, worker, accepted, server>>

Admit(m) ==
  IF Len(queue) < MaxQueueSize
  THEN /\ queue' = Append(queue, m)
       /\ accepted' = Append(accepted, m)
       /\ fate' = [fate EXCEPT ![m] = "queued"]
  ELSE /\ fate' = [fate EXCEPT ![m] = "dropped"]
       /\ UNCHANGED <<queue, accepted>>

\* A run of Process is under way: wake it once a batch is complete.
WakeWorker ==
  /\ isProcessing
  /\ sendTrigger' = (sendTrigger \/ Len(queue') >= settings.batchSize)
  /\ UNCHANGED <<isProcessing, worker>>

\* Mutant: isProcessing is not set.
StartWorker_Unmarked ==
  /\ ~isProcessing
  /\ sendTrigger' = TRUE
  /\ \E w \in Worker \ Live : worker' = [worker EXCEPT ![w] = NewRun]
  /\ UNCHANGED isProcessing

\* Mutant: the event is not set for the first message.
StartWorker_Untriggered ==
  /\ ~isProcessing
  /\ isProcessing' = TRUE
  /\ \E w \in Worker \ Live : worker' = [worker EXCEPT ![w] = NewRun]
  /\ UNCHANGED sendTrigger

\* No run is under way: start one, and let its first wait pass at once.
StartWorker ==
  /\ ~isProcessing
  /\ isProcessing' = TRUE
  /\ sendTrigger' = TRUE
  /\ \E w \in Worker \ Live : worker' = [worker EXCEPT ![w] = NewRun]

\* The critical section of EnqueueTraceData.
EnqueueTraceData(m) ==
  /\ fate[m] = "queueing"
  /\ Admit(m)
  /\ WakeWorker \/ StartWorker
  /\ UNCHANGED <<settings, server>>

\* What a post can come to: the server stores the batch or not, and the caller
\* learns of success only if it did; without a URL the post succeeds unsent.
Replies == IF settings.hasServerUrl
           THEN {[ok |-> TRUE, stored |-> TRUE]} \cup [ok : {FALSE}, stored : BOOLEAN]
           ELSE {[ok |-> TRUE, stored |-> FALSE]}

Store(batch, reply) ==
  server' = IF reply.stored /\ batch # <<>> THEN Append(server, batch) ELSE server

\* BatchSize was 0: the calling thread posts the message and may see it fail.
PostIndividually(m) ==
  /\ fate[m] = "posting"
  /\ \E reply \in Replies :
       /\ Store(<<m>>, reply)
       /\ fate' = [fate EXCEPT ![m] = IF reply.ok THEN "delivered"
                                      ELSE IF settings.ignoreErrors THEN "dropped" ELSE "raised"]
  /\ UNCHANGED <<settings, shared, worker, accepted>>

SetBatchSize(n) ==
  /\ n # settings.batchSize
  /\ settings' = [settings EXCEPT !.batchSize = n]
  /\ UNCHANGED <<shared, worker, fate, accepted, server>>

--------------------------------------------------------------------------------
(* Process, on a thread-pool thread.                                       *)

LoopTop(batch) == IF batch = <<>> THEN "wait" ELSE "sleep"

\* WaitOne: an AutoResetEvent lets one waiter through and resets ...
WaitSignalled(w) ==
  /\ worker[w].pc \in {"start", "wait"}
  /\ sendTrigger
  /\ sendTrigger' = FALSE
  /\ worker' = [worker EXCEPT ![w].pc = "take"]
  /\ UNCHANGED <<settings, isProcessing, queue, fate, accepted, server>>

\* ... or BatchTimeout passes with the event unset.
WaitTimedOut(w) ==
  /\ worker[w].pc \in {"start", "wait"}
  /\ ~sendTrigger
  /\ worker' = [worker EXCEPT ![w].pc = "take"]
  /\ UNCHANGED <<settings, shared, fate, accepted, server>>

\* Under stateLock: move up to BatchSize messages into the batch.
TakeBatch(w) ==
  LET count == IF Len(queue) < settings.batchSize THEN Len(queue) ELSE settings.batchSize
  IN /\ worker[w].pc = "take"
     /\ queue # <<>>
     /\ queue' = SubSeq(queue, count + 1, Len(queue))
     /\ worker' = [worker EXCEPT ![w].pc = "post", ![w].batch = SubSeq(queue, 1, count)]
     /\ UNCHANGED <<settings, isProcessing, sendTrigger, fate, accepted, server>>

\* Mutant: the run ends without saying so.
Finish_Unmarked(w) ==
  /\ worker[w].pc = "take"
  /\ queue = <<>>
  /\ worker' = [worker EXCEPT ![w] = NoRun]
  /\ UNCHANGED <<settings, shared, fate, accepted, server>>

\* Under the same lock: nothing queued, so this run of Process is over.
Finish(w) ==
  /\ worker[w].pc = "take"
  /\ queue = <<>>
  /\ isProcessing' = FALSE
  /\ worker' = [worker EXCEPT ![w] = NoRun]
  /\ UNCHANGED <<settings, queue, sendTrigger, fate, accepted, server>>

\* Mutant: the counters are not reset.
ClearBatch_KeepCount(w, f) ==
  /\ fate' = [m \in Message |-> IF m \in ToSet(worker[w].batch) THEN f ELSE fate[m]]
  /\ worker' = [worker EXCEPT ![w].pc = "wait", ![w].batch = <<>>, ![w].attempts = 0]

\* The batch leaves the worker and its messages meet the fate f.
ClearBatch(w, f) ==
  /\ fate' = [m \in Message |-> IF m \in ToSet(worker[w].batch) THEN f ELSE fate[m]]
  /\ worker' = [worker EXCEPT ![w] = [NoRun EXCEPT !.pc = "wait"]]

\* Mutant: the status of the response is not looked at.
PostSucceeds_AnyStatus(w) ==
  /\ worker[w].pc = "post"
  /\ \E reply \in Replies : Store(worker[w].batch, reply)
  /\ ClearBatch(w, "delivered")
  /\ UNCHANGED <<settings, shared, accepted>>

PostSucceeds(w) ==
  /\ worker[w].pc = "post"
  /\ \E reply \in {r \in Replies : r.ok} : Store(worker[w].batch, reply)
  /\ ClearBatch(w, "delivered")
  /\ UNCHANGED <<settings, shared, accepted>>

\* Mutant: one retry too many.
RetriesExhausted_OffByOne(w) == worker[w].retryCount > MaxRetries

RetriesExhausted(w) == worker[w].retryCount >= MaxRetries

\* Mutant: the batch is not cleared when it is given up.
PostFailsAbandon_KeepBatch(w) ==
  /\ worker[w].pc = "post"
  /\ RetriesExhausted(w)
  /\ \E reply \in {r \in Replies : ~r.ok} : Store(worker[w].batch, reply)
  /\ worker' = [worker EXCEPT ![w] = [NoRun EXCEPT !.pc = LoopTop(worker[w].batch),
                                                  !.batch = worker[w].batch]]
  /\ sendTrigger' = TRUE
  /\ UNCHANGED <<settings, isProcessing, queue, fate, accepted>>

\* The post failed once too often: drop the batch and look for the next one at once.
PostFailsAbandon(w) ==
  /\ worker[w].pc = "post"
  /\ RetriesExhausted(w)
  /\ \E reply \in {r \in Replies : ~r.ok} : Store(worker[w].batch, reply)
  /\ ClearBatch(w, "dropped")
  /\ sendTrigger' = TRUE
  /\ UNCHANGED <<settings, isProcessing, queue, accepted>>

\* The next retryCount and retryTimeout after a failed post.
BackOff(run) ==
  IF run.retryTimeout = 0
  THEN [run EXCEPT !.retryCount = 1, !.retryTimeout = BatchTimeout]
  ELSE [run EXCEPT !.retryCount = @ + 1, !.retryTimeout = @ + @]

\* The post failed: keep the batch for another attempt.
PostFailsRetry(w) ==
  /\ worker[w].pc = "post"
  /\ ~RetriesExhausted(w)
  /\ \E reply \in {r \in Replies : ~r.ok} : Store(worker[w].batch, reply)
  /\ worker' = [worker EXCEPT ![w] =
                  [BackOff(worker[w]) EXCEPT
                     !.pc = LoopTop(worker[w].batch),
                     !.attempts = IF worker[w].batch = <<>> THEN 0 ELSE @ + 1,
                     !.emptied = @ \/ worker[w].batch = <<>>]]
  /\ UNCHANGED <<settings, shared, fate, accepted>>

\* Thread.Sleep(retryTimeout) ends; the batch is posted again as it is.
RetrySleep(w) ==
  /\ worker[w].pc = "sleep"
  /\ worker' = [worker EXCEPT ![w].pc = "post"]
  /\ UNCHANGED <<settings, shared, fate, accepted, server>>

Process(w) == \/ WaitSignalled(w) \/ WaitTimedOut(w)
              \/ TakeBatch(w) \/ Finish(w)
              \/ PostSucceeds(w) \/ PostFailsAbandon(w) \/ PostFailsRetry(w)
              \/ RetrySleep(w)

WriteTrace(m) == Enqueue(m) \/ EnqueueTraceData(m) \/ PostIndividually(m)

Next == \/ \E m \in Message : WriteTrace(m)
        \/ \E n \in BatchSizes : SetBatchSize(n)
        \/ \E w \in Worker : Process(w)

Spec == Init /\ [][Next]_vars

(***************************************************************************)
(* Threads are scheduled: a call that has begun reaches its lock or ends   *)
(* its post, and a run of Process keeps taking steps (a WaitOne has a      *)
(* timeout, a Sleep ends, an HTTP request ends by its own timeout).        *)
(* Nothing obliges the application to write or the settings to change.     *)
(***************************************************************************)
Fairness == /\ \A m \in Message : WF_vars(EnqueueTraceData(m) \/ PostIndividually(m))
            /\ \A w \in Worker : WF_vars(Process(w))

FairSpec == Spec /\ Fairness

--------------------------------------------------------------------------------
(* Properties.                                                             *)

Fates == {"unsent", "queueing", "posting", "queued", "delivered", "dropped", "raised"}

Run == [pc : {"none", "start", "wait", "take", "post", "sleep"}, batch : Seq(Message),
        retryCount : 0..MaxRetries, retryTimeout : Nat, attempts : Nat, emptied : BOOLEAN]

\* The types of the variables; the queue never exceeds MaxQueueSize, and a
\* retry count never exceeds MaxRetries.
TypeOK == /\ settings \in Settings
          /\ isProcessing \in BOOLEAN
          /\ queue \in Seq(Message) /\ Len(queue) <= MaxQueueSize
          /\ sendTrigger \in BOOLEAN
          /\ worker \in [Worker -> Run]
          /\ fate \in [Message -> Fates]
          /\ accepted \in Seq(Message)
          /\ server \in Seq(Seq(Message))

\* At most one run of Process exists at any time, and isProcessing says exactly
\* whether one does: a run that found the queue empty never comes back to it,
\* and no enqueue starts a second one beside it (EnqueueTraceData, Process).
SingleWorker == /\ \A v, w \in Live : v = w
                /\ isProcessing <=> Live # {}

\* A queued message always has a run of Process that will come for it: the
\* queue is never left behind by a run that ends while a trace is enqueued.
NoStrandedMessage == queue # <<>> => Live # {}

\* "Trigger to send immediately for first message": the first wait of a fresh
\* run always finds the event set, whatever an earlier run left behind.
FirstMessageImmediate == \A w \in Worker : worker[w].pc = "start" => sendTrigger

\* The batch of the one run, then the queue: the messages still to be settled.
\* Concat over an empty Live is the queue alone.
Held == LET batches == {worker[w].batch : w \in Live}
        IN IF batches = {} THEN queue ELSE (CHOOSE b \in batches : TRUE) \o queue

\* "The maximum number of retries to deliver a batch.  If exceeded, the batch is
\* dropped": a batch is posted at most once, then MaxRetries times more, and no less often
\* before it is given up, unless a batch of no message has used some of its retries.
AttemptsBounded ==
  \A w \in Worker :
    /\ worker[w].attempts <= MaxRetries
    /\ RetriesExhausted(w) /\ worker[w].batch # <<>> /\ ~worker[w].emptied
         => worker[w].attempts >= MaxRetries

\* The sender implements the abstract line of messages.
Delivery == INSTANCE SeqDelivery WITH waiting <- Held, hasServerUrl <- settings.hasServerUrl
ImplementsDelivery == Delivery!Spec

\* Every message that is accepted is eventually delivered or given up, unless the batch
\* size becomes 0: Process then takes batches of no message (SeqBatchSender.Process).
EventuallySettled ==
  \A m \in Message : fate[m] = "queued" ~>
    fate[m] \in {"delivered", "dropped"} \/ settings.batchSize = 0

\* Once the application stops writing, Process ends and gives its thread back, unless
\* the batch size is 0 again and again.
EventuallyIdle == <>[](Live = {}) \/ []<>(settings.batchSize = 0)
================================================================================
