---------------------------- MODULE SmtpWorkerPoolB ----------------------------
(***************************************************************************)
(* The background-thread mail pool                                         *)
(* (Essential.Diagnostics.EmailTraceListener/Net/Mail/SmtpWorkerPoolB.cs), *)
(* chosen by the attribute poolVersion="B".                                *)
(*                                                                         *)
(* BeginSend queues a mail and, while fewer than maxConnections workers    *)
(* exist and none is idle, starts a worker thread.  A worker takes mails   *)
(* from the queue until it has found it empty for longer than its idle     *)
(* timeout; then it removes itself from the pool in the same critical      *)
(* section.  isIdle is read under queueLock but written outside it, so it  *)
(* may be stale: a separate step of the worker writes it.                  *)
(***************************************************************************)
EXTENDS Naturals, Sequences, FiniteSets

CONSTANTS
  Mail,            \* the mails handed to BeginSend, each once
  Thread,          \* the worker threads that can exist
  MaxConnections,  \* the maxConnections argument
  MaxExitChecks,   \* how often SendAllBeforeExit looks: 2000 ms / 100 ms
  Faults           \* which of "new" and "complete" may happen in a worker: the
                   \* constructor of SmtpClient throws, Complete throws

ASSUME PoolBAssumption == /\ MaxConnections \in Nat /\ MaxExitChecks \in Nat
                          /\ IsFiniteSet(Thread)
                          /\ Faults \subseteq {"new", "complete"}

VARIABLES
  messageQueue,    \* guarded by queueLock
  smtpWorkerPool,  \* the list of workers, as a set; guarded by queueLock
  worker,          \* what each worker thread is doing
  mail,            \* history: the state of the asyncResult of each mail
  exit,            \* "running", then the ProcessExit handler "waiting", then its
                   \* end: "drained" (saw no worker) or "timedOut"
  checks           \* rounds of the waiting loop of SendAllBeforeExit

pool == <<messageQueue, smtpWorkerPool, worker, mail>>
vars == <<messageQueue, smtpWorkerPool, worker, mail, exit, checks>>

(***************************************************************************)
(* pc of a worker: "none" no thread; "starting" in ThreadStart, before     *)
(* the client exists; "loop" about to take the lock; "send" with a mail    *)
(* taken; "empty" after finding nothing; "dead" after an exception ended   *)
(* the thread.  isIdle and idleTimeout.IsRunning change together, and only *)
(* isIdle is visible to other threads.                                     *)
(***************************************************************************)
NoThread == [pc |-> "none", isIdle |-> FALSE, carries |-> <<>>]

Init == /\ messageQueue = <<>>
        /\ smtpWorkerPool = {}
        /\ worker = [t \in Thread |-> NoThread]
        /\ mail = [m \in Mail |-> "unsent"]
        /\ exit = "running"
        /\ checks = 0

\* The process, and its background threads, are gone once the handler returned.
Alive == exit \in {"running", "waiting"}

AnyIdle == \E t \in smtpWorkerPool : worker[t].isIdle

MayAddWorker == Cardinality(smtpWorkerPool) < MaxConnections

StartWorker(t) == /\ worker[t].pc = "none"
                  /\ smtpWorkerPool' = smtpWorkerPool \cup {t}
                  /\ worker' = [worker EXCEPT ![t].pc = "starting"]

EnsureWorker == IF MayAddWorker /\ ~AnyIdle
                THEN \E t \in Thread : StartWorker(t)
                ELSE UNCHANGED <<smtpWorkerPool, worker>>

\* The critical section of BeginSend.
BeginSend(m) ==
  /\ Alive
  /\ mail[m] = "unsent"
  /\ messageQueue' = Append(messageQueue, m)
  /\ mail' = [mail EXCEPT ![m] = "queued"]
  /\ EnsureWorker
  /\ UNCHANGED <<exit, checks>>

\* ThreadStart creates the client of the thread ...
NewClient(t) ==
  /\ Alive
  /\ worker[t].pc = "starting"
  /\ worker' = [worker EXCEPT ![t].pc = "loop"]
  /\ UNCHANGED <<messageQueue, smtpWorkerPool, mail, exit, checks>>

\* ... or the constructor throws: the thread ends, the worker stays in the pool.
NewClientThrows(t) ==
  /\ Alive
  /\ "new" \in Faults
  /\ worker[t].pc = "starting"
  /\ worker' = [worker EXCEPT ![t].pc = "dead"]
  /\ UNCHANGED <<messageQueue, smtpWorkerPool, mail, exit, checks>>

\* Mutant: the mail is read but stays in the queue.
TakeMail_Peek(t) ==
  /\ Alive
  /\ worker[t].pc = "loop"
  /\ messageQueue # <<>>
  /\ worker' = [worker EXCEPT ![t].pc = "send", ![t].carries = <<Head(messageQueue)>>]
  /\ mail' = [mail EXCEPT ![Head(messageQueue)] = "sending"]
  /\ UNCHANGED <<messageQueue, smtpWorkerPool, exit, checks>>

\* Under the lock: a mail waits.
TakeMail(t) ==
  /\ Alive
  /\ worker[t].pc = "loop"
  /\ messageQueue # <<>>
  /\ messageQueue' = Tail(messageQueue)
  /\ worker' = [worker EXCEPT ![t].pc = "send", ![t].carries = <<Head(messageQueue)>>]
  /\ mail' = [mail EXCEPT ![Head(messageQueue)] = "sending"]
  /\ UNCHANGED <<smtpWorkerPool, exit, checks>>

\* Under the lock: nothing waits, and the idle timeout has not passed.
FindNothing(t) ==
  /\ Alive
  /\ worker[t].pc = "loop"
  /\ messageQueue = <<>>
  /\ worker' = [worker EXCEPT ![t].pc = "empty"]
  /\ UNCHANGED <<messageQueue, smtpWorkerPool, mail, exit, checks>>

\* Mutant: the timeout ends the worker also when a mail has just arrived.
IdleTooLong_Unchecked(t) ==
  /\ Alive
  /\ worker[t].pc = "loop"
  /\ worker[t].isIdle
  /\ smtpWorkerPool' = smtpWorkerPool \ {t}
  /\ worker' = [worker EXCEPT ![t] = NoThread]
  /\ UNCHANGED <<messageQueue, mail, exit, checks>>

\* Mutant: the thread ends without leaving the pool.
IdleTooLong_Listed(t) ==
  /\ Alive
  /\ worker[t].pc = "loop"
  /\ messageQueue = <<>>
  /\ worker[t].isIdle
  /\ worker' = [worker EXCEPT ![t] = NoThread]
  /\ UNCHANGED <<messageQueue, smtpWorkerPool, mail, exit, checks>>

\* Under the lock: nothing waits, and the worker has been idle for too long.
IdleTooLong(t) ==
  /\ Alive
  /\ worker[t].pc = "loop"
  /\ messageQueue = <<>>
  /\ worker[t].isIdle
  /\ smtpWorkerPool' = smtpWorkerPool \ {t}
  /\ worker' = [worker EXCEPT ![t] = NoThread]
  /\ UNCHANGED <<messageQueue, mail, exit, checks>>

\* Outside the lock: the worker notes that it is idle.
BecomeIdle(t) ==
  /\ Alive
  /\ worker[t].pc = "empty"
  /\ worker' = [worker EXCEPT ![t].pc = "loop", ![t].isIdle = TRUE]
  /\ UNCHANGED <<messageQueue, smtpWorkerPool, mail, exit, checks>>

\* Outside the lock: the worker notes that it is not idle.
BecomeBusy(t) ==
  /\ Alive
  /\ worker[t].pc = "send"
  /\ worker[t].isIdle
  /\ worker' = [worker EXCEPT ![t].isIdle = FALSE]
  /\ UNCHANGED <<messageQueue, smtpWorkerPool, mail, exit, checks>>

\* Mutant: the worker leaves when the send fails.
Send_EndsOnError(t) ==
  /\ Alive
  /\ worker[t].pc = "send"
  /\ ~worker[t].isIdle
  /\ \E outcome \in {"sent", "failed"} :
       /\ mail' = [mail EXCEPT ![Head(worker[t].carries)] = outcome]
       /\ worker' = [worker EXCEPT ![t] = IF outcome = "sent"
                                           THEN [@ EXCEPT !.pc = "loop", !.carries = <<>>]
                                           ELSE NoThread]
  /\ UNCHANGED <<messageQueue, smtpWorkerPool, exit, checks>>

\* Send returns or throws; either way the result is completed.
Send(t) ==
  /\ Alive
  /\ worker[t].pc = "send"
  /\ ~worker[t].isIdle
  /\ \E outcome \in {"sent", "failed"} :
       mail' = [mail EXCEPT ![Head(worker[t].carries)] = outcome]
  /\ worker' = [worker EXCEPT ![t].pc = "loop", ![t].carries = <<>>]
  /\ UNCHANGED <<messageQueue, smtpWorkerPool, exit, checks>>

\* Complete throws: End closed the event before it was set, or the callback failed.  The
\* result is complete, but the thread ends and the worker stays in the pool.
CompleteThrows(t) ==
  /\ Alive
  /\ "complete" \in Faults
  /\ worker[t].pc = "send"
  /\ ~worker[t].isIdle
  /\ \E outcome \in {"sent", "failed"} :
       mail' = [mail EXCEPT ![Head(worker[t].carries)] = outcome]
  /\ worker' = [worker EXCEPT ![t].pc = "dead", ![t].carries = <<>>]
  /\ UNCHANGED <<messageQueue, smtpWorkerPool, exit, checks>>

\* The process exits: the handler runs beside the other threads.
ProcessExit == /\ exit = "running"
               /\ exit' = "waiting"
               /\ UNCHANGED <<pool, checks>>

MoreTime == checks < MaxExitChecks

\* One test of the loop of SendAllBeforeExit, made without the lock.
SendAllBeforeExit ==
  /\ exit = "waiting"
  /\ IF smtpWorkerPool # {} /\ MoreTime
     THEN checks' = checks + 1 /\ UNCHANGED exit
     ELSE exit' = (IF smtpWorkerPool = {} THEN "drained" ELSE "timedOut") /\ UNCHANGED checks
  /\ UNCHANGED pool

ThreadStart(t) == \/ NewClient(t) \/ NewClientThrows(t)
                  \/ TakeMail(t) \/ FindNothing(t) \/ IdleTooLong(t)
                  \/ BecomeIdle(t) \/ BecomeBusy(t) \/ Send(t) \/ CompleteThrows(t)

Next == \/ \E m \in Mail : BeginSend(m)
        \/ \E t \in Thread : ThreadStart(t)
        \/ ProcessExit \/ SendAllBeforeExit

Spec == Init /\ [][Next]_vars

\* The threads of the workers are scheduled, a send ends (SmtpClient has a
\* timeout), and the stopwatch of an idle worker runs on.
FairSpec == Spec /\ \A t \in Thread : WF_vars(ThreadStart(t)) /\ SF_vars(IdleTooLong(t))

--------------------------------------------------------------------------------
Running == {t \in Thread : worker[t].pc \notin {"none", "dead"}}
Dead == {t \in Thread : worker[t].pc = "dead"}

\* The types of the variables.
TypeOK == /\ messageQueue \in Seq(Mail)
          /\ smtpWorkerPool \subseteq Thread
          /\ worker \in [Thread -> [pc : {"none", "starting", "loop", "send", "empty", "dead"},
                                    isIdle : BOOLEAN,
                                    carries : {<<>>} \cup {<<m>> : m \in Mail}]]
          /\ mail \in [Mail -> {"unsent", "queued", "sending", "sent", "failed"}]
          /\ exit \in {"running", "waiting", "drained", "timedOut"}
          /\ checks \in 0..MaxExitChecks

\* However stale isIdle is when BeginSend decides not to start a worker, a
\* queued mail has a running worker that will look into the queue again, until
\* an exception ends a worker: of the constructor of SmtpClient, or of Complete.
StrandedOnlyByFault == Dead = {} /\ messageQueue # <<>> => Running # {}

\* "all mail messages left in queue will be sent out, within a grace period":
\* if the exit handler ends before the grace period, nothing was left.
DrainedMeansDone == exit = "drained" => \A m \in Mail : mail[m] \notin {"queued", "sending"}

\* Every mail handed to BeginSend is sent or its failure reported, unless the
\* process ends first or an exception ends a worker.
EventuallyCompleted ==
  \A m \in Mail : mail[m] = "queued" ~> (mail[m] \in {"sent", "failed"} \/ ~Alive \/ Dead # {})

\* Once no more mails come, every worker thread ends and leaves the pool, but
\* for those that an exception ended.
EventuallyNoThread == <>[](~Alive \/ smtpWorkerPool \subseteq Dead)

\* The pool implements the abstract mail pool: each mail is started once, in
\* order, and at most maxConnections are in progress.
Abstract == INSTANCE MailPool WITH waiting <- messageQueue
ImplementsMailPool == Abstract!Spec
================================================================================
