---------------------------- MODULE SmtpWorkerPoolC ----------------------------
(***************************************************************************)
(* The default mail pool of EmailTraceListener and                         *)
(* BufferedEmailTraceListener                                              *)
(* (Essential.Diagnostics.EmailTraceListener/Net/Mail/SmtpWorkerPoolC.cs). *)
(*                                                                         *)
(* BeginSend queues a mail and, while fewer than maxConnections clients    *)
(* are active, adds one for it.  A client sends one mail after another:    *)
(* the completion of SendAsync calls SendCompleted, which takes the next   *)
(* mail from the queue, or shuts the client down when there is none.       *)
(*                                                                         *)
(* SendAsync connects synchronously and may throw before the send starts.  *)
(* One action is one critical section of queueLock, one call of SendAsync  *)
(* or one SendCompleted callback up to its next critical section.          *)
(***************************************************************************)
EXTENDS Naturals, Sequences, FiniteSets

CONSTANTS
  Mail,            \* the mails handed to BeginSend, each once
  Client,          \* the SmtpClient objects that can exist
  MaxConnections,  \* the maxConnections argument
  MaxExitChecks,   \* how often SendAllBeforeExit looks: 2000 ms / 100 ms
  Faults           \* which of "new", "connect" and "complete" may happen: the
                   \* constructor of SmtpClient, SendAsync or Complete throws

ASSUME PoolCAssumption == /\ MaxConnections \in Nat /\ MaxExitChecks \in Nat
                          /\ IsFiniteSet(Client)
                          /\ Faults \subseteq {"new", "connect", "complete"}

VARIABLES
  messageQueue,      \* guarded by queueLock
  activeSmtpClients, \* the list, as a set; written under queueLock
  client,            \* what each client is doing, with the mail it carries
  mail,              \* history: the state of the asyncResult of each mail
  exit,              \* "running", then the ProcessExit handler "waiting", then its
                     \* end: "drained" (saw no client) or "timedOut"
  checks,            \* rounds of the waiting loop of SendAllBeforeExit
  faults             \* history: the faults that have happened

pool == <<messageQueue, activeSmtpClients, client, mail, faults>>
vars == <<messageQueue, activeSmtpClients, client, mail, exit, checks, faults>>

(***************************************************************************)
(* pc of a client: "none" does not exist; "next" about to enter            *)
(* ProcessQueue; "connect" about to call SendAsync; "sending" with a send  *)
(* in progress; "abandoned" after SendAsync or Complete threw: nothing     *)
(* calls ProcessQueue for it again.                                        *)
(***************************************************************************)
Idle == [pc |-> "none", carries |-> <<>>]

Init == /\ messageQueue = <<>>
        /\ activeSmtpClients = {}
        /\ client = [c \in Client |-> Idle]
        /\ mail = [m \in Mail |-> "unsent"]
        /\ exit = "running"
        /\ checks = 0
        /\ faults = {}

\* The process is gone once the exit handler has returned.
Alive == exit \in {"running", "waiting"}

\* Mutant: a client too many.
MayAddClient_OneTooMany == Cardinality(activeSmtpClients) <= MaxConnections

MayAddClient == Cardinality(activeSmtpClients) < MaxConnections

\* Mutant: the new client is created but not counted.
NewClient_Uncounted(c) == /\ client[c].pc = "none"
                          /\ client' = [client EXCEPT ![c].pc = "next"]
                          /\ UNCHANGED activeSmtpClients

NewClient(c) == /\ client[c].pc = "none"
                /\ activeSmtpClients' = activeSmtpClients \cup {c}
                /\ client' = [client EXCEPT ![c].pc = "next"]

NewClientThrows == /\ "new" \in Faults
                   /\ faults' = faults \cup {"new"}
                   /\ UNCHANGED <<activeSmtpClients, client>>

\* The critical section of BeginSend.  If the constructor of SmtpClient throws,
\* BeginSend fails with the mail already queued.
BeginSend(m) ==
  /\ Alive
  /\ mail[m] = "unsent"
  /\ messageQueue' = Append(messageQueue, m)
  /\ mail' = [mail EXCEPT ![m] = "queued"]
  /\ \/ MayAddClient /\ (\E c \in Client : NewClient(c)) /\ UNCHANGED faults
     \/ MayAddClient /\ NewClientThrows
     \/ ~MayAddClient /\ UNCHANGED <<activeSmtpClients, client, faults>>
  /\ UNCHANGED <<exit, checks>>

\* ProcessQueue, under the lock: there is a mail to send ...
TakeNext(c) ==
  /\ Alive
  /\ client[c].pc = "next"
  /\ messageQueue # <<>>
  /\ messageQueue' = Tail(messageQueue)
  /\ client' = [client EXCEPT ![c] = [pc |-> "connect", carries |-> <<Head(messageQueue)>>]]
  /\ mail' = [mail EXCEPT ![Head(messageQueue)] = "sending"]
  /\ UNCHANGED <<activeSmtpClients, exit, checks, faults>>

\* Mutant: the client shuts down whether or not a mail waits.
ShutDown_Always(c) ==
  /\ Alive
  /\ client[c].pc = "next"
  /\ activeSmtpClients' = activeSmtpClients \ {c}
  /\ client' = [client EXCEPT ![c] = Idle]
  /\ UNCHANGED <<messageQueue, mail, exit, checks, faults>>

\* Mutant: the client is disposed of but stays in the list.
ShutDown_Listed(c) ==
  /\ Alive
  /\ client[c].pc = "next"
  /\ messageQueue = <<>>
  /\ client' = [client EXCEPT ![c].pc = "abandoned"]
  /\ UNCHANGED <<messageQueue, activeSmtpClients, mail, exit, checks, faults>>

\* ... or there is none: the client leaves the list and is disposed of.
ShutDown(c) ==
  /\ Alive
  /\ client[c].pc = "next"
  /\ messageQueue = <<>>
  /\ activeSmtpClients' = activeSmtpClients \ {c}
  /\ client' = [client EXCEPT ![c] = Idle]
  /\ UNCHANGED <<messageQueue, mail, exit, checks, faults>>

Carried(c) == Head(client[c].carries)

\* ProcessQueue, outside the lock: SendAsync starts the send.
SendAsync(c) ==
  /\ Alive
  /\ client[c].pc = "connect"
  /\ client' = [client EXCEPT ![c].pc = "sending"]
  /\ UNCHANGED <<messageQueue, activeSmtpClients, mail, exit, checks, faults>>

\* SendAsync throws: the result is completed and ProcessQueue returns.
SendAsyncThrows(c) ==
  /\ Alive
  /\ "connect" \in Faults
  /\ faults' = faults \cup {"connect"}
  /\ client[c].pc = "connect"
  /\ mail' = [mail EXCEPT ![Carried(c)] = "failed"]
  /\ client' = [client EXCEPT ![c] = [pc |-> "abandoned", carries |-> <<>>]]
  /\ UNCHANGED <<messageQueue, activeSmtpClients, exit, checks>>

\* SendCompleted: complete and dispose of the result, then ProcessQueue.
SendCompleted(c) ==
  /\ Alive
  /\ client[c].pc = "sending"
  /\ \E outcome \in {"sent", "failed"} :
       mail' = [mail EXCEPT ![Carried(c)] = outcome]
  /\ client' = [client EXCEPT ![c] = [pc |-> "next", carries |-> <<>>]]
  /\ UNCHANGED <<messageQueue, activeSmtpClients, exit, checks, faults>>

\* SendCompleted, when Complete throws: End closed the event before it was set, or the
\* callback failed.  The result is complete, but ProcessQueue does not follow.
CompleteThrows(c) ==
  /\ Alive
  /\ "complete" \in Faults
  /\ faults' = faults \cup {"complete"}
  /\ client[c].pc = "sending"
  /\ \E outcome \in {"sent", "failed"} :
       mail' = [mail EXCEPT ![Carried(c)] = outcome]
  /\ client' = [client EXCEPT ![c] = [pc |-> "abandoned", carries |-> <<>>]]
  /\ UNCHANGED <<messageQueue, activeSmtpClients, exit, checks>>

\* The process exits: the handler runs beside the other threads.
ProcessExit == /\ exit = "running"
               /\ exit' = "waiting"
               /\ UNCHANGED <<pool, checks>>

MoreTime == checks < MaxExitChecks

\* One test of the loop of SendAllBeforeExit, made without the lock.
SendAllBeforeExit ==
  /\ exit = "waiting"
  /\ IF activeSmtpClients # {} /\ MoreTime
     THEN checks' = checks + 1 /\ UNCHANGED exit
     ELSE exit' = (IF activeSmtpClients = {} THEN "drained" ELSE "timedOut") /\ UNCHANGED checks
  /\ UNCHANGED pool

Work(c) == \/ TakeNext(c) \/ ShutDown(c)
           \/ SendAsync(c) \/ SendAsyncThrows(c)
           \/ SendCompleted(c) \/ CompleteThrows(c)

Next == \/ \E m \in Mail : BeginSend(m)
        \/ \E c \in Client : Work(c)
        \/ ProcessExit \/ SendAllBeforeExit

Spec == Init /\ [][Next]_vars

\* A thread that entered ProcessQueue or SendAsync goes on, and a send that
\* started completes: SendAsync has no timeout of its own, so this assumes a
\* server that answers or a connection that breaks.
FairSpec == Spec /\ \A c \in Client : WF_vars(Work(c))

--------------------------------------------------------------------------------
Busy == {c \in Client : client[c].pc \in {"next", "connect", "sending"}}

\* The types of the variables.
TypeOK == /\ messageQueue \in Seq(Mail)
          /\ activeSmtpClients \subseteq Client
          /\ client \in [Client -> [pc : {"none", "next", "connect", "sending", "abandoned"},
                                    carries : {<<>>} \cup {<<m>> : m \in Mail}]]
          /\ mail \in [Mail -> {"unsent", "queued", "sending", "sent", "failed"}]
          /\ exit \in {"running", "waiting", "drained", "timedOut"}
          /\ checks \in 0..MaxExitChecks
          /\ faults \subseteq Faults

\* "lock keeps queue count and active client count in sync": a queued mail has
\* an active client that will look into the queue again.
NoStrandedMail == messageQueue # <<>> => activeSmtpClients \cap Busy # {}

\* That holds however completions and BeginSend interleave, until the
\* constructor, SendAsync or Complete throws.
StrandedOnlyByFault == faults = {} => NoStrandedMail

\* "all mail messages left in queue will be sent out, within a grace period":
\* if the exit handler ends before the grace period, nothing was left, even if
\* SendAsync or Complete has thrown (the client stays in the list).
DrainedMeansDone ==
  exit = "drained" /\ "new" \notin faults
    => \A m \in Mail : mail[m] \notin {"queued", "sending"}

\* Every mail handed to BeginSend is sent or its failure reported, unless the
\* process ends first or the constructor, SendAsync or Complete throws.
EventuallyCompleted ==
  \A m \in Mail :
    mail[m] = "queued" ~> (mail[m] \in {"sent", "failed"} \/ ~Alive \/ faults # {})

\* The pool implements the abstract mail pool: each mail is started once, in
\* order, and at most maxConnections are in progress.
Abstract == INSTANCE MailPool WITH waiting <- messageQueue
ImplementsMailPool == Abstract!Spec
================================================================================
