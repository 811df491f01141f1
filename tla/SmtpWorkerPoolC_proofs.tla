------------------------- MODULE SmtpWorkerPoolC_proofs -------------------------
(***************************************************************************)
(* Proofs about SmtpWorkerPoolC, for any mails, clients and limits.        *)
(*                                                                         *)
(* The invariant relates four things: the queue holds the mails that are   *)
(* queued, each once (QueueInv); each mail being sent is carried by one    *)
(* client (CarryInv); the list holds the clients that exist, at most       *)
(* MaxConnections (ListInv); and somebody is in the list while a mail      *)
(* waits (Attended), which needs a positive MaxConnections.                *)
(***************************************************************************)
EXTENDS SmtpWorkerPoolC, SequenceTheorems, FiniteSetTheorems, TLAPS

PoolTypes ==
  /\ messageQueue \in Seq(Mail)
  /\ activeSmtpClients \subseteq Client
  /\ client \in [Client -> [pc : {"none", "next", "connect", "sending", "abandoned"},
                            carries : Seq(Mail)]]
  /\ mail \in [Mail -> {"unsent", "queued", "sending", "sent", "failed"}]

QueueInv ==
  /\ \A i \in DOMAIN messageQueue : mail[messageQueue[i]] = "queued"
  /\ \A i, j \in DOMAIN messageQueue : messageQueue[i] = messageQueue[j] => i = j
  /\ \A m \in Mail : mail[m] = "queued" => \E i \in DOMAIN messageQueue : messageQueue[i] = m

Carrying(c) == client[c].pc \in {"connect", "sending"}

CarryInv ==
  /\ \A c \in Client : Carrying(c) => Carried(c) \in Mail /\ mail[Carried(c)] = "sending"
  /\ \A c, d \in Client : Carrying(c) /\ Carrying(d) /\ Carried(c) = Carried(d) => c = d
  /\ \A m \in Mail : mail[m] = "sending" => \E c \in Client : Carrying(c) /\ Carried(c) = m

ListInv ==
  /\ \A c \in Client : c \in activeSmtpClients <=> client[c].pc # "none"
  /\ \A c \in Client : client[c].pc = "abandoned" => {"connect", "complete"} \cap faults # {}
  /\ Cardinality(activeSmtpClients) <= MaxConnections

PoolInv == PoolTypes /\ QueueInv /\ CarryInv /\ ListInv

--------------------------------------------------------------------------------
(* The queue.                                                              *)

\* A mail goes to the end of the queue.
LEMMA QueueAppend ==
  ASSUME PoolTypes, QueueInv, NEW m \in Mail, mail[m] = "unsent",
         messageQueue' = Append(messageQueue, m), mail' = [mail EXCEPT ![m] = "queued"]
  PROVE  QueueInv' /\ messageQueue' \in Seq(Mail)
<1> DEFINE q == messageQueue
<1>1. /\ Len(q) \in Nat /\ DOMAIN q = 1..Len(q) /\ \A i \in 1..Len(q) : q[i] \in Mail
      /\ messageQueue' \in Seq(Mail)
      /\ DOMAIN messageQueue' = 1..(Len(q) + 1)
      /\ \A i \in 1..Len(q) : messageQueue'[i] = q[i]
      /\ messageQueue'[Len(q) + 1] = m
  BY AppendProperties, LenProperties, ElementOfSeq DEF PoolTypes
<1>2. \A i \in 1..Len(q) : q[i] # m
  BY <1>1 DEF QueueInv
<1>3. \A n \in Mail : mail'[n] = IF n = m THEN "queued" ELSE mail[n]
  BY DEF PoolTypes
<1>4. \A i \in DOMAIN messageQueue' : mail'[messageQueue'[i]] = "queued"
  BY <1>1, <1>3 DEF QueueInv
<1>5. \A i, j \in DOMAIN messageQueue' : messageQueue'[i] = messageQueue'[j] => i = j
  BY <1>1, <1>2 DEF QueueInv
<1>6. \A n \in Mail : mail'[n] = "queued" => \E i \in DOMAIN messageQueue' : messageQueue'[i] = n
  <2> SUFFICES ASSUME NEW n \in Mail, mail'[n] = "queued"
               PROVE  \E i \in DOMAIN messageQueue' : messageQueue'[i] = n
    OBVIOUS
  <2>1. CASE n = m
    BY <1>1, <2>1
  <2>2. CASE n # m
    <3>1. PICK i \in DOMAIN q : q[i] = n
      BY <1>3, <2>2 DEF QueueInv
    <3> QED
      BY <1>1, <3>1
  <2> QED
    BY <2>1, <2>2
<1> QED
  BY <1>1, <1>4, <1>5, <1>6 DEF QueueInv

\* The first mail leaves the queue.
LEMMA QueueTail ==
  ASSUME PoolTypes, QueueInv, messageQueue # <<>>,
         messageQueue' = Tail(messageQueue),
         mail' = [mail EXCEPT ![Head(messageQueue)] = "sending"]
  PROVE  /\ QueueInv' /\ messageQueue' \in Seq(Mail)
         /\ Head(messageQueue) \in Mail /\ mail[Head(messageQueue)] = "queued"
<1> DEFINE q == messageQueue
           m == Head(messageQueue)
<1>1. /\ Len(q) \in Nat \ {0} /\ DOMAIN q = 1..Len(q) /\ \A i \in 1..Len(q) : q[i] \in Mail
      /\ messageQueue' \in Seq(Mail) /\ m = q[1]
      /\ DOMAIN messageQueue' = 1..(Len(q) - 1)
      /\ \A i \in 1..(Len(q) - 1) : messageQueue'[i] = q[i + 1]
  BY HeadTailProperties, LenProperties, ElementOfSeq, EmptySeq DEF PoolTypes
<1>2. m \in Mail /\ mail[m] = "queued"
  BY <1>1 DEF QueueInv
<1>3. \A n \in Mail : mail'[n] = IF n = m THEN "sending" ELSE mail[n]
  BY <1>2 DEF PoolTypes
<1> HIDE DEF m
<1>4. \A i \in DOMAIN messageQueue' : messageQueue'[i] # m /\ messageQueue'[i] \in Mail
  BY <1>1 DEF QueueInv
<1>5. \A i \in DOMAIN messageQueue' : mail'[messageQueue'[i]] = "queued"
  BY <1>1, <1>3, <1>4 DEF QueueInv
<1>6. \A i, j \in DOMAIN messageQueue' : messageQueue'[i] = messageQueue'[j] => i = j
  BY <1>1 DEF QueueInv
<1>7. ASSUME NEW n \in Mail, mail'[n] = "queued"
      PROVE  \E i \in DOMAIN messageQueue' : messageQueue'[i] = n
  <2>1. n # m /\ mail[n] = "queued"
    BY <1>3, <1>7
  <2>2. PICK i \in 1..Len(q) : q[i] = n
    BY <1>1, <2>1 DEF QueueInv
  <2>3. i # 1 /\ i - 1 \in 1..(Len(q) - 1) /\ (i - 1) + 1 = i
    BY <1>1, <2>1, <2>2
  <2>4. PICK k \in 1..(Len(q) - 1) : k + 1 = i
    BY <2>3
  <2>5. messageQueue'[k] = n
    BY <1>1, <2>2, <2>4
  <2> QED
    BY <1>1, <2>5
<1> QED
  BY <1>1, <1>2, <1>5, <1>6, <1>7 DEF QueueInv, m

--------------------------------------------------------------------------------
(* Every step keeps the invariant.                                         *)

\* The list is finite.
LEMMA FiniteList ==
  ASSUME PoolTypes
  PROVE  IsFiniteSet(activeSmtpClients) /\ Cardinality(activeSmtpClients) \in Nat
BY FS_Subset, FS_CardinalityType, PoolCAssumption DEF PoolTypes

\* One lemma for each kind of action: a mail is handed over,
LEMMA BeginSendInv ==
  ASSUME PoolInv, NEW m \in Mail, BeginSend(m) PROVE PoolInv'
<1>1. /\ mail[m] = "unsent" /\ messageQueue' = Append(messageQueue, m)
      /\ mail' = [mail EXCEPT ![m] = "queued"]
  BY DEF BeginSend
<1>2. QueueInv' /\ messageQueue' \in Seq(Mail)
  BY <1>1, QueueAppend DEF PoolInv
<1>3. mail' \in [Mail -> {"unsent", "queued", "sending", "sent", "failed"}]
      /\ \A n \in Mail : mail'[n] = "sending" <=> mail[n] = "sending"
  BY <1>1 DEF PoolInv, PoolTypes
<1>4. CASE MayAddClient /\ (\E c \in Client : NewClient(c)) /\ UNCHANGED faults
  <2>1. PICK c \in Client : NewClient(c)
    BY <1>4
  <2>2. /\ client[c].pc = "none" /\ activeSmtpClients' = activeSmtpClients \cup {c}
        /\ client' = [client EXCEPT ![c].pc = "next"] /\ faults' = faults
    BY <1>4, <2>1 DEF NewClient
  <2>3. PoolTypes'
    BY <1>2, <1>3, <2>2 DEF PoolInv, PoolTypes
  <2>4. /\ \A d \in Client \ {c} : client'[d] = client[d]
        /\ client'[c].pc = "next"
    BY <2>2 DEF PoolInv, PoolTypes
  <2>5. \A d \in Client : /\ Carrying(d)' <=> Carrying(d)
                          /\ Carrying(d) => Carried(d)' = Carried(d)
    BY <2>2, <2>4 DEF Carrying, Carried
  <2>6. CarryInv'
    BY <1>3, <2>5 DEF PoolInv, CarryInv
  <2>7. ListInv'
    <3>1. c \notin activeSmtpClients
      BY <2>2 DEF PoolInv, ListInv
    <3>2. Cardinality(activeSmtpClients') = Cardinality(activeSmtpClients) + 1
      BY <2>2, <3>1, FiniteList, FS_AddElement DEF PoolInv
    <3>3. Cardinality(activeSmtpClients') <= MaxConnections
      BY <1>4, <3>2, FiniteList, PoolCAssumption DEF PoolInv, MayAddClient
    <3> QED
      BY <2>2, <2>4, <3>3 DEF PoolInv, ListInv
  <2> QED
    BY <1>2, <2>3, <2>6, <2>7 DEF PoolInv
<1>5. CASE UNCHANGED <<activeSmtpClients, client>> /\ faults \subseteq faults'
  BY <1>2, <1>3, <1>5 DEF PoolInv, PoolTypes, CarryInv, ListInv, Carrying, Carried
<1> QED
  BY <1>4, <1>5 DEF BeginSend, NewClientThrows

\* a client takes one from the queue,
LEMMA TakeNextInv ==
  ASSUME PoolInv, NEW c \in Client, TakeNext(c) PROVE PoolInv'
<1> DEFINE m == Head(messageQueue)
<1>1. /\ client[c].pc = "next" /\ messageQueue # <<>>
      /\ messageQueue' = Tail(messageQueue) /\ mail' = [mail EXCEPT ![m] = "sending"]
      /\ client' = [client EXCEPT ![c] = [pc |-> "connect", carries |-> <<m>>]]
      /\ activeSmtpClients' = activeSmtpClients /\ faults' = faults
  BY DEF TakeNext
<1>2. /\ QueueInv' /\ messageQueue' \in Seq(Mail)
      /\ m \in Mail /\ mail[m] = "queued"
  BY <1>1, QueueTail DEF PoolInv
<1> HIDE DEF m
<1>3. /\ mail' \in [Mail -> {"unsent", "queued", "sending", "sent", "failed"}]
      /\ mail'[m] = "sending" /\ \A n \in Mail \ {m} : mail'[n] = mail[n]
  BY <1>1, <1>2 DEF PoolInv, PoolTypes
<1>4. /\ client'[c].pc = "connect" /\ Head(client'[c].carries) = m
      /\ \A d \in Client \ {c} : client'[d] = client[d]
      /\ <<m>> \in Seq(Mail)
  BY <1>1, <1>2 DEF PoolInv, PoolTypes
<1>5. PoolTypes'
  BY <1>1, <1>2, <1>3, <1>4 DEF PoolInv, PoolTypes
<1>6. CarryInv'
  <2>1. Carrying(c)' /\ Carried(c)' = m /\ ~Carrying(c)
    BY <1>1, <1>4 DEF Carrying, Carried
  <2>2. \A d \in Client \ {c} : /\ Carrying(d)' <=> Carrying(d)
                                /\ Carried(d)' = Carried(d)
                                /\ Carrying(d) => Carried(d) # m
    BY <1>2, <1>4 DEF Carrying, Carried, PoolInv, CarryInv
  <2>3. \A d \in Client : Carrying(d)' => Carried(d)' \in Mail /\ mail'[Carried(d)'] = "sending"
    BY <1>2, <1>3, <2>1, <2>2 DEF PoolInv, CarryInv
  <2>4. \A d, e \in Client : Carrying(d)' /\ Carrying(e)' /\ Carried(d)' = Carried(e)' => d = e
    BY <2>1, <2>2 DEF PoolInv, CarryInv
  <2>5. \A n \in Mail : mail'[n] = "sending" => \E d \in Client : Carrying(d)' /\ Carried(d)' = n
    BY <1>3, <2>1, <2>2 DEF PoolInv, CarryInv
  <2> QED
    BY <2>3, <2>4, <2>5 DEF CarryInv
<1>7. ListInv'
  BY <1>1, <1>4 DEF PoolInv, ListInv
<1> QED
  BY <1>2, <1>5, <1>6, <1>7 DEF PoolInv

\* a client goes.
LEMMA ShutDownInv ==
  ASSUME PoolInv, NEW c \in Client, ShutDown(c) PROVE PoolInv'
<1>1. /\ client[c].pc = "next" /\ client' = [client EXCEPT ![c] = Idle]
      /\ activeSmtpClients' = activeSmtpClients \ {c}
      /\ UNCHANGED <<messageQueue, mail, faults>>
  BY DEF ShutDown
<1>2. Idle.pc = "none" /\ Idle.carries \in Seq(Mail)
      /\ Idle \in [pc : {"none"}, carries : Seq(Mail)]
  BY EmptySeq DEF Idle
<1> HIDE DEF Idle
<1>3. /\ client'[c] = Idle /\ \A d \in Client \ {c} : client'[d] = client[d]
  BY <1>1 DEF PoolInv, PoolTypes
<1>4. PoolTypes'
  BY <1>1, <1>2 DEF PoolInv, PoolTypes
<1>5. QueueInv'
  BY <1>1 DEF PoolInv, QueueInv
<1>6. \A d \in Client : /\ Carrying(d)' <=> Carrying(d)
                        /\ Carrying(d) => Carried(d)' = Carried(d)
  BY <1>1, <1>2, <1>3 DEF Carrying, Carried
<1>7. CarryInv'
  BY <1>1, <1>6 DEF PoolInv, CarryInv
<1>8. ListInv'
  <2>1. Cardinality(activeSmtpClients') <= Cardinality(activeSmtpClients)
        /\ Cardinality(activeSmtpClients') \in Nat
    BY <1>1, <1>4, FiniteList, FS_Subset, FS_CardinalityType DEF PoolInv
  <2>2. Cardinality(activeSmtpClients') <= MaxConnections
    BY <2>1, FiniteList, PoolCAssumption DEF PoolInv, ListInv
  <2> QED
    BY <1>1, <1>2, <1>3, <2>2 DEF PoolInv, ListInv
<1> QED
  BY <1>4, <1>5, <1>7, <1>8 DEF PoolInv

\* SendAsync starts the send: nothing else changes.
LEMMA SendAsyncInv ==
  ASSUME PoolInv, NEW c \in Client, SendAsync(c) PROVE PoolInv'
<1>1. /\ client[c].pc = "connect" /\ client' = [client EXCEPT ![c].pc = "sending"]
      /\ UNCHANGED <<messageQueue, activeSmtpClients, mail, faults>>
  BY DEF SendAsync
<1>2. /\ client'[c].pc = "sending" /\ client'[c].carries = client[c].carries
      /\ \A d \in Client \ {c} : client'[d] = client[d]
  BY <1>1 DEF PoolInv, PoolTypes
<1>3. PoolTypes'
  BY <1>1 DEF PoolInv, PoolTypes
<1>4. \A d \in Client : (Carrying(d)' <=> Carrying(d)) /\ Carried(d)' = Carried(d)
  BY <1>1, <1>2 DEF Carrying, Carried
<1>5. QueueInv' /\ CarryInv'
  BY <1>1, <1>4 DEF PoolInv, QueueInv, CarryInv
<1>6. ListInv'
  BY <1>1, <1>2 DEF PoolInv, ListInv
<1> QED
  BY <1>3, <1>5, <1>6 DEF PoolInv

\* A mail is completed, and its client carries it no more: SendAsyncThrows, SendCompleted,
\* CompleteThrows.
LEMMA CompletionInv ==
  ASSUME PoolInv, NEW c \in Client, Carrying(c),
         NEW outcome \in {"sent", "failed"}, NEW to \in {"next", "abandoned"},
         mail' = [mail EXCEPT ![Carried(c)] = outcome],
         client' = [client EXCEPT ![c] = [pc |-> to, carries |-> <<>>]],
         UNCHANGED <<messageQueue, activeSmtpClients>>,
         faults \subseteq faults', to = "abandoned" => {"connect", "complete"} \cap faults' # {}
  PROVE  PoolInv' /\ Carried(c) \in Mail /\ mail[Carried(c)] = "sending"
<1> DEFINE m == Carried(c)
<1>1. m \in Mail /\ mail[m] = "sending"
  BY DEF PoolInv, CarryInv
<1>2. \A d \in Client \ {c} : Carrying(d) => Carried(d) # m
  BY DEF PoolInv, CarryInv
<1> HIDE DEF m
<1>3. /\ mail' \in [Mail -> {"unsent", "queued", "sending", "sent", "failed"}]
      /\ mail'[m] = outcome /\ \A n \in Mail \ {m} : mail'[n] = mail[n]
  BY <1>1 DEF PoolInv, PoolTypes, m
<1>4. /\ client'[c].pc = to
      /\ \A d \in Client \ {c} : client'[d] = client[d]
      /\ <<>> \in Seq(Mail)
  BY EmptySeq DEF PoolInv, PoolTypes
<1>5. PoolTypes'
  BY <1>3, <1>4 DEF PoolInv, PoolTypes
<1>6. QueueInv'
  <2>1. \A i \in DOMAIN messageQueue : messageQueue[i] \in Mail \ {m}
    BY <1>1, ElementOfSeq, LenProperties DEF PoolInv, PoolTypes, QueueInv
  <2> QED
    BY <1>3, <2>1 DEF PoolInv, QueueInv
<1>7. CarryInv'
  <2>1. ~Carrying(c)' /\ \A d \in Client \ {c} : /\ Carrying(d)' <=> Carrying(d)
                                                 /\ Carried(d)' = Carried(d)
    BY <1>4 DEF Carrying, Carried
  <2>2. \A d \in Client : Carrying(d)' => Carried(d)' \in Mail /\ mail'[Carried(d)'] = "sending"
    BY <1>2, <1>3, <2>1 DEF PoolInv, CarryInv
  <2>3. \A d, e \in Client : Carrying(d)' /\ Carrying(e)' /\ Carried(d)' = Carried(e)' => d = e
    BY <2>1 DEF PoolInv, CarryInv
  <2>4. ASSUME NEW n \in Mail, mail'[n] = "sending"
        PROVE  \E d \in Client : Carrying(d)' /\ Carried(d)' = n
    <3>1. n # m /\ mail[n] = "sending"
      BY <1>3, <2>4
    <3>2. PICK d \in Client : Carrying(d) /\ Carried(d) = n
      BY <3>1 DEF PoolInv, CarryInv
    <3> QED
      BY <2>1, <3>1, <3>2 DEF m
  <2> QED
    BY <2>2, <2>3, <2>4 DEF CarryInv
<1>8. ListInv'
  <2>1. client[c].pc # "none"
    BY DEF Carrying
  <2> QED
    BY <1>4, <2>1 DEF PoolInv, ListInv
<1> QED
  BY <1>1, <1>5, <1>6, <1>7, <1>8 DEF PoolInv, m

\* Every step keeps the invariant of the pool,
LEMMA NextPoolInv == PoolInv /\ [Next]_vars => PoolInv'
<1> SUFFICES ASSUME PoolInv, [Next]_vars PROVE PoolInv'
  OBVIOUS
<1>1. CASE UNCHANGED pool
  BY <1>1 DEF pool, PoolInv, PoolTypes, QueueInv, CarryInv, ListInv, Carrying, Carried
<1>2. ASSUME NEW c \in Client, SendAsyncThrows(c) PROVE PoolInv'
  BY <1>2, CompletionInv DEF SendAsyncThrows, Carrying
<1>3. ASSUME NEW c \in Client, SendCompleted(c) PROVE PoolInv'
  BY <1>3, CompletionInv DEF SendCompleted, Carrying
<1>4. ASSUME NEW c \in Client, CompleteThrows(c) PROVE PoolInv'
  BY <1>4, CompletionInv DEF CompleteThrows, Carrying
<1>5. ProcessExit \/ SendAllBeforeExit \/ UNCHANGED vars => UNCHANGED pool
  BY DEF ProcessExit, SendAllBeforeExit, vars, pool
<1> QED
  BY <1>1, <1>2, <1>3, <1>4, <1>5, BeginSendInv, TakeNextInv, ShutDownInv, SendAsyncInv
     DEF Next, Work

\* While a mail waits, somebody is in the list, unless a constructor threw; and the exit
\* handler says "drained" only when nobody is.
Attended == "new" \notin faults /\ messageQueue # <<>> => activeSmtpClients # {}

\* that the queue is attended,
LEMMA NextAttended ==
  ASSUME MaxConnections > 0, PoolInv, Attended, [Next]_vars PROVE Attended'
<1>1. ASSUME NEW m \in Mail, BeginSend(m) PROVE Attended'
  <2>1. CASE MayAddClient /\ (\E c \in Client : NewClient(c)) /\ UNCHANGED faults
    BY <2>1 DEF NewClient, Attended
  <2>2. CASE MayAddClient /\ NewClientThrows
    BY <2>2 DEF NewClientThrows, Attended
  <2>3. CASE ~MayAddClient /\ UNCHANGED <<activeSmtpClients, client, faults>>
    <3>1. Cardinality(activeSmtpClients) # 0
      BY <2>3, FiniteList, PoolCAssumption DEF MayAddClient, PoolInv
    <3>2. activeSmtpClients # {}
      BY <3>1, FS_EmptySet
    <3> QED
      BY <2>3, <3>2 DEF Attended
  <2> QED
    BY <1>1, <2>1, <2>2, <2>3 DEF BeginSend
<1>2. ASSUME NEW c \in Client, Work(c) PROVE Attended'
  <2>1. CASE TakeNext(c)
    BY <2>1 DEF TakeNext, Attended
  <2>2. CASE ShutDown(c)
    BY <2>2 DEF ShutDown, Attended
  <2>3. CASE SendAsync(c) \/ SendAsyncThrows(c) \/ SendCompleted(c) \/ CompleteThrows(c)
    BY <2>3 DEF SendAsync, SendAsyncThrows, SendCompleted, CompleteThrows, Attended
  <2> QED
    BY <1>2, <2>1, <2>2, <2>3 DEF Work
<1>3. ASSUME ProcessExit \/ SendAllBeforeExit \/ UNCHANGED vars PROVE Attended'
  BY <1>3 DEF ProcessExit, SendAllBeforeExit, vars, pool, Attended
<1> QED
  BY <1>1, <1>2, <1>3 DEF Next

\* and that a pool that is drained is done.
LEMMA NextDrained ==
  ASSUME PoolInv, Attended, DrainedMeansDone, [Next]_vars PROVE DrainedMeansDone'
<1>1. CASE Alive /\ exit' = exit
  BY <1>1 DEF Alive, DrainedMeansDone
<1>2. CASE ProcessExit
  BY <1>2 DEF ProcessExit, DrainedMeansDone
<1>3. CASE SendAllBeforeExit
  <2>1. CASE activeSmtpClients = {} /\ "new" \notin faults
    <3>1. messageQueue = <<>>
      BY <2>1 DEF Attended
    <3>2. \A m \in Mail : mail[m] # "queued"
      BY <3>1, EmptySeq DEF PoolInv, QueueInv
    <3>3. \A m \in Mail : mail[m] # "sending"
      BY <2>1 DEF PoolInv, CarryInv, ListInv, Carrying
    <3>4. mail' = mail
      BY <1>3 DEF SendAllBeforeExit, pool
    <3> QED
      BY <3>2, <3>3, <3>4 DEF DrainedMeansDone
  <2>2. CASE activeSmtpClients # {}
    BY <1>3, <2>2 DEF SendAllBeforeExit, DrainedMeansDone
  <2>3. CASE "new" \in faults
    BY <1>3, <2>3 DEF SendAllBeforeExit, DrainedMeansDone, pool
  <2> QED
    BY <2>1, <2>2, <2>3
<1>4. CASE UNCHANGED vars
  BY <1>4 DEF vars, DrainedMeansDone
<1>5. ASSUME NEW m \in Mail, BeginSend(m) PROVE Alive /\ exit' = exit
  BY <1>5 DEF BeginSend
<1>6. ASSUME NEW c \in Client, Work(c) PROVE Alive /\ exit' = exit
  BY <1>6 DEF Work, TakeNext, ShutDown, SendAsync, SendAsyncThrows, SendCompleted,
              CompleteThrows
<1> QED
  BY <1>1, <1>2, <1>3, <1>4, <1>5, <1>6 DEF Next

\* All three hold at the start.
LEMMA InitPoolInv == Init => PoolInv /\ Attended /\ DrainedMeansDone
<1> SUFFICES ASSUME Init PROVE PoolInv /\ Attended /\ DrainedMeansDone
  OBVIOUS
<1>1. PoolTypes
  BY EmptySeq DEF Init, PoolTypes, Idle
<1>2. QueueInv
  BY EmptySeq DEF Init, QueueInv
<1>3. CarryInv
  BY DEF Init, CarryInv, Carrying, Idle
<1>4. ListInv
  BY FS_EmptySet, PoolCAssumption DEF Init, ListInv, Idle
<1> QED
  BY <1>1, <1>2, <1>3, <1>4 DEF PoolInv, Init, Attended, DrainedMeansDone

--------------------------------------------------------------------------------
(* The theorems.                                                           *)

\* With at least one connection, a queued mail has an active client that will look into the
\* queue again, until the constructor of SmtpClient, SendAsync or Complete throws (BeginSend and
\* ProcessQueue, which both change queue and list under queueLock).
THEOREM NoneStranded == MaxConnections > 0 => (Spec => []StrandedOnlyByFault)
<1> SUFFICES ASSUME MaxConnections > 0 PROVE Spec => []StrandedOnlyByFault
  OBVIOUS
<1>1. Init => PoolInv /\ Attended
  BY InitPoolInv
<1>2. PoolInv /\ Attended /\ [Next]_vars => (PoolInv /\ Attended)'
  BY NextPoolInv, NextAttended
<1>3. PoolInv /\ Attended => StrandedOnlyByFault
  BY DEF PoolInv, PoolTypes, ListInv, Attended, StrandedOnlyByFault, NoStrandedMail, Busy
<1> QED
  BY <1>1, <1>2, <1>3, PTL DEF Spec

\* With at least one connection, an exit handler that ends before its time leaves no mail
\* queued or on its way, unless the constructor threw (SendAllBeforeExit).
THEOREM DrainedIsDone == MaxConnections > 0 => (Spec => []DrainedMeansDone)
<1> SUFFICES ASSUME MaxConnections > 0 PROVE Spec => []DrainedMeansDone
  OBVIOUS
<1> DEFINE Inv == PoolInv /\ Attended /\ DrainedMeansDone
<1>1. Init => Inv
  BY InitPoolInv
<1>2. Inv /\ [Next]_vars => Inv'
  BY NextPoolInv, NextAttended, NextDrained
<1>3. Inv => DrainedMeansDone
  OBVIOUS
<1> HIDE DEF Inv
<1> QED
  BY <1>1, <1>2, <1>3, PTL DEF Spec

--------------------------------------------------------------------------------
(* The pool implements MailPool.                                           *)

\* A client about to take a mail leaves room for one more among those in progress: each of
\* these is carried by another client of the list.
LEMMA RoomForOne ==
  ASSUME PoolInv, NEW c \in Client, client[c].pc = "next"
  PROVE  Cardinality(Abstract!InProgress) < MaxConnections
<1> DEFINE S == Abstract!InProgress
           T == activeSmtpClients \ {c}
           f == [m \in S |-> CHOOSE d \in Client : Carrying(d) /\ Carried(d) = m]
<1>1. ASSUME NEW m \in S PROVE f[m] \in Client /\ Carrying(f[m]) /\ Carried(f[m]) = m
  BY <1>1 DEF PoolInv, CarryInv, Abstract!InProgress
<1>2. \A d \in Client : Carrying(d) => d \in T
  BY DEF PoolInv, ListInv, Carrying
<1> HIDE DEF f, S, T
<1>3. f \in Injection(S, T)
  <2>1. f \in [S -> T]
    <3>1. DOMAIN f = S /\ f = [m \in S |-> f[m]]
      BY DEF f
    <3> QED
      BY <1>1, <1>2, <3>1
  <2>2. \A m, n \in S : f[m] = f[n] => m = n
    BY <1>1
  <2> QED
    BY <2>1, <2>2 DEF Injection, IsInjective
<1>4. /\ IsFiniteSet(activeSmtpClients) /\ Cardinality(activeSmtpClients) \in Nat
      /\ IsFiniteSet(T) /\ Cardinality(T) = Cardinality(activeSmtpClients) - 1
  <2>1. c \in activeSmtpClients
    BY DEF PoolInv, ListInv
  <2> QED
    BY <2>1, FiniteList, FS_RemoveElement DEF PoolInv, T
<1>5. IsFiniteSet(S) /\ Cardinality(S) <= Cardinality(T)
  BY <1>3, <1>4, FS_Injection
<1>6. Cardinality(S) \in Nat /\ Cardinality(activeSmtpClients) <= MaxConnections
  BY <1>5, FS_CardinalityType DEF PoolInv, ListInv
<1> QED
  BY <1>4, <1>5, <1>6, PoolCAssumption DEF S

\* A step that completes a mail completes one in progress.
LEMMA StepEnds ==
  ASSUME PoolInv, NEW c \in Client,
         SendAsyncThrows(c) \/ SendCompleted(c) \/ CompleteThrows(c)
  PROVE  \E m \in Mail : Abstract!End(m)
<1>1. Carried(c) \in Mail /\ mail[Carried(c)] = "sending"
  BY DEF SendAsyncThrows, SendCompleted, CompleteThrows, PoolInv, CarryInv, Carrying
<1>2. \E outcome \in {"sent", "failed"} : mail' = [mail EXCEPT ![Carried(c)] = outcome]
  BY DEF SendAsyncThrows, SendCompleted, CompleteThrows
<1>3. messageQueue' = messageQueue
  BY DEF SendAsyncThrows, SendCompleted, CompleteThrows
<1> QED
  BY <1>1, <1>2, <1>3 DEF Abstract!End

\* A step of the pool is one of the abstract pool, or none.
LEMMA StepSimulates ==
  ASSUME PoolInv, [Next]_vars PROVE [Abstract!Next]_(Abstract!vars)
<1>1. ASSUME NEW m \in Mail, BeginSend(m) PROVE Abstract!HandOver(m)
  BY <1>1 DEF BeginSend, Abstract!HandOver
<1>2. ASSUME NEW c \in Client, TakeNext(c) PROVE Abstract!Start
  <2>1. Cardinality(Abstract!InProgress) < MaxConnections
    BY <1>2, RoomForOne DEF TakeNext
  <2>2. Abstract!Cardinality(Abstract!InProgress) = Cardinality(Abstract!InProgress)
    BY Zenon DEF Cardinality, Abstract!Cardinality
  <2> QED
    BY <1>2, <2>1, <2>2 DEF TakeNext, Abstract!Start
<1>3. ASSUME NEW c \in Client, ShutDown(c) \/ SendAsync(c) PROVE UNCHANGED Abstract!vars
  BY <1>3 DEF ShutDown, SendAsync, Abstract!vars
<1>4. ASSUME ProcessExit \/ SendAllBeforeExit \/ UNCHANGED vars PROVE UNCHANGED Abstract!vars
  BY <1>4 DEF ProcessExit, SendAllBeforeExit, vars, pool, Abstract!vars
<1> QED
  BY <1>1, <1>2, <1>3, <1>4, StepEnds DEF Next, Work, Abstract!Next

\* For any mails, clients and limit, the pool starts each mail once, in the order of
\* BeginSend, at most maxConnections at a time: every step is one of MailPool, or leaves its
\* variables alone.
THEOREM PoolCIsAMailPool == Spec => ImplementsMailPool
<1>1. Init => PoolInv /\ Abstract!Init
  BY InitPoolInv DEF Init, Abstract!Init
<1>2. PoolInv /\ [Next]_vars => PoolInv'
  BY NextPoolInv
<1>3. PoolInv /\ [Next]_vars => [Abstract!Next]_(Abstract!vars)
  BY StepSimulates
<1> QED
  BY <1>1, <1>2, <1>3, PTL DEF Spec, ImplementsMailPool, Abstract!Spec
================================================================================
