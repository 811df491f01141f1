------------------------- MODULE SmtpWorkerPoolB_proofs -------------------------
(***************************************************************************)
(* Proofs about SmtpWorkerPoolB, for any mails, threads and limits, and    *)
(* however stale isIdle is.                                                *)
(*                                                                         *)
(* As for pool C, the invariant says that the queue holds the mails that   *)
(* are queued, each once (QueueInv), that each mail being sent is carried  *)
(* by one worker (CarryInv), that the pool holds the workers that exist,   *)
(* at most MaxConnections (ListInv), and that somebody is in the pool      *)
(* while a mail waits (Attended), which needs a positive MaxConnections.   *)
(* What isIdle says of a worker plays no part in it: that the worker is in *)
(* the pool is enough, since it leaves only if it finds the queue empty.   *)
(***************************************************************************)
EXTENDS SmtpWorkerPoolB, SequenceTheorems, FiniteSetTheorems, TLAPS

PoolTypes ==
  /\ messageQueue \in Seq(Mail)
  /\ smtpWorkerPool \subseteq Thread
  /\ worker \in [Thread -> [pc : {"none", "starting", "loop", "send", "empty", "dead"},
                            isIdle : BOOLEAN, carries : Seq(Mail)]]
  /\ mail \in [Mail -> {"unsent", "queued", "sending", "sent", "failed"}]

QueueInv ==
  /\ \A i \in DOMAIN messageQueue : mail[messageQueue[i]] = "queued"
  /\ \A i, j \in DOMAIN messageQueue : messageQueue[i] = messageQueue[j] => i = j
  /\ \A m \in Mail : mail[m] = "queued" => \E i \in DOMAIN messageQueue : messageQueue[i] = m

Carrying(t) == worker[t].pc = "send"
Carried(t) == Head(worker[t].carries)

CarryInv ==
  /\ \A t \in Thread : Carrying(t) => Carried(t) \in Mail /\ mail[Carried(t)] = "sending"
  /\ \A t, u \in Thread : Carrying(t) /\ Carrying(u) /\ Carried(t) = Carried(u) => t = u
  /\ \A m \in Mail : mail[m] = "sending" => \E t \in Thread : Carrying(t) /\ Carried(t) = m

ListInv ==
  /\ \A t \in Thread : t \in smtpWorkerPool <=> worker[t].pc # "none"
  /\ Cardinality(smtpWorkerPool) <= MaxConnections

PoolInv == PoolTypes /\ QueueInv /\ CarryInv /\ ListInv

--------------------------------------------------------------------------------
(* The queue.                                                              *)

\* A mail goes to the end of the queue.
LEMMA QueueAppend ==
  ASSUME PoolTypes, QueueInv, NEW m \in Mail, mail[m] = "unsent",
         messageQueue' = Append(messageQueue, m), mail' = [mail EXCEPT ![m] = "queued"]
  PROVE  QueueInv' /\ messageQueue' \in Seq(Mail)
<1> DEFINE q == messageQueue
<1>1. /\ Len(q) \in Nat /\ DOMAIN q = 1..Len(q) /\ \A i \in 1..Len(q) : q[i] \in Mail
      /\ messageQueue' \in Seq(Mail)
      /\ DOMAIN messageQueue' = 1..(Len(q) + 1)
      /\ \A i \in 1..Len(q) : messageQueue'[i] = q[i]
      /\ messageQueue'[Len(q) + 1] = m
  BY AppendProperties, LenProperties, ElementOfSeq DEF PoolTypes
<1>2. \A i \in 1..Len(q) : q[i] # m
  BY <1>1 DEF QueueInv
<1>3. \A n \in Mail : mail'[n] = IF n = m THEN "queued" ELSE mail[n]
  BY DEF PoolTypes
<1>4. \A i \in DOMAIN messageQueue' : mail'[messageQueue'[i]] = "queued"
  BY <1>1, <1>3 DEF QueueInv
<1>5. \A i, j \in DOMAIN messageQueue' : messageQueue'[i] = messageQueue'[j] => i = j
  BY <1>1, <1>2 DEF QueueInv
<1>6. \A n \in Mail : mail'[n] = "queued" => \E i \in DOMAIN messageQueue' : messageQueue'[i] = n
  <2> SUFFICES ASSUME NEW n \in Mail, mail'[n] = "queued"
               PROVE  \E i \in DOMAIN messageQueue' : messageQueue'[i] = n
    OBVIOUS
  <2>1. CASE n = m
    BY <1>1, <2>1
  <2>2. CASE n # m
    <3>1. PICK i \in DOMAIN q : q[i] = n
      BY <1>3, <2>2 DEF QueueInv
    <3> QED
      BY <1>1, <3>1
  <2> QED
    BY <2>1, <2>2
<1> QED
  BY <1>1, <1>4, <1>5, <1>6 DEF QueueInv

\* The first mail leaves the queue.
LEMMA QueueTail ==
  ASSUME PoolTypes, QueueInv, messageQueue # <<>>,
         messageQueue' = Tail(messageQueue),
         mail' = [mail EXCEPT ![Head(messageQueue)] = "sending"]
  PROVE  /\ QueueInv' /\ messageQueue' \in Seq(Mail)
         /\ Head(messageQueue) \in Mail /\ mail[Head(messageQueue)] = "queued"
<1> DEFINE q == messageQueue
           m == Head(messageQueue)
<1>1. /\ Len(q) \in Nat \ {0} /\ DOMAIN q = 1..Len(q) /\ \A i \in 1..Len(q) : q[i] \in Mail
      /\ messageQueue' \in Seq(Mail) /\ m = q[1]
      /\ DOMAIN messageQueue' = 1..(Len(q) - 1)
      /\ \A i \in 1..(Len(q) - 1) : messageQueue'[i] = q[i + 1]
  BY HeadTailProperties, LenProperties, ElementOfSeq, EmptySeq DEF PoolTypes
<1>2. m \in Mail /\ mail[m] = "queued"
  BY <1>1 DEF QueueInv
<1>3. \A n \in Mail : mail'[n] = IF n = m THEN "sending" ELSE mail[n]
  BY <1>2 DEF PoolTypes
<1> HIDE DEF m
<1>4. \A i \in DOMAIN messageQueue' : messageQueue'[i] # m /\ messageQueue'[i] \in Mail
  BY <1>1 DEF QueueInv
<1>5. \A i \in DOMAIN messageQueue' : mail'[messageQueue'[i]] = "queued"
  BY <1>1, <1>3, <1>4 DEF QueueInv
<1>6. \A i, j \in DOMAIN messageQueue' : messageQueue'[i] = messageQueue'[j] => i = j
  BY <1>1 DEF QueueInv
<1>7. ASSUME NEW n \in Mail, mail'[n] = "queued"
      PROVE  \E i \in DOMAIN messageQueue' : messageQueue'[i] = n
  <2>1. n # m /\ mail[n] = "queued"
    BY <1>3, <1>7
  <2>2. PICK i \in 1..Len(q) : q[i] = n
    BY <1>1, <2>1 DEF QueueInv
  <2>3. i # 1 /\ i - 1 \in 1..(Len(q) - 1) /\ (i - 1) + 1 = i
    BY <1>1, <2>1, <2>2
  <2>4. PICK k \in 1..(Len(q) - 1) : k + 1 = i
    BY <2>3
  <2>5. messageQueue'[k] = n
    BY <1>1, <2>2, <2>4
  <2> QED
    BY <1>1, <2>5
<1> QED
  BY <1>1, <1>2, <1>5, <1>6, <1>7 DEF QueueInv, m

--------------------------------------------------------------------------------
(* Every step keeps the invariant.                                         *)

\* The pool is finite.
LEMMA FiniteList ==
  ASSUME PoolTypes
  PROVE  IsFiniteSet(smtpWorkerPool) /\ Cardinality(smtpWorkerPool) \in Nat
BY FS_Subset, FS_CardinalityType, PoolBAssumption DEF PoolTypes

\* One lemma for each kind of action: a mail is handed over,
LEMMA BeginSendInv ==
  ASSUME PoolInv, NEW m \in Mail, BeginSend(m) PROVE PoolInv'
<1>1. /\ mail[m] = "unsent" /\ messageQueue' = Append(messageQueue, m)
      /\ mail' = [mail EXCEPT ![m] = "queued"]
  BY DEF BeginSend
<1>2. QueueInv' /\ messageQueue' \in Seq(Mail)
  BY <1>1, QueueAppend DEF PoolInv
<1>3. mail' \in [Mail -> {"unsent", "queued", "sending", "sent", "failed"}]
      /\ \A n \in Mail : mail'[n] = "sending" <=> mail[n] = "sending"
  BY <1>1 DEF PoolInv, PoolTypes
<1>4. CASE MayAddWorker /\ \E t \in Thread : StartWorker(t)
  <2>1. PICK t \in Thread : StartWorker(t)
    BY <1>4
  <2>2. /\ worker[t].pc = "none" /\ smtpWorkerPool' = smtpWorkerPool \cup {t}
        /\ worker' = [worker EXCEPT ![t].pc = "starting"]
    BY <2>1 DEF StartWorker
  <2>4. PoolTypes'
    BY <1>2, <1>3, <2>2 DEF PoolInv, PoolTypes
  <2>5. /\ \A u \in Thread \ {t} : worker'[u] = worker[u]
        /\ worker'[t].pc = "starting"
    BY <2>2 DEF PoolInv, PoolTypes
  <2>6. \A u \in Thread : /\ Carrying(u)' <=> Carrying(u)
                          /\ Carrying(u) => Carried(u)' = Carried(u)
    BY <2>2, <2>5 DEF Carrying, Carried
  <2>7. CarryInv'
    BY <1>3, <2>6 DEF PoolInv, CarryInv
  <2>8. ListInv'
    <3>1. t \notin smtpWorkerPool
      BY <2>2 DEF PoolInv, ListInv
    <3>2. Cardinality(smtpWorkerPool') = Cardinality(smtpWorkerPool) + 1
      BY <2>2, <3>1, FiniteList, FS_AddElement DEF PoolInv
    <3>3. Cardinality(smtpWorkerPool') <= MaxConnections
      BY <1>4, <3>2, FiniteList, PoolBAssumption DEF PoolInv, MayAddWorker
    <3> QED
      BY <2>2, <2>5, <3>3 DEF PoolInv, ListInv
  <2> QED
    BY <1>2, <2>4, <2>7, <2>8 DEF PoolInv
<1>5. CASE UNCHANGED <<smtpWorkerPool, worker>>
  BY <1>2, <1>3, <1>5 DEF PoolInv, PoolTypes, CarryInv, ListInv, Carrying, Carried
<1>6. EnsureWorker
  BY DEF BeginSend
<1> QED
  BY <1>4, <1>5, <1>6 DEF EnsureWorker

\* a thread takes one from the queue,
LEMMA TakeMailInv ==
  ASSUME PoolInv, NEW t \in Thread, TakeMail(t) PROVE PoolInv'
<1> DEFINE m == Head(messageQueue)
<1>1. /\ worker[t].pc = "loop" /\ messageQueue # <<>>
      /\ messageQueue' = Tail(messageQueue) /\ mail' = [mail EXCEPT ![m] = "sending"]
      /\ worker' = [worker EXCEPT ![t].pc = "send", ![t].carries = <<m>>]
      /\ smtpWorkerPool' = smtpWorkerPool
  BY DEF TakeMail
<1>2. /\ QueueInv' /\ messageQueue' \in Seq(Mail)
      /\ m \in Mail /\ mail[m] = "queued"
  BY <1>1, QueueTail DEF PoolInv
<1> HIDE DEF m
<1>3. /\ mail' \in [Mail -> {"unsent", "queued", "sending", "sent", "failed"}]
      /\ mail'[m] = "sending" /\ \A n \in Mail \ {m} : mail'[n] = mail[n]
  BY <1>1, <1>2 DEF PoolInv, PoolTypes
<1>4. /\ worker'[t].pc = "send" /\ Head(worker'[t].carries) = m
      /\ \A u \in Thread \ {t} : worker'[u] = worker[u]
      /\ <<m>> \in Seq(Mail)
  BY <1>1, <1>2 DEF PoolInv, PoolTypes
<1>5. PoolTypes'
  <2>1. worker' \in [Thread -> [pc : {"none", "starting", "loop", "send", "empty", "dead"},
                               isIdle : BOOLEAN, carries : Seq(Mail)]]
    BY <1>1, <1>4, ZenonT(30) DEF PoolInv, PoolTypes
  <2> QED
    BY <1>1, <1>2, <1>3, <2>1 DEF PoolInv, PoolTypes
<1>6. CarryInv'
  <2>1. Carrying(t)' /\ Carried(t)' = m /\ ~Carrying(t)
    BY <1>1, <1>4 DEF Carrying, Carried
  <2>2. \A u \in Thread \ {t} : /\ Carrying(u)' <=> Carrying(u)
                                /\ Carried(u)' = Carried(u)
                                /\ Carrying(u) => Carried(u) # m
    BY <1>2, <1>4 DEF Carrying, Carried, PoolInv, CarryInv
  <2>3. \A u \in Thread : Carrying(u)' => Carried(u)' \in Mail /\ mail'[Carried(u)'] = "sending"
    BY <1>2, <1>3, <2>1, <2>2 DEF PoolInv, CarryInv
  <2>4. \A u, v \in Thread : Carrying(u)' /\ Carrying(v)' /\ Carried(u)' = Carried(v)' => u = v
    BY <2>1, <2>2 DEF PoolInv, CarryInv
  <2>5. \A n \in Mail : mail'[n] = "sending" => \E u \in Thread : Carrying(u)' /\ Carried(u)' = n
    BY <1>3, <2>1, <2>2 DEF PoolInv, CarryInv
  <2> QED
    BY <2>3, <2>4, <2>5 DEF CarryInv
<1>7. ListInv'
  BY <1>1, <1>4 DEF PoolInv, ListInv
<1> QED
  BY <1>2, <1>5, <1>6, <1>7 DEF PoolInv

\* leaves when it was idle too long,
LEMMA IdleTooLongInv ==
  ASSUME PoolInv, NEW t \in Thread, IdleTooLong(t) PROVE PoolInv'
<1>1. /\ worker[t].pc = "loop" /\ worker' = [worker EXCEPT ![t] = NoThread]
      /\ smtpWorkerPool' = smtpWorkerPool \ {t}
      /\ UNCHANGED <<messageQueue, mail>>
  BY DEF IdleTooLong
<1>2. /\ NoThread.pc = "none"
      /\ NoThread \in [pc : {"none"}, isIdle : BOOLEAN, carries : Seq(Mail)]
  BY EmptySeq DEF NoThread
<1> HIDE DEF NoThread
<1>3. /\ worker'[t] = NoThread /\ \A u \in Thread \ {t} : worker'[u] = worker[u]
  BY <1>1 DEF PoolInv, PoolTypes
<1>4. PoolTypes'
  BY <1>1, <1>2 DEF PoolInv, PoolTypes
<1>5. QueueInv'
  BY <1>1 DEF PoolInv, QueueInv
<1>6. \A u \in Thread : /\ Carrying(u)' <=> Carrying(u)
                        /\ Carrying(u) => Carried(u)' = Carried(u)
  BY <1>1, <1>2, <1>3 DEF Carrying, Carried
<1>7. CarryInv'
  BY <1>1, <1>6 DEF PoolInv, CarryInv
<1>8. ListInv'
  <2>1. Cardinality(smtpWorkerPool') <= Cardinality(smtpWorkerPool)
        /\ Cardinality(smtpWorkerPool') \in Nat
    BY <1>1, <1>4, FiniteList, FS_Subset, FS_CardinalityType DEF PoolInv
  <2>2. Cardinality(smtpWorkerPool') <= MaxConnections
    BY <2>1, FiniteList, PoolBAssumption DEF PoolInv, ListInv
  <2> QED
    BY <1>1, <1>2, <1>3, <2>2 DEF PoolInv, ListInv
<1> QED
  BY <1>4, <1>5, <1>7, <1>8 DEF PoolInv

\* A worker that neither takes a mail nor completes one, nor comes nor goes.
LEMMA StepInside ==
  ASSUME PoolInv, PoolTypes', NEW t \in Thread,
         worker[t].pc # "none", worker'[t].pc # "none", Carrying(t)' <=> Carrying(t),
         worker'[t].carries = worker[t].carries,
         \A u \in Thread \ {t} : worker'[u] = worker[u],
         UNCHANGED <<messageQueue, smtpWorkerPool, mail>>
  PROVE  PoolInv'
<1>1. \A u \in Thread : (Carrying(u)' <=> Carrying(u)) /\ Carried(u)' = Carried(u)
  BY DEF Carrying, Carried
<1>2. QueueInv' /\ CarryInv'
  BY <1>1 DEF PoolInv, QueueInv, CarryInv
<1>3. ListInv'
  BY DEF PoolInv, ListInv
<1> QED
  BY <1>2, <1>3 DEF PoolInv

\* moves on with nothing in the queue changed,
LEMMA InsideInv ==
  ASSUME PoolInv, NEW t \in Thread,
         \/ NewClient(t) \/ NewClientThrows(t) \/ FindNothing(t)
         \/ BecomeIdle(t) \/ BecomeBusy(t)
  PROVE  PoolInv'
<1>1. CASE NewClient(t)
  <2>1. PoolTypes'
    BY <1>1 DEF NewClient, PoolInv, PoolTypes
  <2>2. /\ worker[t].pc # "none" /\ worker'[t].pc # "none" /\ (Carrying(t)' <=> Carrying(t))
        /\ worker'[t].carries = worker[t].carries
        /\ \A u \in Thread \ {t} : worker'[u] = worker[u]
        /\ UNCHANGED <<messageQueue, smtpWorkerPool, mail>>
    BY <1>1 DEF NewClient, PoolInv, PoolTypes, Carrying
  <2> QED
    BY <2>1, <2>2, StepInside
<1>2. CASE NewClientThrows(t)
  <2>1. PoolTypes'
    BY <1>2 DEF NewClientThrows, PoolInv, PoolTypes
  <2>2. /\ worker[t].pc # "none" /\ worker'[t].pc # "none" /\ (Carrying(t)' <=> Carrying(t))
        /\ worker'[t].carries = worker[t].carries
        /\ \A u \in Thread \ {t} : worker'[u] = worker[u]
        /\ UNCHANGED <<messageQueue, smtpWorkerPool, mail>>
    BY <1>2 DEF NewClientThrows, PoolInv, PoolTypes, Carrying
  <2> QED
    BY <2>1, <2>2, StepInside
<1>3. CASE FindNothing(t)
  <2>1. PoolTypes'
    BY <1>3 DEF FindNothing, PoolInv, PoolTypes
  <2>2. /\ worker[t].pc # "none" /\ worker'[t].pc # "none" /\ (Carrying(t)' <=> Carrying(t))
        /\ worker'[t].carries = worker[t].carries
        /\ \A u \in Thread \ {t} : worker'[u] = worker[u]
        /\ UNCHANGED <<messageQueue, smtpWorkerPool, mail>>
    BY <1>3 DEF FindNothing, PoolInv, PoolTypes, Carrying
  <2> QED
    BY <2>1, <2>2, StepInside
<1>4. CASE BecomeIdle(t)
  <2>1. PoolTypes'
    BY <1>4 DEF BecomeIdle, PoolInv, PoolTypes
  <2>2. /\ worker[t].pc # "none" /\ worker'[t].pc # "none" /\ (Carrying(t)' <=> Carrying(t))
        /\ worker'[t].carries = worker[t].carries
        /\ \A u \in Thread \ {t} : worker'[u] = worker[u]
        /\ UNCHANGED <<messageQueue, smtpWorkerPool, mail>>
    BY <1>4 DEF BecomeIdle, PoolInv, PoolTypes, Carrying
  <2> QED
    BY <2>1, <2>2, StepInside
<1>5. CASE BecomeBusy(t)
  <2>1. PoolTypes'
    BY <1>5 DEF BecomeBusy, PoolInv, PoolTypes
  <2>2. /\ worker[t].pc # "none" /\ worker'[t].pc # "none" /\ (Carrying(t)' <=> Carrying(t))
        /\ worker'[t].carries = worker[t].carries
        /\ \A u \in Thread \ {t} : worker'[u] = worker[u]
        /\ UNCHANGED <<messageQueue, smtpWorkerPool, mail>>
    BY <1>5 DEF BecomeBusy, PoolInv, PoolTypes, Carrying
  <2> QED
    BY <2>1, <2>2, StepInside
<1> QED
  BY <1>1, <1>2, <1>3, <1>4, <1>5

\* and sends, whether or not Complete then throws.
LEMMA SendInv ==
  ASSUME PoolInv, NEW t \in Thread, Send(t) \/ CompleteThrows(t)
  PROVE  PoolInv' /\ Carried(t) \in Mail /\ mail[Carried(t)] = "sending"
<1> DEFINE m == Carried(t)
<1>1. PICK outcome \in {"sent", "failed"} : mail' = [mail EXCEPT ![m] = outcome]
  BY DEF Send, CompleteThrows, Carried
<1>2. PICK to \in {"loop", "dead"} :
        /\ worker' = [worker EXCEPT ![t].pc = to, ![t].carries = <<>>]
        /\ worker[t].pc = "send" /\ UNCHANGED <<messageQueue, smtpWorkerPool>>
  BY DEF Send, CompleteThrows
<1>3. m \in Mail /\ mail[m] = "sending"
  BY <1>2 DEF PoolInv, CarryInv, Carrying
<1>4. \A u \in Thread \ {t} : Carrying(u) => Carried(u) # m
  BY <1>2 DEF PoolInv, CarryInv, Carrying
<1> HIDE DEF m
<1>5. /\ mail' \in [Mail -> {"unsent", "queued", "sending", "sent", "failed"}]
      /\ mail'[m] = outcome /\ \A n \in Mail \ {m} : mail'[n] = mail[n]
  BY <1>1, <1>3 DEF PoolInv, PoolTypes
<1>6. /\ worker'[t].pc = to
      /\ \A u \in Thread \ {t} : worker'[u] = worker[u]
      /\ <<>> \in Seq(Mail)
  BY <1>2, EmptySeq DEF PoolInv, PoolTypes
<1>7. PoolTypes'
  BY <1>2, <1>5, <1>6, ZenonT(30) DEF PoolInv, PoolTypes
<1>8. QueueInv'
  <2>1. \A i \in DOMAIN messageQueue : messageQueue[i] \in Mail \ {m}
    BY <1>3, ElementOfSeq, LenProperties DEF PoolInv, PoolTypes, QueueInv
  <2> QED
    BY <1>2, <1>5, <2>1 DEF PoolInv, QueueInv
<1>9. CarryInv'
  <2>1. ~Carrying(t)' /\ \A u \in Thread \ {t} : /\ Carrying(u)' <=> Carrying(u)
                                                 /\ Carried(u)' = Carried(u)
    BY <1>6 DEF Carrying, Carried
  <2>2. \A u \in Thread : Carrying(u)' => Carried(u)' \in Mail /\ mail'[Carried(u)'] = "sending"
    BY <1>4, <1>5, <2>1 DEF PoolInv, CarryInv
  <2>3. \A u, v \in Thread : Carrying(u)' /\ Carrying(v)' /\ Carried(u)' = Carried(v)' => u = v
    BY <2>1 DEF PoolInv, CarryInv
  <2>4. ASSUME NEW n \in Mail, mail'[n] = "sending"
        PROVE  \E u \in Thread : Carrying(u)' /\ Carried(u)' = n
    <3>1. n # m /\ mail[n] = "sending"
      BY <1>5, <2>4
    <3>2. PICK u \in Thread : Carrying(u) /\ Carried(u) = n
      BY <3>1 DEF PoolInv, CarryInv
    <3> QED
      BY <2>1, <3>1, <3>2 DEF m
  <2> QED
    BY <2>2, <2>3, <2>4 DEF CarryInv
<1>10. ListInv'
  BY <1>2, <1>6 DEF PoolInv, ListInv
<1> QED
  BY <1>3, <1>7, <1>8, <1>9, <1>10 DEF PoolInv, m

\* Every step keeps the invariant of the pool,
LEMMA NextPoolInv == PoolInv /\ [Next]_vars => PoolInv'
<1> SUFFICES ASSUME PoolInv, [Next]_vars PROVE PoolInv'
  OBVIOUS
<1>1. CASE UNCHANGED pool
  BY <1>1 DEF pool, PoolInv, PoolTypes, QueueInv, CarryInv, ListInv, Carrying, Carried
<1>2. ProcessExit \/ SendAllBeforeExit \/ UNCHANGED vars => UNCHANGED pool
  BY DEF ProcessExit, SendAllBeforeExit, vars, pool
<1> QED
  BY <1>1, <1>2, BeginSendInv, TakeMailInv, IdleTooLongInv, InsideInv, SendInv
     DEF Next, ThreadStart

\* While a mail waits, somebody is in the pool.
Attended == messageQueue # <<>> => smtpWorkerPool # {}

\* that the queue is attended,
LEMMA NextAttended ==
  ASSUME MaxConnections > 0, PoolInv, Attended, [Next]_vars PROVE Attended'
<1>1. ASSUME NEW m \in Mail, BeginSend(m) PROVE Attended'
  <2>1. CASE \E t \in Thread : StartWorker(t)
    BY <2>1 DEF StartWorker, Attended
  <2>2. CASE AnyIdle /\ UNCHANGED <<smtpWorkerPool, worker>>
    BY <2>2 DEF AnyIdle, Attended
  <2>3. CASE ~MayAddWorker /\ UNCHANGED <<smtpWorkerPool, worker>>
    <3>1. Cardinality(smtpWorkerPool) # 0
      BY <2>3, FiniteList, PoolBAssumption DEF MayAddWorker, PoolInv
    <3>2. smtpWorkerPool # {}
      BY <3>1, FS_EmptySet
    <3> QED
      BY <2>3, <3>2 DEF Attended
  <2> QED
    BY <1>1, <2>1, <2>2, <2>3 DEF BeginSend, EnsureWorker
<1>2. ASSUME NEW t \in Thread, ThreadStart(t) PROVE Attended'
  <2>1. CASE TakeMail(t)
    BY <2>1 DEF TakeMail, Attended
  <2>2. CASE IdleTooLong(t)
    BY <2>2 DEF IdleTooLong, Attended
  <2>3. CASE NewClient(t) \/ NewClientThrows(t) \/ FindNothing(t) \/ BecomeIdle(t)
             \/ BecomeBusy(t) \/ Send(t) \/ CompleteThrows(t)
    BY <2>3 DEF NewClient, NewClientThrows, FindNothing, BecomeIdle, BecomeBusy, Send,
                CompleteThrows, Attended
  <2> QED
    BY <1>2, <2>1, <2>2, <2>3 DEF ThreadStart
<1>3. ASSUME ProcessExit \/ SendAllBeforeExit \/ UNCHANGED vars PROVE Attended'
  BY <1>3 DEF ProcessExit, SendAllBeforeExit, vars, pool, Attended
<1> QED
  BY <1>1, <1>2, <1>3 DEF Next

\* and that a pool that is drained is done.
LEMMA NextDrained ==
  ASSUME PoolInv, Attended, DrainedMeansDone, [Next]_vars PROVE DrainedMeansDone'
<1>1. CASE Alive /\ exit' = exit
  BY <1>1 DEF Alive, DrainedMeansDone
<1>2. CASE ProcessExit
  BY <1>2 DEF ProcessExit, DrainedMeansDone
<1>3. CASE SendAllBeforeExit
  <2>1. CASE smtpWorkerPool = {}
    <3>1. messageQueue = <<>>
      BY <2>1 DEF Attended
    <3>2. \A m \in Mail : mail[m] # "queued"
      BY <3>1, EmptySeq DEF PoolInv, QueueInv
    <3>3. \A m \in Mail : mail[m] # "sending"
      BY <2>1 DEF PoolInv, CarryInv, ListInv, Carrying
    <3>4. mail' = mail
      BY <1>3 DEF SendAllBeforeExit, pool
    <3> QED
      BY <3>2, <3>3, <3>4 DEF DrainedMeansDone
  <2>2. CASE smtpWorkerPool # {}
    BY <1>3, <2>2 DEF SendAllBeforeExit, DrainedMeansDone
  <2> QED
    BY <2>1, <2>2
<1>4. CASE UNCHANGED vars
  BY <1>4 DEF vars, DrainedMeansDone
<1>5. ASSUME NEW m \in Mail, BeginSend(m) PROVE Alive /\ exit' = exit
  BY <1>5 DEF BeginSend
<1>6. ASSUME NEW t \in Thread, ThreadStart(t) PROVE Alive /\ exit' = exit
  BY <1>6 DEF ThreadStart, NewClient, NewClientThrows, TakeMail, FindNothing, IdleTooLong,
              BecomeIdle, BecomeBusy, Send, CompleteThrows
<1> QED
  BY <1>1, <1>2, <1>3, <1>4, <1>5, <1>6 DEF Next

\* All three hold at the start.
LEMMA InitPoolInv == Init => PoolInv /\ Attended /\ DrainedMeansDone
<1> SUFFICES ASSUME Init PROVE PoolInv /\ Attended /\ DrainedMeansDone
  OBVIOUS
<1>1. PoolTypes
  BY EmptySeq DEF Init, PoolTypes, NoThread
<1>2. QueueInv
  BY EmptySeq DEF Init, QueueInv
<1>3. CarryInv
  BY DEF Init, CarryInv, Carrying, NoThread
<1>4. ListInv
  BY FS_EmptySet, PoolBAssumption DEF Init, ListInv, NoThread
<1> QED
  BY <1>1, <1>2, <1>3, <1>4 DEF PoolInv, Init, Attended, DrainedMeansDone

--------------------------------------------------------------------------------
(* The theorems.                                                           *)

\* With at least one connection and however stale isIdle is, a queued mail has a running
\* worker that will look into the queue again, until an exception ends a worker (BeginSend
\* and ThreadStart).
THEOREM NoneStrandedB == MaxConnections > 0 => (Spec => []StrandedOnlyByFault)
<1> SUFFICES ASSUME MaxConnections > 0 PROVE Spec => []StrandedOnlyByFault
  OBVIOUS
<1>1. Init => PoolInv /\ Attended
  BY InitPoolInv
<1>2. PoolInv /\ Attended /\ [Next]_vars => (PoolInv /\ Attended)'
  BY NextPoolInv, NextAttended
<1>3. PoolInv /\ Attended => StrandedOnlyByFault
  BY DEF PoolInv, PoolTypes, ListInv, Attended, StrandedOnlyByFault, Running, Dead
<1> QED
  BY <1>1, <1>2, <1>3, PTL DEF Spec

\* With at least one connection, an exit handler that ends before its time leaves no mail
\* queued or on its way (SendAllBeforeExit).
THEOREM DrainedIsDoneB == MaxConnections > 0 => (Spec => []DrainedMeansDone)
<1> SUFFICES ASSUME MaxConnections > 0 PROVE Spec => []DrainedMeansDone
  OBVIOUS
<1> DEFINE Inv == PoolInv /\ Attended /\ DrainedMeansDone
<1>1. Init => Inv
  BY InitPoolInv
<1>2. Inv /\ [Next]_vars => Inv'
  BY NextPoolInv, NextAttended, NextDrained
<1>3. Inv => DrainedMeansDone
  OBVIOUS
<1> HIDE DEF Inv
<1> QED
  BY <1>1, <1>2, <1>3, PTL DEF Spec

--------------------------------------------------------------------------------
(* The pool implements MailPool.                                           *)

\* A worker about to take a mail leaves room for one more among those in progress: each of
\* these is carried by another worker of the pool.
LEMMA RoomForOne ==
  ASSUME PoolInv, NEW t \in Thread, worker[t].pc = "loop"
  PROVE  Cardinality(Abstract!InProgress) < MaxConnections
<1> DEFINE S == Abstract!InProgress
           T == smtpWorkerPool \ {t}
           f == [m \in S |-> CHOOSE u \in Thread : Carrying(u) /\ Carried(u) = m]
<1>1. ASSUME NEW m \in S PROVE f[m] \in Thread /\ Carrying(f[m]) /\ Carried(f[m]) = m
  BY <1>1 DEF PoolInv, CarryInv, Abstract!InProgress
<1>2. \A u \in Thread : Carrying(u) => u \in T
  BY DEF PoolInv, ListInv, Carrying
<1> HIDE DEF f, S, T
<1>3. f \in Injection(S, T)
  <2>1. f \in [S -> T]
    <3>1. DOMAIN f = S /\ f = [m \in S |-> f[m]]
      BY DEF f
    <3> QED
      BY <1>1, <1>2, <3>1
  <2>2. \A m, n \in S : f[m] = f[n] => m = n
    BY <1>1
  <2> QED
    BY <2>1, <2>2 DEF Injection, IsInjective
<1>4. /\ IsFiniteSet(smtpWorkerPool) /\ Cardinality(smtpWorkerPool) \in Nat
      /\ IsFiniteSet(T) /\ Cardinality(T) = Cardinality(smtpWorkerPool) - 1
  <2>1. t \in smtpWorkerPool
    BY DEF PoolInv, ListInv
  <2> QED
    BY <2>1, FiniteList, FS_RemoveElement DEF PoolInv, T
<1>5. IsFiniteSet(S) /\ Cardinality(S) <= Cardinality(T)
  BY <1>3, <1>4, FS_Injection
<1>6. Cardinality(S) \in Nat /\ Cardinality(smtpWorkerPool) <= MaxConnections
  BY <1>5, FS_CardinalityType DEF PoolInv, ListInv
<1> QED
  BY <1>4, <1>5, <1>6, PoolBAssumption DEF S

\* A step of the pool is one of the abstract pool, or none.
LEMMA StepSimulates ==
  ASSUME PoolInv, [Next]_vars PROVE [Abstract!Next]_(Abstract!vars)
<1>1. ASSUME NEW m \in Mail, BeginSend(m) PROVE Abstract!HandOver(m)
  BY <1>1 DEF BeginSend, Abstract!HandOver
<1>2. ASSUME NEW t \in Thread, TakeMail(t) PROVE Abstract!Start
  <2>1. Cardinality(Abstract!InProgress) < MaxConnections
    BY <1>2, RoomForOne DEF TakeMail
  <2>2. Abstract!Cardinality(Abstract!InProgress) = Cardinality(Abstract!InProgress)
    BY Zenon DEF Cardinality, Abstract!Cardinality
  <2> QED
    BY <1>2, <2>1, <2>2 DEF TakeMail, Abstract!Start
<1>3. ASSUME NEW t \in Thread, Send(t) \/ CompleteThrows(t) PROVE \E m \in Mail : Abstract!End(m)
  <2>1. Carried(t) \in Mail /\ mail[Carried(t)] = "sending"
    BY <1>3, SendInv
  <2>2. \E outcome \in {"sent", "failed"} : mail' = [mail EXCEPT ![Carried(t)] = outcome]
    BY <1>3 DEF Send, CompleteThrows, Carried
  <2>3. messageQueue' = messageQueue
    BY <1>3 DEF Send, CompleteThrows
  <2> QED
    BY <2>1, <2>2, <2>3 DEF Abstract!End
<1>4. ASSUME NEW t \in Thread,
             \/ NewClient(t) \/ NewClientThrows(t) \/ FindNothing(t) \/ IdleTooLong(t)
             \/ BecomeIdle(t) \/ BecomeBusy(t)
      PROVE  UNCHANGED Abstract!vars
  BY <1>4 DEF NewClient, NewClientThrows, FindNothing, IdleTooLong, BecomeIdle, BecomeBusy,
              Abstract!vars
<1>5. ASSUME ProcessExit \/ SendAllBeforeExit \/ UNCHANGED vars PROVE UNCHANGED Abstract!vars
  BY <1>5 DEF ProcessExit, SendAllBeforeExit, vars, pool, Abstract!vars
<1> QED
  BY <1>1, <1>2, <1>3, <1>4, <1>5 DEF Next, ThreadStart, Abstract!Next

\* For any mails, threads and limit, the pool starts each mail once, in the order of
\* BeginSend, at most maxConnections at a time: every step is one of MailPool, or leaves its
\* variables alone.
THEOREM PoolBIsAMailPool == Spec => ImplementsMailPool
<1>1. Init => PoolInv /\ Abstract!Init
  BY InitPoolInv DEF Init, Abstract!Init
<1>2. PoolInv /\ [Next]_vars => PoolInv'
  BY NextPoolInv
<1>3. PoolInv /\ [Next]_vars => [Abstract!Next]_(Abstract!vars)
  BY StepSimulates
<1> QED
  BY <1>1, <1>2, <1>3, PTL DEF Spec, ImplementsMailPool, Abstract!Spec
================================================================================
