----------------------- MODULE BufferedEmailTraceListener -----------------------
(***************************************************************************)
(* BufferedEmailTraceListener                                              *)
(* (Essential.Diagnostics.BufferedEmailTraceListener/Diagnostics/          *)
(* BufferedEmailTraceListener.cs) with the mail pool it sends through.     *)
(*                                                                         *)
(* Traces are appended to a buffer under bufferLock; the thread that found *)
(* the buffer empty writes subject and header afterwards, outside the      *)
(* lock.  Send, called by the application or by the handler of             *)
(* ProcessExit, takes buffer, subject and header under the lock and hands  *)
(* them to the pool as one mail; at process exit it waits for the mail.    *)
(* The pool is the abstract MailPool, which both worker pools implement;   *)
(* its own exit handler runs after the one of the listener.                *)
(***************************************************************************)
EXTENDS Traces, Naturals, Sequences, SequencesExt

CONSTANTS
  Sender,          \* the threads that call Send, the exit handler excepted
  Exit,            \* the thread of the ProcessExit handlers
  MaxConnections,  \* of the mail pool
  MailMayFail      \* whether InternalSend may throw: a faulty address, subject or mail setting

Caller == Sender \cup {Exit}

\* No more mails than traces: an empty buffer is not sent.
Mail == 1..Cardinality(Trace)

ASSUME BufferAssumption == /\ Exit \notin Sender
                           /\ MaxConnections \in Nat \ {0}
                           /\ MailMayFail \in BOOLEAN

VARIABLES
  buffer,   \* eventMessagesBuffer, as the sequence of its traces; guarded by bufferLock
  subject,  \* eventMessagesSubject, as the trace it was made from, or None
  header,   \* eventMessagesHeader, likewise
  writer,   \* how far WriteTrace is for each trace
  sender,   \* InternalSend in each thread: its place and what it took
  content,  \* history: what the mails handed to the pool contain
  written,  \* history: all traces in the order in which they were appended
  discarded, \* history: the traces cleared, or taken for a mail that could not be built
  waiting,  \* the pool: the mails that wait
  mail      \* the pool: the state of each mail

listener == <<buffer, subject, header, writer, written, discarded>>
pool == <<waiting, mail>>
mailVars == <<buffer, subject, header, writer, sender, content, written, discarded, waiting, mail>>

Pool == INSTANCE MailPool

Nothing == [subject |-> None, header |-> None, body |-> <<>>]
AtRest == [pc |-> "idle", took |-> Nothing, mail |-> 0]

BufferedInit ==
  /\ buffer = <<>>
  /\ subject = None
  /\ header = None
  /\ writer = [t \in Trace |-> "unwritten"]
  /\ sender = [s \in Caller |-> AtRest]
  /\ content = <<>>
  /\ written = <<>>
  /\ discarded = {}
  /\ Pool!Init

\* The process is gone once the exit handlers are through.
Alive == sender[Exit].pc # "gone"

--------------------------------------------------------------------------------
(* WriteTrace.                                                             *)

FirstMessage == buffer = <<>>

\* The critical section.
AppendTrace(t) ==
  /\ Alive
  /\ writer[t] = "unwritten"
  /\ buffer' = Append(buffer, t)
  /\ written' = Append(written, t)
  /\ writer' = [writer EXCEPT ![t] = IF FirstMessage THEN "subject" ELSE "written"]
  /\ UNCHANGED <<subject, header, sender, content, discarded, pool>>

SetSubject(t) ==
  /\ Alive
  /\ writer[t] = "subject"
  /\ subject' = t
  /\ writer' = [writer EXCEPT ![t] = "header"]
  /\ UNCHANGED <<buffer, header, sender, content, written, discarded, pool>>

SetHeader(t) ==
  /\ Alive
  /\ writer[t] = "header"
  /\ header' = t
  /\ writer' = [writer EXCEPT ![t] = "written"]
  /\ UNCHANGED <<buffer, subject, sender, content, written, discarded, pool>>

WriteTrace(t) == AppendTrace(t) \/ SetSubject(t) \/ SetHeader(t)

--------------------------------------------------------------------------------
(* Clear and Send.                                                         *)

\* The buffer is replaced by an empty one, if it is not empty already.
Empty == /\ buffer' = <<>>
         /\ subject' = (IF buffer = <<>> THEN subject ELSE None)
         /\ header' = (IF buffer = <<>> THEN header ELSE None)

Clear == /\ Alive
         /\ buffer # <<>>
         /\ Empty
         /\ discarded' = discarded \cup ToSet(buffer)
         /\ UNCHANGED <<writer, sender, content, written, pool>>

\* A call of InternalSend is over, normally or not: the application may make another.
Over(s) == IF s = Exit THEN [AtRest EXCEPT !.pc = "over"] ELSE AtRest

\* InternalSend has taken the buffer; it is over if that was empty.
Taken(s) == IF buffer = <<>>
            THEN Over(s)
            ELSE [AtRest EXCEPT !.pc = "build",
                                !.took = [subject |-> subject, header |-> header, body |-> buffer]]

\* Mutant: the buffer is read and not replaced.
TakeBuffer_Keep(s) ==
  /\ sender[s].pc = "idle"
  /\ sender' = [sender EXCEPT ![s] = Taken(s)]
  /\ UNCHANGED <<listener, content, pool>>

\* The critical section of InternalSend.
TakeBuffer(s) ==
  /\ sender[s].pc = "idle"
  /\ sender' = [sender EXCEPT ![s] = Taken(s)]
  /\ Empty
  /\ UNCHANGED <<writer, content, written, discarded, pool>>

NextMail == Len(content) + 1

\* How the pool is through with a mail.
Finished == {"sent", "failed"}

\* The mail is built and handed to the pool.
BeginSend(s) ==
  /\ sender[s].pc = "build"
  /\ content' = Append(content, sender[s].took)
  /\ Pool!HandOver(NextMail)
  /\ sender' = [sender EXCEPT ![s] = IF s = Exit
                                     THEN [AtRest EXCEPT !.pc = "wait", !.mail = NextMail]
                                     ELSE Over(s)]
  /\ UNCHANGED listener

\* The pool queued the mail, and threw as it made a client or a thread for it: nobody waits.
BeginSendThrows(s) ==
  /\ MailMayFail
  /\ sender[s].pc = "build"
  /\ content' = Append(content, sender[s].took)
  /\ Pool!HandOver(NextMail)
  /\ sender' = [sender EXCEPT ![s] = Over(s)]
  /\ UNCHANGED listener

\* The mail cannot be built: an exception leaves InternalSend, the buffer is gone.
BuildFails(s) ==
  /\ MailMayFail
  /\ sender[s].pc = "build"
  /\ sender' = [sender EXCEPT ![s] = Over(s)]
  /\ discarded' = discarded \cup ToSet(sender[s].took.body)
  /\ UNCHANGED <<buffer, subject, header, writer, content, written, pool>>

\* Mutant: EndSend does not wait.
EndSend_NoWait ==
  /\ sender[Exit].pc = "wait"
  /\ sender' = [sender EXCEPT ![Exit].pc = "over"]
  /\ UNCHANGED <<listener, content, pool>>

\* At process exit InternalSend waits for the mail.  Whether EndSend then returns or throws says
\* nothing of the mail, so both are one: End returns beside a Complete that has not written the
\* error yet, and throws for a mail sent if pool C has disposed of the result.
EndSend ==
  /\ sender[Exit].pc = "wait"
  /\ mail[sender[Exit].mail] \in Finished
  /\ sender' = [sender EXCEPT ![Exit].pc = "over"]
  /\ UNCHANGED <<listener, content, pool>>

InternalSend(s) == TakeBuffer(s) \/ BeginSend(s) \/ BeginSendThrows(s) \/ BuildFails(s)

\* The exit handler of the pool is through, after its grace period at the latest.
ProcessEnds ==
  /\ sender[Exit].pc = "over"
  /\ sender' = [sender EXCEPT ![Exit].pc = "gone"]
  /\ UNCHANGED <<listener, content, pool>>

\* The pool works on by itself.
PoolStep == /\ \/ Pool!Start
               \/ \E m \in Mail : Pool!End(m)
            /\ UNCHANGED <<listener, sender, content>>

BufferedNext ==
  \/ \E t \in Trace : WriteTrace(t)
  \/ Clear
  \/ Alive /\ \E s \in Caller : InternalSend(s)
  \/ EndSend \/ ProcessEnds
  \/ Alive /\ PoolStep

BufferedSpec == BufferedInit /\ [][BufferedNext]_mailVars

--------------------------------------------------------------------------------
Contents == [subject : Trace \cup {None}, header : Trace \cup {None}, body : Seq(Trace)]

\* The types of the variables; "if the buffer is empty, no email is sent".
BufferedTypeOK ==
  /\ buffer \in Seq(Trace)
  /\ subject \in Trace \cup {None}
  /\ header \in Trace \cup {None}
  /\ writer \in [Trace -> {"unwritten", "subject", "header", "written"}]
  /\ sender \in [Caller -> [pc : {"idle", "build", "wait", "over", "gone"},
                            took : Contents, mail : {0} \cup Mail]]
  /\ content \in Seq(Contents) /\ \A i \in DOMAIN content : content[i].body # <<>>
  /\ written \in Seq(Trace)
  /\ discarded \subseteq Trace
  /\ waiting \in Seq(Mail)
  /\ mail \in [Mail -> {"unsent", "queued", "sending", "sent", "failed"}]

\* The bodies of the mails, those being built, and the buffer.
Bodies == {content[i].body : i \in DOMAIN content} \cup {sender[s].took.body : s \in Caller}
          \cup {buffer}

\* Every trace written is in one place only, and in no mail twice.
EachInOnePlace ==
  /\ ToSet(written) = discarded \cup UNION {ToSet(b) : b \in Bodies}
  /\ \A a, b \in Bodies : a # b => ToSet(a) \cap ToSet(b) = {}
  /\ \A b \in Bodies : ToSet(b) \cap discarded = {}
  /\ \A i, j \in DOMAIN content : i # j => content[i].body # content[j].body

\* A body holds all traces written between its first and its last, in the order
\* in which they were written.
BodiesContiguous ==
  \A b \in Bodies : \E i \in 1..Len(written) + 1 :
    i + Len(b) - 1 <= Len(written) /\ SubSeq(written, i, i + Len(b) - 1) = b

\* A trace is buffered, in a mail or its making, or discarded, and in one of these places
\* only; a mail holds traces that were written one after another.  A Send that races
\* WriteTrace, Clear or another Send neither loses a trace nor sends it twice.
MailedOnce == EachInOnePlace /\ BodiesContiguous

\* "Sends an email ... when the process exits": however the exit handler ends once it has
\* handed over a mail, the pool is through with that mail and has begun every earlier one,
\* and no trace stays in the buffer that was written before one of that mail.
ExitAwaitsMails ==
  LET own == sender[Exit].mail IN
  sender[Exit].pc \in {"over", "gone"} /\ own # 0 =>
    /\ mail[own] \in Finished
    /\ \A n \in 1..own : mail[n] \notin {"unsent", "queued"}
    /\ \A i \in DOMAIN written : written[i] \in ToSet(buffer) =>
         \A j \in i..Len(written) : written[j] \notin ToSet(content[own].body)

FromFirst(m) == m.subject = Head(m.body) /\ m.header = Head(m.body)

\* "The details used are based on the first trace received": subject and header of
\* a mail come from its first trace.
HeaderOfFirst == \A i \in DOMAIN content : FromFirst(content[i])
================================================================================
