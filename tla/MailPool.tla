-------------------------------- MODULE MailPool --------------------------------
(***************************************************************************)
(* What a mail pool promises the listener that uses it, whatever threads   *)
(* or clients it employs: mails are started in the order in which they     *)
(* were handed over, each once, at most maxConnections at a time, and each *)
(* one started ends as sent or failed.                                     *)
(* SmtpWorkerPoolB and SmtpWorkerPoolC are shown to implement it.          *)
(***************************************************************************)
EXTENDS Naturals, Sequences, FiniteSets

CONSTANTS Mail, MaxConnections

VARIABLES
  waiting,  \* the mails not started yet, oldest first
  mail      \* the state of each mail

vars == <<waiting, mail>>

Init == /\ waiting = <<>>
        /\ mail = [m \in Mail |-> "unsent"]

InProgress == {m \in Mail : mail[m] = "sending"}

HandOver(m) == /\ mail[m] = "unsent"
               /\ mail' = [mail EXCEPT ![m] = "queued"]
               /\ waiting' = Append(waiting, m)

Start == /\ waiting # <<>>
         /\ Cardinality(InProgress) < MaxConnections
         /\ mail' = [mail EXCEPT ![Head(waiting)] = "sending"]
         /\ waiting' = Tail(waiting)

End(m) == /\ mail[m] = "sending"
          /\ \E outcome \in {"sent", "failed"} : mail' = [mail EXCEPT ![m] = outcome]
          /\ UNCHANGED waiting

Next == Start \/ \E m \in Mail : HandOver(m) \/ End(m)

Spec == Init /\ [][Next]_vars
================================================================================
