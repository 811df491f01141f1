------------------------------ MODULE SeqDelivery ------------------------------
(***************************************************************************)
(* What SeqTraceListener promises the application that writes traces to    *)
(* it, with no queue, lock, thread or timer in sight: messages accepted    *)
(* for background sending wait in one line, a prefix of that line may      *)
(* reach the server any number of times, and only a prefix ever leaves it, *)
(* either acknowledged by the server or given up.                          *)
(* SeqBatchSender is shown to implement this specification.                *)
(***************************************************************************)
EXTENDS Naturals, Sequences, SequencesExt

CONSTANT Message   \* the traces the application writes, each written once

VARIABLES
  hasServerUrl,  \* FALSE: no URL is configured and a post silently does nothing
  waiting,  \* accepted messages the sender is still responsible for, in order
  server,   \* the non-empty batches the server stored, in order of arrival
  fate      \* what became of each message

vars == <<hasServerUrl, waiting, server, fate>>

\* The messages of a sequence all meet the same fate f.
Settle(batch, f) == fate' = [m \in Message |-> IF m \in ToSet(batch) THEN f ELSE fate[m]]

Init == /\ hasServerUrl \in BOOLEAN
        /\ waiting = <<>>
        /\ server = <<>>
        /\ fate = [m \in Message |-> "unsent"]

\* The application writes a message.
Offer(m) == /\ fate[m] = "unsent"
            /\ fate' \in {[fate EXCEPT ![m] = mode] : mode \in {"queueing", "posting"}}
            /\ UNCHANGED <<waiting, server>>

\* Background sending accepts the message at the end of the line ...
Accept(m) == /\ fate[m] = "queueing"
             /\ waiting' = Append(waiting, m)
             /\ fate' = [fate EXCEPT ![m] = "queued"]
             /\ UNCHANGED server

\* ... or refuses it, because too many messages wait.
Refuse(m) == /\ fate[m] = "queueing"
             /\ fate' = [fate EXCEPT ![m] = "dropped"]
             /\ UNCHANGED <<waiting, server>>

\* A message sent on its own: stored and acknowledged, or failed (stored or not).
SendAlone(m) ==
  /\ fate[m] = "posting"
  /\ \/ /\ fate' = [fate EXCEPT ![m] = "delivered"]
        /\ server' = IF hasServerUrl THEN Append(server, <<m>>) ELSE server
     \/ /\ \E f \in {"raised", "dropped"} : fate' = [fate EXCEPT ![m] = f]
        /\ server' \in {server, Append(server, <<m>>)}
  /\ UNCHANGED waiting

\* The server stores the first n waiting messages, but the sender is not told.
StoreUnacknowledged(n) ==
  /\ server' = Append(server, SubSeq(waiting, 1, n))
  /\ UNCHANGED <<waiting, fate>>

\* The first n waiting messages are stored and leave the line together.
Deliver(n) ==
  /\ waiting' = SubSeq(waiting, n + 1, Len(waiting))
  /\ server' = IF hasServerUrl THEN Append(server, SubSeq(waiting, 1, n)) ELSE server
  /\ Settle(SubSeq(waiting, 1, n), "delivered")

\* The first n waiting messages are given up, after a last post that the
\* server may have stored all the same.
GiveUp(n) ==
  /\ waiting' = SubSeq(waiting, n + 1, Len(waiting))
  /\ server' \in {server, Append(server, SubSeq(waiting, 1, n))}
  /\ Settle(SubSeq(waiting, 1, n), "dropped")

Next == /\ \/ \E m \in Message : Offer(m) \/ Accept(m) \/ Refuse(m) \/ SendAlone(m)
           \/ \E n \in 1..Len(waiting) : StoreUnacknowledged(n) \/ Deliver(n) \/ GiveUp(n)
        /\ UNCHANGED hasServerUrl

Spec == Init /\ [][Next]_vars
================================================================================
