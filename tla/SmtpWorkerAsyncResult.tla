------------------------- MODULE SmtpWorkerAsyncResult -------------------------
(***************************************************************************)
(* The result of one mail, shared without a lock by the pool that          *)
(* completes it and the threads that wait for it                           *)
(* (Essential.Diagnostics.EmailTraceListener/Net/Mail/                     *)
(* SmtpWorkerAsyncResult.cs).                                              *)
(*                                                                         *)
(* Complete is called by the pool: SmtpWorkerPoolC calls it once and       *)
(* disposes of the result right afterwards; without that, several          *)
(* Completers may race.  One thread calls End; others may ask for          *)
(* AsyncWaitHandle and wait.  One action is one read or write of a shared  *)
(* field, or one operation on the event.                                   *)
(***************************************************************************)
EXTENDS Naturals, FiniteSets

CONSTANTS
  Completer,  \* the threads that call Complete
  Waiter,     \* the threads that wait on AsyncWaitHandle
  Ender,      \* the one thread that calls End
  Null        \* the null reference

Getter == Waiter \cup {Ender}

ASSUME ResultAssumption == /\ Null \notin Getter
                           /\ Completer \cap Getter = {}

VARIABLES
  disposes,   \* whether the pool disposes of the result after Complete: pool C does
  completed,  \* m_CompletedState # c_StatePending
  exception,  \* m_exception: "null" or "error"
  handle,     \* m_AsyncWaitHandle: the getter that created the event, or Null
  event,      \* the event created by each getter
  done,       \* the local of the same name in the getter of AsyncWaitHandle
  got,        \* the event each getter was given
  pc,         \* the place of each thread
  outcome,    \* the exception each Completer passes to Complete
  callbacks   \* history: how often the callback was called

\* Both are fixed from the start.
inputs == <<disposes, outcome>>
vars == <<disposes, completed, exception, handle, event, done, got, pc, outcome, callbacks>>

Init == /\ disposes \in BOOLEAN
        /\ completed = FALSE
        /\ exception = "null"
        /\ handle = Null
        /\ event = [t \in Getter |-> "none"]
        /\ done = [t \in Getter |-> FALSE]
        /\ got = [t \in Getter |-> Null]
        /\ \E c \in Completer :
             pc = [t \in Completer \cup Getter |->
                     IF disposes /\ t \in Completer \ {c} THEN "end" ELSE "begin"]
        /\ outcome \in [Completer -> {"null", "error"}]
        /\ callbacks = 0

Goto(t, from, to) == pc[t] = from /\ pc' = [pc EXCEPT ![t] = to]

\* An operation on the event behind the field fails: null, or the event is closed.
FieldFails == IF handle = Null THEN TRUE ELSE event[handle] \in {"closed", "closedSet"}

\* A closed event stays signalled for the threads that already wait on it.
Closed(e) == IF e = "set" THEN "closedSet" ELSE IF e = "unset" THEN "closed" ELSE e

--------------------------------------------------------------------------------
(* Complete, and Dispose after it.                                         *)

\* Mutant: the previous state is not looked at.
Exchange_Always(c) == /\ Goto(c, "begin", "report")
                      /\ completed' = TRUE
                      /\ UNCHANGED <<exception, handle, event, done, got, inputs, callbacks>>

\* Interlocked.Exchange: only the first Complete goes on.
Exchange(c) == /\ Goto(c, "begin", IF completed THEN "dispose" ELSE "report")
               /\ completed' = TRUE
               /\ UNCHANGED <<exception, handle, event, done, got, inputs, callbacks>>

Report(c) == /\ Goto(c, "report", "test")
             /\ exception' = outcome[c]
             /\ UNCHANGED <<completed, handle, event, done, got, inputs, callbacks>>

\* Mutant: the event is never set.
TestHandle_Skip(c) == /\ Goto(c, "test", "callback")
                      /\ UNCHANGED <<completed, exception, handle, event, done, got, inputs, callbacks>>

TestHandle(c) == /\ Goto(c, "test", IF handle = Null THEN "callback" ELSE "set")
                 /\ UNCHANGED <<completed, exception, handle, event, done, got, inputs, callbacks>>

\* Set reads the field again: it may be null by now, or its event closed.
SetEvent(c) ==
  /\ Goto(c, "set", IF FieldFails THEN "failed" ELSE "callback")
  /\ event' = IF FieldFails THEN event ELSE [event EXCEPT ![handle] = "set"]
  /\ UNCHANGED <<completed, exception, handle, done, got, inputs, callbacks>>

Callback(c) == /\ Goto(c, "callback", "dispose")
               /\ callbacks' = callbacks + 1
               /\ UNCHANGED <<completed, exception, handle, event, done, got, inputs>>

\* Dispose tests the field and reads it again to dispose of the event.
TestDispose(c) ==
  /\ Goto(c, "dispose", IF disposes /\ handle # Null THEN "disposeEvent" ELSE "end")
  /\ UNCHANGED <<completed, exception, handle, event, done, got, inputs, callbacks>>

DisposeEvent(c) ==
  /\ Goto(c, "disposeEvent", IF handle = Null THEN "failed" ELSE "end")
  /\ event' = IF handle = Null THEN event ELSE [event EXCEPT ![handle] = Closed(@)]
  /\ UNCHANGED <<completed, exception, handle, done, got, inputs, callbacks>>

Complete(c) == \/ Exchange(c) \/ Report(c) \/ TestHandle(c) \/ SetEvent(c) \/ Callback(c)
               \/ TestDispose(c) \/ DisposeEvent(c)

--------------------------------------------------------------------------------
(* The getter of AsyncWaitHandle, then WaitOne.                            *)

TestNull(t) == /\ Goto(t, "get", IF handle = Null THEN "create" ELSE "return")
               /\ UNCHANGED <<completed, exception, handle, event, done, got, inputs, callbacks>>

\* Mutant: the event is created signalled.
CreateEvent_Set(t) == /\ Goto(t, "create", "install")
                      /\ done' = [done EXCEPT ![t] = completed]
                      /\ event' = [event EXCEPT ![t] = "set"]
                      /\ UNCHANGED <<completed, exception, handle, got, inputs, callbacks>>

CreateEvent(t) == /\ Goto(t, "create", "install")
                  /\ done' = [done EXCEPT ![t] = completed]
                  /\ event' = [event EXCEPT ![t] = IF completed THEN "set" ELSE "unset"]
                  /\ UNCHANGED <<completed, exception, handle, got, inputs, callbacks>>

\* Interlocked.CompareExchange: the event of the first thread is kept.
Install(t) ==
  /\ Goto(t, "install", IF handle = Null /\ ~done[t] THEN "recheck" ELSE "return")
  /\ handle' = IF handle = Null THEN t ELSE handle
  /\ event' = IF handle = Null THEN event ELSE [event EXCEPT ![t] = Closed(@)]
  /\ UNCHANGED <<completed, exception, done, got, inputs, callbacks>>

\* Mutant: the state is not looked at again.
Recheck_Skip(t) == /\ Goto(t, "recheck", "return")
                   /\ UNCHANGED <<completed, exception, handle, event, done, got, inputs, callbacks>>

\* The operation may have completed before the event was there to be set.
Recheck(t) == /\ Goto(t, "recheck", IF completed THEN "selfSet" ELSE "return")
              /\ UNCHANGED <<completed, exception, handle, event, done, got, inputs, callbacks>>

SelfSet(t) ==
  /\ Goto(t, "selfSet", IF FieldFails THEN "failed" ELSE "return")
  /\ event' = IF FieldFails THEN event ELSE [event EXCEPT ![handle] = "set"]
  /\ UNCHANGED <<completed, exception, handle, done, got, inputs, callbacks>>

\* The getter reads the field once more and returns it.
Return(t) == /\ Goto(t, "return", "wait")
             /\ got' = [got EXCEPT ![t] = handle]
             /\ UNCHANGED <<completed, exception, handle, event, done, inputs, callbacks>>

GotEvent(t) == IF got[t] = Null THEN "none" ELSE event[got[t]]

AfterWait(t) == IF t = Ender THEN "close" ELSE "end"

\* WaitOne fails on a closed event, passes a set one, and blocks on an unset one ...
WaitOne(t) ==
  /\ Goto(t, "wait", CASE GotEvent(t) = "set"   -> AfterWait(t)
                       [] GotEvent(t) = "unset" -> "blocked"
                       [] OTHER                   -> "failed")
  /\ UNCHANGED <<completed, exception, handle, event, done, got, inputs, callbacks>>

\* ... until it is set.
WakeUp(t) ==
  /\ GotEvent(t) \in {"set", "closedSet"}
  /\ Goto(t, "blocked", AfterWait(t))
  /\ UNCHANGED <<completed, exception, handle, event, done, got, inputs, callbacks>>

AsyncWaitHandle(t) == TestNull(t) \/ CreateEvent(t) \/ Install(t) \/ Recheck(t) \/ SelfSet(t)
                      \/ Return(t)

Wait(t) == /\ Goto(t, "begin", "get")
           /\ UNCHANGED <<completed, exception, handle, event, done, got, inputs, callbacks>>

--------------------------------------------------------------------------------
(* End.                                                                    *)

TestCompleted == /\ Goto(Ender, "begin", IF completed THEN "finish" ELSE "get")
                 /\ UNCHANGED <<completed, exception, handle, event, done, got, inputs, callbacks>>

\* Only End writes null, so the second read of AsyncWaitHandle finds the event.
CloseEvent == /\ Goto(Ender, "close", "forget")
              /\ event' = [event EXCEPT ![handle] = Closed(@)]
              /\ UNCHANGED <<completed, exception, handle, done, got, inputs, callbacks>>

Forget == /\ Goto(Ender, "forget", "finish")
          /\ handle' = Null
          /\ UNCHANGED <<completed, exception, event, done, got, inputs, callbacks>>

Finish == /\ Goto(Ender, "finish", IF exception = "null" THEN "returned" ELSE "threw")
          /\ UNCHANGED <<completed, exception, handle, event, done, got, inputs, callbacks>>

End == TestCompleted \/ CloseEvent \/ Forget \/ Finish

Get(t) == AsyncWaitHandle(t) \/ WaitOne(t) \/ WakeUp(t)

Next == \/ \E c \in Completer : Complete(c)
        \/ \E t \in Getter : Get(t)
        \/ \E w \in Waiter : Wait(w)
        \/ End

Spec == Init /\ [][Next]_vars

\* Threads are scheduled; the pool does call Complete.
FairSpec == /\ Spec
            /\ \A c \in Completer : WF_vars(Complete(c))
            /\ WF_vars(End) /\ \A t \in Getter : WF_vars(Get(t))

--------------------------------------------------------------------------------
Ended(t) == pc[t] \in {"end", "returned", "threw", "failed"}

\* The types of the variables.
TypeOK ==
  /\ disposes \in BOOLEAN
  /\ completed \in BOOLEAN
  /\ exception \in {"null", "error"}
  /\ handle \in Getter \cup {Null}
  /\ event \in [Getter -> {"none", "unset", "set", "closed", "closedSet"}]
  /\ got \in [Getter -> Getter \cup {Null}]
  /\ done \in [Getter -> BOOLEAN]
  /\ pc \in [Completer \cup Getter ->
               {"begin", "report", "test", "set", "callback", "dispose", "disposeEvent",
                "get", "create", "install", "recheck", "selfSet", "return", "wait", "blocked",
                "close", "forget", "finish", "end", "returned", "threw", "failed"}]
  /\ outcome \in [Completer -> {"null", "error"}]
  /\ callbacks \in 0..Cardinality(Completer)

\* No lost wake-up: once a Complete is over, the event in the field is not left
\* unset, unless the getter that installed it is about to notice.
NoLostWakeup ==
  completed /\ handle # Null /\ event[handle] = "unset"
    => \/ \E c \in Completer : pc[c] \in {"report", "test", "set"}
       \/ pc[handle] \in {"recheck", "selfSet"}

\* The callback is called at most once, however many Completes race.
CallbackOnce == callbacks <= 1

\* End comes back, or throws, only after a Complete, whoever creates, sets or closes the event
\* it waits on; it fails on the event only if the pool disposes of the result; and the error
\* it throws is that of a Complete.
EndAfterCompletion ==
  /\ pc[Ender] \in {"finish", "returned", "threw", "failed"} => completed
  /\ pc[Ender] = "failed" => disposes
  /\ pc[Ender] = "threw" => \E c \in Completer : outcome[c] = "error"

\* "Operation is done: if an exception occured, throw it."
EndReportsError ==
  pc[Ender] = "returned" => \E c \in Completer : outcome[c] = "null"

\* A call of End that has begun comes to an end, by returning or throwing,
\* unless the pool disposes of the result and another thread asked for the event
\* too: that thread may find disposed the event it was about to set.
EndTerminates ==
  pc[Ender] # "begin" ~> Ended(Ender) \/ (disposes /\ \E w \in Waiter : pc[w] # "begin")
================================================================================
