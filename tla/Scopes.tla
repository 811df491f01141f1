--------------------------------- MODULE Scopes ---------------------------------
(***************************************************************************)
(* ActivityScope and LogicalOperationScope                                 *)
(* (Essential.Diagnostics.Fluent/Diagnostics) and StructuredDataScope      *)
(* (Essential.Diagnostics.Structured/Diagnostics/Structured): objects of a *)
(* using statement that change the activity, or the stack of logical       *)
(* operations, of the execution context, and trace that they do.           *)
(*                                                                         *)
(* A flow is a call of an async method.  Until its first await it runs on  *)
(* its caller's thread, and shares its caller's context copy-on-write: a   *)
(* flow owns its context once it was copied.  Writing ActivityId copies    *)
(* it; a push writes to the stack in the context, and copies nothing.  A   *)
(* trace runs the listeners, and a listener may throw.                     *)
(***************************************************************************)
EXTENDS Naturals, Sequences, SequencesExt

CONSTANTS
  Flow,       \* the async calls
  Root,       \* the first of them, which nobody waits for
  ScopeKinds, \* the scopes in use: {"activity", "logical"}, with "data" or without
  MaxId,      \* bound: how many activities and operations are begun
  NoFlow      \* no flow

ASSUME ScopesAssumption == Root \in Flow /\ NoFlow \notin Flow /\ MaxId \in Nat

VARIABLES
  state,      \* per flow: "unborn", "running", "calling" or "ended"
  caller,     \* per flow: the flow that it keeps from going on
  owns,       \* per flow: whether its context was copied
  stackOf,    \* per flow: the flow whose copy of the stack is in its context; NoFlow if none
  stack,      \* per flow: its copy of the stack, the top last
  activity,   \* per flow: Trace.CorrelationManager.ActivityId
  scopes,     \* per flow: its open scopes, the innermost last
  lastId,     \* the last activity or operation that was begun
  trace,      \* the last trace of a scope: the stack and the activity listeners saw
  own,        \* history: the stack, had nobody else written to it
  base,       \* history: the activity a flow began with
  disturbed,  \* history: an ActivityScope failed after changing, or before resetting, the activity
  early       \* history: a StructuredDataScope was begun or ended in a context that was not copied

scopeVars == <<state, caller, owns, stackOf, stack, activity, scopes, lastId, trace, own, base,
               disturbed, early>>

history == <<own, base, disturbed, early>>

ScopesInit ==
  /\ state = [f \in Flow |-> IF f = Root THEN "running" ELSE "unborn"]
  /\ caller = [f \in Flow |-> NoFlow]
  /\ owns = [f \in Flow |-> f = Root]
  /\ stackOf = [f \in Flow |-> NoFlow]
  /\ stack = [f \in Flow |-> <<>>]
  /\ activity = [f \in Flow |-> 0]
  /\ scopes = [f \in Flow |-> <<>>]
  /\ lastId = 0
  /\ trace = [kind |-> "none"]
  /\ own = [f \in Flow |-> <<>>]
  /\ base = [f \in Flow |-> 0]
  /\ disturbed = [f \in Flow |-> FALSE]
  /\ early = FALSE

--------------------------------------------------------------------------------
(* The execution context.                                                  *)

\* Trace.CorrelationManager.LogicalOperationStack as a flow sees it.
Seen(f) == IF stackOf[f] = NoFlow THEN <<>> ELSE stack[stackOf[f]]

\* An async method is called, and runs on the caller's thread.
Call(f, g) ==
  /\ state[f] = "running" /\ state[g] = "unborn"
  /\ state' = [state EXCEPT ![f] = "calling", ![g] = "running"]
  /\ caller' = [caller EXCEPT ![g] = f]
  /\ stackOf' = [stackOf EXCEPT ![g] = stackOf[f]]
  /\ activity' = [activity EXCEPT ![g] = activity[f]]
  /\ own' = [own EXCEPT ![g] = own[f]]
  /\ base' = [base EXCEPT ![g] = activity[f]]
  /\ UNCHANGED <<owns, stack, scopes, lastId, trace, disturbed, early>>

\* The caller gets its thread and its context back.
Resume(g, s) == IF caller[g] = NoFlow THEN [state EXCEPT ![g] = s]
                ELSE [state EXCEPT ![g] = s, ![caller[g]] = "running"]

\* The first await captures a copy of the context for the rest of the method.
FirstAwait(g) ==
  /\ state[g] = "running" /\ caller[g] # NoFlow
  /\ state' = Resume(g, "running")
  /\ caller' = [caller EXCEPT ![g] = NoFlow]
  /\ owns' = [owns EXCEPT ![g] = TRUE]
  /\ stack' = [stack EXCEPT ![g] = Seen(g)]
  /\ stackOf' = [stackOf EXCEPT ![g] = IF @ = NoFlow THEN NoFlow ELSE g]
  /\ UNCHANGED <<activity, scopes, lastId, trace, history>>

\* A method ends, and has left its using statements.
Return(g) ==
  /\ state[g] = "running" /\ scopes[g] = <<>>
  /\ state' = Resume(g, "ended")
  /\ caller' = [caller EXCEPT ![g] = NoFlow]
  /\ UNCHANGED <<owns, stackOf, stack, activity, scopes, lastId, trace, history>>

\* The stack is copied if it was not, and becomes s.
CopyAndPut(f, s) == /\ owns' = [owns EXCEPT ![f] = TRUE]
                    /\ stackOf' = [stackOf EXCEPT ![f] = f]
                    /\ stack' = [stack EXCEPT ![f] = s]

\* The stack that is there becomes s; the first push puts one there.
Put(f, s) == IF stackOf[f] = NoFlow THEN CopyAndPut(f, s)
             ELSE /\ stack' = [stack EXCEPT ![stackOf[f]] = s]
                  /\ UNCHANGED <<owns, stackOf>>

--------------------------------------------------------------------------------
(* ActivityScope.                                                          *)

Opened(f, kind, id) == [scopes EXCEPT ![f] = Append(@, [kind |-> kind, id |-> id,
                          previous |-> activity[f], disturbed |-> disturbed[f]])]

Innermost(f, kind) == /\ state[f] = "running" /\ scopes[f] # <<>>
                      /\ Last(scopes[f]).kind = kind

\* What the listeners see of a Start, Stop or transfer of the scope id.
TracedStack(id, s) == trace' = [kind |-> "operation", id |-> id, stack |-> s]

TracedActivity(id, a, d) == trace' = [kind |-> "activity", id |-> id, activity |-> a, disturbed |-> d]

\* StartScope.  A listener that throws on the transfer in leaves everything as it was; one
\* that throws on the Start event leaves no object to reset the activity.
NewActivityScope(f, throws) ==
  LET new == lastId + 1 IN
    /\ state[f] = "running" /\ lastId < MaxId
    /\ lastId' = new
    /\ activity' = [activity EXCEPT ![f] = new]
    /\ owns' = [owns EXCEPT ![f] = TRUE]
    /\ stack' = [stack EXCEPT ![f] = Seen(f)]
    /\ stackOf' = [stackOf EXCEPT ![f] = IF @ = NoFlow THEN NoFlow ELSE f]
    /\ TracedActivity(new, new, FALSE)
    /\ scopes' = IF throws THEN scopes ELSE Opened(f, "activity", new)
    /\ disturbed' = [disturbed EXCEPT ![f] = @ \/ throws]
    /\ UNCHANGED <<state, caller, own, base, early>>

\* Mutant: the activity is reset to none.
StopScope_ToNone(f, throws) ==
  /\ Innermost(f, "activity")
  /\ LET s == Last(scopes[f]) IN
       /\ TracedActivity(s.id, activity[f], disturbed[f])
       /\ activity' = [activity EXCEPT ![f] = IF throws THEN @ ELSE 0]
       /\ disturbed' = [disturbed EXCEPT ![f] = IF throws THEN TRUE ELSE s.disturbed]
  /\ scopes' = [scopes EXCEPT ![f] = Front(@)]
  /\ UNCHANGED <<state, caller, owns, stackOf, stack, lastId, own, base, early>>

\* StopScope: transfer and Stop event, then the activity is reset, unless one of them threw.
StopScope(f, throws) ==
  /\ Innermost(f, "activity")
  /\ LET s == Last(scopes[f]) IN
       /\ TracedActivity(s.id, activity[f], disturbed[f])
       /\ activity' = [activity EXCEPT ![f] = IF throws THEN @ ELSE s.previous]
       /\ disturbed' = [disturbed EXCEPT ![f] = IF throws THEN TRUE ELSE s.disturbed]
  /\ scopes' = [scopes EXCEPT ![f] = Front(@)]
  /\ UNCHANGED <<state, caller, owns, stackOf, stack, lastId, own, base, early>>

--------------------------------------------------------------------------------
(* LogicalOperationScope and StructuredDataScope.                          *)

\* Mutant: the context is not touched before the push.
NewLogicalOperationScope_Untouched(f, throws) ==
  LET new == lastId + 1 IN
    /\ state[f] = "running" /\ lastId < MaxId
    /\ lastId' = new
    /\ Put(f, Append(Seen(f), new))
    /\ own' = [own EXCEPT ![f] = Append(@, new)]
    /\ TracedStack(new, Append(Seen(f), new))
    /\ scopes' = IF throws THEN scopes ELSE Opened(f, "logical", new)
    /\ UNCHANGED <<state, caller, activity, base, disturbed, early>>

\* The context is touched, so that it is copied; push; Start event.  If that throws there
\* is no object to pop the operation.
NewLogicalOperationScope(f, throws) ==
  LET new == lastId + 1 IN
    /\ state[f] = "running" /\ lastId < MaxId
    /\ lastId' = new
    /\ CopyAndPut(f, Append(Seen(f), new))
    /\ own' = [own EXCEPT ![f] = Append(@, new)]
    /\ TracedStack(new, Append(Seen(f), new))
    /\ scopes' = IF throws THEN scopes ELSE Opened(f, "logical", new)
    /\ UNCHANGED <<state, caller, activity, base, disturbed, early>>

\* Mutant: the operation is popped before the Stop event.
DisposeLogicalOperation_PopFirst(f, throws) ==
  /\ Innermost(f, "logical")
  /\ Put(f, Front(Seen(f)))
  /\ own' = [own EXCEPT ![f] = Front(@)]
  /\ TracedStack(Last(scopes[f]).id, Front(Seen(f)))
  /\ scopes' = [scopes EXCEPT ![f] = Front(@)]
  /\ UNCHANGED <<state, caller, activity, lastId, base, disturbed, early>>

\* Dispose: Stop event, then pop, unless that threw.
DisposeLogicalOperation(f, throws) ==
  /\ Innermost(f, "logical")
  /\ IF throws THEN UNCHANGED <<owns, stackOf, stack, own>>
     ELSE /\ Put(f, Front(Seen(f)))
          /\ own' = [own EXCEPT ![f] = Front(@)]
  /\ TracedStack(Last(scopes[f]).id, Seen(f))
  /\ scopes' = [scopes EXCEPT ![f] = Front(@)]
  /\ UNCHANGED <<state, caller, activity, lastId, base, disturbed, early>>

Shares(f) == ~owns[f] /\ stackOf[f] # NoFlow

\* BeginScope: the structured data is pushed, and nothing is traced.
NewStructuredDataScope(f) ==
  LET new == lastId + 1 IN
    /\ "data" \in ScopeKinds
    /\ state[f] = "running" /\ lastId < MaxId
    /\ lastId' = new
    /\ Put(f, Append(Seen(f), new))
    /\ own' = [own EXCEPT ![f] = Append(@, new)]
    /\ scopes' = Opened(f, "data", new)
    /\ early' = (early \/ Shares(f))
    /\ UNCHANGED <<state, caller, activity, trace, base, disturbed>>

DisposeStructuredData(f) ==
  /\ Innermost(f, "data")
  /\ Put(f, Front(Seen(f)))
  /\ own' = [own EXCEPT ![f] = Front(@)]
  /\ scopes' = [scopes EXCEPT ![f] = Front(@)]
  /\ UNCHANGED <<state, caller, activity, lastId, trace, base, disturbed, early>>

--------------------------------------------------------------------------------
ScopesNext == \E f \in Flow :
          \/ \E g \in Flow : Call(f, g)
          \/ FirstAwait(f)
          \/ Return(f)
          \/ \E throws \in BOOLEAN :
               \/ NewActivityScope(f, throws)
               \/ StopScope(f, throws)
               \/ NewLogicalOperationScope(f, throws)
               \/ DisposeLogicalOperation(f, throws)
          \/ NewStructuredDataScope(f)
          \/ DisposeStructuredData(f)

ScopesSpec == ScopesInit /\ [][ScopesNext]_scopeVars

--------------------------------------------------------------------------------
\* "ScopeAsyncShouldPreserve" (LogicalOperationScopeTests.cs): a flow sees the stack its own
\* scopes made of the one it was called with, whatever scopes other flows begin and end.
StackPreserved == \A f \in Flow : state[f] = "running" => Seen(f) = own[f]

\* The same for ActivityScope and LogicalOperationScope: only a StructuredDataScope begun
\* before the first await changes a stack that is not its flow's own.
StackPreservedUnlessEarly == early \/ StackPreserved

\* The activity a is the one inside the first n of the scopes `open' of a flow that began with
\* `outer': that of the innermost ActivityScope of them.
IsActivityInside(a, outer, open, n) ==
  \/ a = outer /\ \A i \in 1..n : open[i].kind # "activity"
  \/ \E i \in 1..n : /\ open[i].kind = "activity" /\ open[i].id = a
                     /\ \A j \in (i + 1)..n : open[j].kind # "activity"

\* A using statement leaves the activity as it found it, whatever scopes failed inside: a
\* flow has the activity of its innermost open ActivityScope, unless one begun inside that
\* failed (ActivityScope.StartScope and StopScope).
ActivityOfInnermost ==
  \A f \in Flow : state[f] = "running" /\ ~disturbed[f] =>
    IsActivityInside(activity[f], base[f], scopes[f], Len(scopes[f]))

\* The Start and Stop events of a scope are traced inside it: with its operation on the
\* stack, however many operations were left there by scopes that failed, and with its
\* activity, unless a scope inside left another one (the constructors and Dispose of both).
TracedInside ==
  /\ trace.kind = "operation" => Contains(trace.stack, trace.id)
  /\ trace.kind = "activity" => trace.disturbed \/ trace.activity = trace.id
================================================================================
