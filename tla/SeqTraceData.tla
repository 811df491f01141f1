------------------------------ MODULE SeqTraceData ------------------------------
(***************************************************************************)
(* What SeqTraceListener records of a trace, and SeqPayloadFormatter sends *)
(* of it later (Essential.Diagnostics.SeqTraceListener/Diagnostics):       *)
(* properties of the listener's configuration, of the scopes in which the  *)
(* trace is, and of its own structured data, under one name each.          *)
(*                                                                         *)
(* Between the two the application goes on, and may change its objects.  A *)
(* value is recorded as the text it is then, or live, as the object.       *)
(***************************************************************************)
EXTENDS Integers, Sequences, SequencesExt, FiniteSets, TLC

CONSTANTS
  Calls,   \* the arguments of WriteTrace: [messageFormat, messageArgs, data, related], the
           \* last whether there is a related activity, as in a transfer
  Stacks,  \* the stacks of operations, the innermost first; an operation, like an item of
           \* data, is a record of its kind ("structured", "dictionary" or another)
           \* and its properties, a sequence of names and kinds of value
  NoObject \* null

\* The items, and the names and kinds of value in them.
Item == (UNION {ToSet(stack) : stack \in Stacks})
          \cup (UNION {ToSet(call.data) : call \in {c \in Calls : c.data # NoObject}})
ItemProperty == UNION {ToSet(item.properties) : item \in Item}
PropertyName == {p[1] : p \in ItemProperty} \cup {"ThreadId", "LogicalOperationStack"}
PropertyKind == {p[2] : p \in ItemProperty} \cup {"literal", "recorded"}

ASSUME TraceDataAssumption ==
  /\ \A stack \in Stacks : stack \in Seq(Item)
  /\ \A call \in Calls : call.data # NoObject => call.data \in Seq(Item)
  /\ \A item \in Item : item.properties \in Seq(PropertyName \X PropertyKind)
  /\ NoObject \notin {"listener", "operation", "argument", "data"} \X Nat

VARIABLES
  seqTrace,   \* the call, and the listener's configuration
  traceData,  \* what is recorded of it, or NoObject
  changed,    \* whether the application has changed its objects since
  payload     \* what is sent: NoObject, or a template and sequences of properties

traceVars == <<seqTrace, traceData, changed, payload>>

TraceInit ==
  /\ seqTrace \in [call : Calls, stack : Stacks, source : BOOLEAN, threadId : BOOLEAN,
                recordStack : BOOLEAN, processData : BOOLEAN, processStack : BOOLEAN]
  /\ traceData = NoObject
  /\ changed = FALSE
  /\ payload = NoObject

--------------------------------------------------------------------------------
(* Recording.                                                              *)

\* The dictionary d, after d[key] = value: a new key goes to the end.
Assign(d, key, value) ==
  IF \E i \in DOMAIN d : d[i][1] = key
  THEN [i \in DOMAIN d |-> IF d[i][1] = key THEN <<key, value>> ELSE d[i]]
  ELSE Append(d, <<key, value>>)

\* Where a value comes from: "listener", or the n-th "operation", "argument" or item of "data".
Of(origin, n) == <<origin, n>>

\* Mutant: the value is kept as it is.
RecordedValue_Live(from, kind) == [from |-> from, kind |-> kind, live |-> kind \in {"object", "list"}]

\* GetRecordedValue: lists and dictionaries are kept, and other objects become text.
RecordedValue(from, kind) == [from |-> from, kind |-> kind, live |-> kind = "list"]

\* A property of an operation is kept as it is.
Kept(from, kind) == [from |-> from, kind |-> kind, live |-> kind \in {"object", "list"}]

GivesProperties(item, process) ==
  item.kind = "structured" \/ (item.kind = "dictionary" /\ process)

AddAttributeProperties ==
  IF seqTrace.threadId THEN << <<"ThreadId", RecordedValue(Of("listener", 1), "literal")>> >> ELSE <<>>

\* The pairs of s, assigned one after the other, but for the names that are skipped.
AssignAll(d, s, skipped) ==
  LET after[n \in 0..Len(s)] ==
        IF n = 0 THEN d
        ELSE IF s[n][1] \in skipped THEN after[n - 1]
        ELSE Assign(after[n - 1], s[n][1], s[n][2])
  IN  after[Len(s)]

\* The properties of the n-th operation, the innermost being the first.
OperationProperties(n) ==
  LET properties == seqTrace.stack[n].properties
  IN  [m \in DOMAIN properties |-> <<properties[m][1], Kept(Of("operation", n), properties[m][2])>>]

\* The operations overwrite one another from the innermost to the outermost, without
\* their templates.
AddOperations(d) ==
  LET after[n \in 0..Len(seqTrace.stack)] ==
        IF n = 0 THEN d
        ELSE IF GivesProperties(seqTrace.stack[n], seqTrace.processStack)
        THEN AssignAll(after[n - 1], OperationProperties(n), {"MessageTemplate"})
        ELSE after[n - 1]
  IN  after[Len(seqTrace.stack)]

\* AddLogicalStack: the stack itself is added after the properties of its operations.
AddLogicalStack(properties) ==
  IF seqTrace.recordStack /\ seqTrace.stack # <<>>
  THEN Append(AddOperations(properties),
              <<"LogicalOperationStack", RecordedValue(Of("listener", 1), "recorded")>>)
  ELSE AddOperations(properties)

\* Add throws for a name that is there already.
StackThrows ==
  /\ seqTrace.recordStack
  /\ \E n \in DOMAIN seqTrace.stack : GivesProperties(seqTrace.stack[n], seqTrace.processStack)
       /\ \E p \in ToSet(seqTrace.stack[n].properties) : p[1] = "LogicalOperationStack"

\* One item without a message is structured data.
IsStructured == /\ seqTrace.call.messageFormat = NoObject
                /\ seqTrace.call.messageArgs \in {NoObject, <<>>}
                /\ seqTrace.call.data # NoObject /\ Len(seqTrace.call.data) = 1
                /\ GivesProperties(seqTrace.call.data[1], seqTrace.processData)

\* Destructuring reads every property of the class, and an indexer is none that can be read.
DataThrows == IsStructured /\ <<"@a", "indexed">> \in ToSet(seqTrace.call.data[1].properties)

AddStructuredData(properties) ==
  LET given == seqTrace.call.data[1].properties
  IN  AssignAll(properties, [m \in DOMAIN given |-> <<given[m][1], RecordedValue(Of("data", 1), given[m][2])>>], {})

\* The exception of a trace: the structured property of that name, or the last argument that
\* is one.
ExceptionOf ==
  IF IsStructured THEN IF <<"Exception", "exception">> \in ToSet(seqTrace.call.data[1].properties)
                       THEN Of("data", 1) ELSE NoObject
  ELSE LET args == IF seqTrace.call.messageArgs = NoObject THEN <<>> ELSE seqTrace.call.messageArgs
           exceptions == {n \in DOMAIN args : args[n] = "exception"}
       IN IF exceptions = {} THEN NoObject ELSE Of("argument", Max(exceptions))

\* The message: as given, or the template of the structured data, or "{Data}" for other data.
MessageFormatOf ==
  IF IsStructured
  THEN IF \E p \in ToSet(seqTrace.call.data[1].properties) : p[1] = "MessageTemplate"
       THEN "template" ELSE NoObject
  ELSE IF seqTrace.call.messageFormat = NoObject /\ seqTrace.call.data # NoObject THEN "{Data}"
  ELSE seqTrace.call.messageFormat

\* BuildRecordedArgs and BuildRecordedData.
RecordedArgs == IF IsStructured \/ seqTrace.call.messageArgs = NoObject THEN <<>>
                ELSE [n \in DOMAIN seqTrace.call.messageArgs |-> RecordedValue(Of("argument", n), seqTrace.call.messageArgs[n])]
RecordedData == IF IsStructured \/ seqTrace.call.data = NoObject THEN <<>>
                ELSE [n \in DOMAIN seqTrace.call.data |-> RecordedValue(Of("data", n), seqTrace.call.data[n].kind)]

\* A call of WriteTrace that throws records nothing.
CreateTraceData ==
  /\ traceData = NoObject /\ ~StackThrows /\ ~DataThrows
  /\ LET scoped == AddLogicalStack(AddAttributeProperties) IN
       traceData' = [messageFormat |-> MessageFormatOf, args |-> RecordedArgs,
                     exception |-> ExceptionOf, data |-> RecordedData,
                     properties |-> IF IsStructured THEN AddStructuredData(scoped) ELSE scoped]
  /\ UNCHANGED <<seqTrace, changed, payload>>

\* The application goes on, and changes the objects it traced.
Change == /\ traceData # NoObject /\ payload = NoObject
          /\ changed' = TRUE
          /\ UNCHANGED <<seqTrace, traceData, payload>>

--------------------------------------------------------------------------------
(* Sending.                                                                *)

SanitizeKey(key) == IF key = "@a" THEN "a" ELSE key

\* The properties that are not the trace's own, and those of the arguments by number.
FixedKeys == {"EventType", "ActivityId"}
               \cup (IF seqTrace.source THEN {"Source", "EventId"} ELSE {})
               \cup (IF seqTrace.call.related THEN {"RelatedActivityId"} ELSE {})
               \cup (IF traceData.data # <<>> THEN {"Data"} ELSE {})
               \cup {ToString(n - 1) : n \in DOMAIN traceData.args}

Written(value) == [from |-> value.from, kind |-> value.kind, stale |-> value.live /\ changed]

\* Mutant: names are compared before they are sanitized.
WriteProperties_Unsanitized(properties) ==
  LET after[n \in 0..Len(properties)] ==
        IF n = 0 THEN <<>> ELSE
        LET p == properties[n]
        IN  IF p[1] \in FixedKeys \/ \E q \in ToSet(after[n - 1]) : q[1] = p[1] THEN after[n - 1]
            ELSE Append(after[n - 1], <<SanitizeKey(p[1]), Written(p[2])>>)
  IN  after[Len(properties)]

\* The end of ToJson: a name that was written is not written again.
WriteProperties(properties) ==
  LET after[n \in 0..Len(properties)] ==
        IF n = 0 THEN <<>> ELSE
        LET key == SanitizeKey(properties[n][1])
        IN  IF key \in FixedKeys \/ \E q \in ToSet(after[n - 1]) : q[1] = key THEN after[n - 1]
            ELSE Append(after[n - 1], <<key, Written(properties[n][2])>>)
  IN  after[Len(properties)]

ToJson ==
  /\ traceData # NoObject /\ payload = NoObject
  /\ payload' = [messageTemplate |-> IF traceData.messageFormat = NoObject THEN ""
                                     ELSE traceData.messageFormat,
                 exception |-> traceData.exception,
                 args |-> [n \in DOMAIN traceData.args |-> Written(traceData.args[n])],
                 data |-> [n \in DOMAIN traceData.data |-> Written(traceData.data[n])],
                 properties |-> WriteProperties(traceData.properties)]
  /\ UNCHANGED <<seqTrace, traceData, changed>>

TraceNext == CreateTraceData \/ Change \/ ToJson

TraceSpec == TraceInit /\ [][TraceNext]_traceVars

--------------------------------------------------------------------------------
(* Properties.                                                             *)

NamesOf(item) == {p[1] : p \in ToSet(item.properties)}

\* The operations that give a name its value.
ScopesOf(key) == {n \in DOMAIN seqTrace.stack :
                    /\ GivesProperties(seqTrace.stack[n], seqTrace.processStack)
                    /\ key \in NamesOf(seqTrace.stack[n]) \ {"MessageTemplate"}}

\* Who gives a name its value: the trace's own data before the operations, an outer one of
\* those before an inner one, and the configuration last.
Winner(key) ==
  IF IsStructured /\ key \in NamesOf(seqTrace.call.data[1]) THEN Of("data", 1)
  ELSE IF ScopesOf(key) # {} THEN Of("operation", Max(ScopesOf(key)))
  ELSE IF \/ key = "ThreadId" /\ seqTrace.threadId
          \/ key = "LogicalOperationStack" /\ seqTrace.recordStack /\ seqTrace.stack # <<>>
       THEN Of("listener", 1) ELSE NoObject

\* A payload has no name twice, and under every name the value of who gives it, unless
\* another name is sanitized to the same or the payload has that name for itself
\* (AddLogicalStack, AddStructuredData and ToJson).
PayloadAsTraced ==
  payload # NoObject =>
    LET given == {key \in PropertyName : Winner(key) # NoObject}
        written == payload.properties
    IN /\ \A i, j \in DOMAIN written : written[i][1] = written[j][1] => i = j
       /\ {p[1] : p \in ToSet(written)} = {SanitizeKey(key) : key \in given} \ FixedKeys
       /\ \A p \in ToSet(written) : \E key \in given :
            SanitizeKey(key) = p[1] /\ p[2].from = Winner(key)

\* What is sent is what the trace was given, though the application changed it since, but
\* for collections and for the properties of operations (GetRecordedValue).
RecordedWhenTraced ==
  payload # NoObject =>
    \A v \in {p[2] : p \in ToSet(payload.properties)} \cup ToSet(payload.args) \cup ToSet(payload.data) :
      v.stale => v.kind = "list" \/ v.from[1] = "operation"
================================================================================
