--------------------------------- MODULE MCCore ---------------------------------
(***************************************************************************)
(* Model checking the parts that share no state and are small: one         *)
(* behaviour is one of a single part.  The variable `which' says of which; *)
(* those of the others are Null, or stay in an initial state where the     *)
(* module is one that theorems are about.                                  *)
(***************************************************************************)
EXTENDS InMemoryTraceListener, ColoredConsoleTraceListener, PropertyWriters,
        TraceConfigurationMonitor, Scopes, StructuredData, SeqTraceData, Escaping,
        StringTemplate, TLC

VARIABLE which

--------------------------------------------------------------------------------
(* Instances.                                                              *)

\* Every text of up to four characters, and those of up to eight that begin an item.
MCChars == {"OPEN", "CLOSE", "a", "1", "MINUS", "BLANK", "COMMA", "COLON", "x"}
Words(n) == UNION {[1..k -> MCChars] : k \in 0..n}
MCTemplates == Words(4) \cup {<<"OPEN", "a">> \o w : w \in Words(4)}
                        \cup {<<"OPEN", "a", "COMMA">> \o w : w \in Words(4)}
MCKnown == {<<"a">>, <<"a", "MINUS">>, <<"a", "1">>}

\* Templates with no item, one, the same twice, and items for the properties that are
\* set last; a property may hold a template, or something else.
MCNamesIn == [T0 |-> <<>>, Tab |-> <<"a", "b">>, Taa |-> <<"a", "a">>,
              Tspecial |-> <<"MessageTemplate", "Exception">>]
MCBases == {<<>>, <<<<"a", "v0">>, <<"c", "v0">>>>,
            <<<<"Exception", "v0">>, <<"MessageTemplate", "Tab">>>>,
            <<<<"MessageTemplate", "v0">>, <<"Extra1", "v0">>>>}
MCValueLists == {<<>>, <<"v1">>, <<"v1", "v2">>, <<"v1", "v2", "v3">>}

\* No colour configured, or every colour but one, which has no colour's name.
MCKeys == {"Error", "Start", "ActivityTracing"}
MCUnset == [k \in MCKeys |-> "unset"]
MCSettings == {MCUnset,
               [k \in MCKeys |-> IF k = "Start" THEN "bogus" ELSE "Blue"]}

\* Three values that may hold one another and an object, which may hold two of them.
MCValues == {"x1", "x2", "x3", "o"}
MCGraphs ==
  {[kind |-> ("x1" :> k[1]) @@ ("x2" :> k[2]) @@ ("x3" :> k[3]) @@ ("o" :> "object"),
    members |-> ("x1" :> MCValues) @@ ("x2" :> m[1] \cup {"o"}) @@ ("x3" :> m[2] \cup {"o"})
                @@ ("o" :> m[3])] :
     k \in {<<"dictionary", "list", "structured">>, <<"dictionary", "structured", "structured">>,
            <<"list", "structured", "structured">>},
     m \in (SUBSET {"x1", "x2", "x3"}) \X (SUBSET {"x1", "x2", "x3"}) \X {{}, {"x2", "x3"}}}
MCGraph == CHOOSE g \in MCGraphs : TRUE

\* Items with names that meet one another, or those of the payload.
MCItem(kind, properties) == [kind |-> kind, properties |-> properties]
MCOther == MCItem("other", <<>>)
MCPair == MCItem("structured", << <<"a", "object">>, <<"b", "list">> >>)
MCItems ==
  {MCOther, MCPair,
   MCItem("dictionary", << <<"@a", "object">>, <<"ThreadId", "literal">>, <<"Source", "literal">>,
                         <<"RelatedActivityId", "literal">> >>),
   MCItem("structured", << <<"MessageTemplate", "literal">>, <<"a", "object">>,
                         <<"Exception", "exception">> >>),
   MCItem("dictionary", << <<"LogicalOperationStack", "literal">>, <<"a", "literal">> >>),
   MCItem("structured", << <<"@a", "indexed">>, <<"b", "object">> >>)}
MCStacks == {<<>>} \cup {<<x>> : x \in MCItems} \cup {<<x, y>> : x, y \in MCItems}
MCCall(format, args, data) ==
  [messageFormat |-> format, messageArgs |-> args, data |-> data, related |-> FALSE]
MCCalls ==
  {MCCall("format", a, NoObject) :
     a \in {NoObject, <<>>, <<"exception", "object">>, <<"exception", "exception">>}}
  \cup {MCCall(NoObject, NoObject, d) : d \in {<<x>> : x \in MCItems} \cup {<<>>, <<MCPair, MCOther>>}}
  \cup {MCCall(NoObject, NoObject, NoObject)}
  \cup {[MCCall("format", NoObject, NoObject) EXCEPT !.related = TRUE]}

--------------------------------------------------------------------------------
(* The behaviours.                                                         *)

TemplateIdle ==
  /\ template = Null /\ index = Null /\ builder = Null /\ item = Null /\ pc = Null
DataIdle ==
  /\ baseProperties = <<>> /\ exception = Null /\ messageTemplate = Null
  /\ templateValues = <<>> /\ templateKeys = Null /\ allProperties = Null
  /\ toString = Null /\ reader = [t \in DataThread |-> Idle] /\ shifted = FALSE
EscapingIdle ==
  /\ writer = "json" /\ text = <<>> /\ i = 1 /\ cleanSegmentStart = 1
  /\ escapedResult = <<>>
TraceIdle ==
  /\ seqTrace = [call |-> MCCall(NoObject, NoObject, NoObject), stack |-> <<>>, source |-> FALSE,
                 threadId |-> FALSE, recordStack |-> FALSE, processData |-> FALSE,
                 processStack |-> FALSE]
  /\ traceData = NoObject /\ changed = FALSE /\ payload = NoObject

MCInit ==
  /\ which \in {"memory", "template", "data", "scopes", "console",
                 "writers", "escaping", "payload", "monitor"}
  /\ MemInit /\ (which # "memory" => limit = 0)
  /\ ConsoleInit /\ (which # "console" => settings = MCUnset)
  /\ WritersInit /\ (which # "writers" => graph = MCGraph)
  /\ ScopesInit
  /\ MonitorInit /\ (which # "monitor" => watcher = "stopped")
  /\ IF which = "template" THEN TemplateInit ELSE TemplateIdle
  /\ IF which = "data" THEN DataInit ELSE DataIdle
  /\ IF which = "escaping" THEN EscapingInit ELSE EscapingIdle
  /\ IF which = "payload" THEN TraceInit ELSE TraceIdle

MCNext ==
  \/ /\ which = "memory" /\ MemNext
     /\ UNCHANGED <<which, templateVars, dataVars, scopeVars, consoleVars, writerVars,
                   escapingVars, traceVars, monitorVars>>
  \/ /\ which = "template" /\ TemplateNext
     /\ UNCHANGED <<which, memVars, dataVars, scopeVars, consoleVars, writerVars,
                   escapingVars, traceVars, monitorVars>>
  \/ /\ which = "data" /\ DataNext
     /\ UNCHANGED <<which, memVars, templateVars, scopeVars, consoleVars, writerVars,
                   escapingVars, traceVars, monitorVars>>
  \/ /\ which = "scopes" /\ ScopesNext
     /\ UNCHANGED <<which, memVars, templateVars, dataVars, consoleVars, writerVars,
                   escapingVars, traceVars, monitorVars>>
  \/ /\ which = "console" /\ ConsoleNext
     /\ UNCHANGED <<which, memVars, templateVars, dataVars, scopeVars, writerVars,
                   escapingVars, traceVars, monitorVars>>
  \/ /\ which = "writers" /\ WritersNext
     /\ UNCHANGED <<which, memVars, templateVars, dataVars, scopeVars, consoleVars,
                   escapingVars, traceVars, monitorVars>>
  \/ /\ which = "escaping" /\ EscapingNext
     /\ UNCHANGED <<which, memVars, templateVars, dataVars, scopeVars, consoleVars,
                   writerVars, traceVars, monitorVars>>
  \/ /\ which = "payload" /\ TraceNext
     /\ UNCHANGED <<which, memVars, templateVars, dataVars, scopeVars, consoleVars,
                   writerVars, escapingVars, monitorVars>>
  \/ /\ which = "monitor" /\ MonitorNext
     /\ UNCHANGED <<which, memVars, templateVars, dataVars, scopeVars, consoleVars,
                   writerVars, escapingVars, traceVars>>

MCSpec == MCInit /\ [][MCNext]_<<which, memVars, templateVars, dataVars, scopeVars, consoleVars,
                                  writerVars, escapingVars, traceVars, monitorVars>>

================================================================================
