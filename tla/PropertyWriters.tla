---------------------------- MODULE PropertyWriters ----------------------------
(***************************************************************************)
(* How values inside values are written, by StructuredPropertyFormatter    *)
(* (Essential.Diagnostics.Core/Diagnostics), whose text ToString of a      *)
(* StructuredData returns, and by SeqPayloadFormatter                      *)
(* (Essential.Diagnostics.SeqTraceListener/Diagnostics).  Both recurse.    *)
(* The text stops at a depth, the payload at a collection that is inside   *)
(* itself.  Either then writes the ToString of the value, and ToString of  *)
(* a StructuredData begins a text again.                                   *)
(*                                                                         *)
(* A behaviour is a walk through the calls: it goes into a value that is   *)
(* written as a collection, or back out of it.                             *)
(***************************************************************************)
EXTENDS Naturals, Sequences, SequencesExt, FiniteSets

CONSTANTS
  Value,     \* the values that are not literals, which are written at once
  Graphs,    \* what they may be: records of their kinds and their members
  MaxDepth   \* bound: how deep a walk goes

ASSUME WritersAssumption == IsFiniteSet(Value)

Kinds == {"dictionary", "structured", "list", "object"}

VARIABLES
  graph,  \* the values: a StructuredData is a dictionary, an object has its properties
  path    \* the calls under way, the innermost last, as records
          \*   value : Value
          \*   call : "json", "text" for ToString, "dictionary", "list" or "destructure"
          \*   arrayCount, destructureCount : those the call gives to the members

writerVars == <<graph, path>>

WritersInit ==
  /\ graph \in Graphs \cap [kind : [Value -> Kinds], members : [Value -> SUBSET Value]]
  /\ path = <<>>

IsDictionary(v) == graph.kind[v] \in {"dictionary", "structured"}
IsList(v) == graph.kind[v] = "list"

Goes(v, call, arrays, destructures) ==
  path' = Append(path, [value |-> v, call |-> call, arrayCount |-> arrays,
                        destructureCount |-> destructures])

--------------------------------------------------------------------------------
(* StructuredPropertyFormatter.                                            *)

\* WriteString of value.ToString() goes no deeper, unless the value is structured data.
WriteString(v) == graph.kind[v] = "structured" /\ Goes(v, "text", 0, 0)

\* Mutant: the counts are not passed on.
WriteTextValue_Forgets(v, a, d) ==
  IF IsDictionary(v) THEN Goes(v, "dictionary", a, d)
  ELSE IF IsList(v) THEN Goes(v, "list", a, d)
  ELSE WriteString(v)

\* WritePropertyValue, WriteDictionary and WriteArray.
WriteTextValue(v, a, d) ==
  IF d < 1 /\ a < 1 /\ IsDictionary(v) THEN Goes(v, "dictionary", a, d + 1)
  ELSE IF a < 1 /\ IsList(v) THEN Goes(v, "list", a + 1, d)
  ELSE WriteString(v)

\* WriteProperty of a name with an at sign, and DestructurePropertyValue; an at sign on a
\* collection asks for the properties of its class, which are not its members.
Destructure(v, a, d) == graph.kind[v] = "object" /\ Goes(v, "destructure", a, d + 1)

--------------------------------------------------------------------------------
(* SeqPayloadFormatter.                                                    *)

\* parentCollections, the collections that are being written.
ParentCollections == {path[i].value : i \in DOMAIN path}

\* Mutant: only the innermost collection counts as a parent.
WriteJsonValue_OnlyParent(v) ==
  IF (IsDictionary(v) \/ IsList(v)) /\ (path = <<>> \/ Last(path).value # v)
  THEN Goes(v, "json", 0, 0)
  ELSE WriteString(v)

\* WritePropertyValue, WriteDictionary and WriteArray.
WriteJsonValue(v) ==
  IF (IsDictionary(v) \/ IsList(v)) /\ v \notin ParentCollections THEN Goes(v, "json", 0, 0)
  ELSE WriteString(v)

--------------------------------------------------------------------------------
\* A value is given to a trace, as structured data or as a property of the payload.
BeginFormat == path = <<>> /\ \E v \in Value : WriteString(v) \/ WriteJsonValue(v)

\* The innermost call writes one of its members.
WriteMember ==
  /\ path # <<>> /\ Len(path) < MaxDepth
  /\ LET top == Last(path) IN
       \E v \in graph.members[top.value] :
         \/ top.call = "json" /\ WriteJsonValue(v)
         \/ top.call # "json" /\ WriteTextValue(v, top.arrayCount, top.destructureCount)
         \/ top.call \in {"text", "dictionary"}
              /\ Destructure(v, top.arrayCount, top.destructureCount)

\* The innermost call has written its members.
EndMembers == path # <<>> /\ path' = Front(path)

WritersNext == (BeginFormat \/ WriteMember \/ EndMembers) /\ UNCHANGED graph

WritersSpec == WritersInit /\ [][WritersNext]_writerVars

--------------------------------------------------------------------------------
\* No collection of a payload is written inside itself, and a ToString writes at most
\* three values inside one another (the counts of StructuredPropertyFormatter and the
\* parentCollections of SeqPayloadFormatter).
NestingBounded ==
  /\ \A i, j \in DOMAIN path : path[i].call = "json" /\ path[j].call = "json"
                               /\ path[i].value = path[j].value => i = j
  /\ \A i \in DOMAIN path : path[i].call # "json" =>
       \E j \in DOMAIN path : path[j].call = "text" /\ j <= i /\ i <= j + 3

\* "StructuredRecursiveListShouldStop", "StructuredRecursiveDictionaryShouldStop",
\* "SeqStructuredRecursiveArrayShouldStop", "SeqStructuredRecursiveDictionaryShouldStop"
\* (StucturedDataFormatterTests.cs, SeqStructuredDataTests.cs): the same, and there are
\* no more ToStrings inside one another than there are structured data.
RecursiveShouldStop ==
  /\ NestingBounded
  /\ Cardinality({i \in DOMAIN path : path[i].call = "text"})
       <= Cardinality({v \in Value : graph.kind[v] = "structured"})
================================================================================
