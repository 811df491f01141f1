----------------------------- MODULE StructuredData -----------------------------
(***************************************************************************)
(* StructuredData (Essential.Diagnostics.Core/Diagnostics) with            *)
(* OrderedDictionary (Collections): properties, an exception and a message *)
(* template with values for its items, put together when first read.       *)
(*                                                                         *)
(* Nothing is locked, and an object may be read by several threads: one on *)
(* the logical operation stack is there for every thread it flows to.  So  *)
(* reading is in steps: the list of keys and the dictionary of all         *)
(* properties are fields, written by each thread that found them unset.    *)
(* A dictionary is the sequence of its pairs.                              *)
(***************************************************************************)
EXTENDS Integers, Sequences, FiniteSets, SequencesExt, TLC

CONSTANTS
  DataThread,  \* the threads that read the object
  Key,         \* the keys given to Add
  Bases,       \* the properties given to the constructor
  NamesIn,     \* for every template that can be read, the names of its items
  Invalid,     \* templates that StringTemplate does not accept
  ValueLists,  \* the template values given to the constructor
  Exceptions,  \* the exceptions given to it; Null for none
  Null         \* null

MessageTemplateProperty == "MessageTemplate"
ExceptionProperty == "Exception"
Extra(i) == "Extra" \o ToString(i)

Texts == DOMAIN NamesIn \cup Invalid

\* The keys and the values there may be in a dictionary.
AnyKey == {p[1] : p \in (UNION {ToSet(base) : base \in Bases})}
            \cup Key \cup {MessageTemplateProperty, ExceptionProperty}
            \cup (UNION {ToSet(NamesIn[template]) : template \in DOMAIN NamesIn})
            \cup (UNION {{Extra(i) : i \in DOMAIN values} : values \in ValueLists})
AnyValue == {p[2] : p \in (UNION {ToSet(base) : base \in Bases})}
              \cup {"added"} \cup Texts \cup Exceptions
              \cup (UNION {ToSet(values) : values \in ValueLists})
Pair == AnyKey \X AnyValue

KeysOnce(d) == \A i, j \in DOMAIN d : d[i][1] = d[j][1] => i = j

\* The pairs given to the constructor have their keys once: it throws for others.
ASSUME DataAssumption ==
  /\ \A base \in Bases : base \in Seq(Pair) /\ KeysOnce(base)
  /\ \A template \in DOMAIN NamesIn : NamesIn[template] \in Seq(AnyKey)
  /\ \A values \in ValueLists : values \in Seq(AnyValue)
  /\ DOMAIN NamesIn \cap Invalid = {}
  /\ Null \notin Texts \cup Seq(Pair)

VARIABLES
  baseProperties,  \* _baseProperties
  exception,       \* _exception
  messageTemplate, \* _messageTemplate
  templateValues,  \* _templateValues
  templateKeys,    \* _messageTemplateKeys
  allProperties,   \* _allProperties
  toString,        \* _toString: the values in the message, and the set of pairs after it
  reader,          \* per thread: the method it is in, where, its extraCount and allProperties
  shifted          \* history: see WriteText

dataVars == <<baseProperties, exception, messageTemplate, templateValues, templateKeys,
              allProperties, toString, reader, shifted>>

Idle == [op |-> "none", pc |-> "idle", at |-> 0, extra |-> 0, local |-> <<>>]

DataInit ==
  /\ baseProperties \in Bases
  /\ exception \in Exceptions
  /\ messageTemplate \in Texts \cup {Null}
  /\ templateValues \in ValueLists
  /\ templateKeys = Null /\ allProperties = Null /\ toString = Null
  /\ reader = [t \in DataThread |-> Idle]
  /\ shifted = FALSE

Has(d, key) == \E i \in DOMAIN d : d[i][1] = key

IndexOf(d, key) == CHOOSE i \in DOMAIN d : d[i][1] = key

Get(d, key) == d[IndexOf(d, key)][2]

\* The setter of the indexer: an old pair is removed, the new one comes last.
Set(d, key, value) ==
  Append(IF Has(d, key) THEN RemoveAt(d, IndexOf(d, key)) ELSE d, <<key, value>>)

\* EnsureMessageTemplate: without a template of its own, the object takes one from
\* its base properties, if that is a string.
Template == IF /\ messageTemplate = Null
               /\ Has(baseProperties, MessageTemplateProperty)
               /\ Get(baseProperties, MessageTemplateProperty) \in Texts
            THEN Get(baseProperties, MessageTemplateProperty)
            ELSE messageTemplate

\* The names of the items of a template; none if there is no template.
Names(template) == IF template \in DOMAIN NamesIn THEN NamesIn[template] ELSE <<>>

\* No template value is without an item of its own.
NoExtras == Len(templateValues) <= Len(Names(Template))

\* A property is added in an initializer, before the object is read.
Add(key, value) ==
  /\ \A t \in DataThread : reader[t] = Idle
  /\ allProperties = Null
  /\ ~Has(baseProperties, key)
  /\ baseProperties' = Append(baseProperties, <<key, value>>)
  /\ UNCHANGED <<exception, messageTemplate, templateValues, templateKeys, allProperties,
                 toString, reader, shifted>>

\* EnsureAllProperties, or EnsureToString, finds its field unset.
Begin(t, op) ==
  /\ reader[t] = Idle
  /\ IF op = "ToString" THEN toString = Null ELSE allProperties = Null
  /\ messageTemplate' = Template
  /\ reader' = [reader EXCEPT ![t] = [op |-> op, at |-> 1, extra |-> 0,
                                      local |-> baseProperties,
                                      pc |-> IF allProperties = Null THEN "keys" ELSE "text"]]
  /\ UNCHANGED <<baseProperties, exception, templateValues, templateKeys, allProperties,
                 toString, shifted>>

\* The template is not valid: FormatException, on this read and on every other.
KeysThrow(t) ==
  /\ reader[t].pc = "keys" /\ messageTemplate \in Invalid
  /\ reader' = [reader EXCEPT ![t] = Idle]
  /\ UNCHANGED <<baseProperties, exception, messageTemplate, templateValues, templateKeys,
                 allProperties, toString, shifted>>

GetKeys(t) ==
  /\ reader[t].pc = "keys" /\ messageTemplate \notin Invalid
  /\ templateKeys' = Names(messageTemplate)
  /\ reader' = [reader EXCEPT ![t].pc = "values"]
  /\ UNCHANGED <<baseProperties, exception, messageTemplate, templateValues, allProperties,
                 toString, shifted>>

\* Mutant: the number of an extra value is its place among all values.
KeyAt_ByPlace(r) == IF r.at <= Len(templateKeys) THEN templateKeys[r.at] ELSE Extra(r.at)

\* The key of the value that the reader r has come to, from the list of keys as it now
\* is: a ToString of another thread may have added to it.  That its length and its
\* element are read at once leaves out only outcomes where `shifted' is true.
KeyAt(r) == IF r.at <= Len(templateKeys) THEN templateKeys[r.at] ELSE Extra(r.extra + 1)

SetValue(t) ==
  LET r == reader[t] IN
    /\ r.pc = "values" /\ r.at <= Len(templateValues)
    /\ reader' = [reader EXCEPT ![t] =
         [r EXCEPT !.local = Set(@, KeyAt(r), templateValues[r.at]), !.at = @ + 1,
                   !.extra = IF r.at <= Len(templateKeys) THEN @ ELSE @ + 1]]
    /\ UNCHANGED <<baseProperties, exception, messageTemplate, templateValues, templateKeys,
                   allProperties, toString, shifted>>

\* Template and exception overwrite the values, and all properties are there.
Publish(t) ==
  LET d == reader[t].local
      e == IF messageTemplate = Null THEN d ELSE Set(d, MessageTemplateProperty, messageTemplate)
      f == IF exception = Null THEN e ELSE Set(e, ExceptionProperty, exception)
  IN /\ reader[t].pc = "values" /\ reader[t].at > Len(templateValues)
     /\ allProperties' = f
     /\ reader' = [reader EXCEPT ![t] = IF @.op = "ToString" THEN [@ EXCEPT !.pc = "text"] ELSE Idle]
     /\ UNCHANGED <<baseProperties, exception, messageTemplate, templateValues, templateKeys,
                    toString, shifted>>

\* What stands for an item in the message: its value, or its name in braces.
Shown(d, key) == IF Has(d, key) THEN Get(d, key) ELSE "{" \o key \o "}"

\* The rest of EnsureToString: the message, then what it did not show.  The key of the
\* template is added to the shared list: `shifted' says that it was while another
\* thread, of an object with more values than items, still had values to count off.
WriteText(t) ==
  LET excludeKeys == Append(templateKeys, MessageTemplateProperty)
      names == Names(messageTemplate)
  IN /\ reader[t].pc = "text"
     /\ templateKeys' = excludeKeys
     /\ toString' = [message |-> [i \in DOMAIN names |-> Shown(allProperties, names[i])],
                     rest |-> {p \in ToSet(allProperties) : p[1] \notin ToSet(excludeKeys)}]
     /\ reader' = [reader EXCEPT ![t] = Idle]
     /\ shifted' = \/ shifted
                    \/ /\ ~NoExtras
                       /\ \E u \in DataThread \ {t} :
                            reader[u].pc = "values" /\ reader[u].at <= Len(templateValues)
     /\ UNCHANGED <<baseProperties, exception, messageTemplate, templateValues, allProperties>>

DataNext ==
  \/ \E key \in Key : Add(key, "added")
  \/ \E t \in DataThread :
       \/ \E op \in {"ToString", "Properties"} : Begin(t, op)
       \/ KeysThrow(t) \/ GetKeys(t) \/ SetValue(t) \/ Publish(t) \/ WriteText(t)

DataSpec == DataInit /\ [][DataNext]_dataVars

--------------------------------------------------------------------------------
\* The keys of the values: the names of the items, then Extra1, Extra2...
ValueKeys == LET names == Names(messageTemplate) IN
               SubSeq(names \o [i \in DOMAIN templateValues |-> Extra(i)], 1, Len(templateValues))

FromValues == {i \in DOMAIN templateValues : \A j \in DOMAIN templateValues :
                 ValueKeys[j] = ValueKeys[i] => j <= i}

Without(pairs, others) == {p \in pairs : \A q \in others : p[1] # q[1]}

\* What overrides base properties: the exception and the template, then the last of
\* the template values with a key.
Overriding ==
  LET last == {<<ExceptionProperty, x>> : x \in {exception} \ {Null}}
              \cup {<<MessageTemplateProperty, x>> : x \in {messageTemplate} \ {Null}}
  IN  last \cup Without({<<ValueKeys[i], templateValues[i]>> : i \in FromValues}, last)

\* The base properties that nothing overrides.
Remaining == Without(ToSet(baseProperties), Overriding)

Expected == Overriding \cup Remaining

\* The pair p is before q in a dictionary.
Precedes(d, p, q) == \E i, j \in DOMAIN d : i < j /\ d[i] = p /\ d[j] = q

\* The pairs whose keys do not depend on how the values were counted off.
Sure(pairs) == {p \in pairs : /\ p[1] # MessageTemplateProperty
                              /\ \A i \in DOMAIN templateValues : p[1] # Extra(i)}

\* All properties are those expected, each key once, the base properties that nothing
\* overrides first and in their order.
AllExpected ==
  /\ ToSet(allProperties) = Expected
  /\ \A q \in Remaining, p \in Expected :
       Precedes(allProperties, p, q) => p \in Remaining /\ Precedes(baseProperties, p, q)

\* Each property is in the message, or after it.
ShownOnce ==
  /\ DOMAIN toString.message = DOMAIN Names(messageTemplate)
  /\ \A i \in DOMAIN toString.message :
       LET name == Names(messageTemplate)[i] IN
         IF \E p \in Expected : p[1] = name
         THEN <<name, toString.message[i]>> \in Expected
         ELSE toString.message[i] = "{" \o name \o "}"
  /\ toString.rest = {p \in Expected : /\ p[1] # MessageTemplateProperty
                                      /\ p[1] \notin ToSet(Names(messageTemplate))}

\* However many threads read first, and in whatever order, a key is in all properties
\* once, and every property but the template and the extra values is that expected
\* from the order of the layers: the template and the exception overwrite the template
\* values, as the comments at :333 and :338 have it, and those the base properties.
\* So are they all, in order, and ToString shows each once, unless a ToString added to
\* the list of keys while another thread was still counting its values off
\* (StructuredData.EnsureAllProperties and EnsureToString).
PropertiesByPrecedence ==
  /\ allProperties # Null =>
       /\ KeysOnce(allProperties)
       /\ Sure(ToSet(allProperties)) = Sure(Expected)
       /\ ~shifted => AllExpected
  /\ toString # Null => shifted \/ ShownOnce
================================================================================
