SPECIFICATION MCSpec
CONSTANTS
  Limits = {0, 1, 2, 3}
  MaxWrites = 8
  Null = Null
  Templates <- MCTemplates
  Known <- MCKnown
  NoFormat = Null
  DataThread = {d1, d2}
  Key = {"a", "MessageTemplate"}
  Bases <- MCBases
  NamesIn <- MCNamesIn
  Invalid = {"Bad"}
  ValueLists <- MCValueLists
  Exceptions = {"ex", Null}
  Calls <- MCCalls
  Stacks <- MCStacks
  NoObject = Null
  Flow = {r, g, h}
  Root = r
  ScopeKinds = {"activity", "logical", "data"}
  NoFlow = Null
  MaxId = 3
  MaxLength = 4
  Thread = {t1, t2}
  MaxCalls = 3
  MaxCallDepth = 2
  Listener = {out}
  ErrorListener = {err}
  NoThread = Null
  Settings <- MCSettings
  Value <- MCValues
  Graphs <- MCGraphs
  MaxDepth = 6
  Handler = {h1, h2}
  MaxVersions = 3
INVARIANTS GetsLastTraces FormatsAsWritten PropertiesByPrecedence
INVARIANTS StackPreservedUnlessEarly ActivityOfInnermost TracedInside
INVARIANTS ColourIsReset LinesWholeAndColoured NestingBounded
INVARIANTS ReadsBack PayloadAsTraced  ChangesAreLoaded
CHECK_DEADLOCK FALSE
