SPECIFICATION ScopesSpec
CONSTANTS
  Flow = {r, g}
  Root = r
  ScopeKinds = {"data"}
  MaxId = 2
  NoFlow = NoFlow
INVARIANT StackPreserved
CHECK_DEADLOCK FALSE
