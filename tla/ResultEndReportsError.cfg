SPECIFICATION Spec
CONSTANTS
  Completer = {c1}
  Waiter = {}
  Ender = ender
  Null = Null
INVARIANT EndReportsError
CHECK_DEADLOCK FALSE
