SPECIFICATION FairSpec
CONSTANTS
  Completer = {c1, c2}
  Waiter = {w1}
  Ender = ender
  Null = Null
INVARIANTS NoLostWakeup CallbackOnce EndAfterCompletion
PROPERTY EndTerminates
CHECK_DEADLOCK FALSE
