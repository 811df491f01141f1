SPECIFICATION Spec
CONSTANTS
  Message = {m1}
  Worker = {w1}
  BatchSizes = {1}
  MaxQueueSize = 1
  MaxRetries = 2
  BatchTimeout = 0
INVARIANT AttemptsBounded
CHECK_DEADLOCK FALSE
