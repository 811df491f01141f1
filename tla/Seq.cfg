SPECIFICATION FairSpec
CONSTANTS
  Message = {m1, m2, m3}
  Worker = {w1, w2}
  BatchSizes = {0, 1, 2}
  MaxQueueSize = 2
  MaxRetries = 1
  BatchTimeout = 1
INVARIANTS SingleWorker NoStrandedMessage FirstMessageImmediate AttemptsBounded
PROPERTIES ImplementsDelivery EventuallySettled EventuallyIdle
