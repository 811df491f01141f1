SPECIFICATION FairSpec
CONSTANTS
  Mail = {m1, m2, m3, m4}
  Client = {c1, c2, c3}
  MaxConnections = 2
  MaxExitChecks = 1
  Faults = {"new", "connect", "complete"}
INVARIANTS StrandedOnlyByFault DrainedMeansDone
PROPERTIES ImplementsMailPool EventuallyCompleted
CHECK_DEADLOCK FALSE
