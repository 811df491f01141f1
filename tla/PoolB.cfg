SPECIFICATION FairSpec
CONSTANTS
  Mail = {m1, m2, m3}
  Thread = {t1, t2, t3}
  MaxConnections = 2
  MaxExitChecks = 1
  Faults = {"new", "complete"}
INVARIANTS StrandedOnlyByFault
PROPERTIES ImplementsMailPool EventuallyCompleted EventuallyNoThread
CHECK_DEADLOCK FALSE
