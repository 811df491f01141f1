SPECIFICATION Spec
CONSTANTS
  Mail = {m1, m2, m3}
  Client = {c1, c2}
  MaxConnections = 2
  MaxExitChecks = 1
  Faults = {"connect"}
INVARIANT NoStrandedMail
CHECK_DEADLOCK FALSE
