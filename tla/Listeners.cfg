SPECIFICATION MCSpec
CONSTANTS
  Trace = {t1, t2, t3}
  Sender = {s1}
  Exit = exit
  MaxConnections = 1
  MailMayFail = TRUE
  None = None
  Limits = {0, 1, 2}
  Hour = 2
  MaxDelay = 1
  MaxClock = 5
  Proc = {p1, p2}
  MaxStreamRetries = 2
  MaxPeriod = 2
SYMMETRY MCSymmetry
VIEW MCView
INVARIANTS MailedOnce ExitAwaitsMails FloodBounded DroppedOnlyInFlood
INVARIANTS FiledOnce RightFile FlushedSurvives RefusedOnlyIfClosed
CHECK_DEADLOCK FALSE
