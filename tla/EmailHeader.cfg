SPECIFICATION BufferedSpec
CONSTANTS
  Trace = {t1, t2}
  Sender = {s1}
  Exit = exit
  MaxConnections = 1
  MailMayFail = FALSE
  None = None
INVARIANT HeaderOfFirst
CHECK_DEADLOCK FALSE
