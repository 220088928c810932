SPECIFICATION FairSpec
CONSTANTS
  Sess = {s1, s2}
  Callers = {c1}
  Closers = {k1}
  Conn = conn
  Sup = sup
  None = none
  DrainWaits = TRUE
  KillsTransport = FALSE
  Reconnects = TRUE
PROPERTIES
  CloseFinishes
  Reconnected
CHECK_DEADLOCK FALSE
