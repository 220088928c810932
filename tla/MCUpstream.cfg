SPECIFICATION Spec
CONSTANTS
  Sess = {s1, s2, s3}
  Callers = {c1, c2}
  Closers = {k1, k2}
  Conn = conn
  Sup = sup
  None = none
  DrainWaits = TRUE
  KillsTransport = TRUE
  Reconnects = TRUE
INVARIANTS
  InflightCountsClaims
  OneOwner
  NoLeakAfterClose
  TeardownIsOrderly
CHECK_DEADLOCK FALSE
SYMMETRY Symmetry
