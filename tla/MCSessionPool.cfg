SPECIFICATION FairSpec
CONSTANTS
  Ids = {i1, i2}
  Clients = {c1, c2}
  Execs = {e1}
  Pings = {p1}
  Savers = {v1}
  Probed = TRUE
  None = None
  execClient = c1
  execId = i1
CONSTRAINT Scenes
INVARIANT NoOrphan
INVARIANT EndedCommandIsTidy
PROPERTY DropsOnlyLost
PROPERTY LossIsNoticed
PROPERTY ShutdownClosesAll
PROPERTY ExecAnswers
CHECK_DEADLOCK FALSE
