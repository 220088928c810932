SPECIFICATION UploadSpec
CONSTANTS
  Kinds = {"upload", "source", "download", "sink"}
  Probed = TRUE
  Slots = {w1, w2}
  Chunks = 2
INVARIANT CompletedIsWhole
INVARIANT FirstCauseWins
INVARIANT LeavesNothing
INVARIANT CountsAcknowledged
PROPERTY ImplementsJob
PROPERTY StalledEnds
CHECK_DEADLOCK FALSE
