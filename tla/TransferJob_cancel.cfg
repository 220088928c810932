SPECIFICATION Spec
CONSTANTS
  Kinds = {"upload", "source", "download", "sink"}
  Probed = TRUE
INVARIANT CompletedMeansDelivered
CHECK_DEADLOCK FALSE
