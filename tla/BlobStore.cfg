SPECIFICATION FairSpec
CONSTANTS
  Stored = {b1, b2}
  Attached = {a1}
  Readers = {r1}
  MaxTime = 2
  MaxRuns = 2
  None = None
INVARIANTS ServesWhole NoStrayFile
PROPERTIES AttachedStay ExpiredLeaves
CHECK_DEADLOCK FALSE
