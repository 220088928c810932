SPECIFICATION Spec
CONSTANTS
  Sessions = {s1}
  MaxPrompts = 3
  MaxCrashes = 2
INVARIANTS RunningHasRunner FileAgrees DoneIsAnswered

CHECK_DEADLOCK FALSE
