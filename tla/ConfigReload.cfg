SPECIFICATION FairSpec
CONSTANTS
  a = a
  b = b
  key = key
  Names = {a, b}
  Contents <- AllContents
  Boot <- Start
  Gone = gone
  None = none
  Polls = TRUE
  Budgets <- EditsOrSignals
INVARIANTS
  RunsWhatIsConfigured
PROPERTIES
  KeepsUnchanged
  SettledIsApplied
  SignalIsServed
CHECK_DEADLOCK FALSE
