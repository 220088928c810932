SPECIFICATION Spec
CONSTANTS
  Columns = 2
  Word = 64
  Boxes <- MCBoxes
  Coords <- MCCoords
  MaxPanels = 3
  MaxRows = 2
  MaxOps = 6
  MaxFaults = 1
  Auto = auto
  Gone = gone
  Torn = torn
CONSTRAINT Scenes
INVARIANT IdsNameOnePanel
INVARIANT NoOverlap
INVARIANT ExportStacks
INVARIANT ReimportIsFaithful
CHECK_DEADLOCK FALSE
