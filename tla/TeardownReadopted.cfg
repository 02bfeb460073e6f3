SPECIFICATION TeardownSpec
CONSTANTS
  Subs <- Agent
  MaxEdits = 0
  MaxRuns = 1
  PartialOutage = FALSE
PROPERTY UmbrellaPreserved
CHECK_DEADLOCK FALSE
