SPECIFICATION TeardownSpec
CONSTANTS
  Subs <- Agent
  MaxEdits = 1
  MaxRuns = 1
  PartialOutage = FALSE
PROPERTY ReleasePreserved
CHECK_DEADLOCK FALSE
