SPECIFICATION FairSpec
CONSTANTS
  Versions <- TwoVersions
  Origins <- FromAny
  Edits <- AllEdits
  Faults <- MoreFaults
  MidFlight = TRUE
  Downtime = FALSE
  MaxEdits = 2
  MaxFaults = 2
INVARIANTS
  TypeOK
PROPERTIES
  UpgradeConverges
  DeletionEnds
  RevisionReported
  FollowsRelease
CHECK_DEADLOCK FALSE
