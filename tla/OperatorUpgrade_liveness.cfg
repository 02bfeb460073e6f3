SPECIFICATION FairSpec
CONSTANTS
  Versions <- TwoVersions
  Installed <- Upgraded
  Faults <- AllFaults
  MaxRequests = 1
  MaxDirect = 1
  MaxFaults = 1
PROPERTIES
  UpgradeEnds
  RevisionReported
  ActionsAnswered
CHECK_DEADLOCK FALSE
