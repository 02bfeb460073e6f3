SPECIFICATION Spec
CONSTANTS
  Versions <- TwoVersions
  Installed <- FreshOrNot
  Faults <- InJobs
  MaxRequests = 2
  MaxDirect = 0
  MaxFaults = 2
INVARIANTS
  TypeOK
  NoPhantomReport
  LeftDeployed
PROPERTIES
  FailureUndone
CHECK_DEADLOCK FALSE
