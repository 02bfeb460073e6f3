SPECIFICATION Phase1FairSpec
CONSTANTS
  Covered <- NoCovered
  Modes <- NoModes
  DeletablePhases <- Phases
  DriftPhases <- Never
  PartialOutage = TRUE
  ClusterMayGo = FALSE
  Orphans = FALSE
  BornReadonly = TRUE
  UserAborts = TRUE
  Retriggers <- AfterSuccess
PROPERTIES
  Settles
  DeletionCompletes
CHECK_DEADLOCK FALSE
