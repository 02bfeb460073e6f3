SPECIFICATION Spec
CONSTANTS
  Covered <- OneCovered
  Modes <- OneModes
  DeletablePhases <- BeforeFinalize
  DriftPhases <- AfterSnapshot
  PartialOutage = FALSE
  ClusterMayGo = TRUE
  Orphans = FALSE
  BornReadonly = FALSE
  UserAborts = FALSE
  Retriggers <- Never
INVARIANTS
  TypeOK
  NothingLost
  GuardWhileHalfMigrated
  LocksReleased
  SoleOwner
PROPERTIES
  AgentHandedOver
  KeepsContract
CHECK_DEADLOCK FALSE
