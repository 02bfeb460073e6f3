SPECIFICATION Spec
CONSTANTS
  Versions <- ThreeVersions
  Origins <- FromAny
  Edits <- SpecEdits
  Faults <- Tolerated
  MidFlight = FALSE
  Downtime = FALSE
  MaxEdits = 3
  MaxFaults = 2
INVARIANTS
  SettledIsDeployed
  ValuesReachHelm
  NoPhantomReport
  NoOrphanRelease
PROPERTIES
  RestoresLastDeployed
CHECK_DEADLOCK FALSE
