SPECIFICATION FairSpec
CONSTANTS
  id1 = id1
  id2 = id2
  IDs <- TwoIDs
  AgentID = id1
  Absent = Absent
  Empty = Empty
  NoTarget = NoTarget
  Faults <- AllFaults
  Budgets <- SomeOfEach
  BatchSize = 2
INVARIANTS TypeOK OneIdentity NoEntryLost
PROPERTIES AvailabilityFollowsKey EntriesShipped
CHECK_DEADLOCK FALSE
