SPECIFICATION FairSpec
CONSTANTS
  Subs <- Agent
  MaxEdits = 2
  PartialOutage = FALSE
INVARIANTS TypeOK NotBothByOperator
PROPERTIES Adopted PutAside
CHECK_DEADLOCK FALSE
