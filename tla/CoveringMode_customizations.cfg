SPECIFICATION Spec
CONSTANTS
  Standalone <- TwoIndividuals
  UserValues <- OnlyUnset
  Custom <- TwoIndividuals
  LateEdits = FALSE
  Legacy <- OnlyNew
INVARIANT CustomizationsKept
CHECK_DEADLOCK FALSE
