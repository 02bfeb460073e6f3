SPECIFICATION Spec
CONSTANTS
  Standalone <- EveryKind
  UserValues <- Choices
  Custom <- NoneCustom
  LateEdits = FALSE
  Legacy <- OldOrNew
INVARIANTS NothingDropped MinimalMode GateCoversInstall PermissionsSuffice
CHECK_DEADLOCK FALSE
