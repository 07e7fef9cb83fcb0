SPECIFICATION Spec
CONSTANTS
  Kinds = {"SD1", "SD2", "SDHC"}
  MaxTries = 3
  FaultSets <- NoFaults
  BoardFaults <- NoBoardFaults
  Client = FALSE
INVARIANTS
  TypeIsKind
CHECK_DEADLOCK FALSE
