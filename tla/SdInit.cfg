SPECIFICATION FairSpec
CONSTANTS
  Kinds = {"SD1", "SD2", "SDHC"}
  MaxTries = 3
  FaultSets <- MCFaultSets
  BoardFaults <- AllBoardFaults
  Client = TRUE
INVARIANTS
  CardIsAsReported
  StaleFlagIsFromInit
PROPERTIES
  InitReturns
