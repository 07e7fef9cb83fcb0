SPECIFICATION Spec
CONSTANTS
  Tasks = {t1}
  NoTask = NoTask
  Buses <- BothBuses
  BLOCK_SIZE = 512
  NSectors = 2
  UINT32 = 16
  Lengths <- AllLengths
  Values = {"a"}
  Ops <- AllOps
  CardFaults <- AllFaults
  AllocFails = TRUE
INVARIANTS
  OkMeansDone
  ReturnsClean
CHECK_DEADLOCK FALSE
