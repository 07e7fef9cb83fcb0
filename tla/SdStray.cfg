SPECIFICATION Spec
CONSTANTS
  Tasks = {t1, t2}
  NoTask = NoTask
  Buses <- BitBanged
  BLOCK_SIZE = 512
  NSectors = 2
  UINT32 = 16
  Lengths <- OneBlock
  Values = {"a"}
  Ops <- DataOps
  CardFaults <- AllFaults
  AllocFails = FALSE
INVARIANTS
  OkWriteIsStored
