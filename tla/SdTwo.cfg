SPECIFICATION FairSpec
CONSTANTS
  Tasks = {t1, t2}
  NoTask = NoTask
  Buses <- BitBanged
  BLOCK_SIZE = 512
  NSectors = 1
  UINT32 = 3
  Lengths <- OneBlock
  Values = {"a"}
  Ops <- SharedOps
  CardFaults <- AllFaults
  AllocFails = FALSE
INVARIANTS
  BufferIsOwn
  LockOwned
  DeselectedWhenIdle
  OkMeansDone
PROPERTIES
  CallsReturn
