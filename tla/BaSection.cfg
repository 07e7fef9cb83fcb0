SPECIFICATION FairSpec
CONSTANTS
  Threads = {t1, t2, t3}
  NoThread = NoThread
  Mutexes <- MCMutexes
  LIMIT_BARRIER = 2
  POOL_SIZE = 3
INVARIANTS
  SomeoneRuns
  PoolAddSucceeds
PROPERTIES
  ImplementsSemaphore
  SectionIsUsed
