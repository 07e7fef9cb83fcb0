SPECIFICATION FairSpec
CONSTANTS
  PRODUCER = producer
  CONSUMER = consumer
  Threads = {producer, consumer}
  NoThread = NoThread
  Mutexes <- MCMutexes
  RESOURCE_UNITS = 3
INVARIANTS
  StuckOnlyAtLimit
PROPERTIES
  ImplementsBoundedBuffer
  SleeperResumed
