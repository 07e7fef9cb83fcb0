SPECIFICATION RwSpec
CONSTANTS
  Readers = {r1, r2, r3}
  WRITER = w
  Threads = {r1, r2, r3, w}
  NoThread = NoThread
  Mutexes <- MCMutexes
INVARIANTS
  WriterExcludesReaders
CHECK_DEADLOCK FALSE
