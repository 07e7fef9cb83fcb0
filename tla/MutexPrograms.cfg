SPECIFICATION FairSpec
CONSTANTS
  Readers = {r1, r2, r3}
  WRITER = w
  Threads = {r1, r2, r3, w}
  NoThread = NoThread
  Mutexes = {"resrc_mutex", "Nreader_count_mutex"}
  THREAD_NUM = 3
  RING_SIZE = 3
  MAX_SPURIOUS = 1
  TCOUNT = 10
  COUNT_LIMIT = 15
  UPDATE = 125
  MAX_WAKES = 2
INVARIANTS
  SomeReaderSignals
  BlockedWritesOnce
  SleepsOutsideOnlyIfMissed
  TurnsPassOrAreLost
  EndsOnlyByChance
PROPERTIES
  ReadersComplete
  BlockTakesEffect
  CancelledEndOrMutexIsLost
CHECK_DEADLOCK FALSE
