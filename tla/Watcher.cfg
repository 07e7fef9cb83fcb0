SPECIFICATION WatchFairSpec
CONSTANTS
  TCOUNT = 10
  COUNT_LIMIT = 15
  UPDATE = 125
  MAX_WAKES = 2
PROPERTY WatcherEnds
CHECK_DEADLOCK FALSE
