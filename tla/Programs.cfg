SPECIFICATION Spec
CONSTANTS
  Q_DEFAULT_SIZE = 3
  Elems = {e1, e2}
  NULL = NULL
  MAX_STACK_SIZE = 3
  Nodes = {e1, e2}
  NoNode = NoNode
  Garbage = Garbage
  Data = {d1, d2, d3}
  MAX_LENGTH = 4
  TreeKeys = {1, 2, 3}
  MAX_NODES = 6
  Entries = {x1, x2, x3, x4}
  NIL = NIL
  Dests = {net1, net2, net3}
  Routes = {gw1, gw2}
  NoDest = NoDest
  NoRoute = NoRoute
  Processes = {p1, p2}
  MapKeys <- SomeMapKeys
  LookupKeys <- SomeLookupKeys
  Hollow = Hollow
  Zeros = Zeros
  Mixed = Mixed
  Nothing = Nothing
  MAX_ADDS = 2
  N_IPADDRESS = 2
  MAX_REGIONS = 2
  MAX_STARTS = 3
  NoRegion = NoRegion
  MAX_CLIENTS = 3
  max_clients = 2
  Listener = Listener
  NoSocket = NoSocket
  MAX_SENDS = 2
  MAX_ACCEPTS = 2
  MAX_FDS = 3
  NoFd = NoFd
  File = File
  Nobody = Nobody
  Me = me
  Others = {o1}
  NoToken = NoToken
  LIBRARY_TXT <- LibraryText
  COMMANDS_TXT <- CommandsText
  LibraryWords <- SomeLibraryWords
  SearchWords <- SomeSearchWords
  MAX_WORDS = 2
  MAX_VARIABLES = 3
  MAX_PIECES = 6
  MAX_DECLARED = 5
  LETTERS = 3
  CHARS = 4
  g1 = g1
  g2 = g2
  ROOT = ROOT
  Groups = {g1, g2}
  NoGroup = NoGroup
  CommandWords <- SomeCommandWords
  GroupWords <- SomeGroupWords
  MAX_SUBGROUPS = 2
  MAX_COMMANDS = 1
  TypedWords <- SomeTypedWords
  TypedNumbers <- SomeTypedNumbers
  LockMayFail = TRUE
  FileNames = {SKYLT, f}
  SKYLT = SKYLT
  Buffers <- SomeBuffers
  TestBuffer <- SomeTestBuffer
  Positions = {0, 1}
  Lengths = {0, 2}
  Hole = Hole
  NoContent = NoContent
  MaxHandles = 2
  FaultSets <- SomeFaultSets
  byte1 = byte1
  byte2 = byte2
  byte3 = byte3
INVARIANTS
  TestOkIsTrue
  WriteOkIsWholeUnlessShort
  HandlesReturned
  RegionExactUnlessRestarted
  ServesExactly
  OwnClientUnlessOvertaken
  WritesAndFindsRightly
  HelpFollowsTheList
  ExactUnlessOverrun
  RemovesEveryOther
  TreeFindsFirst
  OnlyTailsLeak
  FindsOwnUnlessRecreated
PROPERTIES
  ImplementsFifo
  ImplementsRouteMap
CHECK_DEADLOCK FALSE
