\* The first calls of the kv8log facade alone.
CONSTANTS
  t1 = t1  t2 = t2  s1 = s1  ca = ca  cb = cb  cc = cc  cd = cd
  Parts <- FirstOnly
  Threads <- TwoThreads
  Sites <- OneSite
  Stamps <- Stamps12
  QueueMax = 5
  MaxCalls = 2
  MaxRecords = 4
  MaxPending = 2
  Counters <- FourCounters
  FirstKnown <- ThreeCounters
  Group <- Groups12
  Path <- FolderOfAC
  NoFolder = ""
  Reg <- Ranges
  Custom <- Typed
  MaxPanels = 2
  MaxListInputs = 4
  Entries <- ThreeEntries
  Window = 8
  MaxLive = 8
  MinLive = 2
  MinSpan = 2
  PerNeighbour = 1
  MinResolve = 2
  Lonely = 5
  WarnHide = 12
  Late = 14
  MaxViewInputs = 4
  Channels <- TwoChannels  DefaultChannel = "default"  FacadeCounters <- CounterAndFeed
  Feeds <- OneFeed  ChannelOf <- OwnAndDefault  NoHandle = NoHandle
  Starts <- GivenTwice  MaxFirst = 3  MaxFailures = 1
SPECIFICATION PartsSpec
INVARIANTS
  CommandLineFirst
CHECK_DEADLOCK FALSE
