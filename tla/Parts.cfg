\* Two threads race for the first use of a call site; four inputs to a list of four counters, one
\* of them late, with two panels; four inputs to the view of three log records.
CONSTANTS
  t1 = t1  t2 = t2  s1 = s1  ca = ca  cb = cb  cc = cc  cd = cd
  Parts <- AllParts
  Threads <- TwoThreads
  Sites <- OneSite
  Stamps <- Stamps12
  QueueMax = 5
  MaxCalls = 2
  MaxRecords = 4
  MaxPending = 2
  Counters <- FourCounters
  FirstKnown <- ThreeCounters
  Group <- Groups12
  Path <- FolderOfAC
  NoFolder = ""
  Reg <- Ranges
  Custom <- Typed
  MaxPanels = 2
  MaxListInputs = 4
  Entries <- ThreeEntries
  Window = 8
  MaxLive = 8
  MinLive = 2
  MinSpan = 2
  PerNeighbour = 1
  MinResolve = 2
  Lonely = 5
  WarnHide = 12
  Late = 14
  MaxViewInputs = 4
  Channels <- TwoChannels  DefaultChannel = "default"  FacadeCounters <- CounterAndFeed
  Feeds <- OneFeed  ChannelOf <- OwnAndDefault  NoHandle = NoHandle
  Starts <- GivenTwice  MaxFirst = 3  MaxFailures = 1
SPECIFICATION PartsSpec
SYMMETRY ThreadSymmetry
INVARIANTS
  LogComplete
  TimeSorted
  PlaceholderMeansUnknown
  PlotFollowsTree
  PanelsShowAll
  ViewAsAsked
  RowClickSeen
  FirstUseSettles
CHECK_DEADLOCK FALSE
