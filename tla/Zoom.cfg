SPECIFICATION MCSpec
CONSTANTS
  s1 = s1
  s2 = s2
  c1 = c1
  Sessions <- TwoSessions
  Clients <- OneClient
  Feeds <- SomeFeeds
  None = None
  Off = Off
  MaxRecords = 2
  RingCap = 1
  MaxPoints = 3
  Margin = 2
  StartKnown = {s1}
  Scans <- Scan
  MaxScans = 1
  Growing = {"nav"}
  SeekTimes = {3}
  MaxCommands = 2
INVARIANTS
  ShownIsSelected
PROPERTIES
  OfflineLoads
CHECK_DEADLOCK FALSE
