\* Two threads, a scalar counter and a UDT feed, one slot reserved: the second
\* registration is beyond it. Every thread makes one call.
CONSTANTS
  t1 = t1  t2 = t2  temp = temp  pose = pose  gyro = gyro
  Threads <- TwoThreads
  Counters <- ScalarAndUdt
  UdtFeeds <- Pose
  Faults <- NoFaults
  Capacity = 1
  QueueMax = 100
  MaxSlots = 2
  MaxCalls = 1
  MaxRemote = 1
SPECIFICATION FairSpec
INVARIANTS
  DiscoverableBeforeData
  CtlTopicBeforeAnnouncement
  SlotsNotShared
  SamplesAccounted
  CommandsNameKnownCounters
  EnabledAgreesWithCtl
PROPERTIES
  CallsReturn
  EnabledSettles
