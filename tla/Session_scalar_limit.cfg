\* More scalar counters than slots: the guard of the UDT variant is missing.
CONSTANTS
  t1 = t1  t2 = t2  temp = temp  pose = pose  gyro = gyro
  Threads <- OneThread
  Counters <- TwoScalars
  UdtFeeds <- NoFeeds
  Faults <- NoFaults
  Capacity = 1
  QueueMax = 100
  MaxSlots = 2
  MaxCalls = 2
  MaxRemote = 0
SPECIFICATION Spec
INVARIANTS
  NeverReallocates
