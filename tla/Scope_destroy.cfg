\* The window is closed during a reinitialisation.
CONSTANTS
  a = a  b = b
  Counters <- OneCounter
  FirstKnown <- OneCounter
  RingCap = 1
  MaxSamples = 1
  MaxLog = 0
  MaxCtl = 0
  MaxUpdates = 1
SPECIFICATION Spec
INVARIANTS
  StoresOutliveThreads
CHECK_DEADLOCK FALSE
