\* A counter appears after the window was opened, MetaUpdated twice; three commands, the
\* user's and others'.
CONSTANTS
  a = a  b = b
  Counters <- OneCounter
  FirstKnown <- NoCounter
  RingCap = 1
  MaxSamples = 2
  MaxLog = 1
  MaxCtl = 3
  MaxUpdates = 2
SPECIFICATION MCSpec
INVARIANTS
  ReadIsShown
  HandedOver
  GraphAndCount
  LateCommandsApply
PROPERTIES
  LogRecordsShown
  StopsComplete
CHECK_DEADLOCK FALSE
