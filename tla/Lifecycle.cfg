\* Two sessions with one counter each; a beat every tick, one tick to the broker.
CONSTANTS
  s1 = s1
  s2 = s2
  c1 = c1
  Sessions <- TwoSessions
  Counters <- OneCounter
  Interval = 1
  MaxDelay = 0
  LiveAge = 2
  DeadAge = 3
  QuickAge = 3
  ProbeTicks = 1
  MaxQueue = 1
  MaxFaults = 1
SPECIFICATION MCSpec
INVARIANTS
  StatusHonest
  DeletionLeavesNothing
PROPERTIES
  StatusSettles
CHECK_DEADLOCK FALSE
