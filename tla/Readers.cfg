\* A scan of one partition with two sessions, of two with four records. Two windows and two writes
\* of annotations on a topic that is not compacted; one window, reopened and reinitialised, and
\* three writes over two seconds on a topic that is.
CONSTANTS
  s1 = s1  s2 = s2  pose = pose  vec = vec  vec2 = vec2
  Sessions <- TwoSessions
  Schemas <- ThreeTexts
  HashOrder <- PoseFirst
  TypeName <- Names
  Embeds <- Embedded
  Feed <- Feeds
  MaxParts = 2
  MaxSpread = 4
  w1 = w1  w2 = w2
  Windows <- TwoWindows
  Compaction = TRUE
  MaxClock = 1
  MaxAdds = 1
  MaxWrites = 3
  MaxOpens = 3
  MaxPend = 2
SPECIFICATION ReadersSpec
SYMMETRY WindowSymmetry
INVARIANTS
  ScanExact
  FeedsDecoded
  ChangesKnown
PROPERTIES
  DeletedStays
CHECK_DEADLOCK FALSE
