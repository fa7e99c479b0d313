\* kv8scope: four slots, nine samples, the indices wrap twice. kv8zoom: four slots, three of
\* them usable, seven frames and two session switches. kv8bench: runs of two samples by count
\* and of up to three by duration, one more than the bitmap has room for, with two faults.
\* kv8probe: nine samples while the numbers wrap at six, with three faults.
CONSTANTS
  Capacity = 4
  MaxBatch = 3
  MaxItems = 9
  N = 4
  MaxFrames = 7
  MaxResets = 2
  Count = 2
  BenchCapacity = 2
  MaxSent = 3
  BenchQueue = 1
  BenchFaults = 2
  Samples = 9
  Wrap = 6
  ProbeQueue = 2
  ProbeFaults = 3
SPECIFICATION PairsSpec
INVARIANTS
  NoTornCopy
  ReportsExact
  ChecksExact
PROPERTIES
  ImplementsFifo
  AllDrained
  FixedImplementsFifo
