\* One flow, two keys, replies out of order, doubled and in batches of two.
SPECIFICATION Spec
CONSTANTS
  None = None
  Flows = {f1}
  Keys = {k1, k2}
  Numbers <- NumbersUpTo3
  WindowSize = 2
  MaxFlows = 1
  MaxInFlight = 2
  MaxRecords = 2
  MaxGeneration = 2
SYMMETRY Symmetry
INVARIANTS
  PathInvariant
  RepliesOnce
PROPERTIES
  CaptureOfLease
