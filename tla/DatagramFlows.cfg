\* Two flows that compete for one slot, with every step of the empty event.
SPECIFICATION FairSpec
CONSTANTS
  None = None
  Flows = {f1, f2}
  Keys = {k1}
  Numbers = {1}
  WindowSize = 1
  MaxFlows = 1
  MaxInFlight = 0
  MaxRecords = 0
  MaxGeneration = 1
INVARIANTS
  SlotsCounted
PROPERTIES
  RequestsEnd
