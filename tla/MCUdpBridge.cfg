SPECIFICATION FairSpec
CONSTANTS
  None = None
  Flows = {f1, f2}
  Ids = {1, 2, 3}
  Buffers = 2
  Limit = 1
  Records = 2
  Sizes = {1, 2}
  Space = 3
  Budgets <- MCBudgets
CHECK_DEADLOCK FALSE
INVARIANTS
  BridgeInvariant
  ReplyReachesItsFlow
  OnlyIdleFlowsRepeat
  OnlyDisturbancesEndTheBridge
PROPERTIES
  BridgeEnds
