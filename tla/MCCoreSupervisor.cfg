SPECIFICATION FairSpec
CONSTANTS
  CommandCapacity = 1
  MaxCrashRetries = 1
  Backends = {"helper", "local"}
  Budgets <- MCBudgets
CHECK_DEADLOCK FALSE
INVARIANTS
  SupervisorInvariant
  StoppedIsGone
  ServiceStopIsFinal
PROPERTIES
  SupervisorSettles
