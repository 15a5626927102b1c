SPECIFICATION FairSpec
CONSTANTS
  Workers = 3
  Capacity = 2
  MaxSessions = 2
  Budgets <- MCBudgets
CHECK_DEADLOCK FALSE
INVARIANTS
  HostInvariant
  StaleCommandsNeverRun
  AnswersKeepTheirOrder
PROPERTIES
  StopCompletes
  DeadEngineEndsTheService
