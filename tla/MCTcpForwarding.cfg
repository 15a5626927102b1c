SPECIFICATION FairSpec
CONSTANTS
  None = None
  Connections = {c1, c2}
  Workers = 2
  Budgets <- MCBudgets
CHECK_DEADLOCK FALSE
INVARIANTS
  ForwardingInvariant
PROPERTIES
  TeardownCompletes
  DeadCoreClosesAdmission
