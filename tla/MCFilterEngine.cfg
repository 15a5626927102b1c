SPECIFICATION Spec
CONSTANTS
  None = None
  DatagramKey = DatagramKey
  first = first
  second = second
  x = x
  y = y
  a = a
  b = b
  Policies <- MCPolicies
  Identities <- MCIdentities
  Apps <- MCApps
  Revision <- MCRevision
  Entries <- MCEntries
  Families = {4}
  MaxLives = 2
  Budgets <- MCBudgets
CHECK_DEADLOCK FALSE
INVARIANTS
  EngineInvariant
PROPERTIES
  ReportsAreTrue
  ImplementsStore
