SPECIFICATION FairSpec
CONSTANTS
  None = None
  Sessions = {1, 2}
  Requests = {"first", "second"}
  Keys = {"group"}
  KeyOf <- MCKeyOf
  ProxyKeys = {"group"}
  MaxEntries = 1
  MaxPending = 1
  OutCapacity = 2
  Reserve = 1
  CoreCapacity = 1
  Budgets <- MCBudgets
CHECK_DEADLOCK FALSE
INVARIANTS
  SessionsInvariant
  AnswersOrDisconnects
PROPERTIES
  SessionsEnd
