\* One fault anywhere against an apply, a migration, a clear or a health check.
SPECIFICATION MCFairSpec
CONSTANTS
  None = None
  p1 = p1
  p2 = p2
  Policies = {p1, p2}
  Revision <- MCRevision
  Proxied = {p1, p2}
  MaxAttempts = 2
  StrictBudgets <- MCBudgets
CHECK_DEADLOCK FALSE
INVARIANTS
  AgentInvariant
  ArmedIsWatched
PROPERTIES
  WorkEnds
  AgentRecovers
