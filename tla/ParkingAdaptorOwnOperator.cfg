CONSTANTS
  c1 = c1
  c2 = c2
  Callers = {}
  NoCaller = NoCaller
  QueueCap = 1
  MaxRetries = 1
  RateKeys = {"rate_type"}
  Budget <- BudgetLocks
SPECIFICATION FairSpec
PROPERTY FollowsLock
