CONSTANTS
  c1 = c1
  c2 = c2
  Callers = {c1}
  NoCaller = NoCaller
  QueueCap = 1
  MaxRetries = 1
  RateKeys = {"type", "rate_type"}
  Budget <- BudgetFaults
SPECIFICATION Spec
INVARIANTS OrphansExplained HeldSessionIsBilled SignalFollowsSession
PROPERTY ImplementsBilling
