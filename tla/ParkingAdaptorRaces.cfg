CONSTANTS
  c1 = c1
  c2 = c2
  Callers = {c1, c2}
  NoCaller = NoCaller
  QueueCap = 1
  MaxRetries = 1
  RateKeys = {"type", "rate_type"}
  Budget <- BudgetRaces
SPECIFICATION FairSpec
INVARIANTS StartReplyNotOlder StoppedMeansStopped
PROPERTIES EveryCallEnds ShutdownEnds FollowsWhenCalm
