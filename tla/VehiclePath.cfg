CONSTANTS
  MaxResubscribes = 1
  Budget <- BudgetLocking
  MaxAttempts = 2
  Messages <- TestMessages
  MaxFaults = 2
  Limits <- LimitsClient
SPECIFICATION FairPath
INVARIANTS TelemetryIsCurrent CloudSeesTheLock
PROPERTIES RelayInOrder LastAnswerRelayed
CHECK_DEADLOCK FALSE
