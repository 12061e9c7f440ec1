CONSTANTS
  MaxResubscribes = 1
  Budget <- BudgetFaults
SPECIFICATION FairSpec
INVARIANTS StateIsPublished AttemptsRestored
PROPERTIES LocksNoUnsafeVehicle AnswersInOrder LastCommandAnswered ShutdownEnds
CHECK_DEADLOCK FALSE
