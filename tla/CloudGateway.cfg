CONSTANTS
  c1 = c1
  c2 = c2
  r1 = r1
  r2 = r2
  r3 = r3
  Ids = {c1, c2}
  Requests = {r1, r2, r3}
  Valid = {r1, r2}
  IdOf <- IdOfRequests
  NoTimer = NoTimer
  MaxRetries = 2
  Budget <- BudgetFaults
SPECIFICATION FairSpec
INVARIANTS TimersAreLive UndecidedIsTimed
PROPERTIES AnswerStands SubmissionDecided ImplementsLedger
CHECK_DEADLOCK FALSE
