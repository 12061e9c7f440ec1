CONSTANTS
  c1 = c1
  c2 = c2
  r1 = r1
  r2 = r2
  Ids = {c1, c2}
  Requests = {r1, r2}
  Valid = {r1, r2}
  VehicleToken = {r1, r2}
  IdOf <- IdOfRequests
  KindOf <- KindOfRequests
  NoTimer = NoTimer
  MaxRetries = 2
  Attempts = 2
  Budget <- NoFaults
  Limits <- LimitsClient
SPECIFICATION PathSpec
PROPERTIES DeliveredIsWritten
CHECK_DEADLOCK FALSE
