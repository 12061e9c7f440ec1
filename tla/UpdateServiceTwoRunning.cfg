SPECIFICATION Spec
CONSTANTS
  a1 = a1  a2 = a2  a3 = a3  i1 = i1  i2 = i2  i3 = i3  j1 = j1  j2 = j2  j3 = j3
  Adapters <- Ids
  Images <- Refs
  AdapterOf <- IdOf
  Jobs <- TwoJobs
  ImageOf <- Once
  Matching = {j1, j2}
  Removals = {}
  Offloader = offloader
  Nobody = nobody
  ClientsWait = FALSE
  MaxFailures = 0
  MaxCrashes = 0
INVARIANTS SingleRunning
