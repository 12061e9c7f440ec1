SPECIFICATION Spec
CONSTANTS
  a1 = a1  a2 = a2  a3 = a3  i1 = i1  i2 = i2  i3 = i3  j1 = j1  j2 = j2  j3 = j3
  Adapters <- Ids3
  Images <- Refs3
  AdapterOf <- IdOf3
  Jobs <- ThreeJobs
  ImageOf <- Once3
  Matching = {j1, j2}
  Removals = {r1}
  Offloader = offloader
  Nobody = nobody
  ClientsWait = TRUE
  MaxFailures = 1
  MaxCrashes = 0
INVARIANTS SingleRunning NoStrayContainers
