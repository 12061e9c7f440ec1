SPECIFICATION FairSpec
CONSTANTS
  a1 = a1  a2 = a2  a3 = a3  i1 = i1  i2 = i2  i3 = i3  j1 = j1  j2 = j2  j3 = j3
  Adapters = {a1}
  Images = {i1}
  AdapterOf <- OnlyId
  Jobs <- TwoJobs
  ImageOf <- Twice
  Matching = {j1, j2}
  Removals = {r1}
  Offloader = offloader
  Nobody = nobody
  ClientsWait = FALSE
  MaxFailures = 1
  MaxCrashes = 1
INVARIANTS InstallingIsAttended OffloadingIsAttended RunningIsWatched
PROPERTIES Settles EndIsNoticed IdleIsOffloaded
