CONSTANTS
  Repos = {r1}
  Workers = {w1, w2}
  Clients = {api}
  MaxJobs = 2
  RetryMaxAttempts = 2
  MaxStops = 1
  MaxCrashes = 1
  NoRepo = NoRepo
  NoWorker = NoWorker
SPECIFICATION FairSpec
INVARIANTS
  GitExclusion
  Custody
  RunningIsOwned
PROPERTIES
  ImplementsJobLifecycle
  Settles
