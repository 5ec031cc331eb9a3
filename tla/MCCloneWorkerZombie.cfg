CONSTANTS
  Repos = {r1}
  Workers = {w1, w2}
  Clients = {api}
  MaxJobs = 1
  RetryMaxAttempts = 2
  MaxStops = 0
  MaxCrashes = 1
  NoRepo = NoRepo
  NoWorker = NoWorker
SPECIFICATION FairSpec
PROPERTY
  RunningEnds
