CONSTANTS
  Jobs = {1, 2, 3, 4}
  Callers = {api, timer}
  Workers = {w1}
  QueueCap = 1
  NoJob = NoJob
  MaxPushes = 2
  MaxMishaps = 2
  Requests = {q1}
  ServerJobs = {j1, j2}
  MaxStarts = 3
SPECIFICATION MCSpec
CHECK_DEADLOCK FALSE
INVARIANTS
  NoLostWakeup
  CarriedIsOnItsWay
  WorkFindsItsServices
PROPERTIES
  ImplementsFifoQueue
  WorkArrives
