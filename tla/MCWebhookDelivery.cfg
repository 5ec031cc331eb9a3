CONSTANTS
  e1 = e1
  t1 = t1
  h1 = h1
  Jobs <- MCJobs
  Tests <- MCTests
  Hooks <- MCHooks
  HookOf <- MCHookOf
  Workers = {w1, w2}
  QueueCap = 1
  Attempts = 2
  MaxEdits = 2
  MaxLost = 1
  NoJob = NoJob
SPECIFICATION FairSpec
CHECK_DEADLOCK FALSE
INVARIANTS
  CountedOnce
  NothingPendingAfterStop
  NoLateRetry
PROPERTY Settles
