CONSTANTS
  c1 = c1
  c2 = c2
  c3 = c3
  k1 = k1
  k2 = k2
  m1 = m1
  m2 = m2
  m3 = m3
  Callers <- MCCallers
  Keys <- MCKeys
  Mutexes <- MCMutexes
  NoMutex = NoMutex
  NoCaller = NoCaller
SPECIFICATION FairSpec
INVARIANT NoLeakedEntry
PROPERTIES
  ImplementsKeyedLock
  LockIsGranted
