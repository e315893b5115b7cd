\* Three threads, two mutexes of different names, suspend counts up to two.  All
\* threads may end, be suspended or wait for ever: the system may stop.
SPECIFICATION KernelSpec
CONSTANTS
  t1 = t1
  t2 = t2
  t3 = t3
  m1 = m1
  m2 = m2
  Threads = {t1, t2, t3}
  NoThread = NoThread
  Mutexes = {m1, m2}
  NoMutex = NoMutex
  Names = {m1, m2}
  NameOf <- BlockName
  MaxDepth = 2
  Nobody = Nobody
  MaxSuspend = 2
  Scenarios <- Few
INVARIANTS
  KernelTypeOK
  HeldMeansOwned
  OwnedMeansHeld
  StateAgrees
PROPERTIES
  ImplementsMutexes
CHECK_DEADLOCK FALSE
