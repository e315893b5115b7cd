\* Two threads that contend for the critical section, with fairness, while the tick
\* counter reaches its greatest value and wraps.
SPECIFICATION FairSpec
CONSTANTS
  f1 = f1
  f2 = f2
  Flags = {f1, f2}
  ULONG_MAX = 2
  LastTick = 2
  Threads = {t1, t2}
  NoThread = NoThread
  Requests <- MixedRequests
INVARIANTS
  TypeOK
  CopyIsFresh
  SuccessMeansSatisfied
  ForeverGetIsGranted
PROPERTIES
  ImplementsAtomicFlags
  StandingFlagsAreSeen
  NonWaitingCallsReturn
