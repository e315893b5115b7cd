\* A get that does not wait takes its flags and reports TX_NO_EVENTS; the tick counter
\* stays below its greatest value.
SPECIFICATION Spec
CONSTANTS
  f1 = f1
  f2 = f2
  Flags = {f1, f2}
  ULONG_MAX = 2
  LastTick = 1
  Threads = {t1, t2}
  NoThread = NoThread
  Requests <- MixedRequests
INVARIANTS
  TakenMeansSuccess
