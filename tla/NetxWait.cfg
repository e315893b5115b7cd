\* One thread waits in NetX and another one wakes it.  Both may wait: the system may stop.
SPECIFICATION NetxSpec
CONSTANTS
  Threads = {t1, t2}
  Nobody = Nobody
  MaxSuspend = 2
INVARIANTS
  WokenThreadRuns
CHECK_DEADLOCK FALSE
