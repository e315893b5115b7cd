\* Two threads and two semaphores with names of their own, at most one token.
\* Both threads may wait for ever on empty semaphores: the system may stop.
SPECIFICATION Spec
CONSTANTS
  s1 = s1
  s2 = s2
  name1 = name1
  name2 = name2
  Threads = {t1, t2}
  Sems = {s1, s2}
  NoSem = NoSem
  Names = {name1, name2}
  NameOf <- OwnNames
  MaxCount = 1
  Initials = {0, 1}
  UlongSize = 3
INVARIANTS
  TypeOK
  HandlesCounted
PROPERTIES
  ImplementsSemaphores
SYMMETRY ThreadSymmetry
CHECK_DEADLOCK FALSE
