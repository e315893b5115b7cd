\* A thread that asks who it is before its creator has put it in the list.
SPECIFICATION Spec
CONSTANTS
  Threads = {t1, t2}
  Main = main
  Anchor = anchor
  Null = null
  Careful = TRUE
INVARIANTS
  IdentifyNeverFails
