\* Careful callers: one create or delete at a time.  A thread that fails its
\* assertion stops; main goes on.
SPECIFICATION FairSpec
CONSTANTS
  Threads = {t1, t2, t3}
  Main = main
  Anchor = anchor
  Null = null
  Careful = TRUE
INVARIANTS
  TypeOK
  ListIsOrder
  ListedThreadIsFound
PROPERTIES
  IdentifyReturns
