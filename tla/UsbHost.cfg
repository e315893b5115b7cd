\* Two ports and three slots for signals; the semaphore is full at two.
SPECIFICATION FairSpec
CONSTANTS
  NPorts = 2
  MaxPorts = 3
  MaxCount = 2
  MaxSignal = 2
INVARIANTS
  TypeOK
  SignalIsMet
  ChangeIsRemembered
PROPERTIES
  EveryPortScanned
