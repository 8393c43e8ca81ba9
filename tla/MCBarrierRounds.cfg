SPECIFICATION FairSpec
CONSTANTS
  Threads = {t1, t2, t3, t4}
  NoThread = NoThread
  MaxRounds = 3
INVARIANTS
  TypeOK
  LocksCountArrivals
  NobodyIsBehind
PROPERTIES
  ImplementsRendezvous
CHECK_DEADLOCK FALSE
