SPECIFICATION FairSpec
CONSTANTS
  Threads = {main, w0, w1}
  NoThread = NoThread
  Main = main
  w0 = w0
  w1 = w1
  Queues <- MCQueues
  JobCount = 3
  MaxPieces = 4
  MaxFrames = 3
INVARIANTS
  TypeOK
  CountMatchesJobs
  PiecesNotShared
  FrameServed
PROPERTIES
  ImplementsForkJoin
CHECK_DEADLOCK FALSE
