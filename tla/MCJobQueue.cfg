SPECIFICATION FairSpec
CONSTANTS
  Threads = {c1, c2, worker, owner}
  NoThread = NoThread
  Worker = worker
  Owner = owner
  Requests = {r1, r2, r3}
  NoRequest = NoRequest
  NoOrder = NoOrder
  o1 = o1
  o2 = o2
  Arguments <- MCArguments
  MaxCalls = 3
INVARIANTS
  TypeOK
  OneOwner
  NoLostWakeup
  ListnersHear
  BarriersCounted
  DeletedIsQuiet
PROPERTIES
  ImplementsService
  SleepingWorkerStops
CHECK_DEADLOCK FALSE
