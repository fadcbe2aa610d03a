\* Liveness of the deployed pair while faults are finitely many.
SPECIFICATION FairSpec
CONSTANTS
  timer = timer
  api = api
  w1 = w1
  w2 = w2
  NoWorker = NoWorker
  WorkerIds = {w1, w2}
  Procs = {timer, api}
  Timer = timer
  WorkerId <- SharedId
  MaxAttempts = 2
  QueueDepthTarget = 1
  MaxSlot = 3
  Horizon = 1
  StallsPossible = TRUE
  MaxFaults = 1
  MaxLate = 1
PROPERTIES
  DueSlotServed
  LeaseRecovered
