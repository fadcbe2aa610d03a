\* The deployed pair: content of an earlier lease can be published.
SPECIFICATION Spec
CONSTANTS
  timer = timer
  api = api
  w1 = w1
  w2 = w2
  NoWorker = NoWorker
  WorkerIds = {w1, w2}
  Procs = {timer, api}
  Timer = timer
  WorkerId <- SharedId
  MaxAttempts = 3
  QueueDepthTarget = 1
  MaxSlot = 2
  Horizon = 2
  StallsPossible = FALSE
  MaxFaults = 1
  MaxLate = 0
INVARIANTS
  LeasedContent
