\* One worker id per process and calls that do not outlive their caller.
SPECIFICATION Spec
CONSTANTS
  timer = timer
  api = api
  w1 = w1
  w2 = w2
  NoWorker = NoWorker
  WorkerIds = {w1, w2}
  Procs = {timer, api}
  Timer = timer
  WorkerId <- DistinctIds
  MaxAttempts = 3
  QueueDepthTarget = 1
  MaxSlot = 2
  Horizon = 2
  StallsPossible = TRUE
  MaxFaults = 3
  MaxLate = 0
INVARIANTS
  LeasedContent
  ExclusiveSubmission
PROPERTIES
  NoStaleFailure
