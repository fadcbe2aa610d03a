\* The deployed pair of processes with the shared worker id, under every fault.
SPECIFICATION Spec
CONSTANTS
  timer = timer
  api = api
  w1 = w1
  w2 = w2
  NoWorker = NoWorker
  WorkerIds = {w1}
  Procs = {timer, api}
  Timer = timer
  WorkerId <- SharedId
  MaxAttempts = 2
  QueueDepthTarget = 1
  MaxSlot = 2
  Horizon = 2
  StallsPossible = TRUE
  MaxFaults = 3
  MaxLate = 1
INVARIANTS
  TypeOK
  OneEditionPerJob
  ArchiveInOrder
  MaterializedIsDurable
PROPERTIES
  SuccessIsFinal
  ImplementsGazette
