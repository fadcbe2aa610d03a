\* One process, against the runbook's "fail-open".
SPECIFICATION Spec
CONSTANTS
  timer = timer
  api = api
  Emitters = {timer}
  MaxBuffer = 2
  BatchSize = 2
  MaxEvents = 5
  Splitting = {}
INVARIANTS
  FailOpen
CHECK_DEADLOCK FALSE
