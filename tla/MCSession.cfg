\* Three threads of the API process, two expired tokens, a failure.
SPECIFICATION FairSpec
CONSTANTS
  tick = tick
  renewer = renewer
  request = request
  Nobody = Nobody
  Threads = {tick, renewer, request}
  Storing = {tick}
  MaxExpiries = 2
  MaxFaults = 1
INVARIANTS
  TypeOK
  RefusalsBounded
  SignInsOwed
  SecondTryIsFresh
PROPERTIES
  CallEnds
