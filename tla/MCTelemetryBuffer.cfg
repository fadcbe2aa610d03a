\* The two deployed processes on the one buffer file, in turn and at once; the
\* Monitor failing at will, kills and a full disk.
SPECIFICATION FairSpec
CONSTANTS
  timer = timer
  api = api
  Emitters = {timer, api}
  MaxBuffer = 2
  BatchSize = 2
  MaxEvents = 5
  Splitting = {3}
INVARIANTS
  TypeOK
  BufferBounded
  LostOnlyForAReason
PROPERTIES
  DeliveredInOrder
  EmitEnds
CHECK_DEADLOCK FALSE
