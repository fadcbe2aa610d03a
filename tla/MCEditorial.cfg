\* One generation at a time, with abandoned runs and jobs out of order.
SPECIFICATION Spec
CONSTANTS
  g1 = g1
  f1 = f1
  f2 = f2
  None = None
  SlotOrder <- ThreeSlots
  Kind <- KindOf
  ModesFor <- Policy
  Jobs = {1, 2, 3, 4}
  Fingerprints = {f1, f2}
  Gaps = {1}
  FinalAppearance = 3
  MaxContinuations = 2
  MaxNew = 2
  Generators = {g1}
INVARIANTS
  TypeOK
  FakesStandAlone
  OneVoice
  DistinctStorylines
  NothingRefused
PROPERTIES
  ImplementsSerial
CHECK_DEADLOCK FALSE
