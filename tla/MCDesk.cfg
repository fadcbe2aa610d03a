\* Four issues of a newsroom of six; palettes of four passages of two documents;
\* eight days with both changes of the clock.
SPECIFICATION Spec
CONSTANTS
  c1 = c1
  c2 = c2
  c3 = c3
  c4 = c4
  c5 = c5
  c6 = c6
  g1 = g1
  o1 = o1
  d1 = d1
  d2 = d2
  Core <- SixNames
  PerEdition = 3
  Guests = {g1}
  Others = {o1}
  OtherPerEdition = 1
  Cooldown = 1
  KeepRecurring = 2
  KeepNonrecurring = 1
  Nameable = {c1, g1, o1}
  Promising = {o1}
  MaxIssues = 4
  Documents = {d1, d2}
  Lengths = {1, 3, 9}
  Scores = {10, 20}
  MaxFound = 4
  TokenBudget = 7
  MinChunks = 3
  MinDocuments = 2
  MinScore = 20
  DayLength = 12
  Shift = 1
  Forward = 26
  Back = 75
  Cadence = 2
  Horizon = 8
INVARIANTS
  CooldownKept
  RegisterIsHistory
  BylinesRotate
  GroundingFair
  SlotsOfCalendar
CHECK_DEADLOCK FALSE
