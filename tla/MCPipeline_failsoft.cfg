\* The ADR on artwork, against an outage of the Supabase session.
SPECIFICATION Spec
CONSTANTS
  timer = timer
  api = api
  k1 = k1
  k2 = k2
  k3 = k3
  k4 = k4
  r1 = r1
  r2 = r2
  NoKey = NoKey
  NoRelease = NoRelease
  Procs = {timer}
  Keys = {k1, k2, k3, k4}
  MaxStored = 2
  MaxRetries = 1
  Releases = {r1, r2}
  p1 = p1
  Paragraphs = {p1}
  MaxNormalCalls = 3
  MaxRepairCalls = 1
  MaxRuns = 2
  MaxChanges = 2
PROPERTIES
  ArtworkFailSoft
CHECK_DEADLOCK FALSE
