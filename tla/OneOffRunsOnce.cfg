SPECIFICATION Spec
CONSTANTS
  Schedule = {s1}
  Count = {}
  Tick = {k1, k2}
  Handler = {h1}
  Take = 20
  MaxOcc = 2
  MaxOverruns = 0
  MaxDeaths = 0
  NoPlan = NoPlan
INVARIANT
  OneOffRunsOnce
CHECK_DEADLOCK FALSE
