SPECIFICATION Spec
CONSTANTS
  Schedule = {s1}
  Count = {2}
  Tick = {k1, k2}
  Handler = {h1}
  Take = 20
  MaxOcc = 2
  MaxOverruns = 0
  MaxDeaths = 0
  NoPlan = NoPlan
INVARIANT
  NeverDoubleCreated
CHECK_DEADLOCK FALSE
