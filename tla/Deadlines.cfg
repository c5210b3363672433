\* Two escrows under every caller; one plan, two ticks and two handlers.
SPECIFICATION MCSpec
CONSTANTS
  Address = {alice, bob, carol}
  Party = {alice, bob}
  Arbiter = {carol}
  Deployer = carol
  Amount = {1, 2}
  Funds = 2
  ReleaseTime = {1}
  Expiry = {3}
  Window = 1
  MaxTime = 4
  MaxId = 2
  InitFirst = TRUE
  None = None
  Schedule = {s1}
  Count = {2}
  Tick = {k1, k2}
  Handler = {h1, h2}
  Take = 20
  MaxOcc = 2
  MaxOverruns = 1
  MaxDeaths = 1
  NoPlan = NoPlan
INVARIANTS
  ContractTypeOK
  Solvent
  EventsTellState
  TypeOK
  OpenRowsBounded
  RunsAreConfirmed
  CompletedIsEarned
PROPERTIES
  InitiatorCanReclaim
  KeepsCustody
  StoppedStaysStopped
  DueIsServed
CHECK_DEADLOCK FALSE
