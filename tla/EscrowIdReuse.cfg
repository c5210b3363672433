SPECIFICATION ContractSpec
CONSTANTS
  Address = {alice, bob, carol}
  Party = {alice, bob}
  Arbiter = {}
  Deployer = carol
  Amount = {1}
  Funds = 2
  ReleaseTime = {1}
  Expiry = {}
  Window = 1
  MaxTime = 3
  MaxId = 2
  InitFirst = FALSE
  None = None
INVARIANT IdsNeverReused
CHECK_DEADLOCK FALSE
