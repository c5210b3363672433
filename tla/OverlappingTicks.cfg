SPECIFICATION Spec
CONSTANTS
  Address = {alice, bob}
  Party = {alice, bob}
  Arbiter = {}
  Deployer = bob
  Amount = {1}
  Funds = 2
  ReleaseTime = {0}
  Expiry = {}
  Window = 0
  MaxTime = 1
  MaxId = 2
  InitFirst = TRUE
  None = None
  Row = {r1}
  Payer = alice
  Payee = bob
  Caller = {bob}
  Price = 1
  Due = 0
  Handler = {h1}
  Tick = {k1, k2}
  Foreign = Foreign
  MaxUpsets = 1
INVARIANT NoGap
CHECK_DEADLOCK FALSE
