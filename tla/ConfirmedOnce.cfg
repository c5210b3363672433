SPECIFICATION MCSpec
CONSTANTS
  cla = cla
  occ = occ
  bat = bat
  con = con
  one = one
  h1 = h1
  Classic = {}
  Occurrence = {}
  Multi = {}
  Contract = {con}
  Elsewhere = {}
  Terms <- MCTerms
  Handler = {h1}
  Tick = {k1}
  Take = 20
  MaxRows = 1
  MaxEnv = 2
  MaxDeaths = 0
  None = None
INVARIANT ConfirmedOnce
CHECK_DEADLOCK FALSE
