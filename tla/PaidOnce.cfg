SPECIFICATION MCSpec
CONSTANTS
  cla = cla
  occ = occ
  bat = bat
  con = con
  one = one
  h1 = h1
  Classic = {occ}
  Occurrence = {occ}
  Multi = {}
  Contract = {}
  Elsewhere = {}
  Terms <- MCTerms
  Handler = {h1}
  Tick = {k1}
  Take = 20
  MaxRows = 1
  MaxEnv = 2
  MaxDeaths = 0
  None = None
INVARIANT PaidOnce
CHECK_DEADLOCK FALSE
