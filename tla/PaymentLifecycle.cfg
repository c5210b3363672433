SPECIFICATION MCSpec
CONSTANTS
  cla = cla
  occ = occ
  bat = bat
  con = con
  one = one
  h1 = h1
  Classic = {cla, occ, bat}
  Occurrence = {occ}
  Multi = {bat}
  Contract = {con}
  Elsewhere = {one}
  Terms <- MCTerms
  Handler = {h1, h2}
  Tick = {k1, k2}
  Take = 20
  MaxRows = 2
  MaxEnv = 2
  MaxDeaths = 1
  None = None
INVARIANTS
  TypeOK
  SingleFlight
  StatusMatchesLedger
  LostClaimIsExplained
  OneVerdict
PROPERTIES
  TerminalIsFinal
  SubmittedContractSettles
CHECK_DEADLOCK FALSE
