\* One platform merchant with a sale row and two settlement rows in two tokens.
SPECIFICATION MCSpec
CONSTANTS
  owner = owner
  other = other
  m = m
  s = s
  p1 = p1
  p2 = p2
  xlm = xlm
  usd = usd
  None = None
  NoTx = NoTx
  Foreign = Foreign
  Account = {owner, other}
  Token = {xlm, usd}
  Amount = {3}
  Bps = {0, 5000}
  Funds = 3
  MaxId = 2
  InitFirst = TRUE
  Tx <- MCTx
  Handler = {h1}
  MaxForeign = 4
  MaxUpsets = 2
  Merchant = {m}
  Wallet <- MCWallet
  SaleRow = {s}
  SettleRow = {p1, p2}
  Owner <- MCOwner
  Asset <- MCAsset
  Price = 3
  Payer = other
  Rate = 5000
  Native = xlm
  Tick = {t1, t2}
INVARIANTS BooksBalance SaleCreditedOnce SettlementOnEvidence
PROPERTY TillKept
CHECK_DEADLOCK FALSE
SYMMETRY Alike
