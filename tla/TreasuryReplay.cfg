\* An executed withdrawal whose proposal event is handed over a second time.
SPECIFICATION MCSpec
CONSTANTS
  adm = adm
  m1 = m1
  m2 = m2
  d1 = d1
  h1 = h1
  h2 = h2
  w1 = w1
  None = None
  NoTx = NoTx
  Foreign = Foreign
  Account = {adm, m1, m2}
  Deployer = adm
  Amount = {1}
  Cap = {0}
  MemberList <- MCMemberList
  Threshold = {2, 3}
  LeastQuorum = 2
  Funds = 1
  MaxId = 1
  Tx <- MCTx
  Handler = {h1, h2}
  MaxForeign = 2
  MaxUpsets = 1
  DepositRow = {d1}
  WithdrawalRow = {w1}
  Wallet = {m1}
  Payee = adm
  Price = 1
  Tick = {t1, t2}
PROPERTY ExecutedIsFinal
CHECK_DEADLOCK FALSE
