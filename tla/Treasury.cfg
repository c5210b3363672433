\* One proposal row and one deposit row of a user who is a member, a second
\* member and the administrator outside the API; and three accounts that propose,
\* vote, execute and are voted in and out of the contract.
SPECIFICATION MCSpec
CONSTANTS
  adm = adm
  m1 = m1
  m2 = m2
  d1 = d1
  h1 = h1
  h2 = h2
  w1 = w1
  None = None
  NoTx = NoTx
  Foreign = Foreign
  Account = {adm, m1, m2}
  Deployer = adm
  Amount = {1}
  Cap = {0}
  MemberList <- MCMemberList
  Threshold = {2, 3}
  LeastQuorum = 2
  Funds = 1
  MaxId = 2
  Tx <- MCTx
  Handler = {h1, h2}
  MaxForeign = 2
  MaxUpsets = 1
  DepositRow = {d1}
  WithdrawalRow = {w1}
  Wallet = {m1}
  Payee = adm
  Price = 1
  Tick = {t1, t2}
INVARIANTS WithdrawalOnEvidence NothingMissed
PROPERTIES ExecutedWithQuorum KeepsVault
CHECK_DEADLOCK FALSE
SYMMETRY Alike
