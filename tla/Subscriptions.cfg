\* One plan, one subscriber, two subscription rows, an interval of two time
\* units, two direct calls and one upset.
SPECIFICATION MCSpec
CONSTANTS
  p1 = p1
  r1 = r1
  r2 = r2
  u = u
  None = None
  NoTx = NoTx
  Foreign = Foreign
  Plan = {p1}
  Sub = {r1, r2}
  Subscriber = {u}
  PlanOf <- MCPlanOf
  Owner <- MCOwner
  Interval = 2
  MaxTime = 4
  MaxId = 2
  Tx <- MCTx
  Handler = {h1}
  MaxForeign = 2
  MaxUpsets = 1
INVARIANTS TermsKept RowShowsSubscription
CHECK_DEADLOCK FALSE
