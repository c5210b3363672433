\* One link, two pages, two intents, a direct payment, two records a page.
SPECIFICATION MCSpec
CONSTANTS
  p1 = p1
  p2 = p2
  i1 = i1
  i2 = i2
  h1 = h1
  h2 = h2
  t1 = t1
  t2 = t2
  Page = {p1, p2}
  Intent = {i1, i2}
  Direct = {d1}
  Handler = {h1, h2}
  Tick = {t1, t2}
  PageLimit = 2
  MaxFaults = 1
  None = None
INVARIANTS MerchantHearsOnce TotalsBacked SuccessIsPaid
CHECK_DEADLOCK FALSE
PROPERTY EveryPaymentFound
