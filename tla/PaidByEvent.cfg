\* An invoice that is on-chain and is paid through a checkout.
SPECIFICATION MCSpec
CONSTANTS
  inv = inv
  inv2 = inv2
  Focus = {"both"}
  c1 = c1
  c2 = c2
  in1 = in1
  in2 = in2
  h1 = h1
  None = None
  NoTx = NoTx
  Foreign = Foreign
  Invoice = {inv, inv2}
  Checkout = {c1, c2}
  Inbound = {in1, in2}
  Exact = {in1}
  For <- MCFor
  MaxId = 2
  Tx <- MCTx
  Handler = {h1, h2}
  MaxForeign = 1
  MaxUpsets = 1
PROPERTY OnlyEventPays
CHECK_DEADLOCK FALSE
