\* One invoice: two checkouts, an exact and an inexact inbound payment, two
\* contract ids; and a second one whose issue envelope may be submitted for it.
SPECIFICATION MCSpec
CONSTANTS
  inv = inv
  inv2 = inv2
  Focus = {"off-chain", "on-chain", "both", "crossed"}
  c1 = c1
  c2 = c2
  in1 = in1
  in2 = in2
  h1 = h1
  None = None
  NoTx = NoTx
  Foreign = Foreign
  Invoice = {inv, inv2}
  Checkout = {c1, c2}
  Inbound = {in1, in2}
  Exact = {in1}
  For <- MCFor
  MaxId = 2
  Tx <- MCTx
  Handler = {h1, h2}
  MaxForeign = 1
  MaxUpsets = 1
INVARIANTS PaidOnEvidence ToldOnce OutcomeShown
CHECK_DEADLOCK FALSE
