\* Two deliveries, two overlapping ticks of one row each, two attempts, one
\* upset.
SPECIFICATION DeliverySpec
CONSTANTS
  Delivery = {d1, d2}
  Worker = {w1, w2}
  RetryTake = 1
  MaxAttempts = 2
  MaxUpsets = 1
INVARIANT ResendsBounded
PROPERTY EveryDeliveryEnds
CHECK_DEADLOCK FALSE
