\* Disabling and resetting race the confirmation of an order.
SPECIFICATION Spec
CONSTANTS
  w1 = w1
  w2 = w2
  Worker <- TwoWorkers
  MaxOrders = 2
  MaxKeys = 2
  MaxTime = 2
  MaxCrashes = 0
  Days <- TwoPlans
  Channel <- ManualThenStripe
  Faulty = FALSE
CHECK_DEADLOCK FALSE
INVARIANT RevokedKeysAreDead
