\* A cancellation races the confirmation of the order.
SPECIFICATION Spec
CONSTANTS
  w1 = w1
  w2 = w2
  Worker <- TwoWorkers
  MaxOrders = 1
  MaxKeys = 1
  MaxTime = 2
  MaxCrashes = 0
  Days <- TwoPlans
  Channel <- ManualThenStripe
  Faulty = FALSE
CHECK_DEADLOCK FALSE
PROPERTY OnlyPendingIsCancelled
