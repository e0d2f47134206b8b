\* Two workers, anything may fail, one worker may die.
SPECIFICATION Spec
CONSTANTS
  w1 = w1
  w2 = w2
  Worker <- TwoWorkers
  MaxOrders = 2
  MaxKeys = 2
  MaxTime = 2
  MaxCrashes = 1
  Days <- TwoPlans
  Channel <- ManualThenStripe
  Faulty = TRUE
SYMMETRY Symmetry
CHECK_DEADLOCK FALSE
INVARIANTS AccessIsPaidFor ExtensionsAddUp GatewayAgrees
PROPERTY CancelledIsFinal
