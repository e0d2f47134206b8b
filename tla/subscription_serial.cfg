\* One worker: requests are served one after the other; it may die once.
SPECIFICATION FairSpec
CONSTANTS
  w1 = w1
  w2 = w2
  Worker <- OneWorker
  MaxOrders = 2
  MaxKeys = 2
  MaxTime = 3
  MaxCrashes = 1
  Days <- FreeFirst
  Channel <- PaypalThenStripe
  Faulty = FALSE
CHECK_DEADLOCK FALSE
PROPERTY ChargeIsHonoured
