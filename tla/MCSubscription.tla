--------------------------- MODULE MCSubscription ---------------------------
(* Small instances of Subscription for TLC.                                *)
EXTENDS Subscription, TLC

CONSTANTS w1, w2

OneWorker == {w1}
TwoWorkers == {w1, w2}

\* The first order buys one tick, the second two.
TwoPlans == [o \in Order |-> o]

\* A charge through PayPal is captured by the webhook, one by Stripe is not.
PaypalThenStripe == [o \in Order |-> IF o = 1 THEN "paypal" ELSE "stripe"]

\* The first plan has no term at all (valid_days 0).
FreeFirst == [o \in Order |-> o - 1]

\* The first order is confirmed by hand.
ManualThenStripe == [o \in Order |-> IF o = 1 THEN "manual" ELSE "stripe"]

Symmetry == Permutations(Worker)
=============================================================================
