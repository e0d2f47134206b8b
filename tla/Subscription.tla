---------------------------- MODULE Subscription ----------------------------
(***************************************************************************)
(* How a client's application gains, keeps and loses access to the gateway *)
(* (admin/app): orders and their payment, the review of the application by *)
(* an administrator, its disabling, the change of its key, and the record  *)
(* in Redis by which the tracking gateway lets a key in.                   *)
(*                                                                         *)
(* One application.  The handlers run in PHP workers, each of which serves *)
(* one request at a time; a handler is cut into steps where it touches the *)
(* database, Redis or the payment provider, and other workers run between  *)
(* its steps.  What a handler has read stays in its memory (job): Eloquent *)
(* saves the columns that the handler changed and looks at nothing else.   *)
(* Terms are counted in ticks of the clock.                                *)
(***************************************************************************)
EXTENDS Integers

CONSTANTS
  Worker,      \* PHP workers
  MaxOrders,   \* bound: orders; order ids grow with time (snowflake)
  MaxKeys,     \* bound: API keys the application ever has
  MaxTime,     \* bound: ticks of the clock
  MaxCrashes,  \* bound: workers that die in the middle of a request
  Days,        \* valid_days of the plan of each order
  Channel,     \* payment channel of each order: "stripe", "paypal", "manual"
  Faulty       \* whether Redis, the database or the provider may fail

Order == 1..MaxOrders
Key == 1..MaxKeys

ASSUME SubscriptionAssumption ==
  /\ MaxOrders \in Nat /\ MaxKeys \in Nat \ {0}
  /\ MaxTime \in Nat /\ MaxCrashes \in Nat
  /\ Days \in [Order -> Nat]
  /\ Channel \in [Order -> {"stripe", "paypal", "manual"}]
  /\ Faulty \in BOOLEAN

VARIABLES
  now,       \* time()
  order,     \* orders.status, "none" before the order is placed
  payment,   \* what the provider knows of the order's payment
  app,       \* the client_apps row: status, expire_at, api_key_sha256
  keys,      \* keys handed out so far
  gateway,   \* expire_at of the api_keys:<sha> records; 0 when there is none
  job,       \* what each worker is doing and remembers
  crashes,
  \* History, read by no action:
  settled,   \* orders that were ever marked paid
  bought,    \* the sum of their terms
  earned,    \* the expiry that the approval and the terms since come to
  astray     \* whether handlers that touch the record met or were cut short

db == <<order, app>>
accounts == <<settled, bought, earned>>
history == <<accounts, astray>>
vars == <<now, db, payment, keys, gateway, job, crashes, history>>

\* A worker at step `at` of a handler for order o, that read key k, expiry e.
Job(at, o, k, e) == [at |-> at, o |-> o, key |-> k, exp |-> e]
Idle == Job("idle", 0, 0, 0)

Init ==
  /\ now = 1
  /\ order = [o \in Order |-> "none"]
  /\ payment = [o \in Order |-> "none"]
  /\ app = [status |-> "pending", exp |-> 0, key |-> 1]   \* ClientApp store
  /\ keys = 1
  /\ gateway = [k \in Key |-> 0]
  /\ job = [w \in Worker |-> Idle]
  /\ crashes = 0
  /\ settled = {} /\ bought = 0 /\ earned = 0 /\ astray = FALSE

Begin(w, j) == job[w] = Idle /\ job' = [job EXCEPT ![w] = j]
Continue(w, j) == job' = [job EXCEPT ![w] = j]
End(w) == Continue(w, Idle)
At(w, step) == job[w].at = step

\* The steps of the handlers that read the application to change its record
\* in Redis or its status: from the read to the last write.
TouchSteps == {"confirmKey", "reviewPlan", "reviewKey", "reviewSave", "reviewUndo",
               "rejectKey", "rejectSave", "disableSave", "disableKey",
               "resetDrop", "resetSave", "resetWrite", "updateSave"}

Touching(w) == job[w].at \in TouchSteps \/ (At(w, "confirmSave") /\ job[w].exp > 0)

\* One more handler touches the record.
Touches == astray' = (astray \/ \E v \in Worker : Touching(v))

\* Redis::setex and Redis::del; where it matters the caller says what a
\* failure of Redis does, elsewhere it is swallowed.
WriteKey(k, e) == gateway' = [gateway EXCEPT ![k] = e]
DropKey(k) == WriteKey(k, 0)
BestEffort(op) ==
  \/ op /\ UNCHANGED astray
  \/ Faulty /\ UNCHANGED gateway /\ astray' = TRUE

Later(a, b) == IF a > b THEN a ELSE b

-----------------------------------------------------------------------------
(* Placing and paying an order (ClientAppController), and what the payment *)
(* provider and the buyer do (external).                                   *)

PlaceOrder(o) ==
  /\ order[o] = "none"
  /\ \A p \in Order : p < o => order[p] # "none"
  /\ order' = [order EXCEPT ![o] = "pending"]
  /\ UNCHANGED <<now, payment, app, keys, gateway, job, crashes, history>>

\* Only a pending order can be paid; a manual one has no session to open.
OpenCheckout(o) ==
  /\ order[o] = "pending" /\ Channel[o] # "manual"
  /\ payment[o] = "none"
  /\ payment' = [payment EXCEPT ![o] = "open"]
  /\ UNCHANGED <<now, db, keys, gateway, job, crashes, history>>

\* Stripe charges at checkout, PayPal only notes the buyer's approval.
BuyerPays(o) ==
  /\ payment[o] = "open"
  /\ payment' = [payment EXCEPT ![o] =
                   IF Channel[o] = "paypal" THEN "approved" ELSE "charged"]
  /\ UNCHANGED <<now, db, keys, gateway, job, crashes, history>>

-----------------------------------------------------------------------------
(* Webhooks.  A provider repeats a notification that got no answer, and    *)
(* may repeat one that did.                                                *)

\* checkout.session.completed with payment_status paid, and
\* PAYMENT.CAPTURE.COMPLETED.
ChargedWebhook(w, o) ==
  /\ payment[o] = "charged"
  /\ Begin(w, Job("confirmTx", o, 0, 0))
  /\ UNCHANGED <<now, db, payment, keys, gateway, crashes, history>>

\* CHECKOUT.ORDER.APPROVED: the order has to exist; its status is not read.
ApprovedWebhook(w, o) ==
  /\ Channel[o] = "paypal" /\ payment[o] \in {"approved", "charged"}
  /\ order[o] # "none"
  /\ Begin(w, Job("capture", o, 0, 0))
  /\ UNCHANGED <<now, db, payment, keys, gateway, crashes, history>>

\* capturePaypalOrder: the provider charges the buyer, or answers that it
\* already has.  A call that failed, before or after the charge, is answered
\* 502 and the webhook is repeated.
Capture(w) ==
  LET o == job[w].o IN
  /\ At(w, "capture")
  /\ payment' \in {payment, [payment EXCEPT ![o] = "charged"]}
  /\ \/ payment'[o] = "charged" /\ Continue(w, Job("confirmTx", o, 0, 0))
     \/ Faulty /\ End(w)
  /\ UNCHANGED <<now, db, keys, gateway, crashes, history>>

-----------------------------------------------------------------------------
(* PaymentService::confirmOrder.                                           *)

\* OrderController::confirm: an administrator confirms a pending order.
AdminConfirm(w, o) ==
  /\ order[o] = "pending"
  /\ Begin(w, Job("confirmTx", o, 0, 0))
  /\ UNCHANGED <<now, db, payment, keys, gateway, crashes, history>>

\* Mutant: the status is tested when the webhook arrives, not in the update.
AnyStatus(o) == order[o] # "none"

\* Mutant: only an approved application has its orders confirmed.
OnlyIfApproved(o) == order[o] = "pending" /\ app.status = "approved"

\* The conditional update of the order's status.
Claims(o) == order[o] = "pending"

RenewedUntil(o) == Later(app.exp, now) + Days[o]

Settle(o) ==
  /\ order' = [order EXCEPT ![o] = "paid"]
  /\ settled' = settled \cup {o}
  /\ bought' = IF o \in settled THEN bought ELSE bought + Days[o]

\* Mutant: the row of the application is read without locking it.
NoLock == TRUE

\* Nobody holds the lock on the row of the application, or of an order.
RowFree == \A v \in Worker : ~At(v, "confirmSave")
OrderFree(o) == \A v \in Worker : At(v, "confirmSave") => job[v].o # o

\* The transaction claims the order and locks the row of the application.
\* What it read and worked out under the lock: the key, and the new expiry,
\* 0 if the application is not approved or the plan has no term.
ConfirmLock(w) ==
  LET o == job[w].o
      extends == app.status = "approved" /\ Days[o] > 0
  IN
  /\ At(w, "confirmTx")
  /\ OrderFree(o)
  /\ \/ ~Claims(o) /\ End(w) /\ UNCHANGED astray
     \/ /\ Claims(o) /\ RowFree
        /\ Continue(w, Job("confirmSave", o, app.key, IF extends THEN RenewedUntil(o) ELSE 0))
        /\ IF extends THEN Touches ELSE UNCHANGED astray
  /\ UNCHANGED <<now, db, payment, keys, gateway, crashes, accounts>>

\* The commit.  The gateway record follows after it.  A transaction that fails
\* is rolled back.
ConfirmCommit(w) ==
  LET o == job[w].o
      e == job[w].exp
  IN
  /\ At(w, "confirmSave")
  /\ \/ /\ Settle(o)
        /\ earned' = IF app.status = "approved" THEN earned + Days[o] ELSE earned
        /\ IF e > 0
           THEN app' = [app EXCEPT !.exp = e] /\ Continue(w, Job("confirmKey", 0, job[w].key, e))
           ELSE UNCHANGED app /\ End(w)
     \/ Faulty /\ End(w) /\ UNCHANGED <<db, accounts>>
  /\ UNCHANGED <<now, payment, keys, gateway, crashes, astray>>

ConfirmKey(w) ==
  /\ At(w, "confirmKey")
  /\ BestEffort(WriteKey(job[w].key, job[w].exp))
  /\ End(w)
  /\ UNCHANGED <<now, db, payment, keys, crashes, accounts>>

\* OrderController::cancel: the status is tested, then saved whatever it is.
CancelRead(w, o) ==
  /\ order[o] = "pending"
  /\ Begin(w, Job("cancelSave", o, 0, 0))
  /\ UNCHANGED <<now, db, payment, keys, gateway, crashes, history>>

CancelSave(w) ==
  /\ At(w, "cancelSave") /\ OrderFree(job[w].o)
  /\ order' = [order EXCEPT ![job[w].o] = "cancelled"]
  /\ End(w)
  /\ UNCHANGED <<now, payment, app, keys, gateway, crashes, history>>

-----------------------------------------------------------------------------
(* ClientController::review and disable.                                   *)

ApproveRead(w) ==
  /\ app.status = "pending"
  /\ Begin(w, Job("reviewPlan", 0, app.key, 0))
  /\ Touches
  /\ UNCHANGED <<now, db, payment, keys, gateway, crashes, accounts>>

\* Mutant: the latest order, paid or not.
Placed == {o \in Order : order[o] # "none"}

PaidOrders == {o \in Order : order[o] = "paid"}

\* The plan of the latest paid order gives the term.
ApprovePlan(w) ==
  /\ At(w, "reviewPlan")
  /\ \/ PaidOrders = {} /\ End(w)
     \/ \E o \in PaidOrders :
          /\ \A p \in PaidOrders : p <= o
          /\ IF Days[o] > 0
             THEN Continue(w, Job("reviewKey", 0, job[w].key, now + Days[o]))
             ELSE End(w)
  /\ UNCHANGED <<now, db, payment, keys, gateway, crashes, history>>

\* The gateway record is written before the row is saved.  A call that fails
\* may have written it all the same.
ApproveKey(w) ==
  /\ At(w, "reviewKey")
  /\ \/ /\ WriteKey(job[w].key, job[w].exp) /\ UNCHANGED astray
        /\ Continue(w, [job[w] EXCEPT !.at = "reviewSave"])
     \/ /\ Faulty /\ astray' = TRUE
        /\ WriteKey(job[w].key, job[w].exp) \/ UNCHANGED gateway
        /\ End(w)
  /\ UNCHANGED <<now, db, payment, keys, crashes, accounts>>

ApproveSave(w) ==
  /\ At(w, "reviewSave") /\ RowFree
  /\ \/ /\ app' = [app EXCEPT !.status = "approved", !.exp = job[w].exp]
        /\ earned' = IF app.status = "pending" THEN Later(earned, job[w].exp) ELSE job[w].exp
        /\ End(w)
     \/ /\ Faulty /\ UNCHANGED <<app, earned>>
        /\ Continue(w, [job[w] EXCEPT !.at = "reviewUndo"])
  /\ UNCHANGED <<now, order, payment, keys, gateway, crashes, settled, bought, astray>>

\* The save failed: the record just written is removed.
ApproveUndo(w) ==
  /\ At(w, "reviewUndo")
  /\ BestEffort(DropKey(job[w].key))
  /\ End(w)
  /\ UNCHANGED <<now, db, payment, keys, crashes, accounts>>

\* A save over a status that is not the one its handler read.
ForgetUnless(status) == earned' = IF app.status = status THEN earned ELSE 0

RejectRead(w) ==
  /\ app.status = "pending"
  /\ Begin(w, Job("rejectKey", 0, app.key, 0))
  /\ Touches
  /\ UNCHANGED <<now, db, payment, keys, gateway, crashes, accounts>>

RejectKey(w) ==
  /\ At(w, "rejectKey")
  /\ BestEffort(DropKey(job[w].key))
  /\ Continue(w, Job("rejectSave", 0, 0, 0))
  /\ UNCHANGED <<now, db, payment, keys, crashes, accounts>>

RejectSave(w) ==
  /\ At(w, "rejectSave") /\ RowFree
  /\ app' = [app EXCEPT !.status = "rejected"]
  /\ ForgetUnless("pending")
  /\ End(w)
  /\ UNCHANGED <<now, order, payment, keys, gateway, crashes, settled, bought, astray>>

DisableRead(w) ==
  /\ app.status # "disabled"
  /\ Begin(w, Job("disableSave", 0, app.key, 0))
  /\ Touches
  /\ UNCHANGED <<now, db, payment, keys, gateway, crashes, accounts>>

DisableSave(w) ==
  /\ At(w, "disableSave") /\ RowFree
  /\ app' = [app EXCEPT !.status = "disabled"]
  /\ Continue(w, [job[w] EXCEPT !.at = "disableKey"])
  /\ UNCHANGED <<now, order, payment, keys, gateway, crashes, history>>

DisableKey(w) ==
  /\ At(w, "disableKey")
  /\ BestEffort(DropKey(job[w].key))
  /\ End(w)
  /\ UNCHANGED <<now, db, payment, keys, crashes, accounts>>

-----------------------------------------------------------------------------
(* ClientAppController::resetKey and update.                               *)

\* The handler remembers the expiry of an approved application, 0 otherwise.
ResetRead(w) ==
  /\ keys < MaxKeys
  /\ Begin(w, Job("resetDrop", 0, app.key,
                  IF app.status = "approved" THEN app.exp ELSE 0))
  /\ Touches
  /\ UNCHANGED <<now, db, payment, keys, gateway, crashes, accounts>>

\* Mutant: the record of the old key is left to expire.
ForgetDrop(k) == UNCHANGED <<gateway, astray>>

DropOldKey(k) == BestEffort(DropKey(k))

ResetDrop(w) ==
  /\ At(w, "resetDrop")
  /\ DropOldKey(job[w].key)
  /\ Continue(w, Job("resetSave", 0, 0, job[w].exp))
  /\ UNCHANGED <<now, db, payment, keys, crashes, accounts>>

\* The new key has not been used before (32 random bytes, or the client's
\* own choice).
ResetSave(w) ==
  /\ At(w, "resetSave") /\ RowFree
  /\ keys < MaxKeys
  /\ keys' = keys + 1
  /\ app' = [app EXCEPT !.key = keys']
  /\ Continue(w, Job("resetWrite", 0, keys', job[w].exp))
  /\ UNCHANGED <<now, order, payment, gateway, crashes, history>>

ResetWrite(w) ==
  /\ At(w, "resetWrite")
  /\ IF job[w].exp > now
     THEN BestEffort(WriteKey(job[w].key, job[w].exp))
     ELSE UNCHANGED <<gateway, astray>>
  /\ End(w)
  /\ UNCHANGED <<now, db, payment, keys, crashes, accounts>>

\* A rejected application that its owner edits goes back to review.
UpdateRead(w) ==
  /\ app.status = "rejected"
  /\ Begin(w, Job("updateSave", 0, 0, 0))
  /\ Touches
  /\ UNCHANGED <<now, db, payment, keys, gateway, crashes, accounts>>

UpdateSave(w) ==
  /\ At(w, "updateSave") /\ RowFree
  /\ app' = [app EXCEPT !.status = "pending"]
  /\ ForgetUnless("rejected")
  /\ End(w)
  /\ UNCHANGED <<now, order, payment, keys, gateway, crashes, settled, bought, astray>>

-----------------------------------------------------------------------------

\* A worker dies and forgets what it was doing.
Crash(w) ==
  /\ crashes < MaxCrashes
  /\ job[w] # Idle
  /\ crashes' = crashes + 1
  /\ astray' = (astray \/ Touching(w))
  /\ End(w)
  /\ UNCHANGED <<now, db, payment, keys, gateway, accounts>>

Tick ==
  /\ now < MaxTime
  /\ now' = now + 1
  /\ UNCHANGED <<db, payment, keys, gateway, job, crashes, history>>

Starts(w) ==
  \/ \E o \in Order : \/ ChargedWebhook(w, o) \/ ApprovedWebhook(w, o)
                      \/ AdminConfirm(w, o) \/ CancelRead(w, o)
  \/ ApproveRead(w) \/ RejectRead(w) \/ DisableRead(w)
  \/ ResetRead(w) \/ UpdateRead(w)

Proceeds(w) ==
  \/ Capture(w) \/ ConfirmLock(w) \/ ConfirmCommit(w) \/ ConfirmKey(w) \/ CancelSave(w)
  \/ ApprovePlan(w) \/ ApproveKey(w) \/ ApproveSave(w) \/ ApproveUndo(w)
  \/ RejectKey(w) \/ RejectSave(w) \/ DisableSave(w) \/ DisableKey(w)
  \/ ResetDrop(w) \/ ResetSave(w) \/ ResetWrite(w) \/ UpdateSave(w)

Next ==
  \/ Tick
  \/ \E o \in Order : PlaceOrder(o) \/ OpenCheckout(o) \/ BuyerPays(o)
  \/ \E w \in Worker : Starts(w) \/ Proceeds(w) \/ Crash(w)

Spec == Init /\ [][Next]_vars

-----------------------------------------------------------------------------
(* Properties.                                                             *)

Step == {"idle", "capture", "confirmTx", "confirmSave", "confirmKey", "cancelSave",
         "reviewPlan", "reviewKey", "reviewSave", "reviewUndo",
         "rejectKey", "rejectSave", "disableSave", "disableKey",
         "resetDrop", "resetSave", "resetWrite", "updateSave"}

\* Steps that have a key to write or to remove, and steps about an order.
KeySteps == {"confirmSave", "confirmKey", "reviewPlan", "reviewKey", "reviewSave", "reviewUndo",
             "rejectKey", "disableSave", "disableKey", "resetDrop", "resetWrite"}
OrderSteps == {"capture", "confirmTx", "confirmSave", "cancelSave"}

JobType == [at : Step, o : Nat, key : Nat, exp : Nat]

JobOK(j) ==
  /\ j \in JobType
  /\ j.at \in KeySteps => j.key \in Key
  /\ j.at \in OrderSteps => j.o \in Order

\* The types, and that a handler about to use a key or an order has one.
TypeOK ==
  /\ now \in Nat /\ crashes \in Nat /\ bought \in Nat
  /\ order \in [Order -> {"none", "pending", "paid", "cancelled"}]
  /\ payment \in [Order -> {"none", "open", "approved", "charged"}]
  /\ app \in [status : {"pending", "approved", "rejected", "disabled"},
              exp : Nat, key : Key]
  /\ keys \in Key
  /\ gateway \in [Key -> Nat]
  /\ job \in [Worker -> JobType] /\ \A w \in Worker : JobOK(job[w])
  /\ settled \subseteq Order /\ earned \in Nat /\ astray \in BOOLEAN

\* Nobody gets more access than was paid for: the time left on any gateway
\* record, and on the application, is at most the sum of the terms of the
\* orders ever paid.  Whatever workers race, repeat or die, and whatever
\* webhooks are repeated, an order is never counted twice.
AccessIsPaidFor ==
  /\ app.exp <= now + bought
  /\ \A k \in Key : gateway[k] <= now + bought

\* A cancelled order stays cancelled: a webhook that comes late does not
\* revive it.
CancelledIsFinal ==
  [][\A o \in Order : order[o] = "cancelled" => order'[o] = "cancelled"]_vars

\* No extension is lost: the expiry of the application is at least what its
\* approval gave it plus the terms of all orders confirmed since, although
\* confirmations run at once, each on the expiry that it read.  Only a review
\* or an update that saves over a status it did not read forfeits them.
ExtensionsAddUp == app.exp >= earned

AllIdle == \A w \in Worker : job[w] = Idle

\* While no handler touches the record, the gateway lets in exactly the
\* current key of an approved application, until the application expires,
\* whatever else is going on or was cut short: orders, webhooks, captures,
\* confirmations that extend nothing, and transactions that were rolled back.
\* Two handlers that touch it at once, or one that died or whose call to
\* Redis failed, are past this.
GatewayAgrees ==
  ~astray /\ (\A w \in Worker : ~Touching(w)) =>
    \A k \in Key :
      IF app.status = "approved" /\ k = app.key /\ app.exp > now
      THEN gateway[k] = app.exp
      ELSE gateway[k] <= now

\* The documented effect of a cancellation: only pending orders become
\* cancelled.
OnlyPendingIsCancelled ==
  [][\A o \in Order :
       order'[o] = "cancelled" => order[o] \in {"pending", "cancelled"}]_vars

\* The documented effect of disabling an application and of resetting its
\* key: the key in question is dead from then on.
RevokedKeysAreDead ==
  AllIdle =>
    \A k \in Key : gateway[k] > now => k = app.key /\ app.status # "disabled"

(* A provider keeps repeating a webhook until it is answered, and a worker *)
(* that does not die finishes its request.                                 *)
FairSpec ==
  /\ Spec
  /\ \A w \in Worker : WF_vars(Proceeds(w))
  /\ \A o \in Order :
       /\ SF_vars(\E w \in Worker : ChargedWebhook(w, o))
       /\ SF_vars(\E w \in Worker : ApprovedWebhook(w, o))

\* A charge is not forgotten: the order of a charged payment ends up paid,
\* unless it was cancelled, even if workers die in between.
ChargeIsHonoured ==
  \A o \in Order : payment[o] = "charged" ~> order[o] \in {"paid", "cancelled"}
=============================================================================
