------------------------- MODULE Subscription_proofs -------------------------
(***************************************************************************)
(* Theorems about Subscription for any number of workers, orders, keys and *)
(* crashes, with every failure allowed.                                    *)
(***************************************************************************)
EXTENDS Subscription, TLAPS

\* The account of what was paid: an order that is still open was never
\* paid, a paid one is in the account, with its term.
AccountInv ==
  /\ \A o \in Order : order[o] \in {"none", "pending"} => o \notin settled
  /\ \A o \in Order : order[o] = "paid" => o \in settled
  /\ \A o \in settled : Days[o] <= bought

\* No expiry anywhere, be it in the database, in Redis or in the memory of a
\* worker, is further away than what was paid; but in an open transaction, of
\* which LockInv says how far.
TermInv ==
  /\ AccessIsPaidFor
  /\ \A w \in Worker : ~At(w, "confirmSave") => job[w].exp <= now + bought

\* What an open transaction knows: the order is still to be paid, and what it
\* read of the application is what the row holds.
Locks(j) ==
  /\ order[j.o] = "pending"
  /\ j.key = app.key
  /\ j.exp <= now + bought + Days[j.o]
  /\ j.exp > 0 => app.status = "approved" /\ app.exp + Days[j.o] <= j.exp
  /\ app.status = "approved" /\ Days[j.o] > 0 => j.exp > 0

LockInv ==
  /\ \A v, w \in Worker : At(v, "confirmSave") /\ At(w, "confirmSave") => v = w
  /\ \A w \in Worker : At(w, "confirmSave") => Locks(job[w])

PaidInv == TypeOK /\ AccountInv /\ TermInv /\ LockInv

\* A job that a worker may take up, except an open transaction.
Fits(j) ==
  /\ j \in JobType /\ JobOK(j)
  /\ j.at # "confirmSave" /\ j.exp <= now + bought

LEMMA JobFacts ==
  ASSUME PaidInv, NEW w \in Worker
  PROVE  /\ job[w] \in JobType /\ JobOK(job[w]) /\ job[w].at \in Step
         /\ job[w].o \in Nat /\ job[w].key \in Nat /\ job[w].exp \in Nat
         /\ ~At(w, "confirmSave") => job[w].exp <= now + bought
         /\ job[w].at \in KeySteps => job[w].key \in Key
         /\ job[w].at \in OrderSteps => job[w].o \in Order
  BY DEF PaidInv, TypeOK, TermInv, JobType, JobOK

\* What an action that leaves a variable alone keeps.
LEMMA Untouched ==
  ASSUME PaidInv
  PROVE  /\ now \in Nat /\ bought \in Nat /\ crashes \in Nat /\ keys \in Key
         /\ earned \in Nat /\ astray \in BOOLEAN /\ Key \subseteq Nat
         /\ order \in [Order -> {"none", "pending", "paid", "cancelled"}]
         /\ payment \in [Order -> {"none", "open", "approved", "charged"}]
         /\ app \in [status : {"pending", "approved", "rejected", "disabled"},
                     exp : Nat, key : Key]
         /\ app.exp <= now + bought
         /\ gateway \in [Key -> Nat]
         /\ \A k \in Key : gateway[k] \in Nat /\ gateway[k] <= now + bought
         /\ job \in [Worker -> JobType]
  BY DEF PaidInv, TypeOK, TermInv, AccessIsPaidFor, Key

LEMMA IdleFits == PaidInv => Fits(Idle)
  BY Untouched DEF Fits, Idle, Job, JobOK, JobType, Step, KeySteps, OrderSteps

\* A worker that takes up a job that fits leaves the rest of what the invariant
\* says of jobs as it was.
LEMMA JobKept ==
  ASSUME PaidInv, NEW w \in Worker, NEW j, Fits(j), Continue(w, j)
  PROVE  /\ job' \in [Worker -> JobType]
         /\ \A v \in Worker : /\ JobOK(job'[v])
                              /\ job'[v].at # "confirmSave" => job'[v].exp <= now + bought
                              /\ job'[v].at = "confirmSave" => v # w /\ job'[v] = job[v]
<1>1. job' \in [Worker -> JobType] /\ \A v \in Worker : job'[v] = IF v = w THEN j ELSE job[v]
  BY Untouched DEF Continue, Fits
<1>2. ASSUME NEW v \in Worker
      PROVE  /\ JobOK(job'[v])
             /\ job'[v].at # "confirmSave" => job'[v].exp <= now + bought
             /\ job'[v].at = "confirmSave" => v # w /\ job'[v] = job[v]
  BY <1>1, JobFacts DEF Fits, At
<1> QED
  BY <1>1, <1>2

\* A record of Redis changes to an expiry that is paid for, or to none.
LEMMA GatewayKept ==
  ASSUME PaidInv, NEW k \in Key, NEW e \in Nat, e <= now + bought,
         BestEffort(WriteKey(k, e)) \/ WriteKey(k, e) \/ UNCHANGED gateway
  PROVE  /\ gateway' \in [Key -> Nat]
         /\ \A h \in Key : gateway'[h] <= now + bought
  BY DEF PaidInv, TypeOK, TermInv, AccessIsPaidFor, BestEffort, WriteKey

-----------------------------------------------------------------------------

LEMMA PaidInvInit == Init => PaidInv
<1> SUFFICES ASSUME Init PROVE PaidInv
  OBVIOUS
<1>0. Idle \in JobType /\ JobOK(Idle) /\ Idle.exp = 0 /\ Idle.at = "idle"
  BY DEF Idle, Job, JobOK, JobType, Step, KeySteps, OrderSteps
<1>1. TypeOK
  <2>1. job \in [Worker -> JobType] /\ \A w \in Worker : JobOK(job[w])
    BY <1>0 DEF Init
  <2>2. 1 \in Key
    BY SubscriptionAssumption DEF Key
  <2> QED
    BY <2>1, <2>2 DEF Init, TypeOK
<1>2. AccountInv
  BY DEF Init, AccountInv
<1>3. TermInv /\ LockInv
  BY <1>0 DEF Init, TermInv, AccessIsPaidFor, LockInv, At
<1> QED
  BY <1>1, <1>2, <1>3 DEF PaidInv

-----------------------------------------------------------------------------

\* What a step has to respect when it counts nothing as paid: the types, the
\* account, the locks, and the limit on what it writes.
Respects ==
  /\ UNCHANGED <<now, settled, bought>>
  /\ crashes' \in Nat /\ keys' \in Key /\ earned' \in Nat /\ astray' \in BOOLEAN
  /\ order' \in [Order -> {"none", "pending", "paid", "cancelled"}]
  /\ \A o \in Order : order'[o] \in {"none", "pending", "paid"} =>
                        order[o] = order'[o] \/ (order[o] = "none" /\ order'[o] = "pending")
  /\ \A o \in Order : order[o] = "pending" => order'[o] = "pending" \/ OrderFree(o)
  /\ payment' \in [Order -> {"none", "open", "approved", "charged"}]
  /\ app' \in [status : {"pending", "approved", "rejected", "disabled"},
                exp : Nat, key : Key]
  /\ app'.exp <= now + bought
  /\ UNCHANGED app \/ RowFree
  /\ gateway' \in [Key -> Nat]
  /\ \A k \in Key : gateway'[k] <= now + bought

LEMMA RespectsKeeps ==
  ASSUME PaidInv, Respects,
         UNCHANGED job \/ \E w \in Worker : \E j : Fits(j) /\ Continue(w, j)
  PROVE  PaidInv'
<1>1. /\ now' = now /\ bought' = bought /\ settled' = settled
      /\ now \in Nat /\ bought \in Nat
  BY DEF Respects, PaidInv, TypeOK
<1>2. /\ job' \in [Worker -> JobType]
      /\ \A v \in Worker : /\ JobOK(job'[v])
                           /\ job'[v].at # "confirmSave" => job'[v].exp <= now' + bought'
                           /\ job'[v].at = "confirmSave" => job'[v] = job[v]
  <2>1. CASE UNCHANGED job
    BY <1>1, <2>1, JobFacts, Untouched DEF At
  <2>2. CASE \E w \in Worker : \E j : Fits(j) /\ Continue(w, j)
    <3>1. PICK w \in Worker : \E j : Fits(j) /\ Continue(w, j)
      BY <2>2
    <3> QED
      BY <1>1, <3>1, JobKept
  <2> QED
    BY <2>1, <2>2
<1>3. TypeOK'
  BY <1>1, <1>2, Zenon DEF Respects, PaidInv, TypeOK
<1>4. AccountInv'
  BY <1>1 DEF Respects, PaidInv, AccountInv
<1>5. TermInv'
  BY <1>1, <1>2 DEF Respects, TermInv, AccessIsPaidFor, At
<1>6. LockInv'
  <2>1. \A v, w \in Worker : At(v, "confirmSave")' /\ At(w, "confirmSave")' => v = w
    BY <1>2 DEF PaidInv, LockInv, At
  <2>2. ASSUME NEW v \in Worker, At(v, "confirmSave")' PROVE Locks(job[v])'
    <3>1. job'[v] = job[v] /\ At(v, "confirmSave") /\ Locks(job[v])
      BY <1>2, <2>2 DEF PaidInv, LockInv, At
    <3>2. job[v].o \in Order
      BY <3>1, JobFacts DEF At, OrderSteps
    <3>3. UNCHANGED app
      BY <3>1 DEF Respects, RowFree
    <3>4. order'[job[v].o] = "pending"
      BY <3>1, <3>2 DEF Respects, OrderFree, Locks
    <3> QED
      BY <1>1, <3>1, <3>3, <3>4 DEF Locks
  <2> QED
    BY <2>1, <2>2 DEF LockInv
<1> QED
  BY <1>3, <1>4, <1>5, <1>6 DEF PaidInv

\* The requests that only read and remember.
LEMMA StartsKeep ==
  ASSUME PaidInv, NEW w \in Worker, Starts(w)
  PROVE  PaidInv'
<1>1. /\ UNCHANGED <<now, db, payment, keys, gateway, crashes, accounts>>
      /\ UNCHANGED astray \/ Touches
  BY DEF Starts, ChargedWebhook, ApprovedWebhook, AdminConfirm, CancelRead,
         ApproveRead, RejectRead, DisableRead, ResetRead, UpdateRead, history
<1>2. Respects
  BY <1>1, Untouched DEF Respects, db, accounts, Touches
<1>3. \E j : Fits(j) /\ Continue(w, j)
  <2> USE DEF Job, JobOK, JobType, Step, KeySteps, OrderSteps, Fits
  <2>1. now \in Nat /\ bought \in Nat /\ app.key \in Key /\ app.key \in Nat
        /\ app.exp \in Nat /\ app.exp <= now + bought
    BY Untouched DEF Key
  <2>2. ASSUME NEW o \in Order
        PROVE  /\ Fits(Job("capture", o, 0, 0))
               /\ Fits(Job("confirmTx", o, 0, 0))
               /\ Fits(Job("cancelSave", o, 0, 0))
    BY <2>1 DEF Order
  <2>3. /\ Fits(Job("reviewPlan", 0, app.key, 0))
        /\ Fits(Job("rejectKey", 0, app.key, 0))
        /\ Fits(Job("disableSave", 0, app.key, 0))
        /\ Fits(Job("updateSave", 0, 0, 0))
    BY <2>1
  <2>4. Fits(Job("resetDrop", 0, app.key, IF app.status = "approved" THEN app.exp ELSE 0))
    BY <2>1
  <2> HIDE DEF Fits, Job
  <2> QED
    BY <2>2, <2>3, <2>4
       DEF Starts, ChargedWebhook, ApprovedWebhook, AdminConfirm, CancelRead,
           ApproveRead, RejectRead, DisableRead, ResetRead, UpdateRead,
           Begin, Continue
<1> QED
  BY <1>2, <1>3, RespectsKeeps

\* The handlers' steps on Redis alone.
LEMMA KeyStepsRespect ==
  ASSUME PaidInv, NEW w \in Worker,
         \/ ConfirmKey(w) \/ ApproveKey(w) \/ ApproveUndo(w) \/ RejectKey(w)
         \/ DisableKey(w) \/ ResetDrop(w) \/ ResetWrite(w)
  PROVE  Respects /\ \E j : Fits(j) /\ Continue(w, j)
<1>1. UNCHANGED <<now, db, payment, keys, crashes, accounts>>
  BY DEF ConfirmKey, ApproveKey, ApproveUndo, RejectKey, DisableKey, ResetDrop, ResetWrite
<1>2. job[w].key \in Key /\ job[w].at \in Step /\ ~At(w, "confirmSave")
  BY JobFacts DEF ConfirmKey, ApproveKey, ApproveUndo, RejectKey, DisableKey,
                  ResetDrop, ResetWrite, At, KeySteps
<1>3. astray' \in BOOLEAN
  BY Untouched DEF ConfirmKey, ApproveKey, ApproveUndo, RejectKey, DisableKey,
                   ResetDrop, ResetWrite, DropOldKey, BestEffort
<1>4. \E e \in Nat : /\ e <= now + bought
                     /\ \/ BestEffort(WriteKey(job[w].key, e))
                        \/ WriteKey(job[w].key, e)
                        \/ UNCHANGED gateway
  <2>1. 0 \in Nat /\ 0 <= now + bought
    BY Untouched
  <2>2. job[w].exp \in Nat /\ job[w].exp <= now + bought
    BY <1>2, JobFacts
  <2> QED
    BY <2>1, <2>2 DEF ConfirmKey, ApproveKey, ApproveUndo, RejectKey, DisableKey,
                      ResetDrop, ResetWrite, DropOldKey, DropKey
<1>5. gateway' \in [Key -> Nat] /\ \A h \in Key : gateway'[h] <= now + bought
  BY <1>2, <1>4, GatewayKept
<1>6. Respects
  BY <1>1, <1>3, <1>5, Untouched DEF Respects, db, accounts
<1>7. \E j : Fits(j) /\ Continue(w, j)
  <2>1. Fits(Idle)
    BY IdleFits
  <2>2. CASE ApproveKey(w)
    <3>1. Fits([job[w] EXCEPT !.at = "reviewSave"])
      BY <1>2, <2>2, JobFacts DEF ApproveKey, At, Fits, JobType, JobOK, Step, KeySteps, OrderSteps
    <3> QED
      BY <2>1, <2>2, <3>1 DEF ApproveKey, End
  <2>3. CASE RejectKey(w)
    <3>1. Fits(Job("rejectSave", 0, 0, 0))
      BY Untouched DEF Job, Fits, JobType, JobOK, Step, KeySteps, OrderSteps
    <3> QED
      BY <2>3, <3>1 DEF RejectKey
  <2>4. CASE ResetDrop(w)
    <3>1. Fits(Job("resetSave", 0, 0, job[w].exp))
      BY <1>2, JobFacts DEF Job, Fits, JobType, JobOK, Step, KeySteps, OrderSteps
    <3> QED
      BY <2>4, <3>1 DEF ResetDrop
  <2> QED
    BY <2>1, <2>2, <2>3, <2>4 DEF ConfirmKey, ApproveUndo, DisableKey, ResetWrite, End
<1> QED
  BY <1>6, <1>7

\* The handlers' steps on the database, except the transaction that confirms
\* an order.
LEMMA RowStepsRespect ==
  ASSUME PaidInv, NEW w \in Worker,
         \/ CancelSave(w) \/ ApproveSave(w) \/ RejectSave(w) \/ DisableSave(w)
         \/ ResetSave(w) \/ UpdateSave(w)
  PROVE  Respects /\ \E j : Fits(j) /\ Continue(w, j)
<1> USE DEF At
<1>0. Fits(Idle)
  BY IdleFits
<1>1. CASE CancelSave(w)
  <2>1. job[w].o \in Order
    BY <1>1, JobFacts DEF CancelSave, OrderSteps
  <2>2. Respects
    BY <1>1, <2>1, Untouched DEF CancelSave, Respects, history, accounts
  <2> QED
    BY <1>0, <1>1, <2>2 DEF CancelSave, End
<1>2. CASE ApproveSave(w) \/ DisableSave(w)
  <2>1. job[w].exp \in Nat /\ job[w].exp <= now + bought /\ job[w].key \in Key
    BY <1>2, JobFacts DEF ApproveSave, DisableSave, KeySteps
  <2>2. earned' \in Nat
    BY <1>2, <2>1, Untouched DEF ApproveSave, DisableSave, history, accounts, Later
  <2>3. Respects
    BY <1>2, <2>1, <2>2, Untouched DEF ApproveSave, DisableSave, Respects, history, accounts
  <2>4. Fits([job[w] EXCEPT !.at = "reviewUndo"]) /\ Fits([job[w] EXCEPT !.at = "disableKey"])
    BY <2>1, JobFacts DEF Fits, JobType, JobOK, Step, OrderSteps
  <2> QED
    BY <1>0, <1>2, <2>3, <2>4 DEF ApproveSave, DisableSave, End
<1>3. CASE RejectSave(w) \/ UpdateSave(w)
  <2>1. Respects
    BY <1>3, Untouched DEF RejectSave, UpdateSave, Respects, ForgetUnless
  <2> QED
    BY <1>0, <1>3, <2>1 DEF RejectSave, UpdateSave, End
<1>4. CASE ResetSave(w)
  <2>1. keys' \in Key /\ keys' \in Nat
    BY <1>4, Untouched, SubscriptionAssumption DEF ResetSave, Key
  <2>2. Respects
    BY <1>4, <2>1, Untouched DEF ResetSave, Respects, history, accounts
  <2>3. Fits(Job("resetWrite", 0, keys', job[w].exp))
    BY <1>4, <2>1, JobFacts DEF ResetSave, Job, Fits, JobType, JobOK, Step, OrderSteps
  <2> QED
    BY <1>4, <2>2, <2>3 DEF ResetSave
<1> QED
  BY <1>1, <1>2, <1>3, <1>4

\* The steps that only read, and the capture of a payment.
LEMMA OtherStepsRespect ==
  ASSUME PaidInv, NEW w \in Worker, Capture(w) \/ ApprovePlan(w)
  PROVE  Respects /\ \E j : Fits(j) /\ Continue(w, j)
<1> USE DEF At
<1>0. Fits(Idle)
  BY IdleFits
<1>1. CASE Capture(w)
  <2>1. job[w].o \in Order
    BY <1>1, JobFacts DEF Capture, OrderSteps
  <2>2. Respects
    BY <1>1, <2>1, Untouched DEF Capture, Respects, history, accounts, db
  <2>3. Fits(Job("confirmTx", job[w].o, 0, 0))
    BY <2>1, Untouched, JobFacts DEF Job, Fits, JobType, JobOK, Step, KeySteps
  <2> QED
    BY <1>0, <1>1, <2>2, <2>3 DEF Capture, End
<1>2. CASE ApprovePlan(w)
  <2>1. Respects
    BY <1>2, Untouched DEF ApprovePlan, Respects, history, accounts, db
  <2>2. job[w].key \in Key /\ job[w].key \in Nat
    BY <1>2, JobFacts DEF ApprovePlan, KeySteps
  <2>3. ASSUME NEW o \in PaidOrders PROVE Fits(Job("reviewKey", 0, job[w].key, now + Days[o]))
    <3>1. Days[o] \in Nat /\ Days[o] <= bought /\ o \in Order
      BY SubscriptionAssumption DEF PaidInv, AccountInv, PaidOrders
    <3> QED
      BY <2>2, <3>1, Untouched DEF Job, Fits, JobType, JobOK, Step, OrderSteps
  <2> QED
    BY <1>0, <1>2, <2>1, <2>3 DEF ApprovePlan, End
<1> QED
  BY <1>1, <1>2

\* The transaction claims a pending order and locks the row, which nobody else
\* has locked.
LEMMA ConfirmLockKeeps ==
  ASSUME PaidInv, NEW w \in Worker, ConfirmLock(w)
  PROVE  PaidInv'
<1> DEFINE o == job[w].o
<1>1. /\ UNCHANGED <<now, order, app, payment, keys, gateway, crashes, settled, bought, earned>>
      /\ astray' \in BOOLEAN
  BY Untouched DEF ConfirmLock, db, history, accounts, Touches
<1>2. Respects
  BY <1>1, Untouched DEF Respects
<1>3. o \in Order /\ Days[o] \in Nat /\ At(w, "confirmTx")
  BY JobFacts, SubscriptionAssumption DEF ConfirmLock, At, OrderSteps
<1>4. CASE ~Claims(o)
  <2>1. Continue(w, Idle)
    BY <1>4 DEF ConfirmLock, End
  <2> QED
    BY <1>2, <2>1, IdleFits, RespectsKeeps
<1>5. CASE Claims(o)
  <2>1. PICK j : /\ j = Job("confirmSave", o, app.key,
                            IF app.status = "approved" /\ Days[o] > 0 THEN RenewedUntil(o) ELSE 0)
                 /\ Continue(w, j) /\ RowFree
    BY <1>5 DEF ConfirmLock
  <2>2. /\ RenewedUntil(o) \in Nat /\ RenewedUntil(o) <= now + bought + Days[o]
        /\ app.exp + Days[o] <= RenewedUntil(o)
    BY <1>3, Untouched DEF RenewedUntil, Later
  <2>3. Locks(j) /\ j.at = "confirmSave"
    <3>1. j.exp = (IF app.status = "approved" /\ Days[o] > 0 THEN RenewedUntil(o) ELSE 0)
          /\ j.o = o /\ j.key = app.key /\ j.at = "confirmSave"
      BY <2>1 DEF Job
    <3>2. Days[o] > 0 => RenewedUntil(o) > 0
      BY <1>3, <2>2, Untouched
    <3> QED
      BY <1>3, <1>5, <2>2, <3>1, <3>2, Untouched DEF Locks, Claims
  <2>4. j \in JobType /\ JobOK(j)
    BY <1>3, <2>1, <2>2, Untouched DEF Job, JobOK, JobType, Step, OrderSteps, Order
  <2>5. /\ job' \in [Worker -> JobType]
        /\ \A v \in Worker : job'[v] = IF v = w THEN j ELSE job[v]
    BY <2>1, <2>4, Untouched DEF Continue
  <2>6. TypeOK'
    <3>1. \A v \in Worker : JobOK(job'[v])
      BY <2>4, <2>5, JobFacts
    <3> QED
      BY <1>1, <2>5, <3>1, Zenon DEF PaidInv, TypeOK
  <2>7. AccountInv'
    BY <1>1 DEF PaidInv, AccountInv
  <2>8. TermInv'
    <3>1. \A v \in Worker : ~At(v, "confirmSave")' => job'[v].exp <= now' + bought'
      BY <1>1, <2>3, <2>5, JobFacts DEF At
    <3> QED
      BY <1>1, <3>1 DEF PaidInv, TermInv, AccessIsPaidFor
  <2>9. LockInv'
    <3>1. \A v \in Worker : At(v, "confirmSave")' => v = w
      BY <2>1, <2>5 DEF RowFree, At
    <3>2. Locks(job[w])'
      BY <1>1, <2>3, <2>5 DEF Locks
    <3> QED
      BY <3>1, <3>2 DEF LockInv
  <2> QED
    BY <2>6, <2>7, <2>8, <2>9 DEF PaidInv
<1> QED
  BY <1>4, <1>5

\* The commit is the one step that adds to the account: the order that it
\* claimed, which the account does not hold yet, and a term that was paid for
\* with the term that it has just counted.
LEMMA ConfirmCommitKeeps ==
  ASSUME PaidInv, NEW w \in Worker, ConfirmCommit(w)
  PROVE  PaidInv'
<1> DEFINE o == job[w].o  e == job[w].exp
<1>1. /\ o \in Order /\ Days[o] \in Nat /\ e \in Nat /\ job[w].key \in Key /\ job[w].key \in Nat
      /\ At(w, "confirmSave")
  BY JobFacts, SubscriptionAssumption DEF ConfirmCommit, At, OrderSteps, KeySteps
<1>2. /\ Locks(job[w])
      /\ \A v \in Worker : At(v, "confirmSave") => v = w
  BY <1>1 DEF PaidInv, LockInv
<1>3. UNCHANGED <<now, payment, keys, gateway, crashes, astray>>
  BY DEF ConfirmCommit
<1>4. CASE UNCHANGED <<db, accounts>> /\ End(w)
  <2>1. Respects
    BY <1>3, <1>4, Untouched DEF Respects, db, accounts
  <2> QED
    BY <1>4, <2>1, IdleFits, RespectsKeeps DEF End
<1>5. CASE /\ Settle(o)
           /\ earned' = IF app.status = "approved" THEN earned + Days[o] ELSE earned
           /\ IF e > 0
              THEN app' = [app EXCEPT !.exp = e] /\ Continue(w, Job("confirmKey", 0, job[w].key, e))
              ELSE UNCHANGED app /\ End(w)
  <2>1. o \notin settled
    BY <1>1, <1>2 DEF PaidInv, AccountInv, Locks
  <2>2. /\ bought' = bought + Days[o] /\ settled' = settled \cup {o}
        /\ order' = [order EXCEPT ![o] = "paid"]
    BY <1>5, <2>1 DEF Settle
  <2>3. e <= now' + bought'
    BY <1>1, <1>2, <1>3, <2>2, Untouched DEF Locks
  <2>4. now + bought <= now' + bought' /\ now' \in Nat /\ bought' \in Nat
    BY <1>1, <1>3, <2>2, Untouched
  <2>5. PICK j \in JobType : /\ JobOK(j) /\ j.at # "confirmSave"
                             /\ j.exp <= now' + bought' /\ Continue(w, j)
    <3>1. Idle \in JobType /\ JobOK(Idle) /\ Idle.exp <= now' + bought' /\ Idle.at # "confirmSave"
      <4>1. Idle.exp = 0 /\ Idle \in JobType /\ JobOK(Idle) /\ Idle.at # "confirmSave"
        BY IdleFits DEF Fits, Idle, Job
      <4>2. 0 <= now' + bought'
        BY <1>1, <1>3, <2>2, Untouched
      <4> QED
        BY <4>1, <4>2, Zenon
    <3>2. PICK j : j = Job("confirmKey", 0, job[w].key, e)
      OBVIOUS
    <3>3. j \in JobType /\ JobOK(j) /\ j.exp <= now' + bought' /\ j.at # "confirmSave"
      BY <1>1, <2>3, <3>2 DEF Job, JobType, JobOK, Step, OrderSteps
    <3>4. CASE e > 0
      BY <1>5, <3>2, <3>3, <3>4
    <3>5. CASE ~(e > 0)
      BY <1>5, <3>1, <3>5 DEF End
    <3> QED
      BY <3>4, <3>5
  <2>6. /\ app' \in [status : {"pending", "approved", "rejected", "disabled"},
                    exp : Nat, key : Key]
        /\ app'.exp <= now' + bought'
    <3>1. UNCHANGED app \/ app' = [app EXCEPT !.exp = e]
      BY <1>5
    <3>2. app.exp <= now' + bought'
      BY <2>4, Untouched
    <3> QED
      BY <1>1, <2>3, <3>1, <3>2, Untouched
  <2>7. /\ job' \in [Worker -> JobType]
        /\ \A v \in Worker : job'[v] = IF v = w THEN j ELSE job[v]
    BY <2>5, Untouched DEF Continue
  <2>8. \A v \in Worker : JobOK(job'[v]) /\ ~At(v, "confirmSave")'
    BY <1>2, <2>5, <2>7, JobFacts DEF At
  <2>9. TypeOK'
    <3>1. /\ order' \in [Order -> {"none", "pending", "paid", "cancelled"}]
          /\ settled' \subseteq Order
      BY <1>1, <2>2, Untouched DEF PaidInv, TypeOK
    <3>2. earned' \in Nat
      BY <1>1, <1>5, Untouched
    <3>3. /\ crashes' \in Nat /\ keys' \in Key /\ astray' \in BOOLEAN
          /\ payment' \in [Order -> {"none", "open", "approved", "charged"}]
          /\ gateway' \in [Key -> Nat]
      BY <1>3, Untouched
    <3> QED
      BY <2>4, <2>6, <2>7, <2>8, <3>1, <3>2, <3>3, Zenon DEF TypeOK
  <2>10. AccountInv'
    <3>1. \A p \in Order : /\ order'[p] \in {"none", "pending"} => p \notin settled'
                           /\ order'[p] = "paid" => p \in settled'
      BY <1>1, <2>2, Untouched DEF PaidInv, AccountInv
    <3>2. ASSUME NEW p \in settled' PROVE Days[p] <= bought'
      <4>1. CASE p = o
        BY <1>1, <2>2, <4>1, Untouched
      <4>2. CASE p \in settled
        <5>1. p \in Order /\ Days[p] <= bought
          BY <4>2 DEF PaidInv, TypeOK, AccountInv
        <5>2. Days[p] \in Nat /\ bought \in Nat
          BY <5>1, Untouched, SubscriptionAssumption
        <5> QED
          BY <1>1, <2>2, <5>1, <5>2
      <4> QED
        BY <2>2, <4>1, <4>2
    <3> QED
      BY <3>1, <3>2 DEF AccountInv
  <2>11. TermInv'
    <3>1. \A k \in Key : gateway'[k] <= now' + bought'
      BY <1>3, <2>4, Untouched
    <3>2. ASSUME NEW v \in Worker PROVE job'[v].exp <= now' + bought'
      <4>1. CASE v = w
        BY <2>5, <2>7, <4>1
      <4>2. CASE v # w
        <5>1. job'[v] = job[v] /\ job[v].exp \in Nat /\ job[v].exp <= now + bought
          BY <1>2, <2>7, <4>2, JobFacts
        <5> QED
          BY <2>4, <5>1, Untouched
      <4> QED
        BY <4>1, <4>2
    <3> QED
      BY <2>6, <3>1, <3>2 DEF TermInv, AccessIsPaidFor
  <2>12. LockInv'
    BY <2>8 DEF LockInv
  <2> QED
    BY <2>9, <2>10, <2>11, <2>12 DEF PaidInv
<1> QED
  BY <1>4, <1>5 DEF ConfirmCommit

-----------------------------------------------------------------------------

\* The steps of the buyer and of workers that die.
LEMMA WorldRespects ==
  ASSUME PaidInv,
         \/ \E o \in Order : PlaceOrder(o) \/ OpenCheckout(o) \/ BuyerPays(o)
         \/ \E w \in Worker : Crash(w)
         \/ UNCHANGED vars
  PROVE  PaidInv'
<1>1. CASE \E o \in Order : PlaceOrder(o) \/ OpenCheckout(o) \/ BuyerPays(o)
  <2>1. Respects /\ UNCHANGED job
    BY <1>1, Untouched
       DEF PlaceOrder, OpenCheckout, BuyerPays, Respects, history, accounts, db
  <2> QED
    BY <2>1, RespectsKeeps
<1>2. CASE \E w \in Worker : Crash(w)
  <2>1. PICK w \in Worker : Crash(w)
    BY <1>2
  <2>2. Respects
    BY <2>1, Untouched DEF Crash, Respects, accounts, db, Touching
  <2> QED
    BY <2>1, <2>2, IdleFits, RespectsKeeps DEF Crash, End
<1>3. CASE UNCHANGED vars
  <2>1. Respects /\ UNCHANGED job
    BY <1>3, Untouched DEF vars, Respects, history, accounts, db
  <2> QED
    BY <2>1, RespectsKeeps
<1> QED
  BY <1>1, <1>2, <1>3

LEMMA TickKeeps ==
  ASSUME PaidInv, Tick
  PROVE  PaidInv'
<1>1. /\ now' = now + 1
      /\ UNCHANGED <<order, app, payment, keys, gateway, job, crashes, settled, bought, earned, astray>>
  BY DEF Tick, db, history, accounts
<1>2. TypeOK'
  <2>1. now' \in Nat
    BY <1>1, Untouched
  <2> QED
    BY <1>1, <2>1, Zenon DEF PaidInv, TypeOK
<1>3. AccountInv'
  BY <1>1 DEF PaidInv, AccountInv
<1>4. TermInv'
  <2>1. app'.exp <= now' + bought'
    BY <1>1, Untouched
  <2>2. \A k \in Key : gateway'[k] <= now' + bought'
    BY <1>1, Untouched
  <2>3. \A w \in Worker : ~At(w, "confirmSave")' => job'[w].exp <= now' + bought'
    BY <1>1, Untouched, JobFacts DEF At
  <2> QED
    BY <2>1, <2>2, <2>3 DEF TermInv, AccessIsPaidFor
<1>5. LockInv'
  <2>1. ASSUME NEW w \in Worker, At(w, "confirmSave") PROVE Locks(job[w])'
    <3>1. Locks(job[w]) /\ job[w].o \in Order /\ job[w].exp \in Nat
      BY <2>1, JobFacts DEF PaidInv, LockInv, At, OrderSteps
    <3>2. Days[job[w].o] \in Nat
      BY <3>1, SubscriptionAssumption
    <3>3. job[w].exp <= now' + bought' + Days[job[w].o]
      BY <1>1, <3>1, <3>2, Untouched DEF Locks
    <3> QED
      BY <1>1, <3>1, <3>3 DEF Locks
  <2> QED
    BY <1>1, <2>1 DEF PaidInv, LockInv, At
<1> QED
  BY <1>2, <1>3, <1>4, <1>5 DEF PaidInv

LEMMA PaidInvStep == PaidInv /\ [Next]_vars => PaidInv'
<1> SUFFICES ASSUME PaidInv, [Next]_vars PROVE PaidInv'
  OBVIOUS
<1>1. CASE Tick
  BY <1>1, TickKeeps
<1>2. CASE \/ \E o \in Order : PlaceOrder(o) \/ OpenCheckout(o) \/ BuyerPays(o)
           \/ \E w \in Worker : Crash(w)
           \/ UNCHANGED vars
  BY <1>2, WorldRespects
<1>3. ASSUME NEW w \in Worker, Starts(w) PROVE PaidInv'
  BY <1>3, StartsKeep
<1>4. ASSUME NEW w \in Worker, Proceeds(w) PROVE PaidInv'
  <2>1. CASE ConfirmLock(w) \/ ConfirmCommit(w)
    BY <2>1, ConfirmLockKeeps, ConfirmCommitKeeps
  <2>2. CASE ~(ConfirmLock(w) \/ ConfirmCommit(w))
    BY <1>4, <2>2, KeyStepsRespect, RowStepsRespect, OtherStepsRespect, RespectsKeeps
       DEF Proceeds
  <2> QED
    BY <2>1, <2>2
<1> QED
  BY <1>1, <1>2, <1>3, <1>4 DEF Next

\* The invariant that everything here rests on: types, the account of paid
\* orders, the limit on every expiry, and what an open transaction knows
\* (PaymentService::confirmOrder).
THEOREM SubscriptionInvariant == Spec => []PaidInv
  BY PaidInvInit, PaidInvStep, PTL DEF Spec

\* Orders, the row of the application, the gateway's record and what each worker
\* remembers keep their types (PaymentService.php, ClientController.php).
THEOREM TypeCorrect == Spec => []TypeOK
<1>1. PaidInv => TypeOK
  BY DEF PaidInv
<1> QED BY <1>1, SubscriptionInvariant, PTL

\* Whatever requests race, repeat, fail or die half-way, and however many
\* workers, orders and keys there are, no gateway record and no application
\* outlives the terms that were paid for.
THEOREM AccessIsPaidForHolds == Spec => [](TypeOK /\ AccessIsPaidFor)
<1>1. PaidInv => TypeOK /\ AccessIsPaidFor
  BY DEF PaidInv, TermInv
<1> QED
  BY <1>1, SubscriptionInvariant, PTL

\* No step of any handler brings a cancelled order back.
THEOREM CancelledIsFinalHolds == Spec => CancelledIsFinal
<1>1. ASSUME PaidInv, [Next]_vars, NEW o \in Order, order[o] = "cancelled"
      PROVE  order'[o] = "cancelled"
  <2>0. order \in [Order -> {"none", "pending", "paid", "cancelled"}]
    BY <1>1, Untouched
  <2>1. CASE UNCHANGED order
    BY <1>1, <2>1
  <2>2. CASE \E p \in Order : PlaceOrder(p)
    BY <1>1, <2>0, <2>2 DEF PlaceOrder
  <2>3. ASSUME NEW w \in Worker, ConfirmCommit(w) PROVE order'[o] = "cancelled"
    <3>1. UNCHANGED order \/ Settle(job[w].o)
      BY <2>3 DEF ConfirmCommit, db
    <3>2. order[job[w].o] = "pending"
      BY <1>1, <2>3 DEF ConfirmCommit, PaidInv, LockInv, Locks
    <3> QED
      BY <1>1, <2>0, <3>1, <3>2 DEF Settle
  <2>4. ASSUME NEW w \in Worker, CancelSave(w) PROVE order'[o] = "cancelled"
    BY <1>1, <2>0, <2>4 DEF CancelSave
  <2> QED
    <3>1. ASSUME NEW w \in Worker, Starts(w) PROVE UNCHANGED order
      BY <3>1 DEF Starts, ChargedWebhook, ApprovedWebhook, AdminConfirm, CancelRead,
         ApproveRead, RejectRead, DisableRead, ResetRead, UpdateRead, db
    <3>2. ASSUME NEW w \in Worker, Proceeds(w), ~ConfirmCommit(w), ~CancelSave(w)
          PROVE  UNCHANGED order
      BY <3>2 DEF Proceeds, Capture, ConfirmLock, ConfirmKey, ApprovePlan, ApproveKey,
         ApproveSave, ApproveUndo, RejectKey, RejectSave, DisableSave, DisableKey, ResetDrop,
         ResetSave, ResetWrite, UpdateSave, db
    <3>3. ASSUME \/ Tick \/ UNCHANGED vars \/ \E w \in Worker : Crash(w)
                 \/ \E p \in Order : OpenCheckout(p) \/ BuyerPays(p)
          PROVE  UNCHANGED order
      BY <3>3 DEF Tick, vars, Crash, OpenCheckout, BuyerPays, db
    <3> QED
      BY <1>1, <2>1, <2>2, <2>3, <2>4, <3>1, <3>2, <3>3 DEF Next
<1>2. PaidInv /\ [Next]_vars =>
        [\A o \in Order : order[o] = "cancelled" => order'[o] = "cancelled"]_vars
  BY <1>1
<1> QED
  BY <1>2, SubscriptionInvariant, PTL DEF CancelledIsFinal, Spec

-----------------------------------------------------------------------------
(* Every term counts.                                                      *)

\* Besides the property itself: an application that is not approved has
\* nothing to lose.
EarnInv ==
  /\ earned <= app.exp
  /\ app.status \in {"pending", "rejected"} => earned = 0

LEMMA EarnInvStep ==
  ASSUME PaidInv, EarnInv, [Next]_vars
  PROVE  EarnInv'
<1>0. /\ app \in [status : {"pending", "approved", "rejected", "disabled"},
                  exp : Nat, key : Key]
      /\ earned \in Nat
  BY Untouched
<1>1. CASE UNCHANGED <<app, earned>>
  BY <1>1 DEF EarnInv
<1>2. ASSUME NEW w \in Worker, ConfirmCommit(w) PROVE EarnInv'
  <2> DEFINE o == job[w].o  e == job[w].exp
  <2>1. At(w, "confirmSave") /\ Locks(job[w]) /\ e \in Nat /\ Days[o] \in Nat
    BY <1>2, JobFacts, SubscriptionAssumption
       DEF ConfirmCommit, At, OrderSteps, PaidInv, LockInv
  <2>2. CASE UNCHANGED <<db, accounts>>
    BY <1>1, <2>2 DEF db, accounts
  <2>3. CASE /\ earned' = IF app.status = "approved" THEN earned + Days[o] ELSE earned
             /\ IF e > 0 THEN app' = [app EXCEPT !.exp = e] ELSE UNCHANGED app
    <3>1. CASE e > 0
      <4>1. app.status = "approved" /\ app.exp + Days[o] <= e
        BY <2>1, <3>1 DEF Locks
      <4>2. app'.status = "approved" /\ app'.exp = e /\ earned' = earned + Days[o]
        BY <1>0, <2>3, <3>1, <4>1
      <4> QED
        BY <1>0, <2>1, <4>1, <4>2 DEF EarnInv
    <3>2. CASE e = 0
      <4>1. UNCHANGED app /\ (app.status = "approved" => Days[o] = 0)
        BY <2>1, <2>3, <3>2 DEF Locks
      <4>2. earned' = earned
        BY <1>0, <2>1, <2>3, <4>1
      <4> QED
        BY <1>1, <4>1, <4>2
    <3> QED
      BY <2>1, <3>1, <3>2
  <2> QED
    BY <1>2, <2>2, <2>3 DEF ConfirmCommit
<1>3. ASSUME NEW w \in Worker, ApproveSave(w) PROVE EarnInv'
  <2>1. job[w].exp \in Nat
    BY JobFacts
  <2>2. CASE UNCHANGED <<app, earned>>
    BY <1>1, <2>2
  <2>3. CASE /\ app' = [app EXCEPT !.status = "approved", !.exp = job[w].exp]
             /\ earned' = IF app.status = "pending" THEN Later(earned, job[w].exp) ELSE job[w].exp
    BY <1>0, <2>1, <2>3 DEF EarnInv, Later
  <2> QED
    BY <1>3, <2>2, <2>3 DEF ApproveSave
<1>4. ASSUME NEW w \in Worker, RejectSave(w) \/ UpdateSave(w) PROVE EarnInv'
  <2>1. /\ app'.exp = app.exp
        /\ earned' = 0 \/ (app.status \in {"pending", "rejected"} /\ earned' = earned)
    BY <1>0, <1>4 DEF RejectSave, UpdateSave, ForgetUnless
  <2> QED
    BY <1>0, <2>1 DEF EarnInv
<1>5. ASSUME NEW w \in Worker, DisableSave(w) \/ ResetSave(w) PROVE EarnInv'
  <2>1. /\ app'.exp = app.exp /\ earned' = earned
        /\ app'.status = app.status \/ app'.status = "disabled"
    BY <1>0, <1>5 DEF DisableSave, ResetSave, history, accounts
  <2> QED
    BY <1>0, <2>1 DEF EarnInv
<1>6. ASSUME NEW w \in Worker, Proceeds(w), ~ConfirmCommit(w), ~ApproveSave(w), ~RejectSave(w),
             ~UpdateSave(w), ~DisableSave(w), ~ResetSave(w)
      PROVE  EarnInv'
  <2>1. UNCHANGED <<app, earned>>
    BY <1>6 DEF Proceeds, Capture, ConfirmLock, ConfirmKey, CancelSave, ApprovePlan, ApproveKey,
       ApproveUndo, RejectKey, DisableKey, ResetDrop, ResetWrite, db, history, accounts
  <2> QED
    BY <1>1, <2>1
<1>7. CASE \/ Tick \/ UNCHANGED vars \/ \E w \in Worker : Starts(w) \/ Crash(w)
           \/ \E o \in Order : PlaceOrder(o) \/ OpenCheckout(o) \/ BuyerPays(o)
  <2>1. UNCHANGED <<app, earned>>
    BY <1>7 DEF Tick, vars, PlaceOrder, OpenCheckout, BuyerPays, Starts, Crash,
       ChargedWebhook, ApprovedWebhook, AdminConfirm, CancelRead, ApproveRead, RejectRead,
       DisableRead, ResetRead, UpdateRead, db, history, accounts
  <2> QED
    BY <1>1, <2>1
<1> QED
  BY <1>2, <1>3, <1>4, <1>5, <1>6, <1>7 DEF Next

\* However many confirmations run at once, each on the expiry that it read, the
\* terms of all of them are in the expiry of the application: the lock on its
\* row serves them one after the other (PaymentService.php:285).
THEOREM ExtensionsAddUpHolds == Spec => []ExtensionsAddUp
<1>1. Init => EarnInv
  BY DEF Init, EarnInv
<1>2. PaidInv /\ EarnInv /\ [Next]_vars => EarnInv'
  BY EarnInvStep
<1>3. PaidInv /\ EarnInv => ExtensionsAddUp
  BY Untouched DEF EarnInv, ExtensionsAddUp
<1> QED
  BY <1>1, <1>2, <1>3, SubscriptionInvariant, PTL DEF Spec

-----------------------------------------------------------------------------
(* The gateway agrees.                                                     *)

\* The gateway lets in exactly the current key of an approved application.
Agree ==
  \A k \in Key :
    IF app.status = "approved" /\ k = app.key /\ app.exp > now
    THEN gateway[k] = app.exp
    ELSE gateway[k] <= now

\* It lets nobody in; nobody but the current key.
Closed == \A k \in Key : gateway[k] <= now
OthersClosed == \A k \in Key : k # app.key => gateway[k] <= now

\* The expiry that the new key of the application should get.
Owed == IF app.status = "approved" THEN app.exp ELSE 0

\* How far the gateway may be from agreeing at each step of the one handler
\* that touches the record, and what that handler knows of the application.
StepAgrees(j) ==
  /\ j.at \in {"idle", "capture", "confirmTx", "confirmSave", "cancelSave",
               "disableSave", "resetDrop"} => Agree
  /\ j.at \in {"reviewPlan", "reviewKey", "rejectKey", "rejectSave", "updateSave",
               "resetSave", "resetWrite"} => Closed
  /\ j.at \in {"confirmKey", "reviewSave", "reviewUndo", "disableKey"} => OthersClosed
  /\ j.at \in {"reviewPlan", "reviewKey", "reviewSave", "reviewUndo", "rejectKey", "rejectSave"} =>
       app.status = "pending"
  /\ j.at = "confirmKey" => app.status = "approved" /\ j.exp = app.exp
  /\ j.at = "reviewSave" => gateway[j.key] = j.exp
  /\ j.at = "disableKey" => app.status = "disabled"
  /\ j.at \in {"resetDrop", "resetSave", "resetWrite"} => j.exp = Owed
  /\ j.at = "updateSave" => app.status = "rejected"
  /\ j.at \in KeySteps => j.key = app.key

\* A job that touches the record.
Touch(j) == j.at \in TouchSteps \/ (j.at = "confirmSave" /\ j.exp > 0)

\* Unless handlers that touch the record met or were cut short, there is one
\* of them at most, and the gateway is as far from agreeing as its step is.
AgreeInv ==
  ~astray =>
    /\ \A v, w \in Worker : Touching(v) /\ Touching(w) => v = w
    /\ \A w \in Worker : Touching(w) => StepAgrees(job[w])
    /\ (\A w \in Worker : ~Touching(w)) => Agree

LEMMA AgreeInvInit == Init => AgreeInv
  BY DEF Init, AgreeInv, Agree, Idle, Job, Touching, TouchSteps, At

\* A step beside the record: of a handler that does not touch it, neither
\* before nor after.
LEMMA AsideAgrees ==
  ASSUME PaidInv, AgreeInv, UNCHANGED <<app, gateway, now, astray>>,
         UNCHANGED job \/ \E w \in Worker : \E j : Continue(w, j) /\ ~Touching(w) /\ ~Touch(j)
  PROVE  AgreeInv'
<1>1. \A v \in Worker : (Touching(v)' => Touching(v) /\ job'[v] = job[v]) /\ (Touching(v) => Touching(v)')
  BY Untouched DEF Touching, Touch, At, Continue
<1>2. (Agree => Agree') /\ \A v \in Worker : job'[v] = job[v] /\ StepAgrees(job[v]) => StepAgrees(job[v])'
  BY DEF StepAgrees, Agree, Closed, OthersClosed, Owed
<1> QED
  BY <1>1, <1>2 DEF AgreeInv

\* Time closes what it should: nothing changes for the worse.
LEMMA TickAgrees ==
  ASSUME PaidInv, AgreeInv, Tick
  PROVE  AgreeInv'
<1>1. now' = now + 1 /\ UNCHANGED <<app, gateway, job, astray>>
  BY DEF Tick, db, history
<1>2. (Agree => Agree') /\ (Closed => Closed') /\ (OthersClosed => OthersClosed')
  BY <1>1, Untouched DEF Agree, Closed, OthersClosed
<1>3. Owed' = Owed
  BY <1>1 DEF Owed
<1>4. ASSUME NEW v \in Worker, StepAgrees(job[v]) PROVE StepAgrees(job[v])'
  BY <1>1, <1>2, <1>3, <1>4 DEF StepAgrees
<1>5. \A v \in Worker : Touching(v)' <=> Touching(v)
  BY <1>1 DEF Touching, At
<1> QED
  BY <1>1, <1>2, <1>4, <1>5 DEF AgreeInv

\* The one handler that touches the record goes on to a job j that agrees.
LEMMA AloneAgrees ==
  ASSUME PaidInv, NEW w \in Worker, NEW j, Continue(w, j), StepAgrees(j)',
         \A v \in Worker : v # w => ~Touching(v), Touch(j) \/ Agree'
  PROVE  AgreeInv'
<1>1. job'[w] = j /\ \A v \in Worker : v # w => job'[v] = job[v]
  BY Untouched DEF Continue
<1>2. \A v \in Worker : v # w => ~Touching(v)'
  BY <1>1 DEF Touching, At
<1>3. Touching(w)' <=> Touch(j)
  BY <1>1 DEF Touching, Touch, At
<1> QED
  BY <1>1, <1>2, <1>3 DEF AgreeInv, StepAgrees

\* It ends, and the gateway agrees.
LEMMA EndAgrees ==
  ASSUME PaidInv, NEW w \in Worker, Continue(w, Idle), Agree',
         \A v \in Worker : v # w => ~Touching(v)
  PROVE  AgreeInv'
<1>1. StepAgrees(Idle)'
  BY DEF StepAgrees, Idle, Job, KeySteps
<1> QED
  BY <1>1, AloneAgrees

LEMMA StartsAgree ==
  ASSUME PaidInv, AgreeInv, NEW w \in Worker, Starts(w)
  PROVE  AgreeInv'
<1>0. UNCHANGED <<app, gateway, now>> /\ job[w] = Idle /\ ~Touching(w)
  BY DEF Starts, ChargedWebhook, ApprovedWebhook, AdminConfirm, CancelRead,
     ApproveRead, RejectRead, DisableRead, ResetRead, UpdateRead, Begin, Idle, Job, db,
     Touching, TouchSteps, At
<1>1. CASE \E o \in Order : \/ ChargedWebhook(w, o) \/ ApprovedWebhook(w, o)
                            \/ AdminConfirm(w, o) \/ CancelRead(w, o)
  <2>1. UNCHANGED astray /\ \E o \in Order, step \in {"capture", "confirmTx", "cancelSave"} :
                              Continue(w, Job(step, o, 0, 0))
    BY <1>1 DEF ChargedWebhook, ApprovedWebhook, AdminConfirm, CancelRead, Begin, Continue,
       history
  <2>2. \A o \in Order, step \in {"capture", "confirmTx", "cancelSave"} : ~Touch(Job(step, o, 0, 0))
    BY DEF Job, Touch, TouchSteps
  <2> QED
    BY <1>0, <2>1, <2>2, AsideAgrees
<1>2. CASE Touches /\ (ApproveRead(w) \/ RejectRead(w) \/ DisableRead(w) \/ ResetRead(w) \/ UpdateRead(w))
  <2> SUFFICES ASSUME ~astray' PROVE AgreeInv'
    BY DEF AgreeInv
  <2>1. Agree /\ \A v \in Worker : ~Touching(v)
    BY <1>2 DEF Touches, AgreeInv
  <2>2. Agree'
    BY <1>0, <2>1 DEF Agree
  <2>3. app.status # "approved" => Closed'
    BY <1>0, <2>1 DEF Agree, Closed
  <2>4. PICK k, e : k = app.key /\ e = Owed
    OBVIOUS
  <2>5. CASE ApproveRead(w) \/ RejectRead(w)
    <3>1. StepAgrees(Job("reviewPlan", 0, k, 0))' /\ StepAgrees(Job("rejectKey", 0, k, 0))'
      BY <1>0, <2>3, <2>4, <2>5 DEF StepAgrees, Job, KeySteps, ApproveRead, RejectRead
    <3>2. Touch(Job("reviewPlan", 0, k, 0)) /\ Touch(Job("rejectKey", 0, k, 0))
      BY DEF Touch, Job, TouchSteps
    <3>3. Continue(w, Job("reviewPlan", 0, k, 0)) \/ Continue(w, Job("rejectKey", 0, k, 0))
      BY <2>4, <2>5 DEF ApproveRead, RejectRead, Begin, Continue
    <3> QED
      BY <2>1, <3>1, <3>2, <3>3, AloneAgrees
  <2>6. CASE DisableRead(w) \/ ResetRead(w)
    <3>1. StepAgrees(Job("disableSave", 0, k, 0))' /\ StepAgrees(Job("resetDrop", 0, k, e))'
      BY <1>0, <2>2, <2>4 DEF StepAgrees, Job, KeySteps, Owed
    <3>2. Touch(Job("disableSave", 0, k, 0)) /\ Touch(Job("resetDrop", 0, k, e))
      BY DEF Touch, Job, TouchSteps
    <3>3. Continue(w, Job("disableSave", 0, k, 0)) \/ Continue(w, Job("resetDrop", 0, k, e))
      BY <2>4, <2>6 DEF DisableRead, ResetRead, Begin, Continue, Owed
    <3> QED
      BY <2>1, <3>1, <3>2, <3>3, AloneAgrees
  <2>7. CASE UpdateRead(w)
    <3>1. StepAgrees(Job("updateSave", 0, 0, 0))'
      BY <1>0, <2>3, <2>7 DEF StepAgrees, Job, KeySteps, UpdateRead
    <3>2. Touch(Job("updateSave", 0, 0, 0))
      BY DEF Touch, Job, TouchSteps
    <3>3. Continue(w, Job("updateSave", 0, 0, 0))
      BY <2>7 DEF UpdateRead, Begin, Continue
    <3> QED
      BY <2>1, <3>1, <3>2, <3>3, AloneAgrees
  <2> QED
    BY <1>2, <2>5, <2>6, <2>7
<1> QED
  BY <1>1, <1>2 DEF Starts, ApproveRead, RejectRead, DisableRead, ResetRead, UpdateRead

\* The steps of webhooks, of cancellations, and of transactions that extend
\* nothing.
LEMMA BesideAgree ==
  ASSUME PaidInv, AgreeInv, NEW w \in Worker,
         \/ Capture(w) \/ CancelSave(w) \/ ConfirmLock(w)
         \/ ConfirmCommit(w) /\ ~Touching(w)
  PROVE  AgreeInv'
<1> USE DEF At
<1>1. CASE Capture(w) \/ CancelSave(w)
  <2>1. /\ UNCHANGED <<app, gateway, now, astray>> /\ ~Touching(w)
        /\ \E j : Continue(w, j) /\ ~Touch(j)
    BY <1>1 DEF Capture, CancelSave, db, history, Touching, TouchSteps, Touch, End, Idle, Job
  <2> QED
    BY <2>1, AsideAgrees
<1>2. CASE ConfirmLock(w)
  <2> DEFINE o == job[w].o
             extends == app.status = "approved" /\ Days[o] > 0
  <2>0. UNCHANGED <<app, gateway, now>> /\ ~Touching(w)
    BY <1>2 DEF ConfirmLock, db, Touching, TouchSteps
  <2>1. CASE End(w) /\ UNCHANGED astray
    <3>1. ~Touch(Idle)
      BY DEF Touch, Idle, Job, TouchSteps
    <3> QED
      BY <2>0, <2>1, <3>1, AsideAgrees DEF End
  <2>2. CASE Continue(w, Job("confirmSave", o, app.key, 0)) /\ UNCHANGED astray
    <3>1. \E j : Continue(w, j) /\ ~Touch(j)
      BY <2>2 DEF Touch, Job, TouchSteps
    <3> QED
      BY <2>0, <2>2, <3>1, AsideAgrees
  <2>3. CASE extends /\ Touches /\ Continue(w, Job("confirmSave", o, app.key, RenewedUntil(o)))
    <3> SUFFICES ASSUME ~astray' PROVE AgreeInv'
      BY DEF AgreeInv
    <3>1. Agree /\ \A v \in Worker : ~Touching(v)
      BY <2>3 DEF Touches, AgreeInv
    <3>2. Agree'
      BY <2>0, <3>1 DEF Agree
    <3>3. PICK p, k, e : p = o /\ k = app.key /\ e = RenewedUntil(o)
      OBVIOUS
    <3>4. StepAgrees(Job("confirmSave", p, k, e))'
      BY <2>0, <3>2, <3>3 DEF StepAgrees, Job, KeySteps
    <3> QED
      BY <2>3, <3>1, <3>2, <3>3, <3>4, AloneAgrees
  <2> QED
    BY <1>2, <2>1, <2>2, <2>3 DEF ConfirmLock
<1>3. CASE ConfirmCommit(w) /\ ~Touching(w)
  <2>1. ~(job[w].exp > 0)
    BY <1>3 DEF ConfirmCommit, Touching
  <2>2. UNCHANGED <<app, gateway, now, astray>> /\ Continue(w, Idle)
    BY <1>3, <2>1 DEF ConfirmCommit, End, db
  <2>3. ~Touch(Idle)
    BY DEF Touch, Idle, Job, TouchSteps
  <2> QED
    BY <1>3, <2>2, <2>3, AsideAgrees
<1> QED
  BY <1>1, <1>2, <1>3

\* The steps of the one handler that touches the record.
LEMMA TouchingAgrees ==
  ASSUME PaidInv, AgreeInv, NEW w \in Worker, Proceeds(w), Touching(w), ~astray, ~astray'
  PROVE  AgreeInv'
<1>1. /\ app \in [status : {"pending", "approved", "rejected", "disabled"},
                  exp : Nat, key : Key]
      /\ now \in Nat /\ gateway \in [Key -> Nat]
      /\ job \in [Worker -> JobType] /\ Key \subseteq Nat
  BY Untouched
<1>2. \A v \in Worker : v # w => ~Touching(v)
  BY DEF AgreeInv
<1>3. ASSUME NEW j, Continue(w, j), StepAgrees(j)', Touch(j) PROVE AgreeInv'
  BY <1>2, <1>3, AloneAgrees
<1>4. ASSUME Agree', Continue(w, Idle) PROVE AgreeInv'
  BY <1>2, <1>4, EndAgrees
<1> DEFINE o == job[w].o  key == job[w].key  exp == job[w].exp
<1>5. now' = now
  BY DEF Proceeds, Capture, ConfirmLock, ConfirmCommit, ConfirmKey, CancelSave, ApprovePlan,
     ApproveKey, ApproveSave, ApproveUndo, RejectKey, RejectSave, DisableSave, DisableKey,
     ResetDrop, ResetSave, ResetWrite, UpdateSave
<1>6. /\ StepAgrees(job[w]) /\ job[w] \in JobType
      /\ job[w].at \in KeySteps => key \in Key
      /\ exp \in Nat
  BY JobFacts DEF AgreeInv
<1>7. CASE ConfirmCommit(w)
  <2>1. Agree /\ UNCHANGED gateway /\ job[w].at = "confirmSave" /\ exp > 0
    BY <1>6, <1>7 DEF ConfirmCommit, At, StepAgrees, Touching, TouchSteps
  <2>2. CASE UNCHANGED app /\ End(w)
    <3>1. Agree'
      BY <1>5, <2>1, <2>2 DEF Agree
    <3> QED
      BY <1>4, <2>2, <3>1 DEF End
  <2>3. CASE /\ app' = [app EXCEPT !.exp = exp]
             /\ Continue(w, Job("confirmKey", 0, key, exp))
    <3>1. PICK k, e : k = key /\ e = exp
      OBVIOUS
    <3>2. app.status = "approved" /\ key = app.key
      BY <2>1 DEF PaidInv, LockInv, Locks, At
    <3>3. app'.status = "approved" /\ app'.exp = e /\ app'.key = k
      BY <1>1, <2>3, <3>1, <3>2
    <3>4. OthersClosed'
      BY <1>5, <2>1, <3>1, <3>2, <3>3 DEF Agree, OthersClosed
    <3>5. StepAgrees(Job("confirmKey", 0, k, e))' /\ Touch(Job("confirmKey", 0, k, e))
      BY <3>3, <3>4 DEF StepAgrees, Job, KeySteps, Touch, TouchSteps
    <3> QED
      BY <1>3, <2>3, <3>1, <3>5
  <2> QED
    BY <1>7, <2>1, <2>2, <2>3 DEF ConfirmCommit, db
<1>8. CASE ConfirmKey(w)
  <2>1. /\ job[w].at = "confirmKey" /\ UNCHANGED app /\ Continue(w, Idle)
        /\ gateway' = [gateway EXCEPT ![key] = exp]
    BY <1>8 DEF ConfirmKey, At, End, BestEffort, WriteKey, db
  <2>2. /\ OthersClosed /\ key = app.key /\ key \in Key
        /\ app.status = "approved" /\ exp = app.exp
    BY <1>6, <2>1 DEF StepAgrees, KeySteps
  <2>3. Agree'
    BY <1>1, <1>5, <2>1, <2>2 DEF Agree, OthersClosed
  <2> QED
    BY <1>4, <2>1, <2>3
<1>9. CASE ApprovePlan(w)
  <2>1. /\ job[w].at = "reviewPlan" /\ UNCHANGED <<app, gateway>>
    BY <1>9 DEF ApprovePlan, At, db
  <2>2. Closed /\ key = app.key /\ app.status = "pending"
    BY <1>6, <2>1 DEF StepAgrees, KeySteps
  <2>3. Agree' /\ Closed'
    BY <1>5, <2>1, <2>2 DEF Agree, Closed
  <2>4. ASSUME NEW e, Continue(w, Job("reviewKey", 0, key, e)) PROVE AgreeInv'
    <3>1. PICK k : k = key
      OBVIOUS
    <3>2. StepAgrees(Job("reviewKey", 0, k, e))' /\ Touch(Job("reviewKey", 0, k, e))
      BY <2>1, <2>2, <2>3, <3>1 DEF StepAgrees, Job, KeySteps, Touch, TouchSteps
    <3> QED
      BY <1>3, <2>4, <3>1, <3>2
  <2>5. CASE End(w)
    BY <1>4, <2>3, <2>5 DEF End
  <2> QED
    BY <1>9, <2>4, <2>5 DEF ApprovePlan
<1>10. CASE ApproveKey(w)
  <2>1. /\ job[w].at = "reviewKey" /\ UNCHANGED app
        /\ gateway' = [gateway EXCEPT ![key] = exp]
        /\ Continue(w, [job[w] EXCEPT !.at = "reviewSave"])
    BY <1>10 DEF ApproveKey, At, WriteKey, db
  <2>2. Closed /\ key = app.key /\ app.status = "pending" /\ key \in Key
    BY <1>6, <2>1 DEF StepAgrees, KeySteps
  <2>3. PICK j : j = [job[w] EXCEPT !.at = "reviewSave"]
    OBVIOUS
  <2>4. j.at = "reviewSave" /\ j.key = key /\ j.exp = exp
    BY <1>6, <2>3 DEF JobType
  <2>5. OthersClosed' /\ gateway'[j.key] = j.exp
    BY <1>1, <1>5, <2>1, <2>2, <2>4 DEF Closed, OthersClosed
  <2>6. StepAgrees(j)' /\ Touch(j)
    BY <2>1, <2>2, <2>4, <2>5 DEF StepAgrees, KeySteps, Touch, TouchSteps
  <2> QED
    BY <1>3, <2>1, <2>3, <2>6
<1>11. CASE ApproveSave(w)
  <2>0. job[w].at = "reviewSave" /\ UNCHANGED gateway
    BY <1>11 DEF ApproveSave, At
  <2>1. OthersClosed /\ key = app.key /\ gateway[key] = exp /\ app.status = "pending"
    BY <1>6, <2>0 DEF StepAgrees, KeySteps
  <2>2. CASE app' = [app EXCEPT !.status = "approved", !.exp = exp] /\ End(w)
    <3>1. app'.key = key /\ app'.exp = exp
      BY <1>1, <2>1, <2>2
    <3>2. Agree'
      BY <1>1, <1>5, <1>6, <2>0, <2>1, <2>2, <3>1 DEF Agree, OthersClosed
    <3> QED
      BY <1>4, <2>2, <3>2 DEF End
  <2>3. CASE UNCHANGED app /\ Continue(w, [job[w] EXCEPT !.at = "reviewUndo"])
    <3>1. PICK j : j = [job[w] EXCEPT !.at = "reviewUndo"]
      OBVIOUS
    <3>2. j.at = "reviewUndo" /\ j.key = key
      BY <1>6, <3>1 DEF JobType
    <3>3. OthersClosed'
      BY <1>5, <2>0, <2>1, <2>3 DEF OthersClosed
    <3>4. StepAgrees(j)' /\ Touch(j)
      BY <2>1, <2>3, <3>2, <3>3 DEF StepAgrees, KeySteps, Touch, TouchSteps
    <3> QED
      BY <1>3, <2>3, <3>1, <3>4
  <2> QED
    BY <1>11, <2>2, <2>3 DEF ApproveSave
<1>19. CASE ApproveUndo(w)
  <2>1. /\ job[w].at = "reviewUndo" /\ UNCHANGED app /\ Continue(w, Idle)
        /\ gateway' = [gateway EXCEPT ![key] = 0]
    BY <1>19 DEF ApproveUndo, At, End, BestEffort, DropKey, WriteKey, db
  <2>2. OthersClosed /\ key = app.key /\ app.status = "pending"
    BY <1>6, <2>1 DEF StepAgrees, KeySteps
  <2>3. Agree'
    BY <1>1, <1>5, <2>1, <2>2 DEF Agree, OthersClosed
  <2> QED
    BY <1>4, <2>1, <2>3
<1>12. CASE RejectKey(w)
  <2>1. /\ job[w].at = "rejectKey" /\ UNCHANGED app
        /\ gateway' = [gateway EXCEPT ![key] = 0]
        /\ Continue(w, Job("rejectSave", 0, 0, 0))
    BY <1>12 DEF RejectKey, At, BestEffort, DropKey, WriteKey, db
  <2>2. Closed /\ app.status = "pending"
    BY <1>6, <2>1 DEF StepAgrees
  <2>3. StepAgrees(Job("rejectSave", 0, 0, 0))' /\ Touch(Job("rejectSave", 0, 0, 0))
    BY <1>1, <1>5, <2>1, <2>2 DEF Closed, StepAgrees, Job, KeySteps, Touch, TouchSteps
  <2> QED
    BY <1>3, <2>1, <2>3
<1>13. CASE RejectSave(w) \/ UpdateSave(w)
  <2>1. /\ job[w].at \in {"rejectSave", "updateSave"}
        /\ UNCHANGED gateway /\ Continue(w, Idle)
        /\ app'.status # "approved"
    BY <1>1, <1>13 DEF RejectSave, UpdateSave, At, End
  <2>2. Closed
    BY <1>6, <2>1 DEF StepAgrees
  <2>3. Agree'
    BY <1>5, <2>1, <2>2 DEF Closed, Agree
  <2> QED
    BY <1>4, <2>1, <2>3
<1>14. CASE DisableSave(w)
  <2>1. /\ job[w].at = "disableSave" /\ UNCHANGED gateway
        /\ Continue(w, [job[w] EXCEPT !.at = "disableKey"])
        /\ app'.status = "disabled" /\ app'.key = app.key
    BY <1>1, <1>14 DEF DisableSave, At
  <2>2. Agree /\ key = app.key
    BY <1>6, <2>1 DEF StepAgrees, KeySteps
  <2>3. PICK j : j = [job[w] EXCEPT !.at = "disableKey"]
    OBVIOUS
  <2>4. j.at = "disableKey" /\ j.key = key
    BY <1>6, <2>3 DEF JobType
  <2>5. OthersClosed'
    BY <1>5, <2>1, <2>2 DEF Agree, OthersClosed
  <2>6. StepAgrees(j)' /\ Touch(j)
    BY <2>1, <2>2, <2>4, <2>5 DEF StepAgrees, KeySteps, Touch, TouchSteps
  <2> QED
    BY <1>3, <2>1, <2>3, <2>6
<1>15. CASE DisableKey(w)
  <2>1. /\ job[w].at = "disableKey" /\ UNCHANGED app /\ Continue(w, Idle)
        /\ gateway' = [gateway EXCEPT ![key] = 0]
    BY <1>15 DEF DisableKey, At, End, BestEffort, DropKey, WriteKey, db
  <2>2. OthersClosed /\ key = app.key /\ app.status = "disabled"
    BY <1>6, <2>1 DEF StepAgrees, KeySteps
  <2>3. Agree'
    BY <1>1, <1>5, <2>1, <2>2 DEF Agree, OthersClosed
  <2> QED
    BY <1>4, <2>1, <2>3
<1>16. CASE ResetDrop(w)
  <2>1. /\ job[w].at = "resetDrop" /\ UNCHANGED app
        /\ gateway' = [gateway EXCEPT ![key] = 0]
        /\ Continue(w, Job("resetSave", 0, 0, exp))
    BY <1>16 DEF ResetDrop, At, DropOldKey, BestEffort, DropKey, WriteKey, db
  <2>2. Agree /\ key = app.key /\ exp = Owed
    BY <1>6, <2>1 DEF StepAgrees, KeySteps
  <2>3. Closed'
    BY <1>1, <1>5, <2>1, <2>2 DEF Agree, Closed
  <2>4. PICK e : e = exp
    OBVIOUS
  <2>5. StepAgrees(Job("resetSave", 0, 0, e))' /\ Touch(Job("resetSave", 0, 0, e))
    BY <2>1, <2>2, <2>3, <2>4 DEF StepAgrees, Job, KeySteps, Owed, Touch, TouchSteps
  <2> QED
    BY <1>3, <2>1, <2>4, <2>5
<1>17. CASE ResetSave(w)
  <2>1. /\ job[w].at = "resetSave" /\ UNCHANGED gateway
        /\ app' = [app EXCEPT !.key = keys']
        /\ Continue(w, Job("resetWrite", 0, keys', exp))
    BY <1>17 DEF ResetSave, At
  <2>2. Closed /\ exp = Owed
    BY <1>6, <2>1 DEF StepAgrees
  <2>3. Closed' /\ app'.key = keys' /\ Owed' = Owed
    BY <1>1, <1>5, <2>1, <2>2 DEF Closed, Owed
  <2>4. PICK k, e : k = keys' /\ e = exp
    OBVIOUS
  <2>5. StepAgrees(Job("resetWrite", 0, k, e))' /\ Touch(Job("resetWrite", 0, k, e))
    BY <2>2, <2>3, <2>4 DEF StepAgrees, Job, KeySteps, Touch, TouchSteps
  <2> QED
    BY <1>3, <2>1, <2>4, <2>5
<1>18. CASE ResetWrite(w)
  <2>1. /\ job[w].at = "resetWrite" /\ UNCHANGED app /\ Continue(w, Idle)
        /\ gateway' = IF exp > now THEN [gateway EXCEPT ![key] = exp] ELSE gateway
    BY <1>18 DEF ResetWrite, At, End, BestEffort, WriteKey, db
  <2>2. Closed /\ key = app.key /\ exp = Owed
    BY <1>6, <2>1 DEF StepAgrees, KeySteps
  <2>3. Agree'
    BY <1>1, <1>5, <1>6, <2>1, <2>2 DEF Agree, Closed, Owed
  <2> QED
    BY <1>4, <2>1, <2>3
<1> QED
  BY <1>7, <1>8, <1>9, <1>10, <1>11, <1>12, <1>13, <1>14, <1>15, <1>16, <1>17, <1>18, <1>19
     DEF Proceeds, Capture, CancelSave, ConfirmLock, At, Touching, TouchSteps

LEMMA AgreeInvStep ==
  ASSUME PaidInv, AgreeInv, [Next]_vars
  PROVE  AgreeInv'
<1>1. CASE Tick
  BY <1>1, TickAgrees
<1>2. CASE UNCHANGED vars \/ \E o \in Order : PlaceOrder(o) \/ OpenCheckout(o) \/ BuyerPays(o)
  <2>1. UNCHANGED <<app, gateway, now, job, astray>>
    BY <1>2 DEF vars, PlaceOrder, OpenCheckout, BuyerPays, db, history
  <2> QED
    BY <2>1, AsideAgrees
<1>3. ASSUME NEW w \in Worker, Starts(w) PROVE AgreeInv'
  BY <1>3, StartsAgree
<1>4. ASSUME NEW w \in Worker, Proceeds(w) PROVE AgreeInv'
  <2>1. CASE \/ Capture(w) \/ CancelSave(w) \/ ConfirmLock(w)
             \/ ConfirmCommit(w) /\ ~Touching(w)
    BY <2>1, BesideAgree
  <2>2. CASE ~(\/ Capture(w) \/ CancelSave(w) \/ ConfirmLock(w)
               \/ ConfirmCommit(w) /\ ~Touching(w))
    <3>1. Touching(w)
      BY <1>4, <2>2 DEF Proceeds, ConfirmCommit, ConfirmKey, ApprovePlan, ApproveKey, ApproveSave,
         ApproveUndo, RejectKey, RejectSave, DisableSave, DisableKey, ResetDrop, ResetSave,
         ResetWrite, UpdateSave, At, Touching, TouchSteps
    <3>2. astray => astray'
      BY <1>4, <2>2 DEF Proceeds, ConfirmCommit, ConfirmKey, ApprovePlan, ApproveKey, ApproveSave,
         ApproveUndo, RejectKey, RejectSave, DisableSave, DisableKey, ResetDrop, ResetSave,
         ResetWrite, UpdateSave, BestEffort, DropOldKey, history
    <3>3. CASE ~astray'
      BY <1>4, <3>1, <3>2, <3>3, TouchingAgrees
    <3>4. CASE astray'
      BY <3>4 DEF AgreeInv
    <3> QED
      BY <3>3, <3>4
  <2> QED
    BY <2>1, <2>2
<1>5. ASSUME NEW w \in Worker, Crash(w) PROVE AgreeInv'
  <2>1. CASE Touching(w)
    BY <1>5, <2>1 DEF Crash, AgreeInv
  <2>2. CASE ~Touching(w)
    <3>1. UNCHANGED <<app, gateway, now, astray>> /\ Continue(w, Idle)
      BY <1>5, <2>2, Untouched DEF Crash, db, End
    <3>2. ~Touch(Idle)
      BY DEF Touch, Idle, Job, TouchSteps
    <3> QED
      BY <2>2, <3>1, <3>2, AsideAgrees
  <2> QED
    BY <2>1, <2>2
<1> QED
  BY <1>1, <1>2, <1>3, <1>4, <1>5 DEF Next

\* The record in Redis is right whenever no handler is at work on it: the
\* current key of an approved application, and no other, until it expires.
\* This holds for any number of workers, with failing calls and crashes, until
\* two handlers that touch the record meet or one is cut short on the way
\* (PaymentService.php:317, ClientController.php:218, ClientAppController.php:196).
THEOREM GatewayAgreesHolds == Spec => []GatewayAgrees
<1>1. PaidInv /\ AgreeInv /\ [Next]_vars => AgreeInv'
  BY AgreeInvStep
<1>2. AgreeInv => GatewayAgrees
  BY DEF AgreeInv, GatewayAgrees, Agree
<1> QED
  BY <1>1, <1>2, AgreeInvInit, SubscriptionInvariant, PTL DEF Spec
=============================================================================
