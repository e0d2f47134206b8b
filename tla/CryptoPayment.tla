---------------------------- MODULE CryptoPayment ----------------------------
(***************************************************************************)
(* Orders that are paid by a transfer of coins (admin/app: CryptoService,  *)
(* the crypto channel of ClientAppController::pay, and                     *)
(* OrderController::confirm and cancel).                                   *)
(*                                                                         *)
(* All buyers of a chain transfer to one address, and most transfers carry *)
(* no memo: what tells whose a transfer is, is its amount.  So each order  *)
(* of a chain is given an amount of its own when it is paid for, the price *)
(* and a few cents, and is later matched with the transfers of that amount.*)
(* Amounts are in cents.                                                   *)
(*                                                                         *)
(* Handlers are cut where they touch the database or ask for the rate or   *)
(* for the transfers.  What an order buys is the matter of Subscription.   *)
(***************************************************************************)
EXTENDS Integers, Sequences

CONSTANTS
  Worker,       \* PHP workers
  MaxOrders,    \* bound: orders; they are numbered in the order of created_at
  Chain,        \* the chain of each order; "trc20" is the one that is looked up
  Bases,        \* what the price of each order can come to, as the rate moves
  Offsets,      \* offsets that are tried (99)
  MaxTransfers  \* bound: transfers on the chain

Order == 1..MaxOrders

CryptoAssumption ==
  /\ MaxOrders \in Nat /\ Offsets \in Nat /\ MaxTransfers \in Nat
  /\ Chain \in [Order -> STRING]
  /\ Bases \in [Order -> SUBSET (Nat \ {0})]

VARIABLES
  status,     \* orders.status, "none" before the order is placed
  amount,     \* orders.crypto_amount; 0 when it is NULL, and then there is no memo
  tx,         \* orders.tx_id: the transfer that was found for it; 0 for none
  transfers,  \* the transfers that arrived at the address, in their order
  job,        \* what each worker is doing and remembers
  \* History, read by no handler:
  shown,      \* the amounts that the buyer of each order was told
  met,        \* orders whose amounts were worked out at the same time
  full        \* orders for which no offset was left

history == <<shown, met, full>>
vars == <<status, amount, tx, transfers, job, history>>

\* A worker at step `at' for order o, that loaded the amount `seen' with the
\* order, and has an amount to go on with, or the amounts in use; or a transfer.
Job(at, o, seen, own, used, t) ==
  [at |-> at, o |-> o, seen |-> seen, own |-> own, used |-> used, t |-> t]
Idle == Job("idle", 0, 0, 0, {}, 0)

Init ==
  /\ status = [o \in Order |-> "none"]
  /\ amount = [o \in Order |-> 0] /\ tx = [o \in Order |-> 0]
  /\ transfers = <<>>
  /\ job = [w \in Worker |-> Idle]
  /\ shown = [o \in Order |-> {}] /\ met = {} /\ full = {}

Begin(w, j) == job[w] = Idle /\ job' = [job EXCEPT ![w] = j]
Continue(w, j) == job' = [job EXCEPT ![w] = j]
Go(w, step) == Continue(w, [job[w] EXCEPT !.at = step])
End(w) == Continue(w, Idle)
At(w, step) == job[w].at = step

Pending(o) == status[o] = "pending"
Placed == {o \in Order : status[o] # "none"}

PlaceOrder(o) ==
  /\ status[o] = "none" /\ \A p \in Order : p < o => p \in Placed
  /\ status' = [status EXCEPT ![o] = "pending"]
  /\ UNCHANGED <<amount, tx, transfers, job, history>>

-----------------------------------------------------------------------------
(* pay, and CryptoService::initiate within it.                             *)

PayRead(w, o) ==
  /\ Pending(o)
  /\ Begin(w, Job("payOwn", o, amount[o], 0, {}, 0))
  /\ UNCHANGED <<status, amount, tx, transfers, history>>

\* Mutant: every call works the amount out again.
NeverReuse(o) == FALSE

\* The order has an amount that was shown: it is used again.
Reuses(o) == Pending(o) /\ amount[o] > 0

\* Whether the worker will change the amount of its order.
Decides(j) == j.at = "payUsed" \/ (j.at = "paySave" /\ (j.own = 0 \/ j.own # j.seen))

\* The orders of the chain that other workers decide about meanwhile.
Meets(w, o) ==
  {{o, job[v].o} : v \in {v \in Worker \ {w} : Decides(job[v]) /\ Chain[job[v].o] = Chain[o]}}

PayOwn(w) ==
  LET o == job[w].o
      next == IF Reuses(o) THEN [job[w] EXCEPT !.at = "paySave", !.own = amount[o]]
              ELSE [job[w] EXCEPT !.at = "payUsed"]
  IN /\ At(w, "payOwn") /\ Continue(w, next)
     /\ met' = IF Decides(next) THEN met \cup Meets(w, o) ELSE met
     /\ UNCHANGED <<status, amount, tx, transfers, shown, full>>

\* Mutant: only orders placed before are looked at.
UsedBefore(o) == {amount[p] : p \in {p \in Order : p < o /\ Pending(p) /\ Chain[p] = Chain[o]}}

\* The amounts of the other pending orders of the chain.
UsedBy(o) == {amount[p] : p \in {p \in Order \ {o} : Pending(p) /\ Chain[p] = Chain[o]}}

PayUsed(w) ==
  /\ At(w, "payUsed")
  /\ Continue(w, [job[w] EXCEPT !.at = "paySave", !.used = UsedBy(job[w].o)])
  /\ UNCHANGED <<status, amount, tx, transfers, history>>

\* uniqueAmount: the first offset that gives an amount not in use; the base
\* itself if there is none.
Free(base, used) == {c \in 1..Offsets : base + c \notin used}
UniqueAmount(base, used) ==
  IF Free(base, used) = {} THEN base
  ELSE base + CHOOSE c \in Free(base, used) : \A d \in Free(base, used) : c <= d

\* The amount is saved, if it is another than the one loaded, and shown.
Save(w, value) ==
  LET o == job[w].o IN
  /\ amount' = IF value = job[w].seen THEN amount ELSE [amount EXCEPT ![o] = value]
  /\ shown' = [shown EXCEPT ![o] = @ \cup {value}]
  /\ End(w)
  /\ UNCHANGED <<status, tx, transfers, met>>

SaveOwn(w) ==
  /\ At(w, "paySave") /\ job[w].own > 0
  /\ Save(w, job[w].own)
  /\ UNCHANGED full

\* With the rate of the moment.
SaveNew(w) ==
  /\ At(w, "paySave") /\ job[w].own = 0
  /\ \E base \in Bases[job[w].o] :
       /\ Save(w, UniqueAmount(base, job[w].used))
       /\ full' = IF Free(base, job[w].used) = {} THEN full \cup {job[w].o} ELSE full

\* A buyer transfers an amount that was shown, with the memo or without,
\* whatever has become of the order (external).
Transfer(o, value, memo) ==
  /\ Chain[o] = "trc20" /\ value \in shown[o] /\ Len(transfers) < MaxTransfers
  /\ transfers' = Append(transfers,
       [of |-> o, amount |-> value, memo |-> memo, placed |-> Placed])
  /\ UNCHANGED <<status, amount, tx, job, history>>

-----------------------------------------------------------------------------
(* confirm and cancel.                                                     *)

\* The order is confirmed whatever is on the chain.
Unverified(o) == Job("claim", o, 0, 0, {}, 0)

\* An order that has an amount is looked up on the chain; a person may confirm
\* any other.
ConfirmRead(w, o) ==
  /\ Pending(o)
  /\ Begin(w, IF Chain[o] = "trc20" /\ amount[o] > 0
              THEN Job("verify", o, amount[o], 0, {}, 0) ELSE Unverified(o))
  /\ UNCHANGED <<status, amount, tx, transfers, history>>

\* Mutant: a memo is not looked at.
AnyMemo(t, o) == TRUE

\* The memo, if there is one, is that of the order.
MemoFits(t, o) == t.memo => t.of = o

\* verifyTrc20: a transfer of that amount, made since the order was placed.
Matches(t, o, value) == t.amount = value /\ o \in t.placed /\ MemoFits(t, o)

\* The first match in the answer, whose order is not known; no match, and no
\* answer, leave it to the person.
Verify(w) ==
  /\ At(w, "verify")
  /\ \/ \E t \in DOMAIN transfers :
          /\ Matches(transfers[t], job[w].o, job[w].seen)
          /\ Continue(w, Job("checkTx", job[w].o, 0, 0, {}, t))
     \/ Continue(w, Unverified(job[w].o))
  /\ UNCHANGED <<status, amount, tx, transfers, history>>

Taken(t, o) == \E p \in Order \ {o} : tx[p] = t

\* Refused if another order has the transfer.
CheckTx(w) ==
  /\ At(w, "checkTx")
  /\ IF Taken(job[w].t, job[w].o) THEN End(w) ELSE Go(w, "noteTx")
  /\ UNCHANGED <<status, amount, tx, transfers, history>>

\* The unique index on tx_id.
Duplicate(t, o) == Taken(t, o)

\* The transfer is noted unless the order has one.
NoteTx(w) ==
  LET o == job[w].o
      t == job[w].t
  IN /\ At(w, "noteTx")
     /\ \/ tx[o] # 0 /\ Continue(w, Unverified(o)) /\ UNCHANGED tx
        \/ tx[o] = 0 /\ Duplicate(t, o) /\ End(w) /\ UNCHANGED tx
        \/ /\ tx[o] = 0 /\ ~Duplicate(t, o)
           /\ tx' = [tx EXCEPT ![o] = t] /\ Continue(w, Unverified(o))
     /\ UNCHANGED <<status, amount, transfers, history>>

\* confirmOrder, as far as the order goes: its conditional update.
Claim(w) ==
  /\ At(w, "claim")
  /\ status' = IF Pending(job[w].o) THEN [status EXCEPT ![job[w].o] = "paid"] ELSE status
  /\ End(w)
  /\ UNCHANGED <<amount, tx, transfers, history>>

CancelRead(w, o) ==
  /\ Pending(o)
  /\ Begin(w, Job("cancelSave", o, 0, 0, {}, 0))
  /\ UNCHANGED <<status, amount, tx, transfers, history>>

CancelSave(w) ==
  /\ At(w, "cancelSave")
  /\ status' = [status EXCEPT ![job[w].o] = "cancelled"]
  /\ End(w)
  /\ UNCHANGED <<amount, tx, transfers, history>>

\* The worker dies, or the handler ends with an error.
Abort(w) ==
  /\ job[w] # Idle /\ End(w)
  /\ UNCHANGED <<status, amount, tx, transfers, history>>

Starts(w, o) == PayRead(w, o) \/ ConfirmRead(w, o) \/ CancelRead(w, o)

Proceeds(w) ==
  \/ PayOwn(w) \/ PayUsed(w) \/ SaveOwn(w) \/ SaveNew(w)
  \/ Verify(w) \/ CheckTx(w) \/ NoteTx(w) \/ Claim(w) \/ CancelSave(w)

Next ==
  \/ \E o \in Order :
       \/ PlaceOrder(o)
       \/ \E value \in shown[o], memo \in BOOLEAN : Transfer(o, value, memo)
  \/ \E w \in Worker : Proceeds(w) \/ Abort(w) \/ \E o \in Order : Starts(w, o)

Spec == Init /\ [][Next]_vars

-----------------------------------------------------------------------------
(* Properties.                                                             *)

OrderSteps == {"payOwn", "payUsed", "paySave", "verify", "checkTx", "noteTx", "claim", "cancelSave"}

JobType == [at : {"idle"} \cup OrderSteps, o : Nat, seen : Nat, own : Nat,
            used : SUBSET Nat, t : Nat]

TypeOK ==
  /\ status \in [Order -> {"none", "pending", "paid", "cancelled"}]
  /\ amount \in [Order -> Nat]
  /\ transfers \in Seq([of : Order, amount : Nat, memo : BOOLEAN, placed : SUBSET Order])
  /\ tx \in [Order -> 0..Len(transfers)]
  /\ job \in [Worker -> JobType]
  /\ \A w \in Worker :
       /\ job[w].at \in OrderSteps => job[w].o \in Order
       /\ job[w].at \in {"checkTx", "noteTx"} => job[w].t \in DOMAIN transfers
  /\ shown \in [Order -> SUBSET Nat]
  /\ met \subseteq SUBSET Order /\ full \subseteq Order

Rivals(o, p) == o # p /\ Pending(o) /\ Pending(p) /\ Chain[o] = Chain[p] /\ amount[o] > 0

\* Two pending orders of a chain have different amounts, unless these were
\* worked out at the same time or the offsets were used up.
AmountsDiffer ==
  \A o, p \in Order :
    Rivals(o, p) /\ amount[o] = amount[p] => {o, p} \in met \/ o \in full \/ p \in full

\* An amount that was shown is kept: whoever pays for a pending order again is
\* told the same, unless two calls worked it out at the same time.
ShownIsKept ==
  \A o \in Order : Pending(o) => shown[o] \subseteq {amount[o]} \/ {o} \in met

\* No transfer made for an order that is still open is taken for another one,
\* unless it carries no memo and the amounts came out equal as above.
TransferFindsItsOrder ==
  [][\A o \in Order :
       tx'[o] # tx[o] =>
         LET t == transfers[tx'[o]] IN
         \/ t.of = o \/ ~Pending(o) \/ ~Pending(t.of)
         \/ ~t.memo /\ (met \cap {{o}, {t.of}, {o, t.of}} # {} \/ full \cap {o, t.of} # {})]_vars
=============================================================================
