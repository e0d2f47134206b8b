------------------------ MODULE CryptoPayment_proofs ------------------------
(***************************************************************************)
(* That the amounts of coin payments tell the orders apart, for any number *)
(* of workers, orders, offsets and transfers, any chains and any rates.    *)
(***************************************************************************)
EXTENDS CryptoPayment, WellFoundedInduction, TLAPS

\* What is free for two orders to share: they met, or no offset was left.
Excused(o, p) == {o, p} \in met \/ o \in full \/ p \in full

\* An order that is not placed has nothing, and is nobody's business.
Placing ==
  /\ \A o \in Order : status[o] = "none" => amount[o] = 0 /\ shown[o] = {}
  /\ \A w \in Worker : job[w].at \in OrderSteps => status[job[w].o] # "none"

\* What was shown was an amount.
Showing == \A o \in Order : 0 \notin shown[o]

\* Whoever decides about two orders of a chain at once, has met.
Meeting ==
  \A v, w \in Worker :
    v # w /\ Decides(job[v]) /\ Decides(job[w]) /\ Chain[job[v].o] = Chain[job[w].o]
      => {job[v].o, job[w].o} \in met

\* An amount that was read for the order: it stands, or calls met over it.
Stands(o, value) == Pending(o) => amount[o] = value \/ {o} \in met

\* No other pending order of the chain has that amount without an excuse.
Reserved(o, value) ==
  \A p \in Order : Rivals(p, o) /\ amount[p] = value => Excused(o, p)

\* Between its look at the order and the save, a worker knows whether the order
\* has an amount, and the amounts it must not take.
Paying(w) ==
  LET j == job[w] IN
  /\ j.at \in {"payOwn", "payUsed"} => j.own = 0
  /\ j.at \in {"payOwn", "payUsed", "paySave"} /\ j.seen > 0 => amount[j.o] > 0
  /\ j.at = "payUsed" \/ (j.at = "paySave" /\ j.own = 0) => Stands(j.o, 0)
  /\ j.at = "paySave" /\ j.own > 0 => Stands(j.o, j.own)
  /\ j.at = "paySave" /\ j.own > 0 /\ j.own # j.seen => Reserved(j.o, j.own)
  /\ j.at = "paySave" /\ j.own = 0 =>
       \A p \in Order : Rivals(p, j.o) => amount[p] \in j.used \/ Excused(j.o, p)

\* A transfer was made for an amount that was shown.
Paid ==
  \A i \in DOMAIN transfers :
    LET t == transfers[i] IN Chain[t.of] = "trc20" /\ t.amount \in shown[t.of]

\* A transfer that may be taken for the order.
Fits(t, o) ==
  \/ t.of = o \/ ~Pending(o) \/ ~Pending(t.of)
  \/ ~t.memo /\ (met \cap {{o}, {t.of}, {o, t.of}} # {} \/ full \cap {o, t.of} # {})

\* A confirmation looks for the amount of the order, and found a transfer that
\* may be taken for it.
Confirming(w) ==
  LET j == job[w] IN
  /\ j.at = "verify" => Chain[j.o] = "trc20" /\ j.seen > 0 /\ Stands(j.o, j.seen)
  /\ j.at \in {"checkTx", "noteTx"} => Fits(transfers[j.t], j.o)

CoinInv ==
  /\ Placing /\ Showing /\ Meeting /\ Paid
  /\ AmountsDiffer /\ ShownIsKept
  /\ \A w \in Worker : Paying(w) /\ Confirming(w)

-----------------------------------------------------------------------------
(* Amounts.                                                                *)

\* A set of numbers that is not empty has a least one.
LEMMA LeastOne ==
  ASSUME NEW S \in SUBSET Nat, S # {}
  PROVE  \E c \in S : \A d \in S : c <= d
<1>1. PICK c \in S : \A d \in S : ~(<<d, c>> \in OpToRel(<, Nat))
  BY NatLessThanWellFounded, WFMin
<1>2. ASSUME NEW d \in S PROVE c <= d
  <2>1. d \in Nat /\ c \in Nat /\ ~(<<d, c>> \in OpToRel(<, Nat))
    BY <1>1
  <2> QED
    BY <2>1 DEF OpToRel
<1> QED
  BY <1>2

\* The amount is one, and not in use unless none was free.
LEMMA UniqueFound ==
  ASSUME CryptoAssumption, NEW base \in Nat \ {0}, NEW used
  PROVE  /\ UniqueAmount(base, used) \in Nat \ {0}
         /\ Free(base, used) # {} => UniqueAmount(base, used) \notin used
<1>1. CASE Free(base, used) = {}
  BY <1>1 DEF UniqueAmount
<1>2. CASE Free(base, used) # {}
  <2> DEFINE F == Free(base, used)
             Least(c) == \A d \in F : c <= d
             c0 == CHOOSE c \in F : Least(c)
  <2>1. F \in SUBSET Nat /\ F # {}
    BY <1>2 DEF Free
  <2>2. \E c \in F : Least(c)
    BY <2>1, LeastOne
  <2> HIDE DEF F, Least
  <2>3. c0 \in F
    BY <2>2, Zenon
  <2>4. UniqueAmount(base, used) = base + c0
    BY <1>2 DEF UniqueAmount, F, Least
  <2> HIDE DEF c0
  <2>5. c0 \in Nat /\ base + c0 \notin used
    BY <2>3 DEF F, Free, CryptoAssumption
  <2>6. base + c0 \in Nat \ {0}
    BY <2>5
  <2> QED
    BY <2>4, <2>5, <2>6
<1> QED
  BY <1>1, <1>2

-----------------------------------------------------------------------------
(* Types.                                                                  *)

\* What TypeOK says of the workers.
JobsOK ==
  /\ job \in [Worker -> JobType]
  /\ \A w \in Worker :
       /\ job[w].at \in OrderSteps => job[w].o \in Order
       /\ job[w].at \in {"checkTx", "noteTx"} => job[w].t \in DOMAIN transfers

\* One worker goes on, and the others stay.
Alone(w) == \A v \in Worker \ {w} : job'[v] = job[v]

LEMMA OneGoes ==
  ASSUME TypeOK, NEW w \in Worker
  PROVE  /\ \A j : Continue(w, j) => job'[w] = j /\ Alone(w)
         /\ \A j : Begin(w, j) => job[w] = Idle /\ job'[w] = j /\ Alone(w)
         /\ End(w) => job'[w] = Idle /\ Alone(w)
BY DEF TypeOK, Continue, Begin, End, Alone

LEMMA JobsKeep ==
  ASSUME JobsOK, NEW w \in Worker, NEW j \in JobType, Continue(w, j),
         j.at \in OrderSteps => j.o \in Order,
         j.at \in {"checkTx", "noteTx"} => j.t \in DOMAIN transfers,
         UNCHANGED transfers
  PROVE  JobsOK'
BY DEF JobsOK, Continue

LEMMA SaveTypes ==
  ASSUME TypeOK, CryptoAssumption, NEW w \in Worker, SaveOwn(w) \/ SaveNew(w)
  PROVE  \E value \in Nat \ {0} :
           /\ Save(w, value) /\ job[w].o \in Order /\ At(w, "paySave")
           /\ \/ job[w].own > 0 /\ value = job[w].own /\ full' = full
              \/ /\ job[w].own = 0 /\ full \subseteq full' /\ full' \subseteq Order
                 /\ value \notin job[w].used \/ job[w].o \in full'
<1>1. job[w] \in JobType /\ job[w].own \in Nat /\ full \subseteq Order
  BY DEF TypeOK, JobType
<1>2. At(w, "paySave") /\ job[w].o \in Order
  BY DEF SaveOwn, SaveNew, TypeOK, At, OrderSteps
<1>3. CASE SaveOwn(w)
  BY <1>1, <1>2, <1>3 DEF SaveOwn
<1>4. CASE SaveNew(w)
  <2>1. PICK base \in Bases[job[w].o] :
          /\ Save(w, UniqueAmount(base, job[w].used))
          /\ full' = IF Free(base, job[w].used) = {} THEN full \cup {job[w].o} ELSE full
    BY <1>4 DEF SaveNew
  <2>2. base \in Nat \ {0}
    BY <1>2 DEF CryptoAssumption
  <2>3. /\ UniqueAmount(base, job[w].used) \in Nat \ {0}
        /\ Free(base, job[w].used) # {} =>
             UniqueAmount(base, job[w].used) \notin job[w].used
    BY <2>2, UniqueFound
  <2>4. /\ full \subseteq full' /\ full' \subseteq Order
        /\ Free(base, job[w].used) = {} => job[w].o \in full'
    BY <1>1, <1>2, <2>1
  <2>5. job[w].own = 0
    BY <1>4 DEF SaveNew
  <2> DEFINE value == UniqueAmount(base, job[w].used)
  <2>6. value \in Nat \ {0} /\ Save(w, value)
        /\ (value \notin job[w].used \/ job[w].o \in full')
    BY <2>1, <2>3, <2>4
  <2> HIDE DEF value
  <2>7. /\ Save(w, value) /\ job[w].o \in Order /\ At(w, "paySave")
        /\ \/ job[w].own > 0 /\ value = job[w].own /\ full' = full
           \/ /\ job[w].own = 0 /\ full \subseteq full' /\ full' \subseteq Order
              /\ value \notin job[w].used \/ job[w].o \in full'
    BY <1>2, <2>4, <2>5, <2>6
  <2> QED
    BY <2>6, <2>7
<1> QED
  BY <1>3, <1>4

LEMMA TypeKeeps ==
  ASSUME CryptoAssumption, TypeOK, [Next]_vars
  PROVE  TypeOK'
<1>0. /\ status \in [Order -> {"none", "pending", "paid", "cancelled"}]
      /\ amount \in [Order -> Nat] /\ tx \in [Order -> 0..Len(transfers)]
      /\ transfers \in Seq([of : Order, amount : Nat, memo : BOOLEAN, placed : SUBSET Order])
      /\ JobsOK /\ shown \in [Order -> SUBSET Nat]
      /\ met \subseteq SUBSET Order /\ full \subseteq Order
  BY DEF TypeOK, JobsOK
<1>1. ASSUME JobsOK', UNCHANGED <<status, amount, tx, transfers, history>> PROVE TypeOK'
  BY <1>0, <1>1 DEF TypeOK, JobsOK, history
<1>2. ASSUME NEW w \in Worker, End(w), UNCHANGED transfers PROVE JobsOK'
  <2>1. Idle \in JobType /\ Idle.at \notin OrderSteps
    BY DEF Idle, Job, JobType, OrderSteps
  <2> QED
    BY <1>0, <1>2, <2>1, JobsKeep DEF End, OrderSteps
<1>3. ASSUME NEW w \in Worker, NEW step \in {"payOwn", "verify", "claim", "cancelSave"},
             NEW o \in Order, NEW seen \in Nat
      PROVE  /\ Job(step, o, seen, 0, {}, 0) \in JobType
             /\ Job(step, o, seen, 0, {}, 0).o = o
             /\ Job(step, o, seen, 0, {}, 0).at \notin {"checkTx", "noteTx"}
  <2>1. o \in Nat /\ {} \in SUBSET Nat
    BY DEF Order, CryptoAssumption
  <2> QED
    BY <2>1 DEF Job, JobType, OrderSteps
<1>4. ASSUME NEW w \in Worker, NEW step \in {"payOwn", "verify", "claim", "cancelSave"},
             NEW o \in Order, NEW seen \in Nat, UNCHANGED transfers,
             Continue(w, Job(step, o, seen, 0, {}, 0))
      PROVE  JobsOK'
  <2> DEFINE j == Job(step, o, seen, 0, {}, 0)
  <2>1. j \in JobType /\ j.o = o /\ j.at \notin {"checkTx", "noteTx"}
    BY <1>3
  <2> HIDE DEF j
  <2> QED
    BY <1>0, <1>4, <2>1, JobsKeep DEF j
<1>5. ASSUME NEW w \in Worker, job[w].at \in OrderSteps PROVE job[w].o \in Order
  BY <1>0, <1>5 DEF JobsOK
<1>6. CASE UNCHANGED vars
  BY <1>0, <1>1, <1>6 DEF vars, JobsOK
<1>7. ASSUME NEW o \in Order, PlaceOrder(o) PROVE TypeOK'
  BY <1>0, <1>7 DEF TypeOK, JobsOK, PlaceOrder, history
<1>8. ASSUME NEW o \in Order, NEW value \in shown[o], NEW memo \in BOOLEAN, Transfer(o, value, memo)
      PROVE  TypeOK'
  <2> DEFINE t == [of |-> o, amount |-> value, memo |-> memo, placed |-> Placed]
             T == [of : Order, amount : Nat, memo : BOOLEAN, placed : SUBSET Order]
  <2>1. t \in T
    BY <1>0 DEF Placed
  <2>2. transfers' = Append(transfers, t)
    BY <1>8 DEF Transfer
  <2> HIDE DEF t, T
  <2>3. /\ transfers' \in Seq(T) /\ Len(transfers') = Len(transfers) + 1
        /\ Len(transfers) \in Nat /\ DOMAIN transfers \subseteq DOMAIN transfers'
    <3>1. transfers \in Seq(T)
      BY <1>0 DEF T
    <3> QED
      BY <2>1, <2>2, <3>1
  <2>4. tx' \in [Order -> 0..Len(transfers')] /\ JobsOK'
    BY <1>0, <1>8, <2>3 DEF Transfer, JobsOK
  <2> QED
    BY <1>0, <1>8, <2>3, <2>4 DEF TypeOK, JobsOK, Transfer, T, history
<1>9. ASSUME NEW w \in Worker, NEW o \in Order, PayRead(w, o) PROVE TypeOK'
  <2>1. amount[o] \in Nat /\ Continue(w, Job("payOwn", o, amount[o], 0, {}, 0))
    BY <1>0, <1>9 DEF PayRead, Begin, Continue
  <2> QED
    BY <1>1, <1>4, <1>9, <2>1 DEF PayRead
<1>10. ASSUME NEW w \in Worker, PayOwn(w) PROVE TypeOK'
  <2> DEFINE o == job[w].o
             next == IF Reuses(o) THEN [job[w] EXCEPT !.at = "paySave", !.own = amount[o]]
                     ELSE [job[w] EXCEPT !.at = "payUsed"]
  <2>1. o \in Order
    BY <1>5, <1>10 DEF PayOwn, At, OrderSteps
  <2>2. job[w] \in JobType /\ amount[o] \in Nat
    BY <1>0, <2>1 DEF JobsOK
  <2>3. next \in JobType /\ next.o = o /\ next.at \in {"paySave", "payUsed"}
    BY <2>2 DEF JobType, OrderSteps
  <2>4. Continue(w, next) /\ UNCHANGED <<status, amount, tx, transfers, shown, full>>
        /\ \/ met' = met
           \/ met' = met \cup Meets(w, o)
    BY <1>10 DEF PayOwn
  <2> HIDE DEF next
  <2>5. JobsOK'
    BY <1>0, <2>1, <2>3, <2>4, JobsKeep
  <2>6. Meets(w, o) \subseteq SUBSET Order
    <3>1. ASSUME NEW v \in Worker, Decides(job[v]) PROVE job[v].o \in Order
      BY <1>5, <3>1 DEF Decides, OrderSteps
    <3> QED
      BY <2>1, <3>1 DEF Meets
  <2> QED
    BY <1>0, <2>4, <2>5, <2>6 DEF TypeOK, JobsOK
<1>11. ASSUME NEW w \in Worker, PayUsed(w) PROVE TypeOK'
  <2>1. job[w] \in JobType /\ job[w].o \in Order /\ UsedBy(job[w].o) \subseteq Nat
    BY <1>0, <1>5, <1>11 DEF PayUsed, At, JobsOK, UsedBy, OrderSteps
  <2> DEFINE j == [job[w] EXCEPT !.at = "paySave", !.used = UsedBy(job[w].o)]
  <2>2. j \in JobType /\ j.o \in Order /\ j.at = "paySave"
    BY <2>1 DEF JobType, OrderSteps
  <2>3. Continue(w, j) /\ UNCHANGED <<status, amount, tx, transfers, history>>
    BY <1>11 DEF PayUsed
  <2> HIDE DEF j
  <2> QED
    BY <1>0, <1>1, <2>2, <2>3, JobsKeep
<1>12. ASSUME NEW w \in Worker, SaveOwn(w) \/ SaveNew(w) PROVE TypeOK'
  <2>1. PICK value \in Nat \ {0} :
           /\ Save(w, value) /\ job[w].o \in Order
           /\ full' \subseteq Order
    BY <1>0, <1>12, SaveTypes
  <2>2. /\ End(w) /\ UNCHANGED <<status, tx, transfers, met>>
        /\ amount' = amount \/ amount' = [amount EXCEPT ![job[w].o] = value]
        /\ shown' = [shown EXCEPT ![job[w].o] = @ \cup {value}]
    BY <2>1 DEF Save
  <2>3. amount' \in [Order -> Nat] /\ shown' \in [Order -> SUBSET Nat]
    BY <1>0, <2>1, <2>2
  <2>4. JobsOK'
    BY <1>2, <2>2
  <2> QED
    BY <1>0, <2>1, <2>2, <2>3, <2>4 DEF TypeOK, JobsOK
<1>13. ASSUME NEW w \in Worker, NEW o \in Order, ConfirmRead(w, o) PROVE TypeOK'
  <2>1. amount[o] \in Nat
        /\ \/ Continue(w, Job("verify", o, amount[o], 0, {}, 0))
           \/ Continue(w, Job("claim", o, 0, 0, {}, 0))
    BY <1>0, <1>13 DEF ConfirmRead, Begin, Continue, Unverified
  <2> QED
    BY <1>1, <1>4, <1>13, <2>1 DEF ConfirmRead
<1>14. ASSUME NEW w \in Worker, Verify(w) PROVE TypeOK'
  <2>1. job[w].o \in Order /\ UNCHANGED <<status, amount, tx, transfers, history>>
    BY <1>5, <1>14 DEF Verify, At, OrderSteps
  <2>2. CASE Continue(w, Unverified(job[w].o))
    BY <1>1, <1>4, <2>1, <2>2 DEF Unverified
  <2>3. ASSUME NEW t \in DOMAIN transfers, Continue(w, Job("checkTx", job[w].o, 0, 0, {}, t))
        PROVE  TypeOK'
    <3> DEFINE j == Job("checkTx", job[w].o, 0, 0, {}, t)
    <3>0. t \in 1..Len(transfers) /\ Len(transfers) \in Nat
      BY <1>0
    <3>1. t \in Nat /\ job[w].o \in Nat /\ {} \in SUBSET Nat
      BY <2>1, <3>0 DEF Order, CryptoAssumption
    <3>2. j \in JobType /\ j.o \in Order /\ j.t = t
      BY <2>1, <3>1 DEF Job, JobType, OrderSteps
    <3> HIDE DEF j
    <3>3. JobsOK'
      BY <1>0, <2>1, <2>3, <3>2, JobsKeep DEF j
    <3> QED
      BY <1>1, <2>1, <3>3
  <2> QED
    BY <1>14, <2>2, <2>3 DEF Verify
<1>15. ASSUME NEW w \in Worker, CheckTx(w) PROVE TypeOK'
  <2>1. job[w].at = "checkTx" /\ UNCHANGED <<status, amount, tx, transfers, history>>
    BY <1>15 DEF CheckTx, At
  <2>2. CASE End(w)
    BY <1>1, <1>2, <2>1, <2>2
  <2>3. CASE Go(w, "noteTx")
    <3> DEFINE j == [job[w] EXCEPT !.at = "noteTx"]
    <3>1. job[w] \in JobType /\ job[w].o \in Order /\ job[w].t \in DOMAIN transfers
      BY <1>0, <2>1 DEF JobsOK, OrderSteps
    <3>2. j \in JobType /\ j.o \in Order /\ j.t \in DOMAIN transfers
      BY <3>1 DEF JobType, OrderSteps
    <3>3. Continue(w, j)
      BY <2>3 DEF Go
    <3> HIDE DEF j
    <3>4. JobsOK'
      BY <1>0, <2>1, <3>2, <3>3, JobsKeep
    <3> QED
      BY <1>1, <2>1, <3>4
  <2> QED
    BY <1>15, <2>2, <2>3 DEF CheckTx
<1>16. ASSUME NEW w \in Worker, NoteTx(w) PROVE TypeOK'
  <2>1. job[w].o \in Order /\ job[w].t \in DOMAIN transfers
    BY <1>0, <1>16 DEF NoteTx, At, JobsOK, OrderSteps
  <2>2. UNCHANGED <<status, amount, transfers, history>>
        /\ \/ tx' = tx
           \/ tx' = [tx EXCEPT ![job[w].o] = job[w].t]
        /\ \/ End(w)
           \/ Continue(w, Job("claim", job[w].o, 0, 0, {}, 0))
    BY <1>16 DEF NoteTx, Unverified
  <2>3. tx' \in [Order -> 0..Len(transfers)]
    <3>1. job[w].t \in 0..Len(transfers)
      BY <1>0, <2>1
    <3> QED
      BY <1>0, <2>1, <2>2, <3>1
  <2>4. JobsOK'
    BY <1>2, <1>4, <2>1, <2>2
  <2> QED
    BY <1>0, <2>2, <2>3, <2>4 DEF TypeOK, JobsOK, history
<1>17. ASSUME NEW w \in Worker, Claim(w) \/ CancelSave(w) PROVE TypeOK'
  <2>1. job[w].o \in Order /\ End(w) /\ UNCHANGED <<amount, tx, transfers, history>>
        /\ \E s \in {"paid", "cancelled"} :
             status' = status \/ status' = [status EXCEPT ![job[w].o] = s]
    BY <1>5, <1>17 DEF Claim, CancelSave, At, OrderSteps
  <2>2. status' \in [Order -> {"none", "pending", "paid", "cancelled"}]
    BY <1>0, <2>1
  <2>3. JobsOK'
    BY <1>2, <2>1
  <2> QED
    BY <1>0, <2>1, <2>2, <2>3 DEF TypeOK, JobsOK, history
<1>18. ASSUME NEW w \in Worker, NEW o \in Order, CancelRead(w, o) PROVE TypeOK'
  <2>1. Continue(w, Job("cancelSave", o, 0, 0, {}, 0))
    BY <1>18 DEF CancelRead, Begin, Continue
  <2> QED
    BY <1>1, <1>4, <1>18, <2>1 DEF CancelRead
<1>19. ASSUME NEW w \in Worker, Abort(w) PROVE TypeOK'
  BY <1>1, <1>2, <1>19 DEF Abort
<1> QED
  BY <1>6, <1>7, <1>8, <1>9, <1>10, <1>11, <1>12, <1>13, <1>14, <1>15, <1>16, <1>17,
     <1>18, <1>19 DEF Next, Starts, Proceeds

LEMMA TypeInit == ASSUME CryptoAssumption, Init PROVE TypeOK
<1>1. /\ tx \in [Order -> 0..Len(transfers)]
      /\ transfers \in Seq([of : Order, amount : Nat, memo : BOOLEAN, placed : SUBSET Order])
  BY DEF Init
<1>2. job \in [Worker -> JobType] /\ \A w \in Worker : job[w].at = "idle"
  BY DEF Init, Idle, Job, JobType
<1> QED
  BY <1>1, <1>2 DEF Init, TypeOK, OrderSteps

\* The types are kept, and a worker with a step to do has an order, or a
\* transfer, to do it with.
THEOREM TypeCorrect == ASSUME CryptoAssumption PROVE Spec => []TypeOK
<1>1. Init => TypeOK
  BY TypeInit
<1> QED
  BY <1>1, TypeKeeps, PTL DEF Spec

-----------------------------------------------------------------------------
(* What a step may do to the orders.                                       *)

\* The worker changes the amount of the order, as it decided.
Settles(w, p) ==
  /\ job[w].at = "paySave" /\ job[w].o = p /\ Decides(job[w]) /\ job'[w] = Idle
  /\ job[w].own > 0 => amount'[p] = job[w].own
  /\ job[w].own = 0 => amount'[p] \notin job[w].used \/ p \in full'

\* No order is taken back or opened again, no amount is dropped, and what is
\* remembered stays.
Frame ==
  /\ \A p \in Order :
       /\ status[p] # "none" => status'[p] # "none"
       /\ status'[p] = "pending" => status[p] \in {"none", "pending"}
       /\ amount'[p] # amount[p] => amount'[p] > 0 /\ \E w \in Worker : Settles(w, p)
       /\ shown[p] \subseteq shown'[p]
  /\ met \subseteq met' /\ full \subseteq full'
  /\ \A i \in DOMAIN transfers : i \in DOMAIN transfers' /\ transfers'[i] = transfers[i]

LEMMA Frames ==
  ASSUME CryptoAssumption, TypeOK, [Next]_vars
  PROVE  Frame
<1>0. /\ status \in [Order -> {"none", "pending", "paid", "cancelled"}]
      /\ amount \in [Order -> Nat] /\ shown \in [Order -> SUBSET Nat]
      /\ \A w \in Worker : job[w].at \in OrderSteps => job[w].o \in Order
  BY DEF TypeOK
<1>1. ASSUME UNCHANGED <<amount, shown, full, transfers>>, met \subseteq met',
             \A p \in Order :
               /\ status[p] # "none" => status'[p] # "none"
               /\ status'[p] = "pending" => status[p] \in {"none", "pending"}
      PROVE  Frame
  BY <1>1 DEF Frame
<1>2. ASSUME UNCHANGED <<status, amount, transfers, history>> PROVE Frame
  BY <1>0, <1>1, <1>2 DEF history
<1>3. CASE UNCHANGED vars
  BY <1>2, <1>3 DEF vars
<1>4. ASSUME NEW o \in Order, PlaceOrder(o) PROVE Frame
  BY <1>0, <1>1, <1>4 DEF PlaceOrder, history
<1>5. ASSUME NEW o \in Order, NEW value \in shown[o], NEW memo \in BOOLEAN, Transfer(o, value, memo)
      PROVE  Frame
  <2> DEFINE t == [of |-> o, amount |-> value, memo |-> memo, placed |-> Placed]
             T == [of : Order, amount : Nat, memo : BOOLEAN, placed : SUBSET Order]
  <2>1. t \in T /\ transfers \in Seq(T)
    BY <1>0 DEF Placed, TypeOK
  <2>2. transfers' = Append(transfers, t)
    BY <1>5 DEF Transfer
  <2> HIDE DEF t, T
  <2>3. \A i \in DOMAIN transfers : i \in DOMAIN transfers' /\ transfers'[i] = transfers[i]
    BY <2>1, <2>2
  <2> QED
    BY <1>0, <1>5, <2>3 DEF Frame, Transfer, history
<1>6. ASSUME NEW w \in Worker,
             \/ PayUsed(w) \/ Verify(w) \/ CheckTx(w) \/ NoteTx(w) \/ Abort(w)
             \/ \E o \in Order : Starts(w, o)
      PROVE  Frame
  BY <1>2, <1>6 DEF PayUsed, Verify, CheckTx, NoteTx, Abort, Starts, PayRead, ConfirmRead, CancelRead
<1>7. ASSUME NEW w \in Worker, PayOwn(w) PROVE Frame
  BY <1>0, <1>1, <1>7 DEF PayOwn
<1>8. ASSUME NEW w \in Worker, Claim(w) \/ CancelSave(w) PROVE Frame
  <2>1. PICK s \in {"paid", "cancelled"} :
          status' = status \/ status' = [status EXCEPT ![job[w].o] = s]
    BY <1>8 DEF Claim, CancelSave
  <2>2. \A p \in Order : status'[p] = status[p] \/ status'[p] = s
    BY <1>0, <2>1
  <2>3. UNCHANGED <<amount, transfers, shown, met, full>>
    BY <1>8 DEF Claim, CancelSave, history
  <2> QED
    BY <1>0, <1>1, <2>2, <2>3
<1>9. ASSUME NEW w \in Worker, SaveOwn(w) \/ SaveNew(w) PROVE Frame
  <2>1. PICK value \in Nat \ {0} :
           /\ Save(w, value) /\ job[w].o \in Order /\ At(w, "paySave")
           /\ \/ job[w].own > 0 /\ value = job[w].own /\ full' = full
              \/ /\ job[w].own = 0 /\ full \subseteq full' /\ full' \subseteq Order
                 /\ value \notin job[w].used \/ job[w].o \in full'
    BY <1>9, SaveTypes
  <2>2. /\ job'[w] = Idle /\ UNCHANGED <<status, tx, transfers, met>>
        /\ shown' = [shown EXCEPT ![job[w].o] = @ \cup {value}]
        /\ \/ amount' = amount
           \/ value # job[w].seen /\ amount' = [amount EXCEPT ![job[w].o] = value]
    BY <2>1, OneGoes DEF Save
  <2>3. ASSUME NEW p \in Order, amount'[p] # amount[p]
        PROVE  amount'[p] > 0 /\ Settles(w, p)
    <3>1. p = job[w].o /\ amount'[p] = value /\ value # job[w].seen
      BY <1>0, <2>1, <2>2, <2>3
    <3>2. Decides(job[w])
      BY <2>1, <3>1 DEF Decides, At
    <3> QED
      BY <2>1, <2>2, <3>1, <3>2 DEF Settles, At
  <2>4. \A p \in Order : shown[p] \subseteq shown'[p]
    BY <1>0, <2>2
  <2>5. full \subseteq full'
    BY <2>1
  <2> QED
    BY <1>0, <2>2, <2>3, <2>4, <2>5 DEF Frame
<1> QED
  BY <1>3, <1>4, <1>5, <1>6, <1>7, <1>8, <1>9 DEF Next, Proceeds

-----------------------------------------------------------------------------
(* What the others may rely on meanwhile.                                  *)

\* An order whose amount changes: whoever decides about the chain has met it,
\* and if it had an amount, it met itself.
LEMMA Changed ==
  ASSUME TypeOK, CoinInv, Frame, NEW p \in Order, amount'[p] # amount[p]
  PROVE  /\ status[p] # "none"
         /\ \A v \in Worker :
              Decides(job[v]) /\ job'[v] = job[v] /\ Chain[job[v].o] = Chain[p] =>
                {job[v].o, p} \in met
         /\ Pending(p) /\ amount[p] > 0 => {p} \in met
<1>1. PICK w \in Worker : Settles(w, p)
  BY DEF Frame
<1>2. /\ job[w].at = "paySave" /\ job[w].o = p /\ Decides(job[w]) /\ job'[w].at = "idle"
      /\ amount[p] \in Nat /\ job[w].own \in Nat
      /\ job[w].own > 0 => amount'[p] = job[w].own
  BY <1>1 DEF Settles, Idle, Job, TypeOK, JobType
<1>3. status[p] # "none"
  BY <1>2 DEF CoinInv, Placing, OrderSteps
<1>4. ASSUME NEW v \in Worker, Decides(job[v]), job'[v] = job[v], Chain[job[v].o] = Chain[p]
      PROVE  {job[v].o, p} \in met
  <2>1. v # w
    BY <1>2, <1>4 DEF Decides
  <2> QED
    BY <1>2, <1>4, <2>1 DEF CoinInv, Meeting
<1>5. ASSUME Pending(p), amount[p] > 0 PROVE {p} \in met
  <2>1. Paying(w)
    BY DEF CoinInv
  <2>2. CASE job[w].own = 0
    BY <1>2, <1>5, <2>1, <2>2 DEF Paying, Stands
  <2>3. CASE job[w].own > 0
    BY <1>2, <1>5, <2>1, <2>3 DEF Paying, Stands
  <2> QED
    BY <1>2, <2>2, <2>3
<1> QED
  BY <1>3, <1>4, <1>5

\* What stands goes on to stand.
LEMMA StandsOn ==
  ASSUME TypeOK, CoinInv, Frame, NEW o \in Order, NEW value \in Nat, status[o] # "none",
         Stands(o, value),
         \/ value > 0
         \/ \E v \in Worker : Decides(job[v]) /\ job'[v] = job[v] /\ job[v].o = o
  PROVE  Stands(o, value)'
<1>1. SUFFICES ASSUME Pending(o)', {o} \notin met' PROVE amount'[o] = value
  BY DEF Stands
<1>2. Pending(o) /\ {o} \notin met
  BY <1>1 DEF Pending, Frame
<1>3. amount[o] = value
  BY <1>2 DEF Stands
<1>4. ASSUME amount'[o] # amount[o] PROVE FALSE
  <2>1. CASE value > 0
    BY <1>2, <1>3, <1>4, <2>1, Changed
  <2>2. ASSUME NEW v \in Worker, Decides(job[v]), job'[v] = job[v], job[v].o = o PROVE FALSE
    <3>1. {o, o} \in met
      BY <1>4, <2>2, Changed
    <3>2. {o, o} = {o}
      OBVIOUS
    <3> QED
      BY <1>2, <3>1, <3>2
  <2> QED
    BY <2>1, <2>2
<1> QED
  BY <1>3, <1>4

LEMMA ExcusedOn ==
  ASSUME Frame, NEW o, NEW p, Excused(o, p)
  PROVE  Excused(o, p)'
BY DEF Frame, Excused

\* A rival after the step was one before, with its amount, or has met the order
\* that a worker decides about.
LEMMA RivalsBefore ==
  ASSUME TypeOK, CoinInv, Frame, NEW v \in Worker, Decides(job[v]), job'[v] = job[v],
         NEW p \in Order, Rivals(p, job[v].o)', ~Excused(job[v].o, p)'
  PROVE  Rivals(p, job[v].o) /\ amount'[p] = amount[p]
<1> DEFINE o == job[v].o
<1>1. /\ p # o /\ Chain[p] = Chain[o] /\ amount'[p] > 0
      /\ status'[p] = "pending" /\ status'[o] = "pending"
  BY DEF Rivals, Pending
<1>2. o \in Order /\ status[o] # "none"
  BY DEF Decides, TypeOK, CoinInv, Placing, OrderSteps
<1>3. amount'[p] = amount[p]
  <2>1. ASSUME amount'[p] # amount[p] PROVE FALSE
    <3>1. {o, p} \in met
      BY <1>1, <2>1, Changed
    <3> QED
      BY <3>1 DEF Excused, Frame
  <2> QED
    BY <2>1
<1>4. status[p] # "none"
  BY <1>1, <1>3 DEF CoinInv, Placing, TypeOK
<1> QED
  BY <1>1, <1>2, <1>3, <1>4 DEF Rivals, Pending, Frame

LEMMA PayingOn ==
  ASSUME TypeOK, CoinInv, Frame, NEW w \in Worker, job'[w] = job[w]
  PROVE  Paying(w)'
<1> DEFINE j == job[w]
<1>1. CASE j.at \notin {"payOwn", "payUsed", "paySave"}
  BY <1>1 DEF Paying
<1>2. CASE j.at \in {"payOwn", "payUsed", "paySave"}
  <2>1. j.o \in Order /\ status[j.o] # "none" /\ j.own \in Nat /\ j.seen \in Nat
    BY <1>2 DEF TypeOK, JobType, CoinInv, Placing, OrderSteps
  <2>2. Paying(w)
    BY DEF CoinInv
  <2>3. j.seen > 0 => amount'[j.o] > 0
    <3>1. amount[j.o] \in Nat /\ (amount'[j.o] # amount[j.o] => amount'[j.o] > 0)
      BY <2>1 DEF Frame, TypeOK
    <3> QED
      BY <1>2, <2>2, <3>1 DEF Paying
  <2>4. ASSUME j.at = "payUsed" \/ (j.at = "paySave" /\ j.own = 0)
        PROVE  Stands(j.o, 0)'
    <3>1. Decides(j) /\ Stands(j.o, 0)
      BY <2>2, <2>4 DEF Decides, Paying
    <3> HIDE DEF j
    <3>2. Stands(j.o, 0)'
      BY <2>1, <3>1, StandsOn DEF j
    <3> QED
      BY <3>2
  <2>5. ASSUME j.at = "paySave", j.own > 0 PROVE Stands(j.o, j.own)'
    <3>1. Stands(j.o, j.own)
      BY <2>2, <2>5 DEF Paying
    <3> QED
      BY <2>1, <2>5, <3>1, StandsOn
  <2>6. ASSUME j.at = "paySave", j.own > 0, j.own # j.seen PROVE Reserved(j.o, j.own)'
    <3>1. Decides(j) /\ Reserved(j.o, j.own)
      BY <2>2, <2>6 DEF Decides, Paying
    <3>2. SUFFICES ASSUME NEW p \in Order, Rivals(p, j.o)', amount'[p] = j.own, ~Excused(j.o, p)'
                   PROVE  FALSE
      BY DEF Reserved
    <3>3. Rivals(p, j.o) /\ amount[p] = j.own
      BY <3>1, <3>2, RivalsBefore
    <3> QED
      BY <3>1, <3>2, <3>3, ExcusedOn DEF Reserved
  <2>7. ASSUME j.at = "paySave", j.own = 0, NEW p \in Order, Rivals(p, j.o)', ~Excused(j.o, p)'
        PROVE  amount'[p] \in j.used
    <3>1. Decides(j)
      BY <2>7 DEF Decides
    <3>2. Rivals(p, j.o) /\ amount'[p] = amount[p]
      BY <2>7, <3>1, RivalsBefore
    <3> QED
      BY <2>2, <2>7, <3>2, ExcusedOn DEF Paying
  <2> QED
    BY <1>2, <2>2, <2>3, <2>4, <2>5, <2>6, <2>7 DEF Paying
<1> QED
  BY <1>1, <1>2

\* A transfer that may be taken for an order goes on to be one.
LEMMA FitsOn ==
  ASSUME TypeOK, CoinInv, Frame, NEW i \in DOMAIN transfers, NEW o \in Order,
         status[o] # "none", Fits(transfers[i], o)
  PROVE  Fits(transfers[i], o)'
<1> DEFINE t == transfers[i]
<1>1. transfers'[i] = t
  BY DEF Frame
<1>2. t.of \in Order
  <2> DEFINE T == [of : Order, amount : Nat, memo : BOOLEAN, placed : SUBSET Order]
  <2>1. transfers \in Seq(T)
    BY DEF TypeOK
  <2> HIDE DEF T
  <2>2. t \in T
    BY <2>1
  <2> QED
    BY <2>2 DEF T
<1>3. status[t.of] # "none"
  <2>1. t.amount \in shown[t.of]
    BY DEF CoinInv, Paid
  <2> QED
    BY <1>2, <2>1 DEF CoinInv, Placing
<1>4. (Pending(o)' => Pending(o)) /\ ((status'[t.of] = "pending") => Pending(t.of))
  BY <1>2, <1>3 DEF Frame, Pending
<1>5. met \subseteq met' /\ full \subseteq full'
  BY DEF Frame
<1> HIDE DEF t
<1>6. \/ t.of = o \/ ~Pending(o)' \/ ~(status'[t.of] = "pending")
      \/ ~t.memo /\ (met' \cap {{o}, {t.of}, {o, t.of}} # {} \/ full' \cap {o, t.of} # {})
  <2>1. \/ t.of = o \/ ~Pending(o) \/ ~Pending(t.of)
        \/ ~t.memo /\ (met \cap {{o}, {t.of}, {o, t.of}} # {} \/ full \cap {o, t.of} # {})
    BY DEF Fits, t
  <2>2. (met \cap {{o}, {t.of}, {o, t.of}} # {}) => (met' \cap {{o}, {t.of}, {o, t.of}} # {})
    BY <1>5
  <2>3. (full \cap {o, t.of} # {}) => (full' \cap {o, t.of} # {})
    BY <1>5
  <2> QED
    BY <1>4, <2>1, <2>2, <2>3, Zenon
<1> QED
  BY <1>1, <1>6, Zenon DEF Fits, Pending

LEMMA ConfirmingOn ==
  ASSUME TypeOK, CoinInv, Frame, NEW w \in Worker, job'[w] = job[w]
  PROVE  Confirming(w)'
<1> DEFINE j == job[w]
<1>1. Confirming(w)
  BY DEF CoinInv
<1>2. ASSUME j.at \in OrderSteps
      PROVE  j.o \in Order /\ status[j.o] # "none" /\ j.seen \in Nat
  BY <1>2 DEF TypeOK, JobType, CoinInv, Placing
<1>3. ASSUME j.at = "verify" PROVE Chain[j.o] = "trc20" /\ j.seen > 0 /\ Stands(j.o, j.seen)'
  <2>1. j.o \in Order /\ status[j.o] # "none" /\ j.seen \in Nat
    BY <1>2, <1>3 DEF OrderSteps
  <2>2. Chain[j.o] = "trc20" /\ j.seen > 0 /\ Stands(j.o, j.seen)
    BY <1>1, <1>3 DEF Confirming
  <2> QED
    BY <2>1, <2>2, StandsOn
<1>4. ASSUME j.at \in {"checkTx", "noteTx"} PROVE Fits(transfers[j.t], j.o)'
  <2>1. j.o \in Order /\ status[j.o] # "none" /\ j.t \in DOMAIN transfers
    BY <1>2, <1>4 DEF OrderSteps, TypeOK
  <2>2. Fits(transfers[j.t], j.o)
    BY <1>1, <1>4 DEF Confirming
  <2>3. Fits(transfers[j.t], j.o)'
    BY <2>1, <2>2, FitsOn
  <2> QED
    BY <2>3
<1> QED
  BY <1>3, <1>4 DEF Confirming

-----------------------------------------------------------------------------
(* What is shared is kept.                                                 *)

LEMMA MeetingKeeps ==
  ASSUME CryptoAssumption, TypeOK, CoinInv, [Next]_vars
  PROVE  Meeting'
<1>0. met \subseteq met'
  BY Frames DEF Frame
<1>1. ASSUME \A v \in Worker : Decides(job'[v]) => Decides(job[v]) /\ job'[v].o = job[v].o
      PROVE  Meeting'
  BY <1>0, <1>1 DEF CoinInv, Meeting
<1>2. ASSUME NEW w \in Worker, Alone(w),
             Decides(job'[w]) => Decides(job[w]) /\ job'[w].o = job[w].o
      PROVE  Meeting'
  <2>1. \A v \in Worker : Decides(job'[v]) => Decides(job[v]) /\ job'[v].o = job[v].o
    BY <1>2 DEF Alone
  <2> QED
    BY <1>1, <2>1
<1>3. ASSUME NEW w \in Worker, Alone(w), job'[w].at \notin {"payUsed", "paySave"}
      PROVE  Meeting'
  BY <1>2, <1>3 DEF Decides
<1>4. CASE UNCHANGED job
  BY <1>1, <1>4
<1>5. ASSUME NEW w \in Worker, End(w) PROVE Meeting'
  <2>1. Alone(w) /\ job'[w].at = "idle"
    BY <1>5, OneGoes DEF Idle, Job
  <2> QED
    BY <1>3, <2>1
<1>6. ASSUME NEW w \in Worker, NEW step \in {"payOwn", "verify", "checkTx", "claim", "cancelSave"},
             NEW o, NEW seen, NEW t,
             \/ Begin(w, Job(step, o, seen, 0, {}, t))
             \/ Continue(w, Job(step, o, seen, 0, {}, t))
      PROVE  Meeting'
  <2>1. Alone(w) /\ job'[w] = Job(step, o, seen, 0, {}, t)
    BY <1>6, OneGoes
  <2>2. job'[w].at = step
    BY <2>1 DEF Job
  <2> QED
    BY <1>3, <2>1, <2>2
<1>7. ASSUME NEW w \in Worker, NEW o \in Order, Starts(w, o) PROVE Meeting'
  BY <1>6, <1>7 DEF Starts, PayRead, ConfirmRead, CancelRead, Unverified
<1>8. ASSUME NEW w \in Worker, PayOwn(w) PROVE Meeting'
  <2> DEFINE o == job[w].o
             next == IF Reuses(o) THEN [job[w] EXCEPT !.at = "paySave", !.own = amount[o]]
                     ELSE [job[w] EXCEPT !.at = "payUsed"]
  <2>1. Continue(w, next) /\ met' = IF Decides(next) THEN met \cup Meets(w, o) ELSE met
    BY <1>8 DEF PayOwn
  <2>2. next.o = o
    BY DEF TypeOK, JobType
  <2> HIDE DEF next
  <2>3. Alone(w) /\ job'[w] = next
    BY <2>1, OneGoes
  <2>4. ASSUME NEW v \in Worker \ {w}, Decides(job'[v]), Decides(job'[w]), Chain[job'[v].o] = Chain[o]
        PROVE  {o, job'[v].o} \in met'
    <3>1. job'[v] = job[v]
      BY <2>3 DEF Alone
    <3>2. {o, job[v].o} \in Meets(w, o)
      BY <2>4, <3>1 DEF Meets
    <3> QED
      BY <2>1, <2>3, <2>4, <3>1, <3>2
  <2>5. SUFFICES ASSUME NEW u \in Worker, NEW v \in Worker, u # v,
                        Decides(job'[u]), Decides(job'[v]), Chain[job'[u].o] = Chain[job'[v].o]
                 PROVE  {job'[u].o, job'[v].o} \in met'
    BY DEF Meeting
  <2>6. CASE u = w
    BY <2>2, <2>3, <2>4, <2>5, <2>6
  <2>7. CASE v = w
    <3>1. {o, job'[u].o} \in met'
      BY <2>2, <2>3, <2>4, <2>5, <2>7
    <3>2. {o, job'[u].o} = {job'[u].o, job'[v].o}
      BY <2>2, <2>3, <2>7
    <3> QED
      BY <3>1, <3>2
  <2>8. CASE u # w /\ v # w
    BY <1>0, <2>3, <2>5, <2>8 DEF Alone, CoinInv, Meeting
  <2> QED
    BY <2>6, <2>7, <2>8
<1>9. ASSUME NEW w \in Worker, PayUsed(w) PROVE Meeting'
  <2> DEFINE j == [job[w] EXCEPT !.at = "paySave", !.used = UsedBy(job[w].o)]
  <2>1. Continue(w, j) /\ job[w].at = "payUsed"
    BY <1>9 DEF PayUsed, At
  <2>2. j.o = job[w].o /\ Decides(job[w])
    BY <2>1 DEF TypeOK, JobType, Decides
  <2> HIDE DEF j
  <2>3. Alone(w) /\ job'[w] = j
    BY <2>1, OneGoes
  <2> QED
    BY <1>2, <2>2, <2>3
<1>10. ASSUME NEW w \in Worker, SaveOwn(w) \/ SaveNew(w) \/ Claim(w) \/ CancelSave(w) \/ Abort(w)
       PROVE  Meeting'
  BY <1>5, <1>10 DEF SaveOwn, SaveNew, Save, Claim, CancelSave, Abort
<1>11. ASSUME NEW w \in Worker, Verify(w) \/ NoteTx(w) PROVE Meeting'
  BY <1>5, <1>6, <1>11 DEF Verify, NoteTx, Unverified
<1>12. ASSUME NEW w \in Worker, CheckTx(w) PROVE Meeting'
  <2>1. CASE Go(w, "noteTx")
    <3>1. Alone(w) /\ job'[w] = [job[w] EXCEPT !.at = "noteTx"]
      BY <2>1, OneGoes DEF Go
    <3>2. job'[w].at = "noteTx"
      BY <3>1 DEF TypeOK, JobType
    <3> QED
      BY <1>3, <3>1, <3>2
  <2> QED
    BY <1>5, <1>12, <2>1 DEF CheckTx
<1>13. ASSUME NEW o \in Order, PlaceOrder(o) PROVE Meeting'
  BY <1>4, <1>13 DEF PlaceOrder
<1>14. ASSUME NEW o \in Order, NEW value \in shown[o], NEW memo \in BOOLEAN, Transfer(o, value, memo)
       PROVE  Meeting'
  BY <1>4, <1>14 DEF Transfer
<1> QED
  BY <1>4, <1>7, <1>8, <1>9, <1>10, <1>11, <1>12, <1>13, <1>14 DEF Next, Proceeds, vars

-----------------------------------------------------------------------------
(* The worker that goes on.                                                *)

\* A worker that pays for no order and confirms none, has nothing to keep.
LEMMA NothingToKeep ==
  ASSUME NEW w \in Worker, job'[w].at \in {"idle", "claim", "cancelSave"},
         job'[w].at = "idle" \/ status'[job'[w].o] # "none"
  PROVE  /\ Paying(w)' /\ Confirming(w)'
         /\ job'[w].at \in OrderSteps => status'[job'[w].o] # "none"
BY DEF Paying, Confirming, OrderSteps

LEMMA MovedKeeps ==
  ASSUME CryptoAssumption, TypeOK, CoinInv, Frame, NEW w \in Worker,
         Proceeds(w) \/ Abort(w) \/ \E o \in Order : Starts(w, o)
  PROVE  /\ Alone(w) /\ Paying(w)' /\ Confirming(w)'
         /\ job'[w].at \in OrderSteps => status'[job'[w].o] # "none"
<1> DEFINE Kept == /\ Alone(w) /\ Paying(w)' /\ Confirming(w)'
                   /\ job'[w].at \in OrderSteps => status'[job'[w].o] # "none"
<1>0. /\ job[w] \in JobType
      /\ job[w].at \in OrderSteps =>
           /\ job[w].o \in Order /\ status[job[w].o] # "none" /\ status'[job[w].o] # "none"
      /\ Paying(w) /\ Confirming(w) /\ amount \in [Order -> Nat]
  BY DEF TypeOK, CoinInv, Placing, Frame
<1>1. End(w) => Kept
  <2>1. ASSUME End(w) PROVE Alone(w) /\ job'[w].at = "idle"
    BY <2>1, OneGoes DEF Idle, Job
  <2> QED
    BY <2>1, NothingToKeep
<1>2. ASSUME NEW step \in {"claim", "cancelSave"}, NEW o, status'[o] # "none",
             \/ Begin(w, Job(step, o, 0, 0, {}, 0))
             \/ Continue(w, Job(step, o, 0, 0, {}, 0))
      PROVE  Kept
  <2>1. Alone(w) /\ job'[w] = Job(step, o, 0, 0, {}, 0)
    BY <1>2, OneGoes
  <2>2. job'[w].at = step /\ job'[w].o = o
    BY <2>1 DEF Job
  <2> QED
    BY <1>2, <2>1, <2>2, NothingToKeep
<1>3. ASSUME NEW o \in Order, PayRead(w, o) PROVE Kept
  <2>1. /\ Alone(w) /\ job'[w] = Job("payOwn", o, amount[o], 0, {}, 0)
        /\ amount' = amount /\ status'[o] # "none"
    BY <1>3, OneGoes DEF PayRead, Pending
  <2>2. /\ job'[w].at = "payOwn" /\ job'[w].o = o /\ job'[w].seen = amount[o]
        /\ job'[w].own = 0
    BY <2>1 DEF Job
  <2> QED
    BY <2>1, <2>2 DEF Paying, Confirming
<1>4. ASSUME NEW o \in Order, ConfirmRead(w, o) PROVE Kept
  <2>1. status'[o] # "none" /\ UNCHANGED <<status, amount, met>>
    BY <1>4 DEF ConfirmRead, Pending, history
  <2>2. CASE Begin(w, Unverified(o))
    BY <1>2, <2>1, <2>2 DEF Unverified
  <2>3. CASE Chain[o] = "trc20" /\ amount[o] > 0 /\ Begin(w, Job("verify", o, amount[o], 0, {}, 0))
    <3>1. Alone(w) /\ job'[w] = Job("verify", o, amount[o], 0, {}, 0)
      BY <2>3, OneGoes
    <3>2. job'[w].at = "verify" /\ job'[w].o = o /\ job'[w].seen = amount[o]
      BY <3>1 DEF Job
    <3>3. Paying(w)'
      BY <3>2 DEF Paying
    <3>4. Confirming(w)'
      BY <2>1, <2>3, <3>2 DEF Confirming, Stands
    <3> QED
      BY <2>1, <3>1, <3>2, <3>3, <3>4
  <2> QED
    BY <1>4, <2>2, <2>3 DEF ConfirmRead
<1>5. ASSUME NEW o \in Order, CancelRead(w, o) PROVE Kept
  BY <1>2, <1>5 DEF CancelRead, Pending
<1>6. ASSUME PayOwn(w) PROVE Kept
  <2> DEFINE o == job[w].o
  <2>1. /\ job[w].at = "payOwn" /\ o \in Order /\ status[o] # "none" /\ status'[o] # "none"
        /\ UNCHANGED <<status, amount, full>> /\ met \subseteq met'
    BY <1>0, <1>6 DEF PayOwn, At, OrderSteps
  <2>2. job[w].own = 0 /\ (job[w].seen > 0 => amount[o] > 0)
    BY <1>0, <2>1 DEF Paying
  <2>3. CASE Reuses(o)
    <3>1. Alone(w) /\ job'[w] = [job[w] EXCEPT !.at = "paySave", !.own = amount[o]]
      BY <1>6, <2>3, OneGoes DEF PayOwn
    <3>2. /\ job'[w].at = "paySave" /\ job'[w].o = o /\ job'[w].own = amount[o]
          /\ amount[o] > 0 /\ Pending(o)
      BY <1>0, <2>3, <3>1 DEF JobType, Reuses
    <3>3. Stands(o, amount[o])'
      BY <2>1, <3>2 DEF Stands
    <3>4. Reserved(o, amount[o])'
      <4>1. SUFFICES ASSUME NEW p \in Order, Rivals(p, o), amount[p] = amount[o]
                     PROVE  Excused(o, p)'
        BY <2>1, <3>2 DEF Reserved, Rivals, Pending
      <4>2. {p, o} \in met \/ p \in full \/ o \in full
        BY <2>1, <4>1 DEF CoinInv, AmountsDiffer
      <4>3. {p, o} = {o, p}
        OBVIOUS
      <4> QED
        BY <2>1, <3>2, <4>2, <4>3 DEF Excused
    <3>5. Paying(w)'
      BY <2>1, <3>2, <3>3, <3>4 DEF Paying
    <3>6. Confirming(w)'
      BY <3>2 DEF Confirming
    <3> QED
      BY <2>1, <3>1, <3>2, <3>5, <3>6
  <2>4. CASE ~Reuses(o)
    <3>1. Alone(w) /\ job'[w] = [job[w] EXCEPT !.at = "payUsed"]
      BY <1>6, <2>4, OneGoes DEF PayOwn
    <3>2. /\ job'[w].at = "payUsed" /\ job'[w].o = o /\ job'[w].own = 0
          /\ job'[w].seen = job[w].seen
      BY <1>0, <2>2, <3>1 DEF JobType
    <3>3. Stands(o, 0)'
      <4>1. Pending(o) => amount[o] = 0
        BY <1>0, <2>1, <2>4 DEF Reuses
      <4> QED
        BY <2>1, <3>2, <4>1 DEF Stands, Pending
    <3>4. Paying(w)'
      BY <2>1, <2>2, <3>2, <3>3 DEF Paying
    <3>5. Confirming(w)'
      BY <3>2 DEF Confirming
    <3> QED
      BY <2>1, <3>1, <3>2, <3>4, <3>5
  <2> QED
    BY <2>3, <2>4
<1>7. ASSUME PayUsed(w) PROVE Kept
  <2> DEFINE o == job[w].o
  <2>1. /\ job[w].at = "payUsed" /\ o \in Order /\ status[o] # "none" /\ status'[o] # "none"
        /\ UNCHANGED <<status, amount, full, met>>
    BY <1>0, <1>7 DEF PayUsed, At, OrderSteps, history
  <2>2. job[w].own = 0 /\ (job[w].seen > 0 => amount[o] > 0) /\ Stands(o, 0)
    BY <1>0, <2>1 DEF Paying
  <2>3. Alone(w) /\ job'[w] = [job[w] EXCEPT !.at = "paySave", !.used = UsedBy(o)]
    BY <1>7, OneGoes DEF PayUsed
  <2>4. /\ job'[w].at = "paySave" /\ job'[w].o = o /\ job'[w].own = 0
        /\ job'[w].seen = job[w].seen /\ job'[w].used = UsedBy(o)
    BY <1>0, <2>2, <2>3 DEF JobType
  <2>5. Stands(o, 0)'
    BY <2>1, <2>2, <2>4 DEF Stands, Pending
  <2>6. \A p \in Order : Rivals(p, o)' => amount'[p] \in UsedBy(o)
    BY <2>1, <2>4 DEF Rivals, UsedBy, Pending
  <2>7. Paying(w)'
    BY <2>1, <2>2, <2>4, <2>5, <2>6 DEF Paying
  <2>8. Confirming(w)'
    BY <2>4 DEF Confirming
  <2> QED
    BY <2>1, <2>3, <2>4, <2>7, <2>8
<1>8. ASSUME Verify(w) PROVE Kept
  <2> DEFINE o == job[w].o
  <2>1. /\ job[w].at = "verify" /\ o \in Order /\ status'[o] # "none"
        /\ UNCHANGED <<status, amount, transfers, met, full>>
    BY <1>0, <1>8 DEF Verify, At, OrderSteps, history
  <2>2. CASE Continue(w, Unverified(o))
    BY <1>2, <2>1, <2>2 DEF Unverified
  <2>3. ASSUME NEW i \in DOMAIN transfers, Matches(transfers[i], o, job[w].seen),
               Continue(w, Job("checkTx", o, 0, 0, {}, i))
        PROVE  Kept
    <3> DEFINE t == transfers[i]
    <3>1. Alone(w) /\ job'[w] = Job("checkTx", o, 0, 0, {}, i)
      BY <2>3, OneGoes
    <3>2. job'[w].at = "checkTx" /\ job'[w].o = o /\ job'[w].t = i
      BY <3>1 DEF Job
    <3>3. Fits(t, o)
      <4>1. /\ Chain[o] = "trc20" /\ job[w].seen > 0 /\ Stands(o, job[w].seen)
            /\ Chain[t.of] = "trc20" /\ t.amount \in shown[t.of]
        BY <1>0, <2>1 DEF Confirming, CoinInv, Paid
      <4>2. t.amount = job[w].seen /\ (t.memo => t.of = o)
        BY <2>3 DEF Matches, MemoFits
      <4>3. t.of \in Order
        <5> DEFINE T == [of : Order, amount : Nat, memo : BOOLEAN, placed : SUBSET Order]
        <5>1. transfers \in Seq(T)
          BY DEF TypeOK
        <5> HIDE DEF T
        <5>2. t \in T
          BY <5>1
        <5> QED
          BY <5>2 DEF T
      <4>4. ASSUME t.of # o, Pending(o), Pending(t.of), {o} \notin met, {t.of} \notin met
            PROVE  {o, t.of} \in met \/ o \in full \/ t.of \in full
        <5>1. amount[o] = job[w].seen
          BY <4>1, <4>4 DEF Stands
        <5>2. amount[t.of] = t.amount
          BY <4>1, <4>3, <4>4 DEF CoinInv, ShownIsKept
        <5>3. Rivals(o, t.of) /\ amount[o] = amount[t.of]
          BY <4>1, <4>2, <4>4, <5>1, <5>2 DEF Rivals
        <5> QED
          BY <2>1, <4>3, <5>3 DEF CoinInv, AmountsDiffer
      <4>5. ASSUME t.of # o, Pending(o), Pending(t.of)
            PROVE  /\ ~t.memo
                   /\ met \cap {{o}, {t.of}, {o, t.of}} # {} \/ full \cap {o, t.of} # {}
        BY <4>2, <4>4, <4>5
      <4> QED
        BY <4>5 DEF Fits
    <3>4. Confirming(w)'
      <4>1. Fits(transfers[i], o)'
        BY <2>1, <3>2, <3>3 DEF Fits, Pending
      <4> QED
        BY <2>1, <3>2, <4>1 DEF Confirming
    <3>5. Paying(w)'
      BY <3>2 DEF Paying
    <3> QED
      BY <2>1, <3>1, <3>2, <3>4, <3>5
  <2> QED
    BY <1>8, <2>2, <2>3 DEF Verify
<1>9. ASSUME CheckTx(w) PROVE Kept
  <2> DEFINE o == job[w].o
  <2>1. /\ job[w].at = "checkTx" /\ status'[o] # "none"
        /\ UNCHANGED <<status, transfers, met, full>>
    BY <1>0, <1>9 DEF CheckTx, At, OrderSteps, history
  <2>2. CASE Go(w, "noteTx")
    <3>1. Alone(w) /\ job'[w] = [job[w] EXCEPT !.at = "noteTx"]
      BY <2>2, OneGoes DEF Go
    <3>2. job'[w].at = "noteTx" /\ job'[w].o = o /\ job'[w].t = job[w].t
      BY <1>0, <3>1 DEF JobType
    <3>3. Fits(transfers[job[w].t], o)
      BY <1>0, <2>1 DEF Confirming
    <3>4. Confirming(w)'
      BY <2>1, <3>2, <3>3 DEF Confirming, Fits, Pending
    <3>5. Paying(w)'
      BY <3>2 DEF Paying
    <3> QED
      BY <2>1, <3>1, <3>2, <3>4, <3>5
  <2> QED
    BY <1>1, <1>9, <2>2 DEF CheckTx
<1>10. ASSUME NoteTx(w) PROVE Kept
  <2>1. status'[job[w].o] # "none"
    BY <1>0, <1>10 DEF NoteTx, At, OrderSteps
  <2> QED
    BY <1>1, <1>2, <1>10, <2>1 DEF NoteTx, Unverified
<1>11. ASSUME SaveOwn(w) \/ SaveNew(w) \/ Claim(w) \/ CancelSave(w) \/ Abort(w) PROVE Kept
  BY <1>1, <1>11 DEF SaveOwn, SaveNew, Save, Claim, CancelSave, Abort
<1> QED
  BY <1>3, <1>4, <1>5, <1>6, <1>7, <1>8, <1>9, <1>10, <1>11 DEF Proceeds, Starts

-----------------------------------------------------------------------------
(* The orders.                                                             *)

\* Only a save shows an amount.
LEMMA Shows ==
  ASSUME CryptoAssumption, TypeOK, CoinInv, [Next]_vars, NEW p \in Order, shown'[p] # shown[p]
  PROVE  \E w \in Worker, value \in Nat \ {0} :
           /\ p = job[w].o /\ job[w].at = "paySave" /\ shown'[p] = shown[p] \cup {value}
           /\ job[w].own > 0 => value = job[w].own
           /\ \/ value = job[w].seen /\ amount'[p] = amount[p]
              \/ amount'[p] = value
<1>1. shown' = shown \/ \E w \in Worker : SaveOwn(w) \/ SaveNew(w)
  BY DEF Next, vars, history, PlaceOrder, Transfer, Proceeds, Abort, Starts, PayRead, PayOwn,
         PayUsed, ConfirmRead, Verify, CheckTx, NoteTx, Claim, CancelRead, CancelSave
<1>2. PICK w \in Worker : SaveOwn(w) \/ SaveNew(w)
  BY <1>1
<1>3. PICK value \in Nat \ {0} :
        /\ Save(w, value) /\ job[w].o \in Order /\ At(w, "paySave")
        /\ \/ job[w].own > 0 /\ value = job[w].own /\ full' = full
           \/ /\ job[w].own = 0 /\ full \subseteq full' /\ full' \subseteq Order
              /\ value \notin job[w].used \/ job[w].o \in full'
  BY <1>2, SaveTypes
<1>4. /\ shown' = [shown EXCEPT ![job[w].o] = @ \cup {value}]
      /\ \/ value = job[w].seen /\ amount' = amount
         \/ amount' = [amount EXCEPT ![job[w].o] = value]
  BY <1>3 DEF Save
<1>5. p = job[w].o /\ shown'[p] = shown[p] \cup {value}
  BY <1>4 DEF TypeOK
<1>6. \/ value = job[w].seen /\ amount'[p] = amount[p]
      \/ amount'[p] = value
  BY <1>4, <1>5 DEF TypeOK
<1>7. job[w].own > 0 => value = job[w].own
  BY <1>3
<1> QED
  BY <1>3, <1>5, <1>6, <1>7 DEF At

LEMMA ShowingKeeps ==
  ASSUME CryptoAssumption, TypeOK, CoinInv, [Next]_vars
  PROVE  Showing'
<1>1. SUFFICES ASSUME NEW p \in Order PROVE 0 \notin shown'[p]
  BY DEF Showing
<1>2. 0 \notin shown[p]
  BY DEF CoinInv, Showing
<1>3. CASE shown'[p] # shown[p]
  <2>1. PICK value \in Nat \ {0} : shown'[p] = shown[p] \cup {value}
    BY <1>3, Shows
  <2> QED
    BY <1>2, <2>1
<1> QED
  BY <1>2, <1>3

LEMMA ShownKeeps ==
  ASSUME CryptoAssumption, TypeOK, CoinInv, [Next]_vars
  PROVE  ShownIsKept'
<1>0. Frame
  BY Frames
<1>1. SUFFICES ASSUME NEW p \in Order, status'[p] = "pending", {p} \notin met'
               PROVE  shown'[p] \subseteq {amount'[p]}
  BY DEF ShownIsKept, Pending
<1>2. {p} \notin met /\ amount[p] \in Nat
  BY <1>0, <1>1 DEF Frame, TypeOK
<1>3. shown[p] \subseteq {amount[p]} /\ (amount[p] = 0 => shown[p] = {})
  <2>1. Pending(p) \/ shown[p] = {}
    BY <1>0, <1>1 DEF Frame, Pending, CoinInv, Placing
  <2>2. shown[p] \subseteq {amount[p]}
    BY <1>2, <2>1 DEF CoinInv, ShownIsKept
  <2>3. 0 \notin shown[p]
    BY DEF CoinInv, Showing
  <2> QED
    BY <2>2, <2>3
<1>4. ASSUME amount'[p] # amount[p] PROVE amount[p] = 0
  <2>1. Pending(p)
    BY <1>0, <1>1, <1>4, Changed DEF Frame, Pending
  <2> QED
    BY <1>0, <1>2, <1>4, <2>1, Changed
<1>5. CASE shown'[p] = shown[p]
  BY <1>3, <1>4, <1>5
<1>6. CASE shown'[p] # shown[p]
  <2>1. PICK w \in Worker, value \in Nat \ {0} :
          /\ p = job[w].o /\ job[w].at = "paySave" /\ shown'[p] = shown[p] \cup {value}
          /\ job[w].own > 0 => value = job[w].own
          /\ \/ value = job[w].seen /\ amount'[p] = amount[p]
             \/ amount'[p] = value
    BY <1>6, Shows
  <2>2. Pending(p)
    <3>1. status[p] # "none"
      BY <2>1 DEF CoinInv, Placing, OrderSteps
    <3> QED
      BY <1>0, <1>1, <3>1 DEF Frame, Pending
  <2>3. Paying(w) /\ job[w].own \in Nat /\ job[w].seen \in Nat
    BY DEF CoinInv, TypeOK, JobType
  <2>4. CASE job[w].own > 0
    <3>1. amount[p] = value
      BY <1>2, <2>1, <2>2, <2>3, <2>4 DEF Paying, Stands
    <3>2. amount'[p] = value
      BY <2>1, <3>1
    <3> QED
      BY <1>3, <2>1, <3>1, <3>2
  <2>5. CASE job[w].own = 0
    <3>1. amount[p] = 0
      BY <1>2, <2>1, <2>2, <2>3, <2>5 DEF Paying, Stands
    <3>2. job[w].seen = 0
      BY <2>1, <2>3, <3>1 DEF Paying
    <3>3. amount'[p] = value
      BY <2>1, <3>2
    <3> QED
      BY <1>3, <2>1, <3>1, <3>3
  <2> QED
    BY <2>3, <2>4, <2>5
<1> QED
  BY <1>5, <1>6

LEMMA PlacingKeeps ==
  ASSUME CryptoAssumption, TypeOK, CoinInv, [Next]_vars,
         \A w \in Worker : job'[w].at \in OrderSteps => status'[job'[w].o] # "none"
  PROVE  Placing'
<1>0. Frame
  BY Frames
<1>1. SUFFICES ASSUME NEW p \in Order, status'[p] = "none"
               PROVE  amount'[p] = 0 /\ shown'[p] = {}
  BY DEF Placing
<1>2. status[p] = "none" /\ amount[p] = 0 /\ shown[p] = {}
  BY <1>0, <1>1 DEF Frame, CoinInv, Placing
<1>3. amount'[p] = 0
  BY <1>0, <1>2, Changed
<1>4. shown'[p] = {}
  <2>1. ASSUME shown'[p] # shown[p] PROVE FALSE
    <3>1. PICK w \in Worker : p = job[w].o /\ job[w].at = "paySave"
      BY <2>1, Shows
    <3> QED
      BY <1>2, <3>1 DEF CoinInv, Placing, OrderSteps
  <2> QED
    BY <1>2, <2>1
<1> QED
  BY <1>3, <1>4

LEMMA PaidKeeps ==
  ASSUME CryptoAssumption, TypeOK, CoinInv, [Next]_vars
  PROVE  Paid'
<1> DEFINE T == [of : Order, amount : Nat, memo : BOOLEAN, placed : SUBSET Order]
           Good(t) == Chain[t.of] = "trc20" /\ t.amount \in shown'[t.of]
<1>1. transfers \in Seq(T)
  BY DEF TypeOK
<1>2. ASSUME NEW i \in DOMAIN transfers PROVE Good(transfers[i])
  <2> HIDE DEF T
  <2>1. transfers[i] \in T
    BY <1>1, <1>2
  <2>2. transfers[i].of \in Order
    BY <2>1 DEF T
  <2>3. shown[transfers[i].of] \subseteq shown'[transfers[i].of]
    BY <2>2, Frames DEF Frame
  <2> QED
    BY <2>3 DEF CoinInv, Paid
<1>3. CASE transfers' = transfers
  BY <1>2, <1>3 DEF Paid
<1>4. ASSUME NEW o \in Order, NEW value \in shown[o], NEW memo \in BOOLEAN, Transfer(o, value, memo)
      PROVE  Paid'
  <2> DEFINE t == [of |-> o, amount |-> value, memo |-> memo, placed |-> Placed]
  <2>1. transfers' = Append(transfers, t) /\ shown' = shown /\ Chain[o] = "trc20"
    BY <1>4 DEF Transfer, history
  <2>2. Good(t) /\ t \in T
    BY <2>1 DEF Placed, TypeOK
  <2> HIDE DEF T, Good, t
  <2>3. \A i \in DOMAIN transfers' :
          (i \in DOMAIN transfers /\ transfers'[i] = transfers[i]) \/ transfers'[i] = t
    BY <1>1, <2>1, <2>2
  <2>4. \A i \in DOMAIN transfers' : Good(transfers'[i])
    BY <1>2, <2>2, <2>3
  <2> QED
    BY <2>4 DEF Good, Paid
<1>5. transfers' = transfers
      \/ \E o \in Order : \E value \in shown[o], memo \in BOOLEAN : Transfer(o, value, memo)
  BY DEF Next, vars, PlaceOrder, Proceeds, Abort, Starts, PayRead, PayOwn, PayUsed, SaveOwn,
         SaveNew, Save, ConfirmRead, Verify, CheckTx, NoteTx, Claim, CancelRead, CancelSave
<1> QED
  BY <1>3, <1>4, <1>5

\* The order that gets an amount gets one that no rival has.
LEMMA NewDiffers ==
  ASSUME CryptoAssumption, TypeOK, CoinInv, Frame, NEW o \in Order, NEW p \in Order,
         Rivals(o, p)', amount'[o] = amount'[p], amount'[o] # amount[o]
  PROVE  Excused(o, p)'
<1>1. PICK w \in Worker : Settles(w, o)
  BY DEF Frame
<1>2. /\ job[w].at = "paySave" /\ job[w].o = o /\ Decides(job[w]) /\ job[w].own \in Nat
      /\ job[w].own > 0 => amount'[o] = job[w].own
      /\ job[w].own = 0 => amount'[o] \notin job[w].used \/ o \in full'
  BY <1>1 DEF Settles, TypeOK, JobType
<1>3. /\ o # p /\ Chain[o] = Chain[p] /\ amount'[o] > 0
      /\ status'[o] = "pending" /\ status'[p] = "pending"
  BY DEF Rivals, Pending
<1>4. CASE amount'[p] # amount[p]
  <2>1. PICK v \in Worker : Settles(v, p)
    BY <1>4 DEF Frame
  <2>2. job[v].o = p /\ Decides(job[v])
    BY <2>1 DEF Settles
  <2>3. {o, p} \in met
    BY <1>2, <1>3, <2>2 DEF CoinInv, Meeting
  <2> QED
    BY <2>3 DEF Frame, Excused
<1>5. CASE amount'[p] = amount[p]
  <2>1. status[o] # "none" /\ status[p] # "none"
    BY <1>2, <1>3, <1>5 DEF CoinInv, Placing, OrderSteps
  <2>2. Rivals(p, o) /\ amount[p] = amount'[o]
    BY <1>3, <1>5, <2>1 DEF Rivals, Pending, Frame
  <2>3. Paying(w)
    BY DEF CoinInv
  <2>4. CASE job[w].own > 0
    <3>1. Reserved(o, job[w].own)
      BY <1>2, <2>3, <2>4 DEF Paying, Decides
    <3>2. Excused(o, p)
      BY <1>2, <2>2, <2>4, <3>1 DEF Reserved
    <3> QED
      BY <3>2, ExcusedOn
  <2>5. CASE job[w].own = 0
    <3>1. amount[p] \in job[w].used \/ Excused(o, p)
      BY <1>2, <2>2, <2>3, <2>5 DEF Paying
    <3>2. o \in full' \/ Excused(o, p)
      BY <1>2, <2>2, <2>5, <3>1
    <3> QED
      BY <3>2, ExcusedOn DEF Excused
  <2> QED
    BY <1>2, <2>4, <2>5
<1> QED
  BY <1>4, <1>5

LEMMA DifferKeeps ==
  ASSUME CryptoAssumption, TypeOK, CoinInv, [Next]_vars
  PROVE  AmountsDiffer'
<1>0. Frame
  BY Frames
<1>1. SUFFICES ASSUME NEW o \in Order, NEW p \in Order, Rivals(o, p)', amount'[o] = amount'[p]
               PROVE  Excused(o, p)'
  BY DEF AmountsDiffer, Excused
<1>2. /\ o # p /\ Chain[o] = Chain[p] /\ amount'[o] > 0
      /\ status'[o] = "pending" /\ status'[p] = "pending"
  BY <1>1 DEF Rivals, Pending
<1>3. CASE amount'[o] # amount[o]
  BY <1>0, <1>1, <1>3, NewDiffers
<1>4. CASE amount'[p] # amount[p]
  <2>1. Rivals(p, o)'
    BY <1>1, <1>2 DEF Rivals, Pending
  <2>2. Excused(p, o)'
    BY <1>0, <1>1, <1>4, <2>1, NewDiffers
  <2>3. {o, p} = {p, o}
    OBVIOUS
  <2> QED
    BY <2>2, <2>3 DEF Excused
<1>5. CASE amount'[o] = amount[o] /\ amount'[p] = amount[p]
  <2>1. status[o] # "none" /\ status[p] # "none"
    <3>1. amount[o] > 0 /\ amount[p] > 0
      BY <1>1, <1>2, <1>5
    <3> QED
      BY <3>1 DEF CoinInv, Placing
  <2>2. Rivals(o, p) /\ amount[o] = amount[p]
    BY <1>0, <1>1, <1>2, <1>5, <2>1 DEF Rivals, Pending, Frame
  <2>3. Excused(o, p)
    BY <2>2 DEF CoinInv, AmountsDiffer, Excused
  <2> QED
    BY <1>0, <2>3, ExcusedOn
<1> QED
  BY <1>3, <1>4, <1>5

LEMMA CoinInvKeeps ==
  ASSUME CryptoAssumption, TypeOK, CoinInv, [Next]_vars
  PROVE  CoinInv'
<1>0. Frame
  BY Frames
<1>1. ASSUME NEW w \in Worker
      PROVE  /\ Paying(w)' /\ Confirming(w)'
             /\ job'[w].at \in OrderSteps => status'[job'[w].o] # "none"
  <2>1. CASE job'[w] = job[w]
    <3>1. job[w].at \in OrderSteps => status'[job[w].o] # "none"
      BY <1>0 DEF Frame, TypeOK, CoinInv, Placing
    <3> QED
      BY <1>0, <2>1, <3>1, PayingOn, ConfirmingOn
  <2>2. CASE job'[w] # job[w]
    <3>1. PICK v \in Worker : Proceeds(v) \/ Abort(v) \/ \E o \in Order : Starts(v, o)
      BY <2>2 DEF Next, vars, PlaceOrder, Transfer
    <3>2. /\ Alone(v) /\ Paying(v)' /\ Confirming(v)'
          /\ job'[v].at \in OrderSteps => status'[job'[v].o] # "none"
      BY <1>0, <3>1, MovedKeeps
    <3>3. v = w
      BY <2>2, <3>2 DEF Alone
    <3> QED
      BY <3>2, <3>3
  <2> QED
    BY <2>1, <2>2
<1>2. Placing'
  BY <1>1, PlacingKeeps
<1> QED
  BY <1>1, <1>2, ShowingKeeps, MeetingKeeps, PaidKeeps, DifferKeeps, ShownKeeps DEF CoinInv

LEMMA CoinInit == ASSUME CryptoAssumption, Init PROVE CoinInv
<1>1. /\ \A o \in Order : status[o] = "none" /\ amount[o] = 0 /\ shown[o] = {}
      /\ \A w \in Worker : job[w].at = "idle"
      /\ transfers = <<>>
  BY DEF Init, Idle, Job
<1>2. Placing /\ Showing /\ Paid
  BY <1>1 DEF Placing, Showing, Paid, OrderSteps
<1>3. Meeting /\ AmountsDiffer /\ ShownIsKept
  BY <1>1 DEF Meeting, Decides, AmountsDiffer, Rivals, ShownIsKept, Pending
<1>4. \A w \in Worker : Paying(w) /\ Confirming(w)
  BY <1>1 DEF Paying, Confirming
<1> QED
  BY <1>2, <1>3, <1>4 DEF CoinInv

LEMMA CoinsHold == ASSUME CryptoAssumption PROVE Spec => [](TypeOK /\ CoinInv)
<1>1. Init => TypeOK /\ CoinInv
  BY TypeInit, CoinInit
<1>2. TypeOK /\ CoinInv /\ [Next]_vars => (TypeOK /\ CoinInv)'
  BY TypeKeeps, CoinInvKeeps
<1> QED
  BY <1>1, <1>2, PTL DEF Spec

\* Two pending orders of a chain have different amounts, unless these were
\* worked out at the same time or the offsets were used up.
THEOREM AmountsTellApart == ASSUME CryptoAssumption PROVE Spec => []AmountsDiffer
<1>1. CoinInv => AmountsDiffer
  BY DEF CoinInv
<1> QED
  BY <1>1, CoinsHold, PTL

\* A buyer who pays for a pending order again is told the amount of before.
THEOREM ShownAgain == ASSUME CryptoAssumption PROVE Spec => []ShownIsKept
<1>1. CoinInv => ShownIsKept
  BY DEF CoinInv
<1> QED
  BY <1>1, CoinsHold, PTL

\* No transfer made for an order that is still open is noted for another one,
\* unless it carries no memo and the amounts came out equal as above.
THEOREM TransferFound == ASSUME CryptoAssumption PROVE Spec => TransferFindsItsOrder
<1> DEFINE Found(o) ==
             tx'[o] # tx[o] =>
               LET t == transfers[tx'[o]] IN
               \/ t.of = o \/ ~Pending(o) \/ ~Pending(t.of)
               \/ ~t.memo /\ (met \cap {{o}, {t.of}, {o, t.of}} # {} \/ full \cap {o, t.of} # {})
<1>1. ASSUME CryptoAssumption, TypeOK, CoinInv, [Next]_vars, NEW o \in Order PROVE Found(o)
  <2>1. SUFFICES ASSUME tx'[o] # tx[o] PROVE Fits(transfers[tx'[o]], o)
    BY DEF Fits
  <2>2. PICK w \in Worker : NoteTx(w)
    BY <1>1, <2>1 DEF Next, vars, PlaceOrder, Transfer, Proceeds, Abort, Starts, PayRead, PayOwn,
         PayUsed, SaveOwn, SaveNew, Save, ConfirmRead, Verify, CheckTx, Claim, CancelRead,
         CancelSave
  <2>3. job[w].at = "noteTx" /\ tx' = [tx EXCEPT ![job[w].o] = job[w].t]
    BY <2>1, <2>2 DEF NoteTx, At
  <2>4. o = job[w].o /\ tx'[o] = job[w].t
    BY <1>1, <2>1, <2>3 DEF TypeOK
  <2>5. Fits(transfers[job[w].t], job[w].o)
    BY <1>1, <2>3 DEF CoinInv, Confirming
  <2> QED
    BY <2>4, <2>5
<1>2. CryptoAssumption /\ TypeOK /\ CoinInv /\ [Next]_vars => [\A o \in Order : Found(o)]_vars
  BY <1>1
<1> QED
  BY <1>2, CoinsHold, PTL DEF Spec, TransferFindsItsOrder
=============================================================================
