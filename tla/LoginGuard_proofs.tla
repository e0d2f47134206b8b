-------------------------- MODULE LoginGuard_proofs --------------------------
(***************************************************************************)
(* What a captcha and a lock are good for, for any number of workers,      *)
(* captchas and faults, any limit and any times to live.                   *)
(***************************************************************************)
EXTENDS LoginGuard, FiniteSetTheorems, TLAPS

JobType == [at : {"idle"} \cup MarkSteps \cup LockSteps,
            kind : {"login", "register"}, c : Nat, n : Nat]

\* Workers between their look at the mark of a captcha and its removal.
Using(c) == {w \in Worker : At(w, "delMark") /\ job[w].c = c}

\* Workers that found no lock, with the password still to be looked at.
Past == {w \in Worker : At(w, "password")}

\* Workers with a wrong password to be counted.
Counting == {w \in Worker : At(w, "incr")}

\* Workers that will lock the account, or have, and remove the counter.
Locking ==
  {w \in Worker : \/ At(w, "setLock") \/ At(w, "dropCount")
                  \/ At(w, "expire") /\ TooMany(job[w].n)}

\* A mark that is there served nobody, faults aside; whoever looked at it
\* before it was removed may still be served.
MarkInv ==
  \A c \in Captcha :
    /\ mark[c] > 0 => served[c] <= faults
    /\ served[c] + Cardinality(Using(c)) <= Cardinality(Worker) + faults

\* The worker that set the lock is not among those that are past it.
LockInv ==
  /\ lock = 0 => late = 0
  /\ lock > 0 => late + Cardinality(Past) < Cardinality(Worker) + faults

\* Every guess is in the counter, about to be counted, or cost a fault; past
\* the limit there is a worker for each that is about to remove the counter.
GuessInv ==
  /\ guesses <= fails + Cardinality(Counting) + faults
  /\ guesses < Limit + Cardinality(Counting \cup Locking) + faults

\* A counter without a time to live is new: its worker is at the EXPIRE.
AgeInv ==
  /\ fails = 0 => failTtl = 0 /\ age = 0
  /\ (\E w \in Worker : At(w, "expire")) => age = 0
  /\ fails > 0 /\ ~orphan =>
       IF failTtl > 0 THEN age + failTtl <= FailTtl
       ELSE age = 0 /\ \E w \in Worker : At(w, "expire")

-----------------------------------------------------------------------------
(* Facts about one worker that goes on.                                    *)

\* A set of workers that changes by w at most changes in size accordingly.
LEMMA OneMoves ==
  ASSUME GuardAssumption, NEW w \in Worker,
         NEW A \in SUBSET Worker, NEW B \in SUBSET Worker, A \ {w} = B \ {w}
  PROVE  /\ IsFiniteSet(A) /\ IsFiniteSet(B)
         /\ Cardinality(A) \in Nat /\ Cardinality(B) \in Nat
         /\ Cardinality(A) <= Cardinality(Worker)
         /\ w \notin A => Cardinality(A) < Cardinality(Worker)
         /\ (w \in A <=> w \in B) => Cardinality(B) = Cardinality(A)
         /\ w \in A /\ w \notin B => Cardinality(B) = Cardinality(A) - 1
         /\ w \notin A /\ w \in B => Cardinality(B) = Cardinality(A) + 1
<1> DEFINE C == A \ {w}
<1>1. IsFiniteSet(Worker) /\ Cardinality(Worker) \in Nat
  BY FS_CardinalityType DEF GuardAssumption
<1>2. /\ IsFiniteSet(A) /\ IsFiniteSet(B) /\ IsFiniteSet(C) /\ IsFiniteSet(Worker \ {w})
      /\ Cardinality(A) <= Cardinality(Worker)
      /\ w \notin A => Cardinality(A) <= Cardinality(Worker \ {w})
  <2>1. A \subseteq Worker /\ B \subseteq Worker /\ C \subseteq Worker /\ Worker \ {w} \subseteq Worker
    OBVIOUS
  <2>2. IsFiniteSet(A) /\ IsFiniteSet(B) /\ IsFiniteSet(C) /\ IsFiniteSet(Worker \ {w})
        /\ Cardinality(A) <= Cardinality(Worker)
    BY <1>1, <2>1, FS_Subset, Zenon
  <2>3. ASSUME w \notin A PROVE Cardinality(A) <= Cardinality(Worker \ {w})
    <3>1. A \subseteq Worker \ {w}
      BY <2>3
    <3> QED
      BY <2>2, <3>1, FS_Subset, Zenon
  <2> QED
    BY <2>2, <2>3
<1>3. /\ Cardinality(A) \in Nat /\ Cardinality(B) \in Nat /\ Cardinality(C) \in Nat
      /\ Cardinality(Worker \ {w}) = Cardinality(Worker) - 1
  BY <1>1, <1>2, FS_CardinalityType, FS_RemoveElement
<1>4. /\ w \in A => Cardinality(C) = Cardinality(A) - 1
      /\ w \in B => Cardinality(C) = Cardinality(B) - 1
  <2>1. C = B \ {w}
    OBVIOUS
  <2>2. w \in A => Cardinality(A \ {w}) = Cardinality(A) - 1
    BY <1>2, FS_RemoveElement
  <2>3. w \in B => Cardinality(B \ {w}) = Cardinality(B) - 1
    BY <1>2, FS_RemoveElement
  <2> QED
    BY <2>1, <2>2, <2>3
<1>5. (w \notin A => C = A) /\ (w \notin B => C = B)
  OBVIOUS
<1> HIDE DEF C
<1>6. w \notin A => Cardinality(A) < Cardinality(Worker)
  BY <1>1, <1>2, <1>3
<1>7. (w \in A <=> w \in B) => Cardinality(B) = Cardinality(A)
  BY <1>3, <1>4, <1>5
<1>8. w \in A /\ w \notin B => Cardinality(B) = Cardinality(A) - 1
  BY <1>3, <1>4, <1>5
<1>9. w \notin A /\ w \in B => Cardinality(B) = Cardinality(A) + 1
  BY <1>3, <1>4, <1>5
<1> QED
  BY <1>2, <1>3, <1>6, <1>7, <1>8, <1>9

\* One worker goes on, and the others stay where they are.
Alone(w) == \A v \in Worker \ {w} : job'[v] = job[v]

\* The failure a worker counted locks the account or does not.
CountedAs(w, n) ==
  \/ job'[w].at = "setLock" /\ TooMany(n)
  \/ job'[w].at = "idle" /\ ~TooMany(n)

\* Where each step leads.
LEMMA Steps ==
  ASSUME TypeOK, NEW w \in Worker
  PROVE  /\ \A kind, c : Arrive(w, kind, c) => Alone(w) /\ job'[w].at = "lookMark"
         /\ \A step : Go(w, step) => Alone(w) /\ job'[w].at = step
         /\ End(w) => Alone(w) /\ job'[w].at = "idle"
         /\ PastCaptcha(w) => Alone(w) /\ job'[w].at \in {"idle", "lookLock"}
         /\ LookMark(w) => Alone(w) /\ job'[w].at \in {"idle", "delMark", "lookLock"}
         /\ DelMark(w) => Alone(w) /\ job'[w].at \in {"idle", "lookLock"}
         /\ LookLock(w) => Alone(w) /\ job'[w].at \in {"idle", "password"}
         /\ CheckPassword(w) => Alone(w) /\ job'[w].at \in {"clearCount", "incr"}
         /\ Incr(w) =>
              /\ Alone(w)
              /\ \/ job'[w].at = "expire" /\ job'[w].n = fails + 1
                 \/ CountedAs(w, fails + 1)
         /\ Expire(w) => Alone(w) /\ CountedAs(w, job[w].n)
         /\ SetLock(w) => Alone(w) /\ job'[w].at = "dropCount"
         /\ DropCount(w) => Alone(w) /\ job'[w].at = "idle"
         /\ ClearCount(w) => Alone(w) /\ job'[w].at = "clearLock"
         /\ ClearLock(w) => Alone(w) /\ job'[w].at = "idle"
         /\ GiveUp(w) => Alone(w) /\ job'[w].at = "idle"
<1>1. job \in [Worker -> JobType]
  BY DEF TypeOK, JobType
<1>2. \A j : Continue(w, j) => Alone(w) /\ job'[w] = j
  BY <1>1 DEF Continue, Alone
<1>3. \A step, kind, c, n : Job(step, kind, c, n).at = step /\ Job(step, kind, c, n).n = n
  BY DEF Job
<1>4. \A step : Go(w, step) => Alone(w) /\ job'[w].at = step
  BY <1>2, <1>3 DEF Go
<1>5. End(w) => Alone(w) /\ job'[w].at = "idle"
  BY <1>2, <1>3 DEF End, Idle
<1>6. \A n : Counted(w, n) => Alone(w) /\ CountedAs(w, n)
  BY <1>2, <1>3, <1>5 DEF Counted, CountedAs
<1>7. \A kind, c : Arrive(w, kind, c) => Alone(w) /\ job'[w].at = "lookMark"
  BY <1>2, <1>3 DEF Arrive
<1>8. Incr(w) =>
              /\ Alone(w)
              /\ \/ job'[w].at = "expire" /\ job'[w].n = fails + 1
                 \/ CountedAs(w, fails + 1)
  BY <1>2, <1>3, <1>6 DEF Incr
<1>9. PastCaptcha(w) => Alone(w) /\ job'[w].at \in {"idle", "lookLock"}
  BY <1>4, <1>5 DEF PastCaptcha
<1>10. LookLock(w) => Alone(w) /\ job'[w].at \in {"idle", "password"}
  BY <1>4, <1>5 DEF LookLock
<1>11. CheckPassword(w) => Alone(w) /\ job'[w].at \in {"clearCount", "incr"}
  BY <1>4 DEF CheckPassword
<1>12. Expire(w) => Alone(w) /\ CountedAs(w, job[w].n)
  BY <1>6 DEF Expire
<1>13. /\ SetLock(w) => Alone(w) /\ job'[w].at = "dropCount"
       /\ ClearCount(w) => Alone(w) /\ job'[w].at = "clearLock"
  BY <1>4 DEF SetLock, ClearCount
<1>14. /\ DropCount(w) => Alone(w) /\ job'[w].at = "idle"
       /\ ClearLock(w) => Alone(w) /\ job'[w].at = "idle"
       /\ GiveUp(w) => Alone(w) /\ job'[w].at = "idle"
  BY <1>5 DEF DropCount, ClearLock, GiveUp
<1>15. LookMark(w) => Alone(w) /\ job'[w].at \in {"idle", "delMark", "lookLock"}
  <2>1. [job[w] EXCEPT !.at = "delMark"].at = "delMark"
    BY <1>1 DEF JobType
  <2>2. LookMark(w) => \/ End(w) \/ PastCaptcha(w)
                       \/ Continue(w, [job[w] EXCEPT !.at = "delMark"])
    BY DEF LookMark
  <2>3. Continue(w, [job[w] EXCEPT !.at = "delMark"]) => Alone(w) /\ job'[w].at = "delMark"
    BY <1>2, <2>1
  <2> QED
    BY <1>5, <1>9, <2>2, <2>3
<1>16. DelMark(w) => Alone(w) /\ job'[w].at \in {"idle", "lookLock"}
  BY <1>9 DEF DelMark
<1> QED
  BY <1>4, <1>5, <1>7, <1>8, <1>9, <1>10, <1>11, <1>12, <1>13, <1>14, <1>15, <1>16, Zenon

\* Nothing but the look at a mark leads to its removal.
LEMMA StepsLead ==
  ASSUME TypeOK, NEW w \in Worker,
         \/ \E kind \in {"login", "register"}, c \in Captcha : Arrive(w, kind, c)
         \/ LookLock(w) \/ CheckPassword(w) \/ Incr(w) \/ Expire(w) \/ SetLock(w)
         \/ DropCount(w) \/ ClearCount(w) \/ ClearLock(w) \/ GiveUp(w)
  PROVE  Alone(w) /\ job'[w].at \in {"idle", "lookMark"} \cup LockSteps
<1> DEFINE Leads == Alone(w) /\ job'[w].at \in {"idle", "lookMark"} \cup LockSteps
<1>1. (\E kind \in {"login", "register"}, c \in Captcha : Arrive(w, kind, c)) => Leads
  BY Steps
<1>2. LookLock(w) \/ CheckPassword(w) => Leads
  <2>1. LookLock(w) => Alone(w) /\ job'[w].at \in {"idle", "password"}
    BY Steps
  <2>2. CheckPassword(w) => Alone(w) /\ job'[w].at \in {"clearCount", "incr"}
    BY Steps
  <2> QED
    BY <2>1, <2>2 DEF LockSteps
<1>3. Incr(w) \/ Expire(w) => Leads
  <2>1. ASSUME Incr(w) PROVE Leads
    BY <2>1, Steps DEF CountedAs, LockSteps
  <2>2. ASSUME Expire(w) PROVE Leads
    BY <2>2, Steps DEF CountedAs, LockSteps
  <2> QED
    BY <2>1, <2>2
<1>4. SetLock(w) \/ ClearCount(w) => Leads
  BY Steps DEF LockSteps
<1>5. DropCount(w) \/ ClearLock(w) \/ GiveUp(w) => Leads
  BY Steps
<1> QED
  BY <1>1, <1>2, <1>3, <1>4, <1>5, Zenon

-----------------------------------------------------------------------------
(* Types.                                                                  *)

LEMMA TypeKeeps ==
  ASSUME GuardAssumption, TypeOK, [Next]_vars
  PROVE  TypeOK'
<1> USE DEF GuardAssumption
<1>0. /\ mark \in [Captcha -> 0..MarkTtl] /\ served \in [Captcha -> Nat]
      /\ fails \in Nat /\ failTtl \in 0..FailTtl
      /\ guesses \in Nat /\ age \in 0..(FailTtl + 1) /\ orphan \in BOOLEAN
      /\ lock \in 0..LockTtl /\ late \in Nat /\ faults \in Nat
      /\ job \in [Worker -> JobType]
      /\ \A w \in Worker : job[w].at \in MarkSteps => job[w].c \in Captcha
  BY DEF TypeOK, JobType
<1>1. ASSUME NEW w \in Worker, NEW j \in JobType, j.at \in MarkSteps => j.c \in Captcha,
             Continue(w, j)
      PROVE  /\ job' \in [Worker -> JobType]
             /\ \A v \in Worker : job'[v].at \in MarkSteps => job'[v].c \in Captcha
  BY <1>0, <1>1 DEF Continue
<1>2. ASSUME NEW step \in {"idle"} \cup LockSteps, NEW n \in Nat
      PROVE  /\ Job(step, "login", 0, n) \in JobType
             /\ Job(step, "login", 0, n).at \notin MarkSteps
  BY DEF Job, JobType, MarkSteps, LockSteps
<1>3. ASSUME NEW w \in Worker, NEW step \in LockSteps, Go(w, step)
      PROVE  /\ job' \in [Worker -> JobType]
             /\ \A v \in Worker : job'[v].at \in MarkSteps => job'[v].c \in Captcha
  BY <1>1, <1>2, <1>3 DEF Go
<1>4. ASSUME NEW w \in Worker, End(w)
      PROVE  /\ job' \in [Worker -> JobType]
             /\ \A v \in Worker : job'[v].at \in MarkSteps => job'[v].c \in Captcha
  BY <1>1, <1>2, <1>4 DEF End, Idle
<1>5. ASSUME NEW w \in Worker, NEW n \in Nat, Counted(w, n)
      PROVE  /\ job' \in [Worker -> JobType]
             /\ \A v \in Worker : job'[v].at \in MarkSteps => job'[v].c \in Captcha
  BY <1>1, <1>2, <1>4, <1>5 DEF Counted, LockSteps
<1>6. Works \/ Fails => faults' \in Nat
  BY <1>0 DEF Works, Fails
<1>7. CASE UNCHANGED vars
  BY <1>0, <1>7 DEF TypeOK, JobType, vars, marks, counter, locks
<1>8. CASE Tick
  <2>1. \A n \in Nat : Older(n) \in 0..n
    BY DEF Older
  <2>2. /\ mark' \in [Captcha -> 0..MarkTtl] /\ lock' \in 0..LockTtl /\ late' \in Nat
    BY <1>0, <1>8, <2>1 DEF Tick
  <2>3. /\ fails' \in Nat /\ failTtl' \in 0..FailTtl /\ guesses' \in Nat
        /\ age' \in 0..(FailTtl + 1)
    <3>1. CASE failTtl = 1
      <4>1. fails' = 0 /\ failTtl' = 0 /\ guesses' = 0 /\ age' = 0
        BY <1>8, <3>1 DEF Tick, NoCounter
      <4> QED
        BY <4>1
    <3>2. CASE failTtl # 1
      BY <1>0, <1>8, <2>1, <3>2 DEF Tick
    <3> QED
      BY <3>1, <3>2
  <2>4. orphan' \in BOOLEAN
    BY <1>0, <1>8, Zenon DEF Tick, NoCounter
  <2> QED
    BY <1>0, <1>8, <2>2, <2>3, <2>4 DEF TypeOK, JobType, Tick
<1>9. ASSUME NEW c \in Captcha, Solve(c) PROVE TypeOK'
  BY <1>0, <1>9 DEF TypeOK, JobType, Solve, counter, locks
<1>10. ASSUME NEW w \in Worker, NEW kind \in {"login", "register"}, NEW c \in Captcha,
              Arrive(w, kind, c)
       PROVE  TypeOK'
  <2>1. Job("lookMark", kind, c, 0) \in JobType /\ Job("lookMark", kind, c, 0).c = c
    BY DEF Job, JobType, MarkSteps, Captcha
  <2> QED
    BY <1>0, <1>1, <1>10, <2>1 DEF TypeOK, JobType, Arrive, marks, counter, locks
<1>11. ASSUME NEW w \in Worker, LookMark(w) PROVE TypeOK'
  <2>1. CASE Continue(w, [job[w] EXCEPT !.at = "delMark"])
    <3>1. /\ [job[w] EXCEPT !.at = "delMark"] \in JobType
          /\ [job[w] EXCEPT !.at = "delMark"].c \in Captcha
      BY <1>0, <1>11 DEF LookMark, At, JobType, MarkSteps
    <3> QED
      BY <1>0, <1>1, <1>6, <1>11, <2>1, <3>1
      DEF TypeOK, JobType, LookMark, Works, Fails, marks, counter, locks
  <2>2. CASE End(w) \/ PastCaptcha(w)
    BY <1>0, <1>3, <1>4, <1>6, <1>11, <2>2
    DEF TypeOK, JobType, LookMark, PastCaptcha, marks, counter, locks, LockSteps
  <2> QED
    BY <1>11, <2>1, <2>2 DEF LookMark
<1>12. ASSUME NEW w \in Worker, DelMark(w) PROVE TypeOK'
  <2>1. job[w].c \in Captcha
    BY <1>0, <1>12 DEF DelMark, At, MarkSteps
  <2>2. mark' \in [Captcha -> 0..MarkTtl]
    <3>1. mark' = Removed(job[w].c) \/ mark' = mark
      BY <1>12 DEF DelMark
    <3> QED
      BY <1>0, <3>1 DEF Removed
  <2>3. served' \in [Captcha -> Nat] /\ faults' \in Nat
    BY <1>0, <1>6, <1>12, <2>1 DEF DelMark
  <2> QED
    BY <1>0, <1>3, <1>4, <1>12, <2>2, <2>3
    DEF TypeOK, JobType, DelMark, PastCaptcha, counter, locks, LockSteps
<1>13. ASSUME NEW w \in Worker, LookLock(w) PROVE TypeOK'
  BY <1>0, <1>3, <1>4, <1>6, <1>13
  DEF TypeOK, JobType, LookLock, marks, counter, locks, LockSteps
<1>14. ASSUME NEW w \in Worker, CheckPassword(w) PROVE TypeOK'
  <2>1. late' \in Nat /\ guesses' \in Nat
    BY <1>0, <1>14 DEF CheckPassword
  <2>2. Go(w, "clearCount") \/ Go(w, "incr")
    BY <1>14 DEF CheckPassword
  <2> QED
    BY <1>0, <1>3, <1>14, <2>1, <2>2 DEF TypeOK, JobType, CheckPassword, marks, LockSteps
<1>15. ASSUME NEW w \in Worker, Incr(w) PROVE TypeOK'
  <2>1. fails' = fails + 1 /\ fails' \in Nat
    BY <1>0, <1>15 DEF Incr
  <2>2. Continue(w, Job("expire", "login", 0, fails')) \/ Counted(w, fails')
    BY <1>15 DEF Incr
  <2>3. /\ job' \in [Worker -> JobType]
        /\ \A v \in Worker : job'[v].at \in MarkSteps => job'[v].c \in Captcha
    BY <1>1, <1>2, <1>5, <2>1, <2>2 DEF LockSteps
  <2> QED
    BY <1>0, <1>15, <2>1, <2>3 DEF TypeOK, JobType, Incr, marks, locks
<1>16. ASSUME NEW w \in Worker, Expire(w) PROVE TypeOK'
  <2>1. job[w].n \in Nat /\ failTtl' \in 0..FailTtl
    BY <1>0, <1>16 DEF Expire, JobType
  <2> QED
    BY <1>0, <1>5, <1>16, <2>1 DEF TypeOK, JobType, Expire, marks, locks
<1>17. ASSUME NEW w \in Worker, SetLock(w) PROVE TypeOK'
  BY <1>0, <1>3, <1>17 DEF TypeOK, JobType, SetLock, marks, counter, LockSteps
<1>18. ASSUME NEW w \in Worker, DropCount(w) \/ ClearCount(w) PROVE TypeOK'
  <2>1. /\ fails' = 0 /\ failTtl' = 0 /\ guesses' = 0 /\ age' = 0 /\ orphan' = FALSE
        /\ UNCHANGED <<mark, served, lock, late, faults>>
    BY <1>18 DEF DropCount, ClearCount, NoCounter, marks, locks
  <2>2. /\ job' \in [Worker -> JobType]
        /\ \A v \in Worker : job'[v].at \in MarkSteps => job'[v].c \in Captcha
    BY <1>3, <1>4, <1>18 DEF DropCount, ClearCount, LockSteps
  <2>3. failTtl' \in 0..FailTtl /\ age' \in 0..(FailTtl + 1)
    BY <2>1
  <2> QED
    BY <1>0, <2>1, <2>2, <2>3 DEF TypeOK, JobType
<1>19. ASSUME NEW w \in Worker, ClearLock(w) PROVE TypeOK'
  BY <1>0, <1>4, <1>19 DEF TypeOK, JobType, ClearLock, marks, counter
<1>20. ASSUME NEW w \in Worker, GiveUp(w) PROVE TypeOK'
  <2>1. orphan' \in BOOLEAN
    BY <1>20 DEF GiveUp
  <2> QED
    BY <1>0, <1>4, <1>6, <1>20, <2>1 DEF TypeOK, JobType, GiveUp, marks, locks
<1> QED
  BY <1>7, <1>8, <1>9, <1>10, <1>11, <1>12, <1>13, <1>14, <1>15, <1>16, <1>17, <1>18,
     <1>19, <1>20 DEF Next, Handle

LEMMA TypeInit == ASSUME GuardAssumption, Init PROVE TypeOK
<1>1. /\ mark \in [Captcha -> 0..MarkTtl] /\ served \in [Captcha -> Nat]
      /\ failTtl \in 0..FailTtl /\ age \in 0..(FailTtl + 1) /\ lock \in 0..LockTtl
  BY DEF Init, GuardAssumption
<1>2. /\ job \in [Worker -> JobType]
      /\ \A w \in Worker : job[w].at = "idle"
  BY DEF Init, Idle, Job, JobType
<1>3. fails \in Nat /\ guesses \in Nat /\ orphan \in BOOLEAN /\ late \in Nat /\ faults \in Nat
  BY DEF Init
<1> QED
  BY <1>1, <1>2, <1>3 DEF TypeOK, JobType, MarkSteps

\* The types are kept, and a worker about to use a captcha has one.
THEOREM TypeCorrect == ASSUME GuardAssumption PROVE Spec => []TypeOK
<1>1. Init => TypeOK
  BY TypeInit
<1> QED
  BY <1>1, TypeKeeps, PTL DEF Spec

-----------------------------------------------------------------------------
(* Captchas.                                                               *)

\* The sets of workers change by the one that goes on.
LEMMA SetsMove ==
  ASSUME NEW w \in Worker, Alone(w)
  PROVE  /\ \A c \in Captcha : Using(c) \ {w} = Using(c)' \ {w}
         /\ Past \ {w} = Past' \ {w}
         /\ Counting \ {w} = Counting' \ {w}
         /\ (Counting \cup Locking) \ {w} = (Counting \cup Locking)' \ {w}
BY DEF Alone, Using, Past, Counting, Locking, At, TooMany

\* Nothing a worker does beyond the captcha adds to those that use a mark.
LEMMA MarkQuiet ==
  ASSUME GuardAssumption, TypeOK, MarkInv, UNCHANGED marks, faults' \in {faults, faults + 1},
         NEW w \in Worker, Alone(w), job'[w].at # "delMark"
  PROVE  MarkInv'
<1>1. SUFFICES ASSUME NEW c \in Captcha
               PROVE  /\ mark[c] > 0 => served[c] <= faults'
                      /\ served[c] + Cardinality(Using(c)') <= Cardinality(Worker) + faults'
  BY DEF MarkInv, marks
<1>2. Using(c) \in SUBSET Worker /\ Using(c)' \in SUBSET Worker
      /\ Using(c) \ {w} = Using(c)' \ {w} /\ w \notin Using(c)'
  BY SetsMove DEF Using, At
<1>3. /\ Cardinality(Using(c)) \in Nat /\ Cardinality(Using(c)') \in Nat
      /\ Cardinality(Using(c)') <= Cardinality(Using(c))
  BY <1>2, OneMoves
<1>4. served[c] \in Nat /\ faults \in Nat /\ Cardinality(Worker) \in Nat
  BY FS_CardinalityType DEF TypeOK, GuardAssumption
<1>5. /\ mark[c] > 0 => served[c] <= faults
      /\ served[c] + Cardinality(Using(c)) <= Cardinality(Worker) + faults
  BY DEF MarkInv
<1> QED
  BY <1>3, <1>4, <1>5

LEMMA MarkInvKeeps ==
  ASSUME GuardAssumption, TypeOK, MarkInv, [Next]_vars
  PROVE  MarkInv'
<1>1. /\ mark \in [Captcha -> 0..MarkTtl] /\ served \in [Captcha -> Nat] /\ faults \in Nat
      /\ IsFiniteSet(Worker) /\ Cardinality(Worker) \in Nat /\ MarkTtl \in Nat
  BY FS_CardinalityType DEF TypeOK, GuardAssumption
<1>2. CASE UNCHANGED vars
  BY <1>2 DEF MarkInv, Using, At, vars, marks
<1>3. CASE Tick
  <2>1. /\ \A c \in Captcha : mark'[c] > 0 => mark[c] > 0
        /\ UNCHANGED <<served, job, faults>>
    BY <1>1, <1>3 DEF Tick, Older
  <2> QED
    BY <2>1 DEF MarkInv, Using, At
<1>4. ASSUME NEW d \in Captcha, Solve(d) PROVE MarkInv'
  <2>1. SUFFICES ASSUME NEW c \in Captcha
                 PROVE  /\ mark'[c] > 0 => served'[c] <= faults
                        /\ served'[c] + Cardinality(Using(c)) <= Cardinality(Worker) + faults
    BY <1>4 DEF MarkInv, Solve, Using, At
  <2>2. Cardinality(Using(c)) \in Nat /\ Cardinality(Using(c)) <= Cardinality(Worker)
    <3>1. Using(c) \subseteq Worker
      BY DEF Using
    <3> QED
      BY <1>1, <3>1, FS_Subset, FS_CardinalityType
  <2>3. /\ served'[c] = 0 \/ (served'[c] = served[c] /\ mark'[c] = mark[c])
    BY <1>1, <1>4 DEF Solve
  <2> QED
    BY <1>1, <2>2, <2>3 DEF MarkInv
<1>5. ASSUME NEW w \in Worker, LookMark(w), ~(mark[job[w].c] > 0 /\ faults' = faults)
      PROVE  MarkInv'
  <2>1. End(w) \/ PastCaptcha(w)
    BY <1>5 DEF LookMark, Works
  <2>2. Alone(w) /\ job'[w].at # "delMark"
    BY <2>1, Steps
  <2>3. UNCHANGED marks /\ faults' \in {faults, faults + 1}
    BY <1>5 DEF LookMark, Works, Fails
  <2> QED
    BY <2>2, <2>3, MarkQuiet
<1>6. ASSUME NEW w \in Worker, LookMark(w), mark[job[w].c] > 0, faults' = faults
      PROVE  MarkInv'
  <2> DEFINE b == job[w].c
  <2>1. UNCHANGED marks /\ Continue(w, [job[w] EXCEPT !.at = "delMark"]) /\ b \in Captcha
    BY <1>1, <1>6 DEF LookMark, Works, Fails, TypeOK, At, MarkSteps
  <2>2. SUFFICES ASSUME NEW c \in Captcha
                 PROVE  served[c] + Cardinality(Using(c)') <= Cardinality(Worker) + faults
    BY <1>6, <2>1 DEF MarkInv, marks
  <2>0. job'[w] = [job[w] EXCEPT !.at = "delMark"] /\ Alone(w)
    BY <2>1 DEF Continue, Alone, TypeOK
  <2>3. Using(c) \in SUBSET Worker /\ Using(c)' \in SUBSET Worker
        /\ Using(c) \ {w} = Using(c)' \ {w}
    BY <2>0, SetsMove DEF Using
  <2>4. /\ Cardinality(Using(c)) \in Nat /\ Cardinality(Using(c)') \in Nat
        /\ (w \in Using(c) <=> w \in Using(c)') => Cardinality(Using(c)') = Cardinality(Using(c))
    BY <2>3, OneMoves
  <2>5. Cardinality(Using(c)') <= Cardinality(Worker)
    BY <1>1, <2>3, FS_Subset
  <2>6. CASE c = b
    BY <1>1, <1>6, <2>4, <2>5, <2>6 DEF MarkInv
  <2>7. CASE c # b
    <3>1. w \notin Using(c) /\ w \notin Using(c)'
      <4>2. job'[w].c = b
        BY <2>0 DEF TypeOK
      <4> QED
        BY <2>7, <4>2 DEF Using
    <3> QED
      BY <2>4, <3>1 DEF MarkInv
  <2> QED
    BY <2>6, <2>7
<1>7. ASSUME NEW w \in Worker, DelMark(w) PROVE MarkInv'
  <2> DEFINE b == job[w].c
  <2>1. /\ b \in Captcha /\ served' = [served EXCEPT ![b] = @ + 1]
        /\ \/ mark' = [mark EXCEPT ![b] = 0] /\ faults' = faults
           \/ mark' = mark /\ faults' = faults + 1
    BY <1>1, <1>7 DEF DelMark, Removed, Works, Fails, TypeOK, At, MarkSteps
  <2>2. Alone(w) /\ job'[w].at # "delMark"
    BY <1>7, Steps DEF DelMark
  <2>3. SUFFICES ASSUME NEW c \in Captcha
                 PROVE  /\ mark'[c] > 0 => served'[c] <= faults'
                        /\ served'[c] + Cardinality(Using(c)') <= Cardinality(Worker) + faults'
    BY DEF MarkInv
  <2>4. Using(c) \in SUBSET Worker /\ Using(c)' \in SUBSET Worker
        /\ Using(c) \ {w} = Using(c)' \ {w} /\ w \notin Using(c)'
    BY <2>2, SetsMove DEF Using, At
  <2>5. /\ Cardinality(Using(c)) \in Nat /\ Cardinality(Using(c)') \in Nat
        /\ w \in Using(c) => Cardinality(Using(c)') = Cardinality(Using(c)) - 1
        /\ w \notin Using(c) => Cardinality(Using(c)') = Cardinality(Using(c))
    BY <2>4, OneMoves
  <2>6. w \in Using(c) <=> c = b
    BY <1>7 DEF Using, DelMark
  <2>7. /\ mark[c] > 0 => served[c] <= faults
        /\ served[c] + Cardinality(Using(c)) <= Cardinality(Worker) + faults
    BY DEF MarkInv
  <2>8. CASE c = b
    <3>1. /\ served'[c] = served[c] + 1 /\ faults' \in {faults, faults + 1}
          /\ \/ mark'[c] = 0
             \/ mark'[c] = mark[c] /\ faults' = faults + 1
      BY <1>1, <2>1, <2>8
    <3> QED
      BY <1>1, <2>5, <2>6, <2>7, <2>8, <3>1
  <2>9. CASE c # b
    <3>1. served'[c] = served[c] /\ mark'[c] = mark[c] /\ faults' \in {faults, faults + 1}
      BY <1>1, <2>1, <2>9
    <3> QED
      BY <1>1, <2>5, <2>6, <2>7, <2>9, <3>1
  <2> QED
    BY <2>8, <2>9
<1>8. ASSUME NEW w \in Worker,
             \/ \E kind \in {"login", "register"}, c \in Captcha : Arrive(w, kind, c)
             \/ LookLock(w) \/ CheckPassword(w) \/ Incr(w) \/ Expire(w) \/ SetLock(w)
             \/ DropCount(w) \/ ClearCount(w) \/ ClearLock(w) \/ GiveUp(w)
      PROVE  MarkInv'
  <2>1. Alone(w) /\ job'[w].at # "delMark"
    <3>1. Alone(w) /\ job'[w].at \in {"idle", "lookMark"} \cup LockSteps
      BY <1>8, StepsLead
    <3> QED
      BY <3>1 DEF LockSteps
  <2>2. UNCHANGED marks /\ faults' \in {faults, faults + 1}
    BY <1>8 DEF Arrive, LookLock, CheckPassword, Incr, Expire, SetLock, DropCount, ClearCount,
                ClearLock, GiveUp, Works, Fails
  <2> QED
    BY <2>1, <2>2, MarkQuiet
<1> QED
  BY <1>2, <1>3, <1>4, <1>5, <1>6, <1>7, <1>8 DEF Next, Handle

\* A captcha lets through no more requests than there are workers, and one
\* for each fault.
THEOREM CaptchaHolds == ASSUME GuardAssumption PROVE Spec => []CaptchaServesOnce
<1>1. Init => MarkInv
  <2>1. ASSUME Init, NEW c \in Captcha
        PROVE  mark[c] = 0 /\ served[c] = 0 /\ Using(c) = {} /\ faults = 0
    BY <2>1 DEF Init, Using, At, Idle, Job
  <2>2. Cardinality(Worker) \in Nat /\ Cardinality({}) = 0
    BY FS_CardinalityType, FS_EmptySet DEF GuardAssumption
  <2> QED
    BY <2>1, <2>2 DEF MarkInv
<1>2. TypeOK /\ MarkInv => CaptchaServesOnce
  <2>1. SUFFICES ASSUME TypeOK, MarkInv, NEW c \in Captcha
                 PROVE  served[c] <= Cardinality(Worker) + faults
    BY DEF CaptchaServesOnce
  <2>2. /\ Cardinality(Using(c)) \in Nat /\ Cardinality(Worker) \in Nat
        /\ served[c] \in Nat /\ faults \in Nat
    <3>1. Using(c) \subseteq Worker
      BY DEF Using
    <3> QED
      BY <2>1, <3>1, FS_Subset, FS_CardinalityType DEF GuardAssumption, TypeOK
  <2> QED
    BY <2>1, <2>2 DEF MarkInv
<1> QED
  BY <1>1, <1>2, MarkInvKeeps, TypeInit, TypeKeeps, PTL DEF Spec

-----------------------------------------------------------------------------
(* The lock.                                                               *)

\* Nothing a worker does before the password or after it moves the lock on.
LEMMA LockQuiet ==
  ASSUME GuardAssumption, TypeOK, LockInv, UNCHANGED locks, faults' \in {faults, faults + 1},
         NEW w \in Worker, Alone(w), job'[w].at # "password"
  PROVE  LockInv'
<1>1. Past \in SUBSET Worker /\ Past' \in SUBSET Worker
      /\ Past \ {w} = Past' \ {w} /\ w \notin Past'
  BY SetsMove DEF Past, At
<1>2. /\ Cardinality(Past) \in Nat /\ Cardinality(Past') \in Nat
      /\ Cardinality(Past') <= Cardinality(Past)
  BY <1>1, OneMoves
<1>3. late \in Nat /\ faults \in Nat /\ Cardinality(Worker) \in Nat
  BY FS_CardinalityType DEF TypeOK, GuardAssumption
<1> QED
  BY <1>2, <1>3 DEF LockInv, locks

LEMMA LockInvKeeps ==
  ASSUME GuardAssumption, TypeOK, LockInv, [Next]_vars
  PROVE  LockInv'
<1>1. /\ lock \in Nat /\ late \in Nat /\ faults \in Nat /\ LockTtl \in Nat \ {0}
      /\ Cardinality(Worker) \in Nat
  BY FS_CardinalityType DEF TypeOK, GuardAssumption
<1>2. CASE UNCHANGED vars
  BY <1>2 DEF LockInv, Past, At, vars, locks
<1>3. CASE Tick
  <2>1. /\ lock' = Older(lock) /\ late' = (IF lock > 1 THEN late ELSE 0)
        /\ UNCHANGED <<job, faults>>
    BY <1>3 DEF Tick
  <2>2. Past' = Past
    BY <2>1 DEF Past, At
  <2> QED
    BY <1>1, <2>1, <2>2 DEF LockInv, Older
<1>4. ASSUME NEW d \in Captcha, Solve(d) PROVE LockInv'
  BY <1>4 DEF LockInv, Past, At, Solve, locks
<1>5. ASSUME NEW w \in Worker,
             \/ \E kind \in {"login", "register"}, c \in Captcha : Arrive(w, kind, c)
             \/ LookMark(w) \/ DelMark(w) \/ Incr(w) \/ Expire(w)
             \/ DropCount(w) \/ ClearCount(w) \/ GiveUp(w)
      PROVE  LockInv'
  <2>1. Alone(w) /\ job'[w].at # "password"
    <3>1. LookMark(w) \/ DelMark(w) => Alone(w) /\ job'[w].at # "password"
      BY Steps
    <3>2. Incr(w) \/ Expire(w) => Alone(w) /\ job'[w].at # "password"
      BY Steps DEF CountedAs
    <3>3. (\E kind \in {"login", "register"}, c \in Captcha : Arrive(w, kind, c))
            => Alone(w) /\ job'[w].at # "password"
      BY Steps
    <3>4. DropCount(w) \/ ClearCount(w) \/ GiveUp(w) => Alone(w) /\ job'[w].at # "password"
      BY Steps
    <3> QED
      BY <1>5, <3>1, <3>2, <3>3, <3>4, Zenon
  <2>2. UNCHANGED locks /\ faults' \in {faults, faults + 1}
    BY <1>5 DEF Arrive, LookMark, DelMark, Incr, Expire, DropCount, ClearCount, GiveUp,
                Works, Fails, locks
  <2> QED
    BY <2>1, <2>2, LockQuiet
<1>6. ASSUME NEW w \in Worker, LookLock(w) PROVE LockInv'
  <2>1. UNCHANGED <<lock, late>> /\ Alone(w)
    BY <1>6, Steps DEF LookLock, locks
  <2>2. \/ End(w) /\ faults' = faults
        \/ lock = 0
        \/ faults' = faults + 1
    BY <1>1, <1>6 DEF LookLock, Works, Fails, Locked
  <2>3. CASE End(w) /\ faults' = faults
    <3>1. job'[w].at # "password"
      BY <2>3, Steps
    <3> QED
      BY <2>1, <2>3, <3>1, LockQuiet DEF locks
  <2>4. CASE lock = 0
    BY <2>1, <2>4 DEF LockInv
  <2>5. CASE faults' = faults + 1
    <3>1. Past \in SUBSET Worker /\ Past' \in SUBSET Worker
          /\ Past \ {w} = Past' \ {w} /\ w \notin Past
      BY <1>6, <2>1, SetsMove DEF Past, At, LookLock
    <3>2. /\ Cardinality(Past) \in Nat /\ Cardinality(Past') \in Nat
          /\ Cardinality(Past') <= Cardinality(Past) + 1
      BY <3>1, OneMoves
    <3> QED
      BY <1>1, <2>1, <2>5, <3>2 DEF LockInv
  <2> QED
    BY <2>2, <2>3, <2>4, <2>5
<1>7. ASSUME NEW w \in Worker, CheckPassword(w) PROVE LockInv'
  <2>1. Alone(w) /\ w \notin Past'
    <3>1. Alone(w) /\ job'[w].at \in {"clearCount", "incr"}
      BY <1>7, Steps
    <3> QED
      BY <3>1 DEF Past, At
  <2>2. w \in Past /\ lock' = lock /\ faults' = faults
        /\ late' = (IF lock > 0 THEN late + 1 ELSE late)
    BY <1>7 DEF CheckPassword, Past, At
  <2>3. Past \in SUBSET Worker /\ Past' \in SUBSET Worker /\ Past \ {w} = Past' \ {w}
    BY <2>1, SetsMove DEF Past
  <2>4. /\ Cardinality(Past) \in Nat /\ Cardinality(Past') \in Nat
        /\ Cardinality(Past') = Cardinality(Past) - 1
    BY <2>1, <2>2, <2>3, OneMoves
  <2> QED
    BY <1>1, <2>2, <2>4 DEF LockInv
<1>8. ASSUME NEW w \in Worker, SetLock(w) PROVE LockInv'
  <2>1. Alone(w) /\ job'[w].at = "dropCount"
    BY <1>8, Steps
  <2>2. job[w].at = "setLock" /\ lock' = LockTtl /\ late' = late /\ faults' = faults
    BY <1>8 DEF SetLock, At
  <2>3. Past \in SUBSET Worker /\ Past' \in SUBSET Worker
        /\ Past \ {w} = Past' \ {w} /\ w \notin Past /\ w \notin Past'
    BY <2>1, <2>2, SetsMove DEF Past, At
  <2>4. /\ Cardinality(Past) \in Nat /\ Cardinality(Past') = Cardinality(Past)
        /\ Cardinality(Past) < Cardinality(Worker)
    BY <2>3, OneMoves
  <2> QED
    BY <1>1, <2>2, <2>4 DEF LockInv
<1>9. ASSUME NEW w \in Worker, ClearLock(w) PROVE LockInv'
  BY <1>9 DEF LockInv, ClearLock
<1> QED
  BY <1>2, <1>3, <1>4, <1>5, <1>6, <1>7, <1>8, <1>9 DEF Next, Handle

\* Once the account is locked, no more passwords are looked at than there were
\* workers past the lock, and one for each fault.
THEOREM LockStands == ASSUME GuardAssumption PROVE Spec => []LockHolds
<1>1. Init => LockInv
  BY DEF Init, LockInv
<1>2. TypeOK /\ LockInv => LockHolds
  <2>1. SUFFICES ASSUME TypeOK, LockInv PROVE late < Cardinality(Worker) + faults
    BY DEF LockHolds
  <2>2. /\ Cardinality(Past) \in Nat /\ Cardinality(Worker) \in Nat
        /\ lock \in Nat /\ late \in Nat /\ faults \in Nat
    <3>1. Past \subseteq Worker
      BY DEF Past
    <3> QED
      BY <2>1, <3>1, FS_Subset, FS_CardinalityType DEF GuardAssumption, TypeOK
  <2>3. Cardinality(Worker) > 0
    BY <2>2, FS_CardinalityType, FS_EmptySet DEF GuardAssumption
  <2> QED
    BY <2>1, <2>2, <2>3 DEF LockInv
<1> QED
  BY <1>1, <1>2, LockInvKeeps, TypeInit, TypeKeeps, PTL DEF Spec

-----------------------------------------------------------------------------
(* The guesses.                                                            *)

Guessing == Counting \cup Locking

\* The sizes of the two sets, when w goes on.
LEMMA GuessSizes ==
  ASSUME GuardAssumption, NEW w \in Worker, Alone(w)
  PROVE  /\ Cardinality(Counting) \in Nat /\ Cardinality(Counting') \in Nat
         /\ Cardinality(Guessing) \in Nat /\ Cardinality(Guessing') \in Nat
         /\ Cardinality(Counting') <= Cardinality(Guessing')
         /\ Cardinality(Guessing) <= Cardinality(Worker)
         /\ (w \in Counting <=> w \in Counting') =>
              Cardinality(Counting') = Cardinality(Counting)
         /\ w \in Counting /\ w \notin Counting' =>
              Cardinality(Counting') = Cardinality(Counting) - 1
         /\ w \notin Counting /\ w \in Counting' =>
              Cardinality(Counting') = Cardinality(Counting) + 1
         /\ (w \in Guessing <=> w \in Guessing') =>
              Cardinality(Guessing') = Cardinality(Guessing)
         /\ w \in Guessing /\ w \notin Guessing' =>
              Cardinality(Guessing') = Cardinality(Guessing) - 1
         /\ w \notin Guessing /\ w \in Guessing' =>
              Cardinality(Guessing') = Cardinality(Guessing) + 1
<1>1. /\ Counting \in SUBSET Worker /\ Counting' \in SUBSET Worker
      /\ Counting \ {w} = Counting' \ {w}
  BY SetsMove DEF Counting
<1>2. /\ Guessing \in SUBSET Worker /\ Guessing' \in SUBSET Worker
      /\ Guessing \ {w} = Guessing' \ {w}
  <2>1. Guessing \in SUBSET Worker /\ Guessing' \in SUBSET Worker
    BY DEF Guessing, Counting, Locking
  <2>2. Guessing \ {w} = Guessing' \ {w}
    BY SetsMove DEF Guessing
  <2> QED
    BY <2>1, <2>2
<1>3. /\ IsFiniteSet(Guessing') /\ Cardinality(Guessing) <= Cardinality(Worker)
      /\ Cardinality(Guessing) \in Nat /\ Cardinality(Guessing') \in Nat
  BY <1>2, OneMoves
<1>4. Counting' \subseteq Guessing'
  BY DEF Guessing
<1>5. Cardinality(Counting') <= Cardinality(Guessing')
  BY <1>3, <1>4, FS_Subset
<1>6. /\ Cardinality(Counting) \in Nat /\ Cardinality(Counting') \in Nat
      /\ (w \in Counting <=> w \in Counting') =>
           Cardinality(Counting') = Cardinality(Counting)
      /\ w \in Counting /\ w \notin Counting' =>
           Cardinality(Counting') = Cardinality(Counting) - 1
      /\ w \notin Counting /\ w \in Counting' =>
           Cardinality(Counting') = Cardinality(Counting) + 1
  BY <1>1, OneMoves
<1>7. /\ (w \in Guessing <=> w \in Guessing') =>
           Cardinality(Guessing') = Cardinality(Guessing)
      /\ w \in Guessing /\ w \notin Guessing' =>
           Cardinality(Guessing') = Cardinality(Guessing) - 1
      /\ w \notin Guessing /\ w \in Guessing' =>
           Cardinality(Guessing') = Cardinality(Guessing) + 1
  BY <1>2, OneMoves
<1> QED
  BY <1>3, <1>5, <1>6, <1>7, Zenon

\* A worker that loses sight of a guess is a fault.
LEMMA GuessQuiet ==
  ASSUME GuardAssumption, TypeOK, GuessInv, UNCHANGED <<fails, guesses>>,
         NEW w \in Worker, Alone(w),
         \/ faults' = faults + 1
         \/ /\ faults' = faults
            /\ w \in Counting => w \in Counting'
            /\ w \in Guessing => w \in Guessing'
  PROVE  GuessInv'
<1>1. fails \in Nat /\ guesses \in Nat /\ faults \in Nat /\ Limit \in Nat
  BY DEF TypeOK, GuardAssumption
<1>2. /\ Cardinality(Counting) \in Nat /\ Cardinality(Counting') \in Nat
      /\ Cardinality(Counting') >= Cardinality(Counting) - 1
      /\ (w \in Counting => w \in Counting') => Cardinality(Counting') >= Cardinality(Counting)
  BY GuessSizes
<1>3. /\ Cardinality(Guessing) \in Nat /\ Cardinality(Guessing') \in Nat
      /\ Cardinality(Guessing') >= Cardinality(Guessing) - 1
      /\ (w \in Guessing => w \in Guessing') => Cardinality(Guessing') >= Cardinality(Guessing)
  BY GuessSizes
<1>4. guesses <= fails + Cardinality(Counting) + faults
      /\ guesses < Limit + Cardinality(Guessing) + faults
  BY DEF GuessInv, Guessing
<1>5. guesses' <= fails' + Cardinality(Counting') + faults'
  BY <1>1, <1>2, <1>4
<1>6. guesses' < Limit + Cardinality(Guessing') + faults'
  BY <1>1, <1>3, <1>4
<1> QED
  BY <1>5, <1>6 DEF GuessInv, Guessing

\* A counter that is gone takes the guesses with it.
LEMMA GuessGone ==
  ASSUME GuardAssumption, TypeOK, NoCounter, UNCHANGED faults,
         NEW w \in Worker, Alone(w)
  PROVE  GuessInv'
<1>1. fails' = 0 /\ guesses' = 0 /\ faults' \in Nat /\ Limit \in Nat \ {0}
  BY DEF NoCounter, TypeOK, GuardAssumption
<1>2. Cardinality(Counting') \in Nat /\ Cardinality(Guessing') \in Nat
  BY GuessSizes
<1> QED
  BY <1>1, <1>2 DEF GuessInv, Guessing

LEMMA GuessInvKeeps ==
  ASSUME GuardAssumption, TypeOK, GuessInv, [Next]_vars
  PROVE  GuessInv'
<1>0. /\ fails \in Nat /\ guesses \in Nat /\ faults \in Nat /\ Limit \in Nat \ {0}
      /\ guesses <= fails + Cardinality(Counting) + faults
      /\ guesses < Limit + Cardinality(Guessing) + faults
  BY DEF TypeOK, GuardAssumption, GuessInv, Guessing
<1>1. ASSUME UNCHANGED <<fails, guesses, job, faults>> PROVE GuessInv'
  BY <1>1 DEF GuessInv, Counting, Locking, At, TooMany
<1>2. CASE UNCHANGED vars
  BY <1>1, <1>2 DEF vars, counter
<1>3. CASE Tick
  <2>1. PICK w \in Worker : TRUE
    BY DEF GuardAssumption
  <2>2. Alone(w) /\ UNCHANGED <<job, faults>>
    BY <1>3 DEF Tick, Alone
  <2>3. NoCounter \/ UNCHANGED <<fails, guesses>>
    BY <1>3 DEF Tick
  <2> QED
    BY <1>1, <2>2, <2>3, GuessGone
<1>4. ASSUME NEW d \in Captcha, Solve(d) PROVE GuessInv'
  BY <1>1, <1>4 DEF Solve, counter
<1>5. ASSUME NEW w \in Worker,
             \/ \E kind \in {"login", "register"}, c \in Captcha : Arrive(w, kind, c)
             \/ LookMark(w) \/ DelMark(w) \/ LookLock(w) \/ ClearLock(w)
      PROVE  GuessInv'
  <2>1. Alone(w)
    <3>1. LookMark(w) \/ DelMark(w) => Alone(w)
      BY Steps
    <3>2. LookLock(w) \/ ClearLock(w) => Alone(w)
      BY Steps
    <3>3. (\E kind \in {"login", "register"}, c \in Captcha : Arrive(w, kind, c)) => Alone(w)
      BY Steps
    <3> QED
      BY <1>5, <3>1, <3>2, <3>3, Zenon
  <2>2. job[w].at \in {"idle", "lookMark", "delMark", "lookLock", "clearLock"}
    BY <1>5 DEF Arrive, LookMark, DelMark, LookLock, ClearLock, At
  <2>3. w \notin Counting /\ w \notin Guessing
    BY <2>2 DEF Guessing, Counting, Locking, At
  <2>4. UNCHANGED <<fails, guesses>> /\ faults' \in {faults, faults + 1}
    BY <1>5 DEF Arrive, LookMark, DelMark, LookLock, ClearLock, Works, Fails, counter
  <2> QED
    BY <2>1, <2>3, <2>4, GuessQuiet
<1>6. ASSUME NEW w \in Worker, GiveUp(w) PROVE GuessInv'
  BY <1>6, Steps, GuessQuiet DEF GiveUp, Fails
<1>7. ASSUME NEW w \in Worker, CheckPassword(w) PROVE GuessInv'
  <2>1. Alone(w) /\ UNCHANGED <<fails, faults>> /\ w \notin Counting /\ w \notin Guessing
    BY <1>7, Steps DEF CheckPassword, Guessing, Counting, Locking, At
  <2>2. \/ UNCHANGED guesses
        \/ guesses' = guesses + 1 /\ job'[w].at = "incr"
    BY <1>7, Steps DEF CheckPassword
  <2>3. CASE UNCHANGED guesses
    BY <2>1, <2>3, GuessQuiet
  <2>4. CASE guesses' = guesses + 1 /\ job'[w].at = "incr"
    <3>1. w \in Counting' /\ w \in Guessing'
      BY <2>4 DEF Guessing, Counting, At
    <3>2. /\ Cardinality(Counting) \in Nat /\ Cardinality(Counting') = Cardinality(Counting) + 1
          /\ Cardinality(Guessing) \in Nat /\ Cardinality(Guessing') = Cardinality(Guessing) + 1
      BY <2>1, <3>1, GuessSizes
    <3> QED
      BY <1>0, <2>1, <2>4, <3>2 DEF GuessInv, Guessing
  <2> QED
    BY <2>2, <2>3, <2>4
<1>8. ASSUME NEW w \in Worker, Incr(w) PROVE GuessInv'
  <2>1. /\ Alone(w)
        /\ \/ job'[w].at = "expire" /\ job'[w].n = fails + 1
           \/ CountedAs(w, fails + 1)
    BY <1>8, Steps
  <2>2. fails' = fails + 1 /\ UNCHANGED <<guesses, faults>>
    BY <1>8 DEF Incr
  <2>3. w \in Counting /\ w \in Guessing /\ w \notin Counting'
    <3>1. job'[w].at # "incr"
      BY <2>1 DEF CountedAs
    <3> QED
      BY <1>8, <3>1 DEF Incr, Guessing, Counting, At
  <2>4. /\ Cardinality(Counting) \in Nat /\ Cardinality(Counting') = Cardinality(Counting) - 1
        /\ Cardinality(Guessing) \in Nat /\ Cardinality(Guessing') \in Nat
        /\ Cardinality(Counting') <= Cardinality(Guessing')
        /\ w \in Guessing' => Cardinality(Guessing') = Cardinality(Guessing)
    BY <2>1, <2>3, GuessSizes
  <2>5. w \in Guessing' \/ fails + 1 < Limit
    BY <1>0, <2>1 DEF CountedAs, TooMany, Guessing, Locking, At
  <2>6. guesses' <= fails' + Cardinality(Counting') + faults'
    BY <1>0, <2>2, <2>4
  <2>7. guesses' < Limit + Cardinality(Guessing') + faults'
    BY <1>0, <2>2, <2>4, <2>5
  <2> QED
    BY <2>6, <2>7 DEF GuessInv, Guessing
<1>9. ASSUME NEW w \in Worker, Expire(w) \/ SetLock(w) PROVE GuessInv'
  <2>1. /\ Alone(w) /\ UNCHANGED <<fails, guesses, faults>>
        /\ w \notin Counting
    BY <1>9, Steps DEF Expire, SetLock, counter, Counting, At
  <2>2. w \in Guessing => w \in Guessing'
    <3>1. CASE Expire(w)
      <4>1. job[w].at = "expire" /\ CountedAs(w, job[w].n)
        BY <3>1, Steps DEF Expire, At
      <4> QED
        BY <4>1 DEF CountedAs, Guessing, Counting, Locking, At
    <3>2. CASE SetLock(w)
      BY <3>2, Steps DEF Guessing, Locking, At
    <3> QED
      BY <1>9, <3>1, <3>2
  <2> QED
    BY <2>1, <2>2, GuessQuiet
<1>10. ASSUME NEW w \in Worker, DropCount(w) \/ ClearCount(w) PROVE GuessInv'
  <2>1. Alone(w)
    BY <1>10, Steps
  <2> QED
    BY <1>10, <2>1, GuessGone DEF DropCount, ClearCount
<1> QED
  BY <1>2, <1>3, <1>4, <1>5, <1>6, <1>7, <1>8, <1>9, <1>10 DEF Next, Handle

\* No more wrong passwords than the limit, one for each other worker and one
\* for each fault go through before the account is locked or the counter begins
\* anew.
THEOREM GuessesHeld == ASSUME GuardAssumption PROVE Spec => []GuessesBounded
<1>1. ASSUME Init PROVE GuessInv
  <2>1. /\ fails = 0 /\ guesses = 0 /\ faults = 0
        /\ Counting = {} /\ Counting \cup Locking = {}
    BY <1>1 DEF Init, Idle, Job, Counting, Locking, At
  <2> QED
    BY <2>1, FS_EmptySet DEF GuessInv, GuardAssumption
<1>2. TypeOK /\ GuessInv => GuessesBounded
  <2>1. SUFFICES ASSUME TypeOK, GuessInv
                 PROVE  guesses < Limit + Cardinality(Worker) + faults
    BY DEF GuessesBounded
  <2>2. /\ Cardinality(Guessing) \in Nat /\ Cardinality(Worker) \in Nat
        /\ Cardinality(Guessing) <= Cardinality(Worker)
        /\ guesses \in Nat /\ faults \in Nat /\ Limit \in Nat
    <3>1. Guessing \subseteq Worker
      BY DEF Guessing, Counting, Locking
    <3> QED
      BY <2>1, <3>1, FS_Subset, FS_CardinalityType DEF GuardAssumption, TypeOK
  <2> QED
    BY <2>1, <2>2 DEF GuessInv, Guessing
<1> QED
  BY <1>1, <1>2, GuessInvKeeps, TypeInit, TypeKeeps, PTL DEF Spec

-----------------------------------------------------------------------------
(* The life of the counter.                                                *)

\* A step that neither touches the counter nor enters or leaves an EXPIRE.
LEMMA AgeQuiet ==
  ASSUME AgeInv, UNCHANGED <<fails, failTtl, age, orphan>>,
         NEW w \in Worker, Alone(w), job[w].at # "expire", job'[w].at # "expire"
  PROVE  AgeInv'
<1>1. (\E v \in Worker : At(v, "expire")') <=> \E v \in Worker : At(v, "expire")
  BY DEF At, Alone
<1> QED
  BY <1>1, Zenon DEF AgeInv

LEMMA AgeGone == ASSUME NoCounter PROVE AgeInv'
BY DEF NoCounter, AgeInv

LEMMA AgeInvKeeps ==
  ASSUME GuardAssumption, TypeOK, AgeInv, [Next]_vars
  PROVE  AgeInv'
<1>0. /\ fails \in Nat /\ failTtl \in Nat /\ age \in Nat /\ FailTtl \in Nat \ {0}
      /\ orphan \in BOOLEAN
  BY DEF TypeOK, GuardAssumption
<1>1. ASSUME UNCHANGED <<fails, failTtl, age, orphan, job>> PROVE AgeInv'
  BY <1>1, Zenon DEF AgeInv, At
<1>2. CASE UNCHANGED vars
  BY <1>1, <1>2 DEF vars, counter
<1>3. CASE Tick
  <2>1. CASE failTtl = 1
    BY <1>3, <2>1, AgeGone DEF Tick
  <2>2. CASE failTtl # 1
    <3>1. /\ failTtl' = (IF failTtl > 0 THEN failTtl - 1 ELSE 0)
          /\ age' = (IF fails > 0 /\ age <= FailTtl THEN age + 1 ELSE age)
          /\ fails' = fails /\ job' = job
      BY <1>3, <2>2 DEF Tick, Older
    <3>2. orphan' = orphan
      BY <1>3, <2>2 DEF Tick
    <3>3. (\A v \in Worker : ~At(v, "expire")) /\ \A v \in Worker : ~At(v, "expire")'
      BY <1>3, <3>1 DEF Tick, At
    <3>4. CASE fails = 0
      BY <1>0, <3>1, <3>3, <3>4 DEF AgeInv
    <3>5. CASE fails > 0 /\ orphan
      BY <1>0, <3>1, <3>2, <3>3, <3>5 DEF AgeInv
    <3>6. CASE fails > 0 /\ ~orphan
      <4>1. failTtl > 0 /\ age + failTtl <= FailTtl
        BY <1>0, <3>3, <3>6 DEF AgeInv
      <4>2. failTtl' > 0 /\ age' + failTtl' <= FailTtl
        BY <1>0, <2>2, <3>1, <4>1
      <4> QED
        BY <1>0, <3>1, <3>3, <3>6, <4>2 DEF AgeInv
    <3> QED
      BY <1>0, <3>4, <3>5, <3>6
  <2> QED
    BY <2>1, <2>2
<1>4. ASSUME NEW d \in Captcha, Solve(d) PROVE AgeInv'
  BY <1>1, <1>4 DEF Solve, counter
<1>5. ASSUME NEW w \in Worker,
             \/ \E kind \in {"login", "register"}, c \in Captcha : Arrive(w, kind, c)
             \/ LookMark(w) \/ DelMark(w) \/ LookLock(w) \/ CheckPassword(w)
             \/ SetLock(w) \/ ClearLock(w)
      PROVE  AgeInv'
  <2>1. Alone(w) /\ job'[w].at # "expire"
    <3>1. LookMark(w) \/ DelMark(w) => Alone(w) /\ job'[w].at # "expire"
      BY Steps
    <3>2. LookLock(w) \/ CheckPassword(w) => Alone(w) /\ job'[w].at # "expire"
      BY Steps
    <3>3. (\E kind \in {"login", "register"}, c \in Captcha : Arrive(w, kind, c))
            => Alone(w) /\ job'[w].at # "expire"
      BY Steps
    <3>4. SetLock(w) \/ ClearLock(w) => Alone(w) /\ job'[w].at # "expire"
      BY Steps
    <3> QED
      BY <1>5, <3>1, <3>2, <3>3, <3>4, Zenon
  <2>2. /\ UNCHANGED <<fails, failTtl, age, orphan>>
        /\ job[w].at # "expire"
    BY <1>5 DEF Arrive, LookMark, DelMark, LookLock, CheckPassword, SetLock, ClearLock,
                At, counter
  <2> QED
    BY <2>1, <2>2, AgeQuiet
<1>6. ASSUME NEW w \in Worker, Incr(w) PROVE AgeInv'
  <2>1. /\ Alone(w) /\ job[w].at = "incr" /\ fails' = fails + 1
        /\ UNCHANGED <<failTtl, age>>
    BY <1>6, Steps DEF Incr, At
  <2>2. orphan' = orphan
    BY <1>6 DEF Incr
  <2>3. \A v \in Worker : At(v, "expire") => At(v, "expire")'
    BY <2>1 DEF Alone, At
  <2>4. CASE fails = 0
    <3>1. job'[w].at = "expire"
      <4>1. Continue(w, Job("expire", "login", 0, 1))
        BY <1>6, <2>4 DEF Incr, First
      <4> QED
        BY <4>1 DEF Continue, Job, TypeOK
    <3>2. failTtl = 0 /\ age = 0
      BY <2>4 DEF AgeInv
    <3> QED
      BY <2>1, <3>1, <3>2 DEF AgeInv, At
  <2>5. CASE fails # 0
    <3>1. ~At(w, "expire")'
      <4>1. Counted(w, fails + 1)
        BY <1>0, <1>6, <2>5 DEF Incr, First
      <4> QED
        BY <4>1 DEF Counted, Continue, End, Job, Idle, TypeOK, At
    <3>2. (\E v \in Worker : At(v, "expire")') => \E v \in Worker : At(v, "expire")
      BY <2>1, <3>1 DEF Alone, At
    <3>3. fails > 0 /\ fails' > 0
      BY <1>0, <2>1, <2>5
    <3> QED
      BY <2>1, <2>2, <2>3, <3>2, <3>3 DEF AgeInv
  <2> QED
    BY <2>4, <2>5
<1>7. ASSUME NEW w \in Worker, Expire(w) PROVE AgeInv'
  <2>1. /\ age = 0 /\ UNCHANGED <<fails, age>>
        /\ failTtl' = (IF fails > 0 THEN FailTtl ELSE failTtl)
    BY <1>7 DEF Expire, AgeInv
  <2> QED
    BY <1>0, <2>1 DEF AgeInv
<1>8. ASSUME NEW w \in Worker, DropCount(w) \/ ClearCount(w) PROVE AgeInv'
  BY <1>8, AgeGone DEF DropCount, ClearCount
<1>9. ASSUME NEW w \in Worker, GiveUp(w) PROVE AgeInv'
  <2>1. /\ Alone(w) /\ job'[w].at # "expire" /\ UNCHANGED <<fails, failTtl, age>>
        /\ orphan' = (orphan \/ (At(w, "expire") /\ fails > 0))
    BY <1>9, Steps DEF GiveUp
  <2>2. CASE job[w].at = "expire" /\ fails > 0
    <3>1. orphan' /\ ((\E v \in Worker : At(v, "expire")') => age = 0)
      BY <2>1, <2>2 DEF At, AgeInv
    <3> QED
      BY <2>1, <2>2, <3>1 DEF AgeInv
  <2>3. CASE job[w].at = "expire" /\ ~(fails > 0)
    <3>1. age = 0
      BY <2>3 DEF At, AgeInv
    <3> QED
      BY <1>0, <2>1, <2>3, <3>1 DEF AgeInv
  <2>4. CASE job[w].at # "expire"
    <3>1. orphan' = orphan
      BY <1>0, <2>1, <2>4 DEF At
    <3> QED
      BY <2>1, <2>4, <3>1, AgeQuiet
  <2> QED
    BY <2>2, <2>3, <2>4
<1> QED
  BY <1>2, <1>3, <1>4, <1>5, <1>6, <1>7, <1>8, <1>9 DEF Next, Handle

\* A counter lives no longer than its time, unless a fault came between its
\* INCR and its EXPIRE.
THEOREM StaleNotCounted == ASSUME GuardAssumption PROVE Spec => []StaleNeverCounts
<1>1. Init => AgeInv
  BY DEF Init, AgeInv, At, Idle, Job
<1>2. ASSUME GuardAssumption, TypeOK, AgeInv PROVE StaleNeverCounts
  BY <1>2 DEF TypeOK, AgeInv, StaleNeverCounts, GuardAssumption
<1> QED
  BY <1>1, <1>2, AgeInvKeeps, TypeInit, TypeKeeps, PTL DEF Spec
=============================================================================
