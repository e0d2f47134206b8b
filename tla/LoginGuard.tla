----------------------------- MODULE LoginGuard -----------------------------
(***************************************************************************)
(* What stands before a login (admin/app/api/v1: CaptchaController::verify, *)
(* AuthController::login, ClientAuthController::register and login): the   *)
(* mark of a solved captcha, and the lock of a user name that is tried too *)
(* often from one address.                                                 *)
(*                                                                         *)
(* One name and address of an administrator; the login of a client is the  *)
(* same from its look at the lock on, with keys of its own.  Marks, the    *)
(* counter and the lock are keys in Redis with a time to live, and workers *)
(* send the commands one by one.  Where Redis fails the handlers go on.    *)
(***************************************************************************)
EXTENDS Integers, FiniteSets

CONSTANTS
  Worker,       \* PHP workers
  MaxCaptchas,  \* bound: keys of captchas
  MarkTtl,      \* life of the mark of a solved captcha (300 s)
  Limit,        \* failures that lock the account (5)
  FailTtl,      \* life of the counter of failures (900 s)
  LockTtl,      \* life of the lock (900 s)
  MaxFaults     \* bound: failures of Redis and workers that die

Captcha == 1..MaxCaptchas

GuardAssumption ==
  /\ IsFiniteSet(Worker) /\ Worker # {} /\ MaxCaptchas \in Nat
  /\ Limit \in Nat \ {0} /\ MarkTtl \in Nat \ {0} /\ MaxFaults \in Nat
  /\ FailTtl \in Nat \ {0} /\ LockTtl \in Nat \ {0}

VARIABLES
  mark,     \* captcha_verified:<key>: its time to live, 0 for none
  fails,    \* login_fail:<name>:<ip>, 0 for none
  failTtl,  \* its time to live; 0 for none, or for ever
  lock,     \* account_lock:<name>:<ip>: its time to live, 0 for none
  job,      \* what each worker is doing, with which captcha, and what INCR gave
  faults,
  \* History, read by no handler:
  served,   \* requests let through by each captcha since it was last solved
  guesses,  \* wrong passwords since the counter was last removed or gone
  late,     \* passwords looked at since the account was locked
  age,      \* ticks since the counter began, up to one over its life
  orphan    \* a fault left the counter without a time to live

marks == <<mark, served>>
counter == <<fails, failTtl, guesses, age, orphan>>
locks == <<lock, late>>
vars == <<marks, counter, locks, job, faults>>

\* A worker at step `at' of a request of that kind.
Job(at, kind, c, n) == [at |-> at, kind |-> kind, c |-> c, n |-> n]
Idle == Job("idle", "login", 0, 0)

Init ==
  /\ mark = [c \in Captcha |-> 0] /\ served = [c \in Captcha |-> 0]
  /\ fails = 0 /\ failTtl = 0 /\ guesses = 0 /\ age = 0 /\ orphan = FALSE
  /\ lock = 0 /\ late = 0
  /\ job = [w \in Worker |-> Idle]
  /\ faults = 0

At(w, step) == job[w].at = step
Continue(w, j) == job' = [job EXCEPT ![w] = j]
Go(w, step) == Continue(w, Job(step, "login", 0, 0))
End(w) == Continue(w, Idle)

Works == UNCHANGED faults
Fails == faults < MaxFaults /\ faults' = faults + 1

-----------------------------------------------------------------------------
(* The captcha.                                                            *)

\* The library finds the answer right (external), and the key is marked.
Solve(c) ==
  /\ mark' = [mark EXCEPT ![c] = MarkTtl]
  /\ served' = [served EXCEPT ![c] = 0]
  /\ UNCHANGED <<counter, locks, job, faults>>

\* A login or a registration comes in with the key of a captcha.
Arrive(w, kind, c) ==
  /\ At(w, "idle")
  /\ Continue(w, Job("lookMark", kind, c, 0))
  /\ UNCHANGED <<marks, counter, locks, faults>>

\* Past the captcha: a registration is over as far as this module goes.
PastCaptcha(w) == IF job[w].kind = "login" THEN Go(w, "lookLock") ELSE End(w)

\* No mark, no login.  If Redis fails the captcha is let be.
LookMark(w) ==
  LET c == job[w].c IN
  /\ At(w, "lookMark")
  /\ \/ mark[c] = 0 /\ End(w) /\ Works
     \/ mark[c] > 0 /\ Continue(w, [job[w] EXCEPT !.at = "delMark"]) /\ Works
     \/ PastCaptcha(w) /\ Fails
  /\ UNCHANGED <<marks, counter, locks>>

\* Mutant: the mark is left to its time to live.
Left(c) == mark

Removed(c) == [mark EXCEPT ![c] = 0]

DelMark(w) ==
  LET c == job[w].c IN
  /\ At(w, "delMark")
  /\ \/ mark' = Removed(c) /\ Works
     \/ UNCHANGED mark /\ Fails
  /\ served' = [served EXCEPT ![c] = @ + 1]
  /\ PastCaptcha(w)
  /\ UNCHANGED <<counter, locks>>

-----------------------------------------------------------------------------
(* The password and the lock.                                              *)

Locked == lock > 0

LookLock(w) ==
  /\ At(w, "lookLock")
  /\ \/ Locked /\ End(w) /\ Works
     \/ ~Locked /\ Go(w, "password") /\ Works
     \/ Go(w, "password") /\ Fails
  /\ UNCHANGED <<marks, counter, locks>>

\* The password is right or wrong.
CheckPassword(w) ==
  /\ At(w, "password")
  /\ late' = IF lock > 0 THEN late + 1 ELSE late
  /\ \/ Go(w, "clearCount") /\ UNCHANGED guesses
     \/ Go(w, "incr") /\ guesses' = guesses + 1
  /\ UNCHANGED <<marks, fails, failTtl, age, orphan, lock, faults>>

\* Mutant: only the failure that reaches the limit locks.
Reaches(n) == n = Limit

TooMany(n) == n >= Limit

\* Mutant: the life of the counter starts with the second failure.
Second(n) == n = 2

First(n) == n = 1

Counted(w, n) ==
  IF TooMany(n) THEN Continue(w, Job("setLock", "login", 0, n)) ELSE End(w)

Incr(w) ==
  LET n == fails + 1 IN
  /\ At(w, "incr")
  /\ fails' = n
  /\ IF First(n) THEN Continue(w, Job("expire", "login", 0, n)) ELSE Counted(w, n)
  /\ UNCHANGED <<marks, failTtl, guesses, age, orphan, locks, faults>>

\* EXPIRE does nothing if the counter is gone.
Expire(w) ==
  /\ At(w, "expire")
  /\ failTtl' = IF fails > 0 THEN FailTtl ELSE failTtl
  /\ Counted(w, job[w].n)
  /\ UNCHANGED <<marks, fails, guesses, age, orphan, locks, faults>>

SetLock(w) ==
  /\ At(w, "setLock")
  /\ lock' = LockTtl
  /\ Go(w, "dropCount")
  /\ UNCHANGED <<marks, counter, late, faults>>

NoCounter ==
  /\ fails' = 0 /\ failTtl' = 0
  /\ guesses' = 0 /\ age' = 0 /\ orphan' = FALSE

DropCount(w) ==
  /\ At(w, "dropCount")
  /\ NoCounter
  /\ End(w)
  /\ UNCHANGED <<marks, locks, faults>>

\* The password was right: counter and lock go.
ClearCount(w) ==
  /\ At(w, "clearCount")
  /\ NoCounter
  /\ Go(w, "clearLock")
  /\ UNCHANGED <<marks, locks, faults>>

ClearLock(w) ==
  /\ At(w, "clearLock")
  /\ lock' = 0 /\ late' = 0
  /\ End(w)
  /\ UNCHANGED <<marks, counter, faults>>

-----------------------------------------------------------------------------

\* Redis fails where the rest of the bookkeeping is then left out, or the
\* worker dies, wherever it is.
GiveUp(w) ==
  /\ ~At(w, "idle")
  /\ End(w) /\ Fails
  /\ orphan' = (orphan \/ (At(w, "expire") /\ fails > 0))
  /\ UNCHANGED <<marks, fails, failTtl, guesses, age, locks>>

Older(n) == IF n > 0 THEN n - 1 ELSE 0

\* Ticks are coarse: an EXPIRE follows its INCR before the next one.
Tick ==
  /\ \A w \in Worker : ~At(w, "expire")
  /\ mark' = [c \in Captcha |-> Older(mark[c])]
  /\ lock' = Older(lock) /\ late' = IF lock > 1 THEN late ELSE 0
  /\ IF failTtl = 1 THEN NoCounter
     ELSE /\ failTtl' = Older(failTtl)
          /\ age' = IF fails > 0 /\ age <= FailTtl THEN age + 1 ELSE age
          /\ UNCHANGED <<fails, guesses, orphan>>
  /\ UNCHANGED <<served, job, faults>>

Handle(w) ==
  \/ LookMark(w) \/ DelMark(w) \/ LookLock(w) \/ CheckPassword(w)
  \/ Incr(w) \/ Expire(w) \/ SetLock(w) \/ DropCount(w)
  \/ ClearCount(w) \/ ClearLock(w)

Next ==
  \/ Tick
  \/ \E c \in Captcha : Solve(c)
  \/ \E w \in Worker :
       \/ Handle(w) \/ GiveUp(w)
       \/ \E kind \in {"login", "register"}, c \in Captcha : Arrive(w, kind, c)

Spec == Init /\ [][Next]_vars

-----------------------------------------------------------------------------
(* Properties.                                                             *)

MarkSteps == {"lookMark", "delMark"}
LockSteps == {"lookLock", "password", "incr", "expire", "setLock", "dropCount",
              "clearCount", "clearLock"}

\* The types, and that a worker about to use a captcha has one.
TypeOK ==
  /\ mark \in [Captcha -> 0..MarkTtl] /\ served \in [Captcha -> Nat]
  /\ fails \in Nat /\ failTtl \in 0..FailTtl
  /\ guesses \in Nat /\ age \in 0..(FailTtl + 1) /\ orphan \in BOOLEAN
  /\ lock \in 0..LockTtl /\ late \in Nat
  /\ job \in [Worker -> [at : {"idle"} \cup MarkSteps \cup LockSteps,
                         kind : {"login", "register"}, c : Nat, n : Nat]]
  /\ \A w \in Worker : job[w].at \in MarkSteps => job[w].c \in Captcha
  /\ faults \in Nat

\* A captcha that was solved lets through one request for each worker that
\* looked at its mark before the first of them removed it, and no more,
\* unless something fails.
CaptchaServesOnce == \A c \in Captcha : served[c] <= Cardinality(Worker) + faults

\* While the account is locked, the only passwords still looked at are those
\* of workers that had looked at the lock before.
LockHolds == late < Cardinality(Worker) + faults

\* Five failures lock: however logins interleave, no more wrong passwords go
\* through before the account is locked, or the counter begins anew, than the
\* limit and one for each other worker; each fault may cost one count or one
\* lock, but not the lock for good.
GuessesBounded == guesses < Limit + Cardinality(Worker) + faults

\* Failures of more than one life of the counter are never added up, whoever
\* removes the counter between an INCR and its EXPIRE, unless a fault came
\* between the two.
StaleNeverCounts == fails > 0 /\ ~orphan => age <= FailTtl
=============================================================================
