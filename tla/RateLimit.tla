------------------------------ MODULE RateLimit ------------------------------
(***************************************************************************)
(* How often one caller gets through: the limiter of the gateway, which     *)
(* counts in Redis (ecat-middleware/src/ratelimit_redis.rs), the one that   *)
(* counts in memory (ratelimit.rs), and the one of the admin API, which    *)
(* keeps the instants of the last requests in Redis                        *)
(* (admin/app/middleware/RateLimit.php).  A behaviour is about one limiter *)
(* and one of its keys.                                                    *)
(*                                                                         *)
(* The first two decide in one step: a script, a mutex.  The third reads   *)
(* the clock in the worker and decides in a script later.  When Redis      *)
(* fails a request is let through.                                         *)
(***************************************************************************)
EXTENDS Integers, Sequences, FiniteSets

CONSTANTS
  Worker,      \* PHP workers
  Limit,       \* requests in a window (100; 60, and 10 and 5 for some paths)
  Window,      \* ticks in a window (60 s)
  Slack,       \* by which a key of the log outlives the window (10 s)
  SweepEvery,  \* between two sweeps of the buckets in memory (60 s)
  MaxIdle,     \* age at which a sweep removes a bucket (24 hours)
  MaxTime,     \* bound: ticks of the clock
  MaxCalls,    \* bound: requests
  MaxFaults    \* bound: failures of Redis

Limiter == {"redis", "memory", "log"}
Instant == 0..MaxTime

\* A window no longer than a sweep spares.
LimitAssumption ==
  /\ IsFiniteSet(Worker) /\ Worker # {}
  /\ Limit \in Nat \ {0} /\ Window \in Nat \ {0} /\ Slack \in Nat
  /\ SweepEvery \in Nat /\ MaxIdle \in Nat /\ Window < MaxIdle
  /\ MaxTime \in Nat /\ MaxCalls \in Nat /\ MaxFaults \in Nat

VARIABLES
  limiter,  \* the limiter this behaviour is about
  now,      \* the clock; workers, Redis and gateway agree on it
  count,    \* rl:<key>, or the count of the bucket; 0 if there is none
  ttl,      \* the time to live of rl:<key> or rate_limit:<key>; 0 for none, or for ever
  start,    \* when the bucket began
  swept,    \* when the buckets were swept
  log,      \* rate_limit:<key>: its members and their scores
  job,      \* the instant each worker read for its request, or -1
  calls,    \* requests so far
  faults,
  \* History, read by no limiter:
  passed,   \* when requests were let through, one after the other
  granted,  \* the same of those that were let through because they were counted
  refused   \* requests refused: when they read the clock, and how many had passed

fixed == <<count, ttl, start, swept>>
history == <<passed, granted, refused>>
vars == <<limiter, now, fixed, log, job, calls, faults, history>>

Init ==
  /\ limiter \in Limiter
  /\ now = 0 /\ count = 0 /\ ttl = 0 /\ start = 0 /\ swept = 0
  /\ log = {}
  /\ job = [w \in Worker |-> -1]
  /\ calls = 0 /\ faults = 0
  /\ passed = <<>> /\ granted = <<>> /\ refused = {}

Pass ==
  /\ passed' = Append(passed, now) /\ granted' = Append(granted, now)
  /\ UNCHANGED refused

Refuse(came) ==
  refused' = refused \cup {<<came, Len(passed)>>} /\ UNCHANGED <<passed, granted>>

Call == calls < MaxCalls /\ calls' = calls + 1
Works == UNCHANGED faults
Fails == faults < MaxFaults /\ faults' = faults + 1

\* Redis fails, and the request is let through.
Open == Fails /\ passed' = Append(passed, now) /\ UNCHANGED <<granted, refused>>

-----------------------------------------------------------------------------
(* A counter with a time to live.                                          *)

\* Mutant: a counter that got no time to live is left where it is.
Kept(c) == c

\* The script removes a counter that got no time to live.
Dropped(c) == 0

\* INCR, and EXPIRE at the first request.
Incr ==
  \/ count > 0 /\ count' = count + 1 /\ UNCHANGED ttl
  \/ count = 0 /\ count' = 1 /\ ttl' = Window

Answered(c) == IF c > Limit THEN Refuse(now) ELSE Pass

\* EXPIRE may fail; and if Redis does not answer, the script ran or it did not.
CheckRedis ==
  /\ limiter = "redis" /\ Call
  /\ \/ Incr /\ Answered(count + 1) /\ Works
     \/ count = 0 /\ count' = Dropped(1) /\ UNCHANGED ttl /\ Open
     \/ Incr /\ Open
     \/ UNCHANGED <<count, ttl>> /\ Open
  /\ UNCHANGED <<limiter, now, start, swept, log, job>>

-----------------------------------------------------------------------------
(* A bucket in memory.                                                     *)

SweepIsDue == now - swept >= SweepEvery

\* The bucket after the sweep: there is none, or it is as it was.
Gone == count = 0 \/ (SweepIsDue /\ start <= now - MaxIdle)
Counted == IF Gone THEN 0 ELSE count
Begun == IF Gone THEN now ELSE start

CheckMemory ==
  /\ limiter = "memory" /\ Call
  /\ swept' = IF SweepIsDue THEN now ELSE swept
  /\ \/ /\ now - Begun > Window
        /\ count' = 1 /\ start' = now /\ Pass
     \/ /\ now - Begun <= Window
        /\ count' = Counted + 1 /\ start' = Begun /\ Answered(Counted + 1)
  /\ UNCHANGED <<limiter, now, ttl, log, job, faults>>

-----------------------------------------------------------------------------
(* A log of instants.                                                      *)

Arrive(w) ==
  /\ limiter = "log" /\ job[w] = -1 /\ Call
  /\ job' = [job EXCEPT ![w] = now]
  /\ UNCHANGED <<limiter, now, fixed, log, faults, history>>

\* Mutant: the limit itself still has room.
OneMore(entries) == Cardinality(entries) <= Limit

HasRoom(entries) == Cardinality(entries) < Limit

Trimmed(read) == {e \in log : e.score > read - Window}

\* Every request has a member of its own.
Member(read) == [score |-> read, no |-> Len(passed) + 1]

\* The script: trim, count, and add the request if there is room.
Script(read) ==
  LET entries == Trimmed(read) IN
  \/ /\ HasRoom(entries)
     /\ log' = entries \cup {Member(read)}
     /\ ttl' = Window + Slack
  \/ ~HasRoom(entries) /\ log' = entries /\ UNCHANGED ttl

Eval(w) ==
  /\ limiter = "log" /\ job[w] # -1
  /\ job' = [job EXCEPT ![w] = -1]
  /\ \/ Script(job[w]) /\ Works /\ IF HasRoom(Trimmed(job[w])) THEN Pass ELSE Refuse(job[w])
     \/ Script(job[w]) /\ Open
     \/ UNCHANGED <<log, ttl>> /\ Open
  /\ UNCHANGED <<limiter, now, count, start, swept, calls>>

-----------------------------------------------------------------------------

\* A key whose time to live is over goes away.
Tick ==
  /\ now < MaxTime /\ now' = now + 1
  /\ ttl' = IF ttl > 0 THEN ttl - 1 ELSE 0
  /\ count' = IF ttl = 1 THEN 0 ELSE count
  /\ log' = IF ttl = 1 THEN {} ELSE log
  /\ UNCHANGED <<limiter, start, swept, job, calls, faults, history>>

Next ==
  \/ Tick \/ CheckRedis \/ CheckMemory
  \/ \E w \in Worker : Arrive(w) \/ Eval(w)

Spec == Init /\ [][Next]_vars

-----------------------------------------------------------------------------
(* Properties.                                                             *)

TypeOK ==
  /\ limiter \in Limiter /\ now \in Instant
  /\ count \in Nat /\ ttl \in 0..(Window + Slack)
  /\ start \in 0..now /\ swept \in 0..now
  /\ log \subseteq [score : Instant, no : Nat] /\ job \in [Worker -> -1..now]
  /\ calls \in 0..MaxCalls /\ faults \in 0..MaxFaults
  /\ passed \in Seq(Instant) /\ granted \in Seq(Instant)
  /\ refused \subseteq Instant \X Nat

\* What a limiter lets through in a span as long as the window.  A counter may
\* start anew within the span, but then the request that it started with before
\* lies outside; the log lets through the limit, and one more for each worker
\* whose script ran long after it read the clock.
Most == IF limiter = "log" THEN Limit + Cardinality(Worker) ELSE 2 * Limit - 1

\* In no span as long as the window do more requests get through, other than
\* those let through because Redis failed: two that are so many apart, one
\* after the other, are a window apart in time.
NeverTooMany ==
  \A i, j \in DOMAIN granted : j - i >= Most => granted[j] - granted[i] >= Window

\* The time that a limiter looks back: a bucket in memory lasts one instant longer.
Reach == IF limiter = "memory" THEN Window ELSE Window - 1

\* Nobody is refused who kept to the limit: of those let through before a
\* request that was refused, the last ones, as many as the limit allows, were
\* within the window before it.
NeverTooFew ==
  \A r \in refused : r[2] >= Limit /\ passed[r[2] - Limit + 1] >= r[1] - Reach
=============================================================================
