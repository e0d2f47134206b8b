----------------------------- MODULE AdminSession -----------------------------
(***************************************************************************)
(* The tokens of one administrator (admin/app: AuthController,             *)
(* ProfileController::logout and the middleware AdminAuth).                *)
(*                                                                         *)
(* A login or a refresh issues an access token and a refresh token; token  *)
(* n below is the n-th such pair.  Tokens are signed and cannot be taken   *)
(* back: what was logged out, evicted or already traded is put on a        *)
(* blacklist in Redis, with a time to live that has to outlast the token.  *)
(* A sorted set in Redis holds the live sessions by their expiry, and a    *)
(* new session over the limit evicts the oldest one, in a sequence of      *)
(* Redis commands (trackSession) that runs in several workers at once.     *)
(*                                                                         *)
(* Captcha, login lock and password come before all this and decide        *)
(* nothing but whether a login gets here.                                  *)
(***************************************************************************)
EXTENDS Integers, FiniteSets

CONSTANTS
  Worker,       \* PHP workers
  MaxTokens,    \* bound: pairs of tokens ever issued
  MaxSessions,  \* sessions of one administrator (3 in the code)
  AccessTtl, RefreshTtl,
  MaxTime,      \* bound: ticks of the clock
  MaxFaults     \* bound: failures of Redis and workers that die

Token == 1..MaxTokens

ASSUME SessionAssumption ==
  /\ IsFiniteSet(Worker)
  /\ MaxTokens \in Nat /\ MaxSessions \in Nat
  /\ AccessTtl \in Nat \ {0} /\ RefreshTtl \in Nat \ {0}
  /\ MaxTime \in Nat /\ MaxFaults \in Nat

VARIABLES
  now,       \* time()
  born,      \* when each pair was issued; 0 before
  held,      \* pairs that reached the administrator
  sessions,  \* user_tokens: the score of each access token; 0 if not in it
  blackA,    \* jwt_blacklist of access tokens: when the record goes away
  blackR,    \* the same of refresh tokens
  job,       \* what each worker is doing and remembers
  faults,
  \* History, read by no action:
  wins,      \* times each refresh token was traded before it expired
  dead,      \* access tokens put on the blacklist
  lost,      \* trackings that failed or evicted a token already evicted
  missed     \* workers that were told a dead token is not on the blacklist

redis == <<sessions, blackA, blackR>>
history == <<wins, dead, lost, missed>>
vars == <<now, born, held, redis, job, faults, history>>

\* A worker at step `at`, issuing pair `new`, about pair `tok`, with a time.
Job(at, new, tok, time) == [at |-> at, new |-> new, tok |-> tok, time |-> time]
Idle == Job("idle", 0, 0, 0)

Init ==
  /\ now = 1
  /\ born = [n \in Token |-> 0] /\ held = {}
  /\ sessions = [n \in Token |-> 0]
  /\ blackA = [n \in Token |-> 0] /\ blackR = [n \in Token |-> 0]
  /\ job = [w \in Worker |-> Idle]
  /\ faults = 0
  /\ wins = [n \in Token |-> 0] /\ dead = {} /\ lost = 0 /\ missed = {}

Begin(w, j) == job[w] = Idle /\ job' = [job EXCEPT ![w] = j]
Continue(w, j) == job' = [job EXCEPT ![w] = j]
Go(w, step) == Continue(w, Job(step, job[w].new, 0, 0))
End(w) == Continue(w, Idle)
At(w, step) == job[w].at = step

Later(a, b) == IF a > b THEN a ELSE b

AccessExp(n) == born[n] + AccessTtl
RefreshExp(n) == born[n] + RefreshTtl

-----------------------------------------------------------------------------
(* Login and refresh.                                                      *)

\* The next pair of tokens is issued, and its session is to be tracked.
Issue(w, n) ==
  /\ born[n] = 0 /\ \A m \in Token : m < n => born[m] # 0
  /\ born' = [born EXCEPT ![n] = now]
  /\ job' = [job EXCEPT ![w] = Job("purge", n, 0, 0)]

Login(w, n) ==
  /\ job[w] = Idle
  /\ Issue(w, n)
  /\ UNCHANGED <<now, held, redis, faults, history>>

\* A refresh token that has not expired, of an account that is not disabled.
Refresh(w, n) ==
  /\ n \in held /\ now < RefreshExp(n)
  /\ Begin(w, Job("claim", 0, n, 0))
  /\ UNCHANGED <<now, born, held, redis, faults, history>>

\* Mutant: the time to live of the other kind of token.
ClaimedForAccess(n) == now + Later(AccessExp(n) - now, 1)

\* How long a traded refresh token stays on the blacklist.
ClaimedUntil(n) == now + Later(RefreshExp(n) - now, 1)

\* SET NX: one request takes the refresh token r and issues the next pair,
\* the others are refused.  If Redis fails the request goes on.
Claim(w) ==
  LET r == job[w].tok IN
  /\ At(w, "claim")
  /\ \/ now < blackR[r] /\ End(w) /\ UNCHANGED <<born, blackR, wins, faults>>
     \/ /\ now >= blackR[r]
        /\ blackR' = [blackR EXCEPT ![r] = ClaimedUntil(r)]
        /\ wins' = IF now < RefreshExp(r) THEN [wins EXCEPT ![r] = @ + 1] ELSE wins
        /\ \E n \in Token : Issue(w, n)
        /\ UNCHANGED faults
     \/ /\ faults < MaxFaults /\ faults' = faults + 1
        /\ \E n \in Token : Issue(w, n)
        /\ UNCHANGED <<blackR, wins>>
  /\ UNCHANGED <<now, held, sessions, blackA, dead, lost, missed>>

\* The tokens are in the answer.
Deliver(w) ==
  /\ At(w, "deliver")
  /\ held' = held \cup {job[w].new}
  /\ End(w)
  /\ UNCHANGED <<now, born, redis, faults, history>>

-----------------------------------------------------------------------------
(* AuthController::trackSession, one action for each Redis command.        *)

Tracked == {n \in Token : sessions[n] > 0}

\* Expired members go; the score of the new one is fixed before.
Purge(w) ==
  /\ At(w, "purge")
  /\ sessions' = [n \in Token |-> IF sessions[n] <= now THEN 0 ELSE sessions[n]]
  /\ Continue(w, Job("add", job[w].new, 0, now + AccessTtl))
  /\ UNCHANGED <<now, born, held, blackA, blackR, faults, history>>

Add(w) ==
  /\ At(w, "add")
  /\ sessions' = [sessions EXCEPT ![job[w].new] = job[w].time]
  /\ Go(w, "count")
  /\ UNCHANGED <<now, born, held, blackA, blackR, faults, history>>

\* Mutant: one more than the limit is let be.
FarTooMany == Cardinality(Tracked) > MaxSessions + 1

TooMany == Cardinality(Tracked) > MaxSessions

Count(w) ==
  /\ At(w, "count")
  /\ Go(w, IF TooMany THEN "oldest" ELSE "deliver")
  /\ UNCHANGED <<now, born, held, redis, faults, history>>

\* What is left of the life of a session.
Rest(n) == Later(sessions[n] - now, 0)

\* Redis orders members of the same score by name: any of them may be first.
Oldest(w) ==
  /\ At(w, "oldest")
  /\ \/ Tracked = {} /\ Go(w, "deliver")
     \/ \E n \in Tracked :
          /\ \A m \in Tracked : sessions[n] <= sessions[m]
          /\ Continue(w, Job("remove", job[w].new, n, Rest(n)))
  /\ UNCHANGED <<now, born, held, redis, faults, history>>

Remove(w) ==
  LET n == job[w].tok IN
  /\ At(w, "remove")
  /\ sessions' = [sessions EXCEPT ![n] = 0]
  /\ lost' = IF sessions[n] = 0 THEN lost + 1 ELSE lost
  /\ IF job[w].time > 0
     THEN Continue(w, [job[w] EXCEPT !.at = "blacklist"])
     ELSE Go(w, "deliver")
  /\ UNCHANGED <<now, born, held, blackA, blackR, faults, wins, dead, missed>>

Blacklist(w) ==
  LET n == job[w].tok IN
  /\ At(w, "blacklist")
  /\ blackA' = [blackA EXCEPT ![n] = now + job[w].time]
  /\ dead' = dead \cup {n}
  /\ Go(w, "deliver")
  /\ UNCHANGED <<now, born, held, sessions, blackR, faults, wins, lost, missed>>

Tracking(w) == job[w].at \in {"purge", "add", "count", "oldest", "remove", "blacklist"}

\* A command of Redis fails: the session goes on without the rest of them.
TrackFails(w) ==
  /\ Tracking(w)
  /\ faults < MaxFaults /\ faults' = faults + 1
  /\ lost' = lost + 1
  /\ Go(w, "deliver")
  /\ UNCHANGED <<now, born, held, redis, wins, dead, missed>>

-----------------------------------------------------------------------------
(* The middleware AdminAuth, and behind it ProfileController::logout.      *)

\* The blacklist says nothing (any more) about access token n.
Unlisted(n) == now >= blackA[n]

\* A request comes with an access token.  One on the blacklist is refused;
\* when Redis fails the question is skipped and the request goes on.
Look(w, n) ==
  /\ n \in held
  /\ \/ /\ Unlisted(n)
        /\ missed' = IF n \in dead THEN missed \cup {w} ELSE missed
        /\ UNCHANGED faults
     \/ faults < MaxFaults /\ faults' = faults + 1 /\ UNCHANGED missed
  /\ Begin(w, Job("decode", 0, n, 0))
  /\ UNCHANGED <<now, born, held, redis, wins, dead, lost>>

\* An expired token is refused; with another the request is let in, to log
\* out or to do anything else.
Decode(w) ==
  /\ At(w, "decode")
  /\ \/ End(w)
     \/ now < AccessExp(job[w].tok) /\ Continue(w, [job[w] EXCEPT !.at = "logout"])
  /\ missed' = missed \ {w}
  /\ UNCHANGED <<now, born, held, redis, faults, wins, dead, lost>>

\* Mutant: the record goes away a tick before the token.
ToldEarly(n) == AccessExp(n) - 1

\* When the record of a token that logs out goes away.
OutUntil(n) == AccessExp(n)

\* A token that expired on the way, or a failure of Redis, is ignored.
BlacklistOwn(w) ==
  LET n == job[w].tok IN
  /\ At(w, "logout")
  /\ \/ /\ now < AccessExp(n)
        /\ blackA' = [blackA EXCEPT ![n] = OutUntil(n)]
        /\ dead' = dead \cup {n}
        /\ UNCHANGED faults
     \/ now >= AccessExp(n) /\ UNCHANGED <<blackA, dead, faults>>
     \/ faults < MaxFaults /\ faults' = faults + 1 /\ UNCHANGED <<blackA, dead>>
  /\ End(w)
  /\ UNCHANGED <<now, born, held, sessions, blackR, wins, lost, missed>>

-----------------------------------------------------------------------------

\* A worker dies in the middle of a request.  Up to its zadd it leaves no
\* trace; after it, nobody completes the eviction it owes.
Crash(w) ==
  /\ job[w] # Idle
  /\ faults < MaxFaults /\ faults' = faults + 1
  /\ lost' = IF Tracking(w) /\ ~At(w, "purge") /\ ~At(w, "add") THEN lost + 1 ELSE lost
  /\ missed' = missed \ {w}
  /\ End(w)
  /\ UNCHANGED <<now, born, held, redis, wins, dead>>

Tick ==
  /\ now < MaxTime
  /\ now' = now + 1
  /\ UNCHANGED <<born, held, redis, job, faults, history>>

Next ==
  \/ Tick
  \/ \E w \in Worker :
       \/ Claim(w) \/ Deliver(w)
       \/ Purge(w) \/ Add(w) \/ Count(w) \/ Oldest(w) \/ Remove(w) \/ Blacklist(w)
       \/ TrackFails(w) \/ Decode(w) \/ BlacklistOwn(w) \/ Crash(w)
       \/ \E n \in Token : Login(w, n) \/ Refresh(w, n) \/ Look(w, n)

Spec == Init /\ [][Next]_vars

-----------------------------------------------------------------------------
(* Properties.                                                             *)

TokenSteps == {"claim", "remove", "blacklist", "decode", "logout"}
NewSteps == {"purge", "add", "count", "oldest", "remove", "blacklist", "deliver"}

JobType == [at : {"idle"} \cup TokenSteps \cup NewSteps,
            new : Nat, tok : Nat, time : Nat]

JobOK(j) ==
  /\ j \in JobType
  /\ j.at \in TokenSteps => j.tok \in Token
  /\ j.at \in NewSteps => j.new \in Token

\* The types, and that a worker about to use a token has one.
TypeOK ==
  /\ now \in Nat /\ faults \in Nat /\ lost \in Nat
  /\ born \in [Token -> Nat]
  /\ held \subseteq Token /\ dead \subseteq Token
  /\ sessions \in [Token -> Nat]
  /\ blackA \in [Token -> Nat] /\ blackR \in [Token -> Nat]
  /\ job \in [Worker -> JobType] /\ \A w \in Worker : JobOK(job[w])
  /\ wins \in [Token -> Nat] /\ missed \subseteq Worker

\* Rotation: as long as Redis answers, a refresh token is traded at most
\* once before it expires, however many requests repeat it at the same time
\* and however late they get to the SET NX.
RefreshedOnce == \A n \in Token : wins[n] <= 1

\* A token that was logged out or evicted is let in only by requests that
\* were past the blacklist before, or for which Redis failed: when AdminAuth
\* is told that such a token is not on the blacklist, the token has expired,
\* and decoding it refuses it.  The record outlasts the token, although its
\* time to live is worked out from another clock reading than the token's.
DeadStaysDead == \A w \in missed : At(w, "decode") /\ now >= AccessExp(job[w].tok)

\* Requests that are past the blacklist, told or not, and not yet decoded.
PastTheList(n) == {w \in Worker : At(w, "decode") /\ job[w].tok = n}

\* Access tokens in the administrator's hands that have not expired and that
\* the blacklist does not stop, or did not stop for a request under way.
Live == {n \in held : now < AccessExp(n) /\ (Unlisted(n) \/ PastTheList(n) # {})}

\* The limit of sessions is exceeded only by as many tokens as trackings are
\* under way, failed, or evicted a token that another one had evicted
\* already, and as many as requests are past the blacklist: nothing else
\* (expiry, logout, tokens never delivered) adds to it.
SessionsBounded ==
  Cardinality(Live) <=
    MaxSessions + Cardinality({w \in Worker : Tracking(w) \/ At(w, "decode")}) + lost
=============================================================================
