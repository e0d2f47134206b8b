---------------------------- MODULE Parts_proofs ----------------------------
(***************************************************************************)
(* The parts of MCParts, for any constants that fit PartsAssumption, any   *)
(* number of workers, tokens, captchas, orders, requests, instances and    *)
(* faults: first the sessions of administrators, then the limiters, then   *)
(* the registry, and in the end all of them together, with what            *)
(* LoginGuard_proofs and CryptoPayment_proofs show of their modules.       *)
(***************************************************************************)
EXTENDS MCParts, Sequences, FiniteSetTheorems, TLAPS

-----------------------------------------------------------------------------
(* The sessions: rotation of refresh tokens, the finality of the blacklist *)
(* and the limit of sessions.                                              *)

\* A score is never before the expiry of its token, since it is worked out
\* after the token is issued.
Scores ==
  \A n \in Token : sessions[n] > 0 => born[n] > 0 /\ sessions[n] >= AccessExp(n)

\* The record of a traded refresh token outlasts it.
Traded ==
  \A n \in Token :
    wins[n] <= 1 /\ (wins[n] = 1 => born[n] > 0 /\ blackR[n] >= RefreshExp(n))

\* The record of a dead access token outlasts it.
Gone == \A n \in dead : born[n] > 0 /\ blackA[n] >= AccessExp(n)

\* A worker is about tokens that exist, and what it remembers of an evicted
\* session still reaches the token's expiry when it is added to the clock.
JobSound(j) ==
  /\ j.at \in TokenSteps => born[j.tok] > 0
  /\ j.at \in NewSteps => born[j.new] > 0
  /\ j.at = "add" => j.time >= AccessExp(j.new)
  /\ j.at \in {"remove", "blacklist"} => now + j.time >= AccessExp(j.tok)

SessionInv ==
  /\ TypeOK /\ now >= 1
  /\ \A n \in Token : born[n] <= now
  /\ \A n \in held : born[n] > 0
  /\ Scores /\ Traded /\ Gone
  /\ \A w \in Worker : JobSound(job[w])

LEMMA TokensAreNumbers == Token \subseteq Nat
  BY SessionAssumption DEF Token

LEMMA SessionInvInit == Init => SessionInv
  BY DEF Init, SessionInv, TypeOK, Scores, Traded, Gone, JobSound, JobOK, JobType,
     Idle, Job, TokenSteps, NewSteps

\* A worker that goes on soundly leaves the jobs sound.
LEMMA JobsKeep ==
  ASSUME SessionInv, NEW w \in Worker, NEW j \in JobType, JobOK(j), JobSound(j),
         job' = [job EXCEPT ![w] = j], UNCHANGED <<now, born>>
  PROVE  /\ job' \in [Worker -> JobType]
         /\ \A v \in Worker : JobOK(job'[v])
         /\ (\A v \in Worker : JobSound(job[v]))'
<1>1. job \in [Worker -> JobType] /\ \A v \in Worker : JobOK(job[v]) /\ JobSound(job[v])
  BY DEF SessionInv, TypeOK
<1>2. job' \in [Worker -> JobType] /\ \A v \in Worker : job'[v] = j \/ job'[v] = job[v]
  BY <1>1
<1>3. \A v \in Worker : JobOK(job'[v])
  BY <1>1, <1>2, Zenon
<1>4. ASSUME NEW v \in Worker PROVE JobSound(job[v])'
  <2>1. CASE job'[v] = j
    BY <2>1 DEF JobSound, AccessExp
  <2>2. CASE job'[v] = job[v]
    BY <1>1, <2>2 DEF JobSound, AccessExp
  <2> QED
    BY <1>2, <2>1, <2>2
<1> QED
  BY <1>2, <1>3, <1>4

\* A pair is issued: what is known of the other pairs stays true.
LEMMA IssueKeeps ==
  ASSUME SessionInv, NEW w \in Worker, NEW n \in Token, Issue(w, n), UNCHANGED now
  PROVE  /\ born' \in [Token -> Nat]
         /\ \A m \in Token : born'[m] <= now'
         /\ \A m \in Token : born[m] > 0 => born'[m] = born[m]
         /\ job' \in [Worker -> JobType]
         /\ \A v \in Worker : JobOK(job'[v])
         /\ (\A v \in Worker : JobSound(job[v]))'
<1> DEFINE j == Job("purge", n, 0, 0)
<1>1. /\ job \in [Worker -> JobType] /\ now \in Nat /\ now >= 1
      /\ born \in [Token -> Nat] /\ \A m \in Token : born[m] <= now
      /\ \A v \in Worker : JobOK(job[v]) /\ JobSound(job[v])
  BY DEF SessionInv, TypeOK
<1>2. born[n] = 0 /\ born' = [born EXCEPT ![n] = now] /\ job' = [job EXCEPT ![w] = j]
  BY DEF Issue
<1>3. /\ born' \in [Token -> Nat] /\ born'[n] = now
      /\ \A m \in Token : born'[m] <= now'
      /\ \A m \in Token : born[m] > 0 => born'[m] = born[m]
  BY <1>1, <1>2
<1>4. j \in JobType /\ JobOK(j)
  BY TokensAreNumbers DEF Job, JobOK, JobType, TokenSteps, NewSteps
<1>5. job' \in [Worker -> JobType] /\ \A v \in Worker : job'[v] = j \/ job'[v] = job[v]
  BY <1>1, <1>2, <1>4
<1>6. \A v \in Worker : JobOK(job'[v])
  BY <1>1, <1>4, <1>5, Zenon
<1>7. ASSUME NEW v \in Worker PROVE JobSound(job[v])'
  <2>1. CASE job'[v] = j
    BY <1>1, <1>3, <2>1 DEF JobSound, Job, TokenSteps, NewSteps
  <2>2. CASE job'[v] = job[v]
    <3>1. JobOK(job[v]) /\ JobSound(job[v])
      BY <1>1
    <3>2. /\ job[v].at \in TokenSteps => job[v].tok \in Token /\ born'[job[v].tok] = born[job[v].tok]
          /\ job[v].at \in NewSteps => job[v].new \in Token /\ born'[job[v].new] = born[job[v].new]
      BY <1>3, <3>1 DEF JobOK, JobSound
    <3> QED
      BY <2>2, <3>1, <3>2 DEF JobSound, AccessExp, TokenSteps, NewSteps
  <2> QED
    BY <1>5, <2>1, <2>2
<1> QED
  BY <1>3, <1>5, <1>6, <1>7

LEMMA SessionInvStep == SessionInv /\ [Next]_vars => SessionInv'
<1> SUFFICES ASSUME SessionInv, [Next]_vars PROVE SessionInv'
  OBVIOUS
<1> USE SessionAssumption
<1>0. /\ now \in Nat /\ now >= 1 /\ faults \in Nat /\ lost \in Nat
      /\ born \in [Token -> Nat] /\ \A n \in Token : born[n] <= now
      /\ held \subseteq Token /\ dead \subseteq Token /\ \A n \in held : born[n] > 0
      /\ sessions \in [Token -> Nat] /\ blackA \in [Token -> Nat]
      /\ blackR \in [Token -> Nat] /\ wins \in [Token -> Nat]
      /\ job \in [Worker -> JobType] /\ Scores /\ Traded /\ Gone
      /\ \A w \in Worker : JobOK(job[w]) /\ JobSound(job[w])
  BY DEF SessionInv, TypeOK
<1>1. ASSUME NEW w \in Worker, NEW n \in Token, Login(w, n) PROVE SessionInv'
  <2>1. Issue(w, n) /\ UNCHANGED <<now, held, redis, faults, history>>
    BY <1>1 DEF Login
  <2>2. /\ born' \in [Token -> Nat] /\ \A m \in Token : born'[m] <= now'
        /\ \A m \in Token : born[m] > 0 => born'[m] = born[m]
        /\ job' \in [Worker -> JobType] /\ \A v \in Worker : JobOK(job'[v])
        /\ (\A v \in Worker : JobSound(job[v]))'
    BY <2>1, IssueKeeps
  <2>3. Scores' /\ Traded' /\ Gone' /\ \A m \in held' : born'[m] > 0
    BY <1>0, <2>1, <2>2 DEF Scores, Traded, Gone, AccessExp, RefreshExp, redis, history
  <2> QED
    BY <1>0, <2>1, <2>2, <2>3 DEF SessionInv, TypeOK, redis, history
<1>2. ASSUME NEW w \in Worker, NEW n \in Token, Refresh(w, n) \/ Look(w, n)
      PROVE  SessionInv'
  <2> DEFINE j == IF Refresh(w, n) THEN Job("claim", 0, n, 0) ELSE Job("decode", 0, n, 0)
  <2>1. job' = [job EXCEPT ![w] = j] /\ born[n] > 0 /\ faults' \in Nat /\ missed' \subseteq Worker
        /\ UNCHANGED <<now, born, held, redis, wins, dead, lost>>
    <3>1. CASE Refresh(w, n)
      BY <1>0, <3>1 DEF Refresh, Begin, history, SessionInv, TypeOK
    <3>2. CASE ~Refresh(w, n)
      BY <1>0, <1>2, <3>2 DEF Look, Begin, SessionInv, TypeOK
    <3> QED
      BY <3>1, <3>2
  <2>2. j \in JobType /\ JobOK(j) /\ JobSound(j)
    BY TokensAreNumbers, <2>1 DEF Job, JobType, JobOK, JobSound, TokenSteps, NewSteps
  <2> HIDE DEF j
  <2>3. /\ job' \in [Worker -> JobType] /\ \A v \in Worker : JobOK(job'[v])
        /\ (\A v \in Worker : JobSound(job[v]))'
    BY <2>1, <2>2, JobsKeep
  <2> QED
    BY <1>0, <2>1, <2>3 DEF SessionInv, TypeOK, Scores, Traded, Gone, AccessExp,
       RefreshExp, redis
<1>3. ASSUME NEW w \in Worker, Claim(w) PROVE SessionInv'
  <2> DEFINE r == job[w].tok
  <2>0. /\ r \in Token /\ born[r] > 0 /\ UNCHANGED <<now, held, sessions, blackA, dead, lost, missed>>
    BY <1>0, <1>3 DEF Claim, At, JobOK, JobSound, TokenSteps
  <2>1. CASE now < blackR[r] /\ End(w) /\ UNCHANGED <<born, blackR, wins, faults>>
    <3>1. Idle \in JobType /\ JobOK(Idle) /\ JobSound(Idle)
      BY DEF Idle, Job, JobType, JobOK, JobSound, TokenSteps, NewSteps
    <3>2. /\ job' \in [Worker -> JobType] /\ \A v \in Worker : JobOK(job'[v])
          /\ (\A v \in Worker : JobSound(job[v]))'
      BY <2>0, <2>1, <3>1, JobsKeep DEF End, Continue
    <3> QED
      BY <1>0, <2>0, <2>1, <3>2 DEF SessionInv, TypeOK, Scores, Traded, Gone, AccessExp,
         RefreshExp
  <2>2. CASE ~(now < blackR[r] /\ End(w) /\ UNCHANGED <<born, blackR, wins, faults>>)
    <3>1. PICK n \in Token : Issue(w, n)
      BY <1>3, <2>2 DEF Claim
    <3>2. /\ born' \in [Token -> Nat] /\ \A m \in Token : born'[m] <= now'
          /\ \A m \in Token : born[m] > 0 => born'[m] = born[m]
          /\ job' \in [Worker -> JobType] /\ \A v \in Worker : JobOK(job'[v])
          /\ (\A v \in Worker : JobSound(job[v]))'
      BY <2>0, <3>1, IssueKeeps
    <3>3. faults' \in Nat
      BY <1>0, <1>3 DEF Claim
    <3>4. blackR' \in [Token -> Nat] /\ wins' \in [Token -> Nat] /\ Traded'
      <4>1. CASE UNCHANGED <<blackR, wins>>
        BY <1>0, <3>2, <4>1 DEF Traded, RefreshExp
      <4>2. CASE /\ now >= blackR[r]
                 /\ blackR' = [blackR EXCEPT ![r] = ClaimedUntil(r)]
                 /\ wins' = IF now < RefreshExp(r) THEN [wins EXCEPT ![r] = @ + 1] ELSE wins
        <5>1. ClaimedUntil(r) \in Nat /\ ClaimedUntil(r) >= RefreshExp(r)
          BY <1>0, <2>0 DEF ClaimedUntil, RefreshExp, Later
        <5>2. blackR' \in [Token -> Nat] /\ blackR'[r] >= RefreshExp(r)
          BY <1>0, <2>0, <4>2, <5>1
        <5>3. now < RefreshExp(r) => wins[r] = 0
          BY <1>0, <2>0, <4>2 DEF Traded, RefreshExp
        <5>4. wins' \in [Token -> Nat] /\ wins'[r] <= 1
          BY <1>0, <2>0, <4>2, <5>3 DEF Traded
        <5>5. born'[r] > 0 /\ blackR'[r] >= born'[r] + RefreshTtl
          BY <2>0, <3>2, <5>2 DEF RefreshExp
        <5>6. ASSUME NEW m \in Token, m # r
              PROVE  /\ wins'[m] <= 1
                     /\ wins'[m] = 1 => born'[m] > 0 /\ blackR'[m] >= born'[m] + RefreshTtl
          BY <1>0, <2>0, <3>2, <4>2, <5>6 DEF Traded, RefreshExp
        <5> QED
          BY <2>0, <5>2, <5>4, <5>5, <5>6 DEF Traded, RefreshExp
      <4> QED
        BY <1>3, <2>2, <4>1, <4>2 DEF Claim
    <3>5. Scores' /\ Gone' /\ \A m \in held' : born'[m] > 0
      BY <1>0, <2>0, <3>2 DEF Scores, Gone, AccessExp
    <3> QED
      BY <1>0, <2>0, <3>2, <3>3, <3>4, <3>5 DEF SessionInv, TypeOK
  <2> QED
    BY <2>1, <2>2
<1>4. ASSUME NEW w \in Worker, Purge(w) \/ Add(w) PROVE SessionInv'
  <2> DEFINE j == IF Purge(w) THEN Job("add", job[w].new, 0, now + AccessTtl)
                  ELSE Job("count", job[w].new, 0, 0)
  <2>1. job' = [job EXCEPT ![w] = j]
        /\ UNCHANGED <<now, born, held, blackA, blackR, faults, history>>
    BY <1>4 DEF Purge, Add, Go, Continue
  <2>2. JobOK(job[w]) /\ JobSound(job[w]) /\ job[w].at \in {"purge", "add"}
    BY <1>0, <1>4 DEF Purge, Add, At
  <2>3. job[w].new \in Token /\ born[job[w].new] > 0 /\ born[job[w].new] <= now
    BY <1>0, <2>2 DEF JobOK, JobSound, NewSteps
  <2>4. j \in JobType /\ JobOK(j) /\ JobSound(j)
    BY TokensAreNumbers, <1>0, <2>3
    DEF Job, JobType, JobOK, JobSound, TokenSteps, NewSteps, AccessExp
  <2> HIDE DEF j
  <2>5. /\ job' \in [Worker -> JobType] /\ \A v \in Worker : JobOK(job'[v])
        /\ (\A v \in Worker : JobSound(job[v]))'
    BY <2>1, <2>4, JobsKeep
  <2>6. sessions' \in [Token -> Nat] /\ Scores'
    <3>1. CASE Purge(w)
      BY <1>0, <2>1, <3>1 DEF Purge, Scores, AccessExp
    <3>2. CASE Add(w)
      <4>1. job[w].time \in Nat /\ job[w].time >= AccessExp(job[w].new)
            /\ sessions' = [sessions EXCEPT ![job[w].new] = job[w].time]
        BY <2>2, <3>2 DEF Add, At, JobOK, JobSound, JobType
      <4> QED
        BY <1>0, <2>1, <2>3, <4>1 DEF Scores, AccessExp
    <3> QED
      BY <1>4, <3>1, <3>2
  <2> QED
    BY <1>0, <2>1, <2>5, <2>6 DEF SessionInv, TypeOK, Traded, Gone, AccessExp,
       RefreshExp, history
<1>5. ASSUME NEW w \in Worker, Count(w) \/ Oldest(w) \/ Deliver(w) PROVE SessionInv'
  <2>1. UNCHANGED <<now, born, sessions, blackA, blackR, faults, history>>
    BY <1>5 DEF Count, Oldest, Deliver, redis
  <2>2. JobOK(job[w]) /\ JobSound(job[w]) /\ job[w].at \in {"count", "oldest", "deliver"}
    BY <1>0, <1>5 DEF Count, Oldest, Deliver, At
  <2>3. job[w].new \in Token /\ born[job[w].new] > 0
    BY <1>0, <2>2 DEF JobOK, JobSound, NewSteps
  <2>4. \E j \in JobType : JobOK(j) /\ JobSound(j) /\ job' = [job EXCEPT ![w] = j]
    <3>1. CASE Count(w)
      <4> DEFINE j == Job(IF TooMany THEN "oldest" ELSE "deliver", job[w].new, 0, 0)
      <4>1. j \in JobType /\ JobOK(j) /\ JobSound(j)
        BY TokensAreNumbers, <2>3 DEF Job, JobType, JobOK, JobSound, TokenSteps, NewSteps
      <4> QED
        BY <3>1, <4>1 DEF Count, Go, Continue
    <3>2. CASE Oldest(w) /\ Go(w, "deliver")
      <4> DEFINE j == Job("deliver", job[w].new, 0, 0)
      <4>1. j \in JobType /\ JobOK(j) /\ JobSound(j)
        BY TokensAreNumbers, <2>3 DEF Job, JobType, JobOK, JobSound, TokenSteps, NewSteps
      <4> QED
        BY <3>2, <4>1 DEF Go, Continue
    <3>3. CASE Oldest(w) /\ ~Go(w, "deliver")
      <4>1. PICK n \in Tracked : Continue(w, Job("remove", job[w].new, n, Rest(n)))
        BY <3>3 DEF Oldest
      <4> DEFINE j == Job("remove", job[w].new, n, Rest(n))
      <4>2. n \in Token /\ sessions[n] > 0 /\ born[n] > 0 /\ sessions[n] >= AccessExp(n)
        BY <1>0, <4>1 DEF Tracked, Scores
      <4>3. Rest(n) \in Nat /\ now + Rest(n) >= AccessExp(n)
        BY <1>0, <4>2 DEF Rest, Later, AccessExp
      <4>4. j \in JobType /\ JobOK(j) /\ JobSound(j)
        BY TokensAreNumbers, <2>3, <4>2, <4>3
        DEF Job, JobType, JobOK, JobSound, TokenSteps, NewSteps
      <4> QED
        BY <4>1, <4>4 DEF Continue
    <3>4. CASE Deliver(w)
      <4>1. Idle \in JobType /\ JobOK(Idle) /\ JobSound(Idle)
        BY DEF Idle, Job, JobType, JobOK, JobSound, TokenSteps, NewSteps
      <4> QED
        BY <3>4, <4>1 DEF Deliver, End, Continue
    <3> QED
      BY <1>5, <3>1, <3>2, <3>3, <3>4
  <2>5. /\ job' \in [Worker -> JobType] /\ \A v \in Worker : JobOK(job'[v])
        /\ (\A v \in Worker : JobSound(job[v]))'
    BY <2>1, <2>4, JobsKeep
  <2>6. held' \subseteq Token /\ \A n \in held' : born[n] > 0
    BY <1>0, <1>5, <2>3 DEF Count, Oldest, Deliver
  <2> QED
    BY <1>0, <2>1, <2>5, <2>6 DEF SessionInv, TypeOK, Scores, Traded, Gone, AccessExp,
       RefreshExp, history
<1>6. ASSUME NEW w \in Worker, Remove(w) PROVE SessionInv'
  <2> DEFINE n == job[w].tok
             j == IF job[w].time > 0 THEN [job[w] EXCEPT !.at = "blacklist"]
                  ELSE Job("deliver", job[w].new, 0, 0)
  <2>1. /\ job' = [job EXCEPT ![w] = j]
        /\ sessions' = [sessions EXCEPT ![n] = 0] /\ lost' \in Nat
        /\ UNCHANGED <<now, born, held, blackA, blackR, faults, wins, dead, missed>>
    BY <1>0, <1>6 DEF Remove, Go, Continue
  <2>2. /\ job[w] \in JobType /\ n \in Token /\ born[n] > 0 /\ job[w].new \in Token
        /\ born[job[w].new] > 0 /\ now + job[w].time >= AccessExp(n)
    BY <1>0, <1>6 DEF Remove, At, JobOK, JobSound, TokenSteps, NewSteps
  <2>3. j \in JobType /\ JobOK(j) /\ JobSound(j)
    BY TokensAreNumbers, <2>2 DEF Job, JobType, JobOK, JobSound, TokenSteps, NewSteps
  <2> HIDE DEF j
  <2>4. /\ job' \in [Worker -> JobType] /\ \A v \in Worker : JobOK(job'[v])
        /\ (\A v \in Worker : JobSound(job[v]))'
    BY <2>1, <2>3, JobsKeep
  <2>5. sessions' \in [Token -> Nat] /\ Scores'
    BY <1>0, <2>1, <2>2 DEF Scores, AccessExp
  <2> QED
    BY <1>0, <2>1, <2>4, <2>5 DEF SessionInv, TypeOK, Traded, Gone, AccessExp, RefreshExp
<1>7. ASSUME NEW w \in Worker, Blacklist(w) PROVE SessionInv'
  <2> DEFINE n == job[w].tok
             j == Job("deliver", job[w].new, 0, 0)
  <2>1. /\ job' = [job EXCEPT ![w] = j]
        /\ blackA' = [blackA EXCEPT ![n] = now + job[w].time] /\ dead' = dead \cup {n}
        /\ UNCHANGED <<now, born, held, sessions, blackR, faults, wins, lost, missed>>
    BY <1>7 DEF Blacklist, Go, Continue
  <2>2. /\ job[w].time \in Nat /\ n \in Token /\ born[n] > 0 /\ job[w].new \in Token
        /\ born[job[w].new] > 0 /\ now + job[w].time >= AccessExp(n)
    BY <1>0, <1>7 DEF Blacklist, At, JobOK, JobSound, JobType, TokenSteps, NewSteps
  <2>3. j \in JobType /\ JobOK(j) /\ JobSound(j)
    BY TokensAreNumbers, <2>2 DEF Job, JobType, JobOK, JobSound, TokenSteps, NewSteps
  <2>4. /\ job' \in [Worker -> JobType] /\ \A v \in Worker : JobOK(job'[v])
        /\ (\A v \in Worker : JobSound(job[v]))'
    BY <2>1, <2>3, JobsKeep
  <2>5. blackA' \in [Token -> Nat] /\ dead' \subseteq Token /\ Gone'
    BY <1>0, <2>1, <2>2 DEF Gone, AccessExp
  <2> QED
    BY <1>0, <2>1, <2>4, <2>5 DEF SessionInv, TypeOK, Scores, Traded, AccessExp, RefreshExp
<1>8. ASSUME NEW w \in Worker, TrackFails(w) \/ Crash(w) PROVE SessionInv'
  <2> DEFINE j == IF TrackFails(w) THEN Job("deliver", job[w].new, 0, 0) ELSE Idle
  <2>1. /\ job' = [job EXCEPT ![w] = j] /\ faults' \in Nat /\ lost' \in Nat
        /\ missed' \subseteq Worker
        /\ UNCHANGED <<now, born, held, redis, wins, dead>>
    <3>1. CASE TrackFails(w)
      BY <1>0, <3>1 DEF TrackFails, Go, Continue, SessionInv, TypeOK
    <3>2. CASE ~TrackFails(w)
      BY <1>0, <1>8, <3>2 DEF Crash, End, Continue, SessionInv, TypeOK
    <3> QED
      BY <3>1, <3>2
  <2>2. TrackFails(w) => job[w].new \in Token /\ born[job[w].new] > 0
    BY <1>0 DEF TrackFails, Tracking, JobOK, JobSound, NewSteps
  <2>3. j \in JobType /\ JobOK(j) /\ JobSound(j)
    BY TokensAreNumbers, <2>2 DEF Idle, Job, JobType, JobOK, JobSound, TokenSteps, NewSteps
  <2> HIDE DEF j
  <2>4. /\ job' \in [Worker -> JobType] /\ \A v \in Worker : JobOK(job'[v])
        /\ (\A v \in Worker : JobSound(job[v]))'
    BY <2>1, <2>3, JobsKeep
  <2> QED
    BY <1>0, <2>1, <2>4 DEF SessionInv, TypeOK, Scores, Traded, Gone, AccessExp,
       RefreshExp, redis
<1>9. ASSUME NEW w \in Worker, BlacklistOwn(w) PROVE SessionInv'
  <2> DEFINE n == job[w].tok
  <2>1. /\ job' = [job EXCEPT ![w] = Idle] /\ faults' \in Nat
        /\ UNCHANGED <<now, born, held, sessions, blackR, wins, lost, missed>>
    BY <1>0, <1>9 DEF BlacklistOwn, End, Continue
  <2>2. n \in Token /\ born[n] > 0
    BY <1>0, <1>9 DEF BlacklistOwn, At, JobOK, JobSound, TokenSteps
  <2>3. Idle \in JobType /\ JobOK(Idle) /\ JobSound(Idle)
    BY DEF Idle, Job, JobType, JobOK, JobSound, TokenSteps, NewSteps
  <2>4. /\ job' \in [Worker -> JobType] /\ \A v \in Worker : JobOK(job'[v])
        /\ (\A v \in Worker : JobSound(job[v]))'
    BY <2>1, <2>3, JobsKeep
  <2>5. blackA' \in [Token -> Nat] /\ dead' \subseteq Token /\ Gone'
    <3>1. CASE UNCHANGED <<blackA, dead>>
      BY <1>0, <2>1, <3>1 DEF Gone, AccessExp
    <3>2. CASE blackA' = [blackA EXCEPT ![n] = OutUntil(n)] /\ dead' = dead \cup {n}
      <4>1. OutUntil(n) \in Nat /\ OutUntil(n) = AccessExp(n)
        BY <1>0, <2>2 DEF OutUntil, AccessExp
      <4> QED
        BY <1>0, <2>1, <2>2, <3>2, <4>1 DEF Gone, AccessExp
    <3> QED
      BY <1>9, <3>1, <3>2 DEF BlacklistOwn
  <2> QED
    BY <1>0, <2>1, <2>4, <2>5 DEF SessionInv, TypeOK, Scores, Traded, AccessExp, RefreshExp
<1>10. CASE Tick
  <2>1. now' = now + 1 /\ UNCHANGED <<born, held, redis, job, faults, history>>
    BY <1>10 DEF Tick
  <2>2. ASSUME NEW w \in Worker PROVE JobSound(job[w])'
    <3>1. JobSound(job[w]) /\ JobOK(job[w]) /\ job'[w] = job[w]
      BY <1>0, <2>1
    <3>2. job[w].time \in Nat /\ (job[w].at \in TokenSteps => job[w].tok \in Token)
      BY <3>1 DEF JobOK, JobType
    <3> QED
      BY <1>0, <2>1, <3>1, <3>2 DEF JobSound, AccessExp, TokenSteps
  <2> QED
    BY <1>0, <2>1, <2>2 DEF SessionInv, TypeOK, Scores, Traded, Gone, AccessExp,
       RefreshExp, redis, history
<1>11. CASE UNCHANGED vars
  BY <1>11 DEF vars, redis, history, SessionInv, TypeOK, Scores, Traded, Gone, JobSound,
     JobOK, AccessExp, RefreshExp
<1>12. ASSUME NEW w \in Worker, Decode(w) PROVE SessionInv'
  <2> DEFINE j == IF End(w) THEN Idle ELSE [job[w] EXCEPT !.at = "logout"]
  <2>1. /\ job' = [job EXCEPT ![w] = j] /\ missed' \subseteq Worker
        /\ UNCHANGED <<now, born, held, redis, faults, wins, dead, lost>>
    <3>1. CASE End(w)
      BY <1>0, <1>12, <3>1 DEF Decode, End, Continue, SessionInv, TypeOK
    <3>2. CASE ~End(w)
      BY <1>0, <1>12, <3>2 DEF Decode, Continue, SessionInv, TypeOK
    <3> QED
      BY <3>1, <3>2
  <2>2. j \in JobType /\ JobOK(j) /\ JobSound(j)
    BY <1>0, <1>12 DEF Decode, At, Idle, Job, JobType, JobOK, JobSound, TokenSteps, NewSteps
  <2> HIDE DEF j
  <2>3. /\ job' \in [Worker -> JobType] /\ \A v \in Worker : JobOK(job'[v])
        /\ (\A v \in Worker : JobSound(job[v]))'
    BY <2>1, <2>2, JobsKeep
  <2> QED
    BY <1>0, <2>1, <2>3 DEF SessionInv, TypeOK, Scores, Traded, Gone, AccessExp,
       RefreshExp, redis
<1> QED
  BY <1>1, <1>2, <1>3, <1>4, <1>5, <1>6, <1>7, <1>8, <1>9, <1>10, <1>11, <1>12 DEF Next

\* The invariant on which the two results below rest.
THEOREM SessionInvariant == Spec => []SessionInv
  BY SessionInvInit, SessionInvStep, PTL DEF Spec

\* Tokens, scores, blacklist and what each worker remembers keep their types
\* (AuthController.php:132-260).
THEOREM TypeCorrect == Spec => []TypeOK
<1>1. SessionInv => TypeOK
  BY DEF SessionInv
<1> QED BY <1>1, SessionInvariant, PTL

\* However many requests repeat a refresh token, and however long they take
\* to reach the SET NX, at most one of them trades it before it expires.
THEOREM RefreshedOnceHolds == Spec => []RefreshedOnce
<1>1. SessionInv => RefreshedOnce
  BY DEF SessionInv, Traded, RefreshedOnce
<1> QED
  BY <1>1, SessionInvariant, PTL

\* A worker that is told nothing new, and leaves the lookup behind if it goes
\* on from there, does not touch what the others were told.
LEMMA ToldStays ==
  ASSUME SessionInv, DeadStaysDead, NEW w \in Worker, NEW j, job' = [job EXCEPT ![w] = j],
         missed' = missed \ {w} \/ (missed' = missed /\ ~At(w, "decode")),
         now' = now, \A n \in Token : born[n] > 0 => born'[n] = born[n]
  PROVE  DeadStaysDead'
<1> SUFFICES ASSUME NEW v \in missed'
             PROVE  job'[v].at = "decode" /\ now' >= born'[job'[v].tok] + AccessTtl
  BY DEF DeadStaysDead, At, AccessExp
<1>1. /\ job \in [Worker -> JobType] /\ v \in Worker /\ v \in missed
      /\ job[v].at = "decode" /\ now >= born[job[v].tok] + AccessTtl
      /\ JobOK(job[v]) /\ JobSound(job[v])
  BY DEF SessionInv, TypeOK, DeadStaysDead, At, AccessExp
<1>2. v # w
  BY <1>1 DEF At
<1>3. job'[v] = job[v] /\ job[v].tok \in Token /\ born[job[v].tok] > 0
  BY <1>1, <1>2 DEF JobOK, JobSound, TokenSteps
<1> QED
  BY <1>1, <1>3

LEMMA DeadStaysDeadStep ==
  ASSUME SessionInv, DeadStaysDead, [Next]_vars
  PROVE  DeadStaysDead'
<1>0. /\ job \in [Worker -> JobType] /\ now \in Nat /\ missed \subseteq Worker
      /\ dead \subseteq Token /\ blackA \in [Token -> Nat] /\ born \in [Token -> Nat] /\ Gone
  BY DEF SessionInv, TypeOK
<1>1. ASSUME NEW w \in Worker, NEW n \in Token, Look(w, n) PROVE DeadStaysDead'
  <2>1. /\ job' = [job EXCEPT ![w] = Job("decode", 0, n, 0)] /\ job[w].at = "idle"
        /\ UNCHANGED <<now, born>>
    BY <1>1 DEF Look, Begin, Idle, Job
  <2>2. CASE missed' = missed
    BY <2>1, <2>2, ToldStays DEF At
  <2>3. CASE Unlisted(n) /\ n \in dead /\ missed' = missed \cup {w}
    <3>1. now >= AccessExp(n)
      BY <1>0, <2>3, SessionAssumption DEF Unlisted, Gone, AccessExp
    <3>2. job'[w].at = "decode" /\ job'[w].tok = n
      BY <1>0, <2>1 DEF Job
    <3>3. \A v \in missed : v \in Worker /\ v # w /\ job'[v] = job[v]
      BY <1>0, <2>1 DEF DeadStaysDead, At
    <3> QED
      BY <2>1, <2>3, <3>1, <3>2, <3>3 DEF DeadStaysDead, At, AccessExp
  <2> QED
    BY <1>1, <2>2, <2>3 DEF Look
<1>2. ASSUME NEW w \in Worker,
             \/ Claim(w) \/ Deliver(w) \/ Purge(w) \/ Add(w) \/ Count(w) \/ Oldest(w)
             \/ Remove(w) \/ Blacklist(w) \/ TrackFails(w) \/ BlacklistOwn(w) \/ Decode(w)
             \/ Crash(w) \/ \E n \in Token : Login(w, n) \/ Refresh(w, n)
      PROVE  DeadStaysDead'
  <2>1. \E j : job' = [job EXCEPT ![w] = j]
    <3>1. CASE Purge(w) \/ Add(w) \/ Count(w) \/ Oldest(w) \/ Remove(w) \/ Blacklist(w)
               \/ TrackFails(w) \/ BlacklistOwn(w) \/ Decode(w) \/ Crash(w) \/ Deliver(w)
      BY <3>1, Zenon DEF Purge, Add, Count, Oldest, Remove, Blacklist, TrackFails,
         BlacklistOwn, Decode, Crash, Deliver, Go, End, Continue
    <3>2. CASE Claim(w) \/ \E n \in Token : Login(w, n) \/ Refresh(w, n)
      BY <3>2, Zenon DEF Claim, Login, Refresh, Issue, Begin, End, Continue
    <3> QED
      BY <1>2, <3>1, <3>2
  <2>2. missed' = missed \ {w} \/ (missed' = missed /\ ~At(w, "decode"))
    <3>1. CASE Decode(w) \/ Crash(w)
      BY <3>1 DEF Decode, Crash
    <3>2. CASE ~(Decode(w) \/ Crash(w))
      BY <1>2, <3>2 DEF Claim, Login, Refresh, Begin, Idle, Job, Purge, Add, Count, Oldest,
         Remove, Blacklist, TrackFails, Tracking, BlacklistOwn, Deliver, At, history
    <3> QED
      BY <3>1, <3>2
  <2>3. now' = now /\ \A n \in Token : born[n] > 0 => born'[n] = born[n]
    BY <1>0, <1>2 DEF Claim, Login, Refresh, Issue, Purge, Add, Count, Oldest, Remove,
       Blacklist, TrackFails, BlacklistOwn, Decode, Crash, Deliver
  <2> QED
    BY <2>1, <2>2, <2>3, ToldStays
<1>3. CASE Tick \/ UNCHANGED vars
  <2>1. UNCHANGED <<born, job, missed>> /\ now' >= now /\ now' \in Nat
    BY <1>0, <1>3 DEF Tick, vars, history
  <2>2. \A v \in missed : job[v].tok \in Token
    BY <1>0 DEF SessionInv, TypeOK, DeadStaysDead, At, JobOK, TokenSteps
  <2> QED
    BY <1>0, <2>1, <2>2, SessionAssumption DEF DeadStaysDead, At, AccessExp
<1> QED
  BY <1>1, <1>2, <1>3 DEF Next

\* When AdminAuth asks for an access token that was put on the blacklist, by
\* a logout or by an eviction, and Redis answers that there is no record, the
\* token has expired, and stays expired until the request decodes it.
THEOREM DeadStaysDeadHolds == Spec => []DeadStaysDead
<1>1. Init => DeadStaysDead
  BY DEF Init, DeadStaysDead
<1> QED
  BY <1>1, DeadStaysDeadStep, SessionInvariant, PTL DEF Spec

-----------------------------------------------------------------------------
(* The limit of sessions.                                                  *)

\* Workers that have yet to add the session they issued, that add or evict
\* one, and that removed one and have yet to put it on the blacklist.
Young == {w \in Worker : job[w].at \in {"purge", "add"}}
Owing == {w \in Worker : job[w].at \in {"count", "oldest", "remove"}}
Taking == {w \in Worker : job[w].at = "blacklist"}

\* The administrator has pair n or is about to have it.
InHand(n) == n \in held \/ \E w \in Worker : job[w].at \in NewSteps /\ job[w].new = n

\* Access tokens that are or will be let in.
Good == {n \in Token : n \notin dead /\ now < AccessExp(n) /\ InHand(n)}

\* Those that the sorted set does not know of, and no worker is about to add
\* to it or to put on the blacklist.
Strays ==
  {n \in Good : /\ sessions[n] = 0
                /\ \A w \in Young : job[w].new # n
                /\ \A w \in Taking : job[w].tok # n}

\* A pair is issued by one worker, once.
IssuedOnce ==
  \A w \in Worker : job[w].at \in NewSteps =>
    /\ job[w].new \notin held
    /\ \A v \in Worker : job[v].at \in NewSteps /\ job[v].new = job[w].new => v = w

\* Every session over the limit is owed by a worker, or was lost; so is every
\* good token that is not in the sorted set any more.
CountInv ==
  /\ Cardinality(Strays) <= lost
  /\ Cardinality(Tracked) + Cardinality(Strays) <= MaxSessions + Cardinality(Owing) + lost

LEMMA Finite ==
  ASSUME NEW S, S \subseteq Token \/ S \subseteq Worker
  PROVE  IsFiniteSet(S) /\ Cardinality(S) \in Nat
<1>1. IsFiniteSet(Token)
  BY SessionAssumption, FS_Interval DEF Token
<1> QED
  BY <1>1, SessionAssumption, FS_Subset, FS_CardinalityType

\* What one element more or less does to the size of a set.
LEMMA OneJoins ==
  ASSUME NEW S, IsFiniteSet(S), NEW x, NEW T, T \subseteq S \cup {x}
  PROVE  /\ Cardinality(T) <= Cardinality(S) + 1
         /\ T = S \cup {x} /\ x \notin S => Cardinality(T) = Cardinality(S) + 1
<1>1. /\ IsFiniteSet(S \cup {x})
      /\ Cardinality(S \cup {x}) = IF x \in S THEN Cardinality(S) ELSE Cardinality(S) + 1
  BY FS_AddElement
<1>2. Cardinality(T) <= Cardinality(S \cup {x})
  BY <1>1, FS_Subset
<1>3. Cardinality(S) \in Nat /\ Cardinality(T) \in Nat
  BY <1>1, FS_Subset, FS_CardinalityType
<1> QED
  BY <1>1, <1>2, <1>3

LEMMA OneLeaves ==
  ASSUME NEW S, IsFiniteSet(S), NEW x \in S, NEW T, T \subseteq S \ {x}
  PROVE  /\ Cardinality(T) < Cardinality(S)
         /\ T = S \ {x} => Cardinality(T) = Cardinality(S) - 1
<1>1. /\ IsFiniteSet(S \ {x})
      /\ Cardinality(S \ {x}) = Cardinality(S) - 1
  BY FS_RemoveElement
<1>2. Cardinality(T) <= Cardinality(S \ {x})
  BY <1>1, FS_Subset
<1>3. Cardinality(S) \in Nat /\ Cardinality(T) \in Nat
  BY <1>1, FS_Subset, FS_CardinalityType
<1>4. Cardinality(T) < Cardinality(S)
  BY <1>1, <1>2, <1>3
<1>5. T = S \ {x} => Cardinality(T) = Cardinality(S) - 1
  BY <1>1
<1> QED
  BY <1>4, <1>5

\* A worker goes on with the pair it issued, or without any.
GoesOn(w, j) ==
  /\ job' = [job EXCEPT ![w] = j]
  /\ j.at \in NewSteps => job[w].at \in NewSteps /\ j.new = job[w].new

LEMMA IssuedOnceInit == Init => IssuedOnce
  BY DEF Init, IssuedOnce, Idle, Job, NewSteps

\* The worker of every action but the issue of a pair goes on.
LEMMA ActionsGoOn ==
  ASSUME SessionInv, NEW w \in Worker,
         \/ Deliver(w) \/ Purge(w) \/ Add(w) \/ Count(w) \/ Oldest(w) \/ Remove(w)
         \/ Blacklist(w) \/ TrackFails(w) \/ BlacklistOwn(w) \/ Decode(w) \/ Crash(w)
         \/ Claim(w) /\ End(w) /\ UNCHANGED born
         \/ \E n \in Token : Refresh(w, n) \/ Look(w, n)
  PROVE  /\ \E j : GoesOn(w, j)
         /\ held' = held \/ Deliver(w)
         /\ UNCHANGED <<now, born>>
         /\ dead \subseteq dead'
<1>0. job \in [Worker -> JobType]
  BY DEF SessionInv, TypeOK
<1>1. CASE \/ Deliver(w) \/ BlacklistOwn(w) \/ Crash(w)
           \/ Claim(w) /\ End(w) /\ UNCHANGED born
  <2>1. job' = [job EXCEPT ![w] = Idle] /\ Idle.at \notin NewSteps
    BY <1>1 DEF Deliver, BlacklistOwn, Crash, Claim, End, Continue, Idle, Job, NewSteps
  <2>2. GoesOn(w, Idle)
    BY <2>1 DEF GoesOn
  <2>3. /\ held' = held \/ Deliver(w)
        /\ now' = now /\ dead \subseteq dead'
    BY <1>1 DEF Deliver, BlacklistOwn, Crash, Claim, redis, history
  <2> QED
    BY <1>1, <2>2, <2>3 DEF Deliver, BlacklistOwn, Crash
<1>4. CASE Decode(w)
  <2>1. job[w].at = "decode" /\ job[w] \in JobType
    BY <1>0, <1>4 DEF Decode, At
  <2>2. GoesOn(w, Idle) \/ GoesOn(w, [job[w] EXCEPT !.at = "logout"])
    BY <1>4, <2>1 DEF Decode, End, Continue, GoesOn, Idle, Job, JobType, NewSteps
  <2> QED
    BY <1>4, <2>2 DEF Decode
<1>2. CASE Purge(w) \/ Add(w) \/ Count(w) \/ Oldest(w) \/ Remove(w) \/ Blacklist(w)
           \/ TrackFails(w)
  <2>1. job[w].at \in NewSteps /\ job[w] \in JobType
    BY <1>0, <1>2 DEF Purge, Add, Count, Oldest, Remove, Blacklist, TrackFails, Tracking, At,
       NewSteps
  <2> DEFINE Same == \E j : job' = [job EXCEPT ![w] = j] /\ j.new = job[w].new
  <2>2. Same
    <3>1. ASSUME NEW step, NEW tok, NEW time, Continue(w, Job(step, job[w].new, tok, time))
          PROVE  Same
      <4> DEFINE j == Job(step, job[w].new, tok, time)
      <4>1. job' = [job EXCEPT ![w] = j] /\ j.new = job[w].new
        BY <3>1 DEF Continue, Job
      <4> HIDE DEF j
      <4> QED
        BY <4>1
    <3>2. ASSUME Continue(w, [job[w] EXCEPT !.at = "blacklist"])
          PROVE  Same
      <4> DEFINE j == [job[w] EXCEPT !.at = "blacklist"]
      <4>1. job' = [job EXCEPT ![w] = j] /\ j.new = job[w].new
        BY <2>1, <3>2 DEF Continue, JobType
      <4> HIDE DEF j
      <4> QED
        BY <4>1
    <3> HIDE DEF Same
    <3>3. CASE Purge(w)
      BY <3>1, <3>3 DEF Purge
    <3>4. CASE Add(w) \/ Count(w) \/ Blacklist(w) \/ TrackFails(w)
      BY <3>1, <3>4, Zenon DEF Add, Count, Blacklist, TrackFails, Go
    <3>5. CASE Oldest(w)
      BY <3>1, <3>5, Zenon DEF Oldest, Go
    <3>6. CASE Remove(w)
      BY <3>1, <3>2, <3>6, Zenon DEF Remove, Go
    <3> QED
      BY <1>2, <3>3, <3>4, <3>5, <3>6
  <2>3. \E j : GoesOn(w, j)
    BY <2>1, <2>2 DEF GoesOn
  <2> QED
    BY <1>2, <2>3 DEF Purge, Add, Count, Oldest, Remove, Blacklist, TrackFails, redis, history
<1>3. ASSUME NEW n \in Token, Refresh(w, n) \/ Look(w, n)
      PROVE  (\E j : GoesOn(w, j)) /\ UNCHANGED <<now, born, held>> /\ dead \subseteq dead'
  <2>1. \/ GoesOn(w, Job("claim", 0, n, 0)) \/ GoesOn(w, Job("decode", 0, n, 0))
    BY <1>3 DEF Refresh, Look, Begin, GoesOn, Job, NewSteps
  <2> QED
    BY <1>3, <2>1 DEF Refresh, Look, history
<1> QED
  BY <1>1, <1>2, <1>3, <1>4

\* A worker that goes on brings no new good tokens, and issues none.
LEMMA GoodShrinks ==
  ASSUME SessionInv, IssuedOnce, NEW w \in Worker, \E j : GoesOn(w, j),
         held' = held \/ Deliver(w), UNCHANGED <<now, born>>, dead \subseteq dead'
  PROVE  Good' \subseteq Good /\ IssuedOnce'
<1>0. job \in [Worker -> JobType] /\ held \subseteq Token
  BY DEF SessionInv, TypeOK
<1>1. PICK j : GoesOn(w, j)
  OBVIOUS
<1>2. /\ job'[w] = j
      /\ \A v \in Worker : v # w => job'[v] = job[v]
      /\ \A v \in Worker : job'[v].at \in NewSteps => job[v].at \in NewSteps /\ job'[v].new = job[v].new
  BY <1>0, <1>1 DEF GoesOn
<1>3. CASE held' = held
  BY <1>2, <1>3 DEF Good, InHand, IssuedOnce, AccessExp
<1>4. CASE Deliver(w)
  <2>1. /\ held' = held \cup {job[w].new} /\ job'[w].at \notin NewSteps
        /\ job[w].at \in NewSteps
    BY <1>0, <1>4 DEF Deliver, At, End, Continue, Idle, Job, NewSteps
  <2>2. Good' \subseteq Good
    BY <1>2, <2>1 DEF Good, InHand, AccessExp
  <2>3. ASSUME NEW v \in Worker, job'[v].at \in NewSteps
        PROVE  /\ job'[v].new \notin held'
               /\ \A u \in Worker : job'[u].at \in NewSteps /\ job'[u].new = job'[v].new => u = v
    <3>1. v # w /\ job[v].at \in NewSteps /\ job'[v].new = job[v].new
      BY <1>2, <2>1, <2>3
    <3> QED
      BY <1>2, <2>1, <3>1 DEF IssuedOnce
  <2> QED
    BY <2>2, <2>3 DEF IssuedOnce
<1> QED
  BY <1>3, <1>4

\* Nothing joins and no eviction is done.
LEMMA LessIsFine ==
  ASSUME SessionInv, CountInv, lost' = lost, Strays' \subseteq Strays,
         Tracked' \subseteq Tracked, Owing' = Owing
  PROVE  CountInv'
<1>1. lost \in Nat /\ Strays \subseteq Token /\ Tracked \subseteq Token /\ Owing \subseteq Worker
  BY DEF SessionInv, TypeOK, Strays, Good, Tracked, Owing
<1>2. /\ IsFiniteSet(Strays) /\ IsFiniteSet(Tracked)
      /\ Cardinality(Strays) \in Nat /\ Cardinality(Tracked) \in Nat
      /\ Cardinality(Owing) \in Nat
  BY <1>1, Finite
<1>3. /\ Cardinality(Strays') <= Cardinality(Strays) /\ Cardinality(Strays') \in Nat
      /\ Cardinality(Tracked') <= Cardinality(Tracked) /\ Cardinality(Tracked') \in Nat
  BY <1>1, <1>2, FS_Subset, FS_CardinalityType
<1> QED
  BY <1>1, <1>2, <1>3, SessionAssumption DEF CountInv

LEMMA IssueCounts ==
  ASSUME SessionInv, IssuedOnce, CountInv, NEW w \in Worker, NEW n \in Token, Issue(w, n),
         job[w].at \in {"idle", "claim"}, UNCHANGED <<now, held, sessions, dead, lost>>
  PROVE  IssuedOnce' /\ CountInv'
<1>0. /\ job \in [Worker -> JobType] /\ held \subseteq Token /\ born \in [Token -> Nat]
      /\ \A v \in Worker : JobSound(job[v]) /\ JobOK(job[v])
      /\ \A m \in held : born[m] > 0
  BY DEF SessionInv, TypeOK
<1>1. born[n] = 0 /\ born' = [born EXCEPT ![n] = now]
      /\ job' = [job EXCEPT ![w] = Job("purge", n, 0, 0)]
  BY DEF Issue
<1>2. /\ job'[w].at = "purge" /\ job'[w].new = n
      /\ \A v \in Worker : v # w => job'[v] = job[v]
      /\ \A m \in Token : m # n => born'[m] = born[m]
  BY <1>0, <1>1 DEF Job
<1>3. /\ n \notin held
      /\ \A v \in Worker : job[v].at \in NewSteps => job[v].new # n
  BY <1>0, <1>1 DEF JobSound
<1>4. IssuedOnce'
  BY <1>2, <1>3 DEF IssuedOnce, NewSteps
<1>5. Good' \subseteq Good \cup {n}
  BY <1>2 DEF Good, InHand, AccessExp, NewSteps
<1>6. Strays' \subseteq Strays
  <2>1. ASSUME NEW m \in Strays' PROVE m \in Strays
    <3>1. m \in Good' /\ sessions[m] = 0 /\ m # n
      BY <1>2, <2>1 DEF Strays, Young
    <3>2. ASSUME NEW v \in Worker
          PROVE  /\ job[v].at \in {"purge", "add"} => job[v].new # m
                 /\ job[v].at = "blacklist" => job[v].tok # m
      BY <1>2, <2>1 DEF Strays, Young, Taking
    <3> QED
      BY <1>5, <3>1, <3>2 DEF Strays, Young, Taking
  <2> QED
    BY <2>1
<1>7. Tracked' = Tracked /\ Owing' = Owing
  BY <1>2 DEF Tracked, Owing
<1> QED
  BY <1>4, <1>6, <1>7, LessIsFine

\* Steps of a worker that neither add nor evict.
LEMMA QuietCounts ==
  ASSUME SessionInv, IssuedOnce, CountInv, NEW w \in Worker,
         \/ Deliver(w) \/ Purge(w) \/ Blacklist(w) \/ BlacklistOwn(w) \/ Decode(w)
         \/ Claim(w) /\ End(w) /\ UNCHANGED born
         \/ \E n \in Token : Refresh(w, n) \/ Look(w, n)
         \/ Crash(w) /\ lost' = lost
  PROVE  CountInv'
<1>0. /\ job \in [Worker -> JobType] /\ held \subseteq Token /\ born \in [Token -> Nat]
      /\ sessions \in [Token -> Nat] /\ now \in Nat /\ Scores
      /\ lost \in Nat
  BY DEF SessionInv, TypeOK
<1>1. Good' \subseteq Good /\ \E j : GoesOn(w, j)
  BY ActionsGoOn, GoodShrinks
<1>2. \A v \in Worker : v # w => job'[v] = job[v]
  BY <1>0, <1>1 DEF GoesOn
<1>3. CASE \/ Deliver(w) \/ BlacklistOwn(w) \/ Decode(w)
           \/ Claim(w) /\ End(w) /\ UNCHANGED born
           \/ \E n \in Token : Refresh(w, n) \/ Look(w, n)
  <2>1. lost' = lost /\ sessions' = sessions
    BY <1>3 DEF Deliver, BlacklistOwn, Decode, Claim, Refresh, Look, redis, history
  <2>2. /\ job[w].at \in {"idle", "claim", "decode", "logout", "deliver"}
        /\ job'[w].at \in {"idle", "claim", "decode", "logout"}
    BY <1>0, <1>3 DEF Deliver, BlacklistOwn, Decode, Claim, Refresh, Look, Begin, At, End,
       Continue, Idle, Job, JobType
  <2>3. Strays' \subseteq Strays /\ Tracked' = Tracked /\ Owing' = Owing
    BY <1>1, <1>2, <2>1, <2>2 DEF Strays, Tracked, Owing, Young, Taking
  <2> QED
    BY <2>1, <2>3, LessIsFine
<1>4. CASE Purge(w)
  <2>1. /\ job[w].at = "purge" /\ job'[w].at = "add" /\ job'[w].new = job[w].new
        /\ now' = now /\ lost' = lost /\ born' = born
        /\ sessions' = [n \in Token |-> IF sessions[n] <= now THEN 0 ELSE sessions[n]]
    BY <1>0, <1>4 DEF Purge, At, Continue, Job, history
  <2>2. Tracked' \subseteq Tracked /\ Owing' = Owing
    BY <1>0, <1>2, <2>1 DEF Tracked, Owing
  <2>3. ASSUME NEW n \in Good', sessions[n] > 0 PROVE sessions'[n] > 0
    <3>1. n \in Token /\ now < born[n] + AccessTtl
      BY <2>1 DEF Good, AccessExp
    <3>2. sessions[n] >= born[n] + AccessTtl
      BY <1>0, <2>3, <3>1 DEF Scores, AccessExp
    <3> QED
      BY <1>0, <2>1, <2>3, <3>1, <3>2, SessionAssumption
  <2>5. \A n \in Good' : sessions'[n] = 0 => sessions[n] = 0
    BY <1>0, <2>3 DEF Good
  <2>4. Strays' \subseteq Strays
    BY <1>1, <1>2, <2>1, <2>5 DEF Strays, Young, Taking
  <2> QED
    BY <2>1, <2>2, <2>4, LessIsFine
<1>5. CASE Blacklist(w)
  <2>1. /\ job[w].at = "blacklist" /\ job'[w].at = "deliver"
        /\ sessions' = sessions /\ lost' = lost /\ dead' = dead \cup {job[w].tok}
    BY <1>0, <1>5 DEF Blacklist, At, Go, Continue, Job
  <2>2. job[w].tok \notin Good'
    BY <2>1 DEF Good
  <2>3. Strays' \subseteq Strays
    BY <1>1, <1>2, <2>1, <2>2 DEF Strays, Young, Taking
  <2>4. Tracked' = Tracked /\ Owing' = Owing
    BY <1>2, <2>1 DEF Tracked, Owing
  <2> QED
    BY <2>1, <2>3, <2>4, LessIsFine
<1>6. CASE Crash(w) /\ lost' = lost
  <2>1. /\ job'[w].at = "idle" /\ job'[w].at \notin NewSteps
        /\ UNCHANGED <<now, born, held, dead, sessions, lost>>
    BY <1>0, <1>6 DEF Crash, End, Continue, Idle, Job, NewSteps, redis
  <2>2. job[w].at \notin {"count", "oldest", "remove", "blacklist"}
    BY <1>0, <1>6 DEF Crash, Tracking, At
  <2>3. job[w].at \in {"purge", "add"} => job[w].new \notin Good'
    BY <1>2, <2>1 DEF Good, InHand, IssuedOnce, NewSteps
  <2>4. Strays' \subseteq Strays
    BY <1>1, <1>2, <2>1, <2>2, <2>3 DEF Strays, Young, Taking
  <2>5. Tracked' = Tracked /\ Owing' = Owing
    BY <1>2, <2>1, <2>2 DEF Tracked, Owing
  <2> QED
    BY <2>1, <2>4, <2>5, LessIsFine
<1> QED
  BY <1>3, <1>4, <1>5, <1>6

\* Steps that add, evict or give up.
LEMMA BusyCounts ==
  ASSUME SessionInv, IssuedOnce, CountInv, NEW w \in Worker,
         \/ Add(w) \/ Count(w) \/ Oldest(w) \/ Remove(w) \/ TrackFails(w)
         \/ Crash(w) /\ lost' = lost + 1
  PROVE  CountInv'
<1>0. /\ job \in [Worker -> JobType] /\ held \subseteq Token /\ born \in [Token -> Nat]
      /\ sessions \in [Token -> Nat] /\ now \in Nat /\ lost \in Nat
      /\ \A v \in Worker : JobOK(job[v]) /\ JobSound(job[v])
  BY DEF SessionInv, TypeOK
<1>1. Good' \subseteq Good /\ \E j : GoesOn(w, j)
  BY ActionsGoOn, GoodShrinks
<1>2. \A v \in Worker : v # w => job'[v] = job[v]
  BY <1>0, <1>1 DEF GoesOn
<1>3. /\ IsFiniteSet(Strays) /\ IsFiniteSet(Tracked) /\ IsFiniteSet(Owing)
      /\ IsFiniteSet(Strays') /\ IsFiniteSet(Tracked') /\ IsFiniteSet(Owing')
      /\ Cardinality(Strays) \in Nat /\ Cardinality(Tracked) \in Nat
      /\ Cardinality(Owing) \in Nat /\ Cardinality(Strays') \in Nat
      /\ Cardinality(Tracked') \in Nat /\ Cardinality(Owing') \in Nat
  <2>1. /\ Strays \subseteq Token /\ Tracked \subseteq Token /\ Owing \subseteq Worker
        /\ Strays' \subseteq Token /\ Tracked' \subseteq Token /\ Owing' \subseteq Worker
    BY DEF Strays, Good, Tracked, Owing
  <2> QED
    BY <2>1, Finite
<1>4. CASE Add(w)
  <2>1. /\ job[w].at = "add" /\ job'[w].at = "count" /\ job[w].new \in Token /\ lost' = lost
        /\ job[w].time \in Nat /\ job[w].time > 0
        /\ sessions' = [sessions EXCEPT ![job[w].new] = job[w].time]
    <3>1. job[w].at = "add" /\ job'[w].at = "count" /\ lost' = lost
          /\ sessions' = [sessions EXCEPT ![job[w].new] = job[w].time]
      BY <1>0, <1>4 DEF Add, At, Go, Continue, Job, history
    <3>2. job[w].time \in Nat /\ job[w].new \in Token /\ job[w].time >= AccessExp(job[w].new)
      BY <1>0, <3>1 DEF JobOK, JobType, JobSound, NewSteps
    <3>3. job[w].time > 0
      BY <1>0, <3>2, SessionAssumption DEF AccessExp
    <3> QED
      BY <3>1, <3>2, <3>3
  <2>2. Tracked' \subseteq Tracked \cup {job[w].new} /\ job[w].new \in Tracked'
    BY <1>0, <2>1 DEF Tracked
  <2>3. Strays' \subseteq Strays
    BY <1>0, <1>1, <1>2, <2>1 DEF Strays, Young, Taking
  <2>4. Owing' = Owing \cup {w} /\ w \notin Owing
    BY <1>2, <2>1 DEF Owing
  <2>5. /\ Cardinality(Tracked') <= Cardinality(Tracked) + 1
        /\ Cardinality(Strays') <= Cardinality(Strays)
        /\ Cardinality(Owing') = Cardinality(Owing) + 1
    BY <1>3, <2>2, <2>3, <2>4, OneJoins, FS_Subset
  <2> QED
    BY <1>0, <1>3, <2>1, <2>5, SessionAssumption DEF CountInv
<1>5. CASE Count(w) \/ Oldest(w)
  <2>1. /\ job[w].at \in {"count", "oldest"} /\ job'[w].at \in {"oldest", "remove", "deliver"}
        /\ sessions' = sessions /\ lost' = lost
    BY <1>0, <1>5 DEF Count, Oldest, At, Go, Continue, Job, redis, history
  <2>2. Strays' \subseteq Strays /\ Tracked' = Tracked
    BY <1>1, <1>2, <2>1 DEF Strays, Young, Taking, Tracked
  <2>3. CASE job'[w].at # "deliver"
    <3>1. Owing' = Owing
      BY <1>2, <2>1, <2>3 DEF Owing
    <3> QED
      BY <2>1, <2>2, <3>1, LessIsFine
  <2>4. CASE job'[w].at = "deliver"
    <3>1. Cardinality(Tracked) <= MaxSessions
      <4>1. CASE Count(w)
        <5>1. ~TooMany
          BY <1>0, <2>4, <4>1 DEF Count, Go, Continue, Job
        <5> QED
          BY <1>3, <5>1, SessionAssumption DEF TooMany
      <4>2. CASE Oldest(w)
        <5>1. Tracked = {}
          BY <1>0, <2>4, <4>2 DEF Oldest, Continue, Job
        <5> QED
          BY <5>1, FS_EmptySet, SessionAssumption
      <4> QED
        BY <1>5, <4>1, <4>2
    <3>2. Cardinality(Strays') <= Cardinality(Strays)
      BY <1>3, <2>2, FS_Subset
    <3> QED
      BY <1>0, <1>3, <2>1, <2>2, <3>1, <3>2, SessionAssumption DEF CountInv
  <2> QED
    BY <2>1, <2>3, <2>4
<1>6. CASE Remove(w)
  <2> DEFINE n == job[w].tok
  <2>1. /\ job[w].at = "remove" /\ job'[w].at \in {"blacklist", "deliver"}
        /\ n \in Token /\ job[w].time \in Nat
        /\ sessions' = [sessions EXCEPT ![n] = 0]
        /\ lost' = IF sessions[n] = 0 THEN lost + 1 ELSE lost
        /\ UNCHANGED <<now, born>>
    BY <1>0, <1>6, TokensAreNumbers DEF Remove, At, Go, Continue, Job, JobOK, JobType, TokenSteps
  <2>2. n \notin Strays'
    <3>1. CASE job[w].time > 0
      <4>1. job'[w] = [job[w] EXCEPT !.at = "blacklist"]
        BY <1>0, <1>6, <3>1 DEF Remove, Continue
      <4>2. job'[w].at = "blacklist" /\ job'[w].tok = n
        BY <1>0, <4>1 DEF JobType
      <4> QED
        BY <4>2 DEF Strays, Taking
    <3>2. CASE job[w].time = 0
      <4>1. now >= AccessExp(n)
        BY <1>0, <2>1, <3>2 DEF JobSound
      <4>2. n \notin Good'
        BY <1>0, <2>1, <4>1, SessionAssumption DEF Good, AccessExp
      <4> QED
        BY <4>2 DEF Strays
    <3> QED
      BY <2>1, <3>1, <3>2
  <2>3. Strays' \subseteq Strays
    <3>1. \A m \in Strays' : m \in Good /\ m # n /\ sessions[m] = 0
      BY <1>0, <1>1, <2>1, <2>2 DEF Strays, Good
    <3>2. \A m \in Strays' : \A v \in Worker : v # w =>
            /\ job[v].at \in {"purge", "add"} => job[v].new # m
            /\ job[v].at = "blacklist" => job[v].tok # m
      BY <1>2 DEF Strays, Young, Taking
    <3> QED
      BY <2>1, <3>1, <3>2 DEF Strays, Young, Taking
  <2>4. Owing' = Owing \ {w} /\ w \in Owing
    BY <1>2, <2>1 DEF Owing
  <2>5. /\ Cardinality(Strays') <= Cardinality(Strays)
        /\ Cardinality(Owing') = Cardinality(Owing) - 1
    BY <1>3, <2>3, <2>4, OneLeaves, FS_Subset
  <2>6. CASE sessions[n] = 0
    <3>1. Tracked' = Tracked
      BY <1>0, <2>1, <2>6 DEF Tracked
    <3> QED
      BY <1>0, <1>3, <2>1, <2>5, <2>6, <3>1, SessionAssumption DEF CountInv
  <2>7. CASE sessions[n] # 0
    <3>1. Tracked' = Tracked \ {n} /\ n \in Tracked
      BY <1>0, <2>1, <2>7 DEF Tracked
    <3>2. Cardinality(Tracked') = Cardinality(Tracked) - 1
      BY <1>3, <3>1, OneLeaves
    <3> QED
      BY <1>0, <1>3, <2>1, <2>5, <2>7, <3>2, SessionAssumption DEF CountInv
  <2> QED
    BY <2>6, <2>7
<1>7. CASE TrackFails(w) \/ (Crash(w) /\ lost' = lost + 1)
  <2>1. /\ job[w].at \in {"purge", "add", "count", "oldest", "remove", "blacklist"}
        /\ job'[w].at \in {"deliver", "idle"}
        /\ sessions' = sessions /\ lost' = lost + 1
    BY <1>0, <1>7 DEF TrackFails, Crash, Tracking, At, Go, End, Idle, Continue, Job, redis
  <2>2. Tracked' = Tracked
    BY <2>1 DEF Tracked
  <2>3. CASE w \in Owing
    <3>1. Strays' \subseteq Strays /\ Owing' = Owing \ {w}
      BY <1>1, <1>2, <2>1, <2>3 DEF Strays, Young, Taking, Owing
    <3>2. /\ Cardinality(Strays') <= Cardinality(Strays)
          /\ Cardinality(Owing') = Cardinality(Owing) - 1
      BY <1>3, <2>3, <3>1, OneLeaves, FS_Subset
    <3> QED
      BY <1>0, <1>3, <2>1, <2>2, <3>2, SessionAssumption DEF CountInv
  <2>4. CASE w \notin Owing
    <3>1. Owing' = Owing
      BY <1>2, <2>1, <2>4 DEF Owing
    <3>2. \E n : Strays' \subseteq Strays \cup {n}
      <4>1. CASE w \in Young
        <5>1. Strays' \subseteq Strays \cup {job[w].new}
          BY <1>1, <1>2, <2>1, <4>1 DEF Strays, Young, Taking
        <5> QED
          BY <5>1
      <4>2. CASE w \in Taking
        <5>1. Strays' \subseteq Strays \cup {job[w].tok}
          BY <1>1, <1>2, <2>1, <4>2 DEF Strays, Young, Taking
        <5> QED
          BY <5>1
      <4> QED
        BY <2>1, <2>4, <4>1, <4>2 DEF Owing, Young, Taking
    <3>3. Cardinality(Strays') <= Cardinality(Strays) + 1
      BY <1>3, <3>2, OneJoins
    <3> QED
      BY <1>0, <1>3, <2>1, <2>2, <3>1, <3>3, SessionAssumption DEF CountInv
  <2> QED
    BY <2>3, <2>4
<1> QED
  BY <1>4, <1>5, <1>6, <1>7

LEMMA CountInvInit == Init => CountInv
<1> SUFFICES ASSUME Init PROVE CountInv
  OBVIOUS
<1>1. Strays = {} /\ Tracked = {} /\ lost = 0 /\ Owing \subseteq Worker
  BY DEF Init, Strays, Good, InHand, Tracked, Owing, Idle, Job, NewSteps
<1>2. Cardinality(Owing) \in Nat
  BY <1>1, Finite
<1> QED
  BY <1>1, <1>2, FS_EmptySet, SessionAssumption DEF CountInv

LEMMA CountInvStep ==
  SessionInv /\ IssuedOnce /\ CountInv /\ [Next]_vars => IssuedOnce' /\ CountInv'
<1> SUFFICES ASSUME SessionInv, IssuedOnce, CountInv, [Next]_vars
             PROVE  IssuedOnce' /\ CountInv'
  OBVIOUS
<1>0. /\ job \in [Worker -> JobType] /\ now \in Nat /\ lost \in Nat
      /\ born \in [Token -> Nat]
  BY DEF SessionInv, TypeOK
<1>1. ASSUME NEW w \in Worker, NEW n \in Token, Login(w, n) PROVE IssuedOnce' /\ CountInv'
  <2>1. Issue(w, n) /\ job[w].at = "idle" /\ UNCHANGED <<now, held, sessions, dead, lost>>
    BY <1>1 DEF Login, Idle, Job, redis, history
  <2> QED
    BY <2>1, IssueCounts
<1>2. ASSUME NEW w \in Worker, Claim(w), ~(End(w) /\ UNCHANGED born)
      PROVE  IssuedOnce' /\ CountInv'
  <2>1. PICK n \in Token : Issue(w, n)
    BY <1>2 DEF Claim
  <2>2. job[w].at = "claim" /\ UNCHANGED <<now, held, sessions, dead, lost>>
    BY <1>2 DEF Claim, At
  <2> QED
    BY <2>1, <2>2, IssueCounts
<1>3. ASSUME NEW w \in Worker,
             \/ Deliver(w) \/ Purge(w) \/ Blacklist(w) \/ BlacklistOwn(w) \/ Decode(w)
             \/ Claim(w) /\ End(w) /\ UNCHANGED born
             \/ \E n \in Token : Refresh(w, n) \/ Look(w, n)
      PROVE  IssuedOnce' /\ CountInv'
  <2>1. IssuedOnce'
    BY <1>3, ActionsGoOn, GoodShrinks
  <2> QED
    BY <1>3, <2>1, QuietCounts
<1>4. ASSUME NEW w \in Worker,
             Add(w) \/ Count(w) \/ Oldest(w) \/ Remove(w) \/ TrackFails(w)
      PROVE  IssuedOnce' /\ CountInv'
  <2>1. IssuedOnce'
    BY <1>4, ActionsGoOn, GoodShrinks
  <2> QED
    BY <1>4, <2>1, BusyCounts
<1>5. ASSUME NEW w \in Worker, Crash(w) PROVE IssuedOnce' /\ CountInv'
  <2>1. IssuedOnce'
    BY <1>5, ActionsGoOn, GoodShrinks
  <2>2. lost' = lost \/ lost' = lost + 1
    BY <1>5 DEF Crash
  <2> QED
    BY <1>5, <2>1, <2>2, QuietCounts, BusyCounts
<1>6. CASE Tick \/ UNCHANGED vars
  <2>1. UNCHANGED <<born, held, sessions, job, dead, lost>> /\ now' >= now /\ now' \in Nat
    BY <1>0, <1>6 DEF Tick, vars, redis, history
  <2>2. IssuedOnce' /\ Tracked' = Tracked /\ Owing' = Owing
    BY <2>1 DEF IssuedOnce, Tracked, Owing
  <2>3. \A n \in Token : now' < AccessExp(n) => now < AccessExp(n)
    BY <1>0, <2>1, SessionAssumption DEF AccessExp
  <2>4. Good' \subseteq Good
    BY <2>1, <2>3 DEF Good, InHand, AccessExp
  <2>5. Strays' \subseteq Strays
    BY <2>1, <2>4 DEF Strays, Young, Taking
  <2> QED
    BY <2>1, <2>2, <2>5, LessIsFine
<1> QED
  BY <1>1, <1>2, <1>3, <1>4, <1>5, <1>6 DEF Next

\* As many tokens as workers, at most: a worker has one of each kind.
LEMMA OneEach ==
  ASSUME NEW f, NEW S \in SUBSET Worker,
         NEW T, T \subseteq {f[w] : w \in S}
  PROVE  IsFiniteSet(T) /\ Cardinality(T) <= Cardinality(S)
<1> DEFINE All == {f[w] : w \in S}
           g == [w \in S |-> f[w]]
<1>1. g \in Surjection(S, All)
  BY DEF Surjection
<1>2. IsFiniteSet(S) /\ Cardinality(S) \in Nat
  BY Finite
<1>3. IsFiniteSet(All) /\ Cardinality(All) <= Cardinality(S)
  BY <1>1, <1>2, FS_Surjection
<1>4. IsFiniteSet(T) /\ Cardinality(T) <= Cardinality(All)
  BY <1>3, FS_Subset
<1>5. Cardinality(T) \in Nat /\ Cardinality(All) \in Nat
  BY <1>3, <1>4, FS_CardinalityType
<1> QED
  BY <1>2, <1>3, <1>4, <1>5

\* The size of two sets together.
LEMMA Together ==
  ASSUME NEW S, NEW T, IsFiniteSet(S), IsFiniteSet(T)
  PROVE  /\ IsFiniteSet(S \cup T)
         /\ Cardinality(S \cup T) <= Cardinality(S) + Cardinality(T)
         /\ S \cap T = {} => Cardinality(S \cup T) = Cardinality(S) + Cardinality(T)
<1>1. /\ IsFiniteSet(S \cup T) /\ IsFiniteSet(S \cap T)
      /\ Cardinality(S \cup T) = Cardinality(S) + Cardinality(T) - Cardinality(S \cap T)
  BY FS_Union, FS_Intersection
<1>2. /\ Cardinality(S) \in Nat /\ Cardinality(T) \in Nat
      /\ Cardinality(S \cap T) \in Nat
  BY <1>1, FS_CardinalityType
<1>3. S \cap T = {} => Cardinality(S \cap T) = 0
  BY FS_EmptySet
<1>4. S \cap T = {} => Cardinality(S \cup T) = Cardinality(S) + Cardinality(T)
  BY <1>1, <1>2, <1>3
<1> QED
  BY <1>1, <1>2, <1>4

\* Workers that have yet to put a token on the blacklist, or are past it.
Sparing == {w \in Worker : job[w].at \in {"blacklist", "decode"}}

LEMMA CountedIsBounded ==
  ASSUME SessionInv, CountInv PROVE SessionsBounded
<1> DEFINE Busy == {w \in Worker : Tracking(w) \/ At(w, "decode")}
           New == {job[w].new : w \in Young}
           Tok == {job[w].tok : w \in Sparing}
<1>0. /\ job \in [Worker -> JobType] /\ lost \in Nat /\ held \subseteq Token
      /\ sessions \in [Token -> Nat]
  BY DEF SessionInv, TypeOK
<1>1. Live \subseteq Tracked \cup Strays \cup New \cup Tok
  <2>1. ASSUME NEW n \in Live, n \notin Tracked, n \notin New, n \notin Tok
        PROVE  n \in Strays
    <3>1. n \in held /\ n \in Token /\ now < AccessExp(n) /\ sessions[n] = 0
          /\ (Unlisted(n) \/ PastTheList(n) # {})
      BY <1>0, <2>1 DEF Live, Tracked
    <3>4. PastTheList(n) = {}
      BY <2>1 DEF PastTheList, Sparing, At
    <3>2. n \notin dead
      BY <3>1, <3>4, SessionAssumption DEF SessionInv, TypeOK, Gone, Unlisted, AccessExp
    <3>3. n \in Good
      BY <3>1, <3>2 DEF Good, InHand
    <3> QED
      BY <2>1, <3>1, <3>3 DEF Strays, Taking, Sparing
  <2> QED
    BY <2>1
<1>2. /\ IsFiniteSet(Tracked) /\ IsFiniteSet(Strays) /\ IsFiniteSet(Busy)
      /\ IsFiniteSet(Young) /\ IsFiniteSet(Owing) /\ IsFiniteSet(Sparing)
  BY Finite DEF Tracked, Strays, Good, Young, Owing, Sparing
<1>3. /\ IsFiniteSet(New) /\ Cardinality(New) <= Cardinality(Young)
      /\ IsFiniteSet(Tok) /\ Cardinality(Tok) <= Cardinality(Sparing)
  <2> DEFINE new == [w \in Worker |-> job[w].new]
             tok == [w \in Worker |-> job[w].tok]
  <2>1. Young \subseteq Worker /\ Sparing \subseteq Worker
    BY DEF Young, Sparing
  <2>2. New = {new[w] : w \in Young} /\ Tok = {tok[w] : w \in Sparing}
    BY <2>1
  <2> HIDE DEF new, tok, New, Tok
  <2>3. IsFiniteSet(New) /\ Cardinality(New) <= Cardinality(Young)
    BY <2>1, <2>2, OneEach
  <2>4. IsFiniteSet(Tok) /\ Cardinality(Tok) <= Cardinality(Sparing)
    BY <2>1, <2>2, OneEach
  <2> QED
    BY <2>3, <2>4
<1>4. Cardinality(Busy) = Cardinality(Young) + Cardinality(Owing) + Cardinality(Sparing)
  <2>1. Busy = (Young \cup Owing) \cup Sparing
    BY DEF Tracking, At, Young, Owing, Sparing
  <2>2. Young \cap Owing = {} /\ (Young \cup Owing) \cap Sparing = {}
    BY DEF Young, Owing, Sparing
  <2>3. /\ IsFiniteSet(Young \cup Owing)
        /\ Cardinality(Young \cup Owing) = Cardinality(Young) + Cardinality(Owing)
    BY <1>2, <2>2, Together
  <2>4. Cardinality((Young \cup Owing) \cup Sparing)
          = Cardinality(Young \cup Owing) + Cardinality(Sparing)
    BY <1>2, <2>2, <2>3, Together
  <2> QED
    BY <2>1, <2>3, <2>4
<1>5. Cardinality(Live)
        <= Cardinality(Tracked) + Cardinality(Strays) + Cardinality(New) + Cardinality(Tok)
  <2> HIDE DEF New, Tok
  <2>1. /\ IsFiniteSet(Tracked \cup Strays)
        /\ Cardinality(Tracked \cup Strays) <= Cardinality(Tracked) + Cardinality(Strays)
    BY <1>2, Together
  <2>2. /\ IsFiniteSet(Tracked \cup Strays \cup New)
        /\ Cardinality(Tracked \cup Strays \cup New)
             <= Cardinality(Tracked \cup Strays) + Cardinality(New)
    BY <1>3, <2>1, Together
  <2>3. /\ IsFiniteSet(Tracked \cup Strays \cup New \cup Tok)
        /\ Cardinality(Tracked \cup Strays \cup New \cup Tok)
             <= Cardinality(Tracked \cup Strays \cup New) + Cardinality(Tok)
    BY <1>3, <2>2, Together
  <2>4. Cardinality(Live) <= Cardinality(Tracked \cup Strays \cup New \cup Tok)
    BY <1>1, <2>3, FS_Subset
  <2>5. /\ Cardinality(Live) \in Nat /\ Cardinality(Tracked) \in Nat
        /\ Cardinality(Strays) \in Nat /\ Cardinality(New) \in Nat
        /\ Cardinality(Tok) \in Nat /\ Cardinality(Tracked \cup Strays) \in Nat
        /\ Cardinality(Tracked \cup Strays \cup New) \in Nat
        /\ Cardinality(Tracked \cup Strays \cup New \cup Tok) \in Nat
    BY <1>1, <1>2, <1>3, <2>1, <2>2, <2>3, FS_Subset, FS_CardinalityType
  <2> QED
    BY <2>1, <2>2, <2>3, <2>4, <2>5
<1>6. /\ Cardinality(Live) \in Nat /\ Cardinality(Tracked) \in Nat
      /\ Cardinality(Strays) \in Nat /\ Cardinality(New) \in Nat
      /\ Cardinality(Tok) \in Nat /\ Cardinality(Young) \in Nat
      /\ Cardinality(Owing) \in Nat /\ Cardinality(Sparing) \in Nat
  <2>1. Live \subseteq Token
    BY <1>0 DEF Live
  <2> QED
    BY <1>2, <1>3, <2>1, Finite, FS_CardinalityType
<1> HIDE DEF New, Tok
<1> QED
  BY <1>0, <1>3, <1>4, <1>5, <1>6, SessionAssumption DEF CountInv, SessionsBounded

\* However the trackings of many logins and refreshes interleave, and wherever
\* Redis fails or a worker dies in one, the administrator's live tokens exceed
\* the limit only by what trackings under way and lost ones owe
\* (AuthController.php:228-258).
THEOREM SessionsBoundedHolds == Spec => []SessionsBounded
<1>1. SessionInv /\ CountInv => SessionsBounded
  BY CountedIsBounded
<1> QED
  BY <1>1, SessionInvInit, SessionInvStep, IssuedOnceInit, CountInvInit, CountInvStep, PTL
     DEF Spec

-----------------------------------------------------------------------------
(* The limiters.                                                           *)

\* The instance counts as this module does.
LEMMA SameCount ==
  ASSUME NEW S
  PROVE  Limits!Cardinality(S) = Cardinality(S) /\ (Limits!IsFiniteSet(S) <=> IsFiniteSet(S))
<1>1. Limits!Cardinality(S) = Cardinality(S)
  BY Zenon DEF Limits!Cardinality, Cardinality
<1>2. Limits!IsFiniteSet(S) <=> IsFiniteSet(S)
  BY Zenon DEF Limits!IsFiniteSet, IsFiniteSet
<1> QED
  BY <1>1, <1>2

LEMMA LimitsAreNumbers ==
  ASSUME Limits!LimitAssumption
  PROVE  /\ Limit \in Nat \ {0} /\ Window \in Nat \ {0} /\ Slack \in Nat /\ MaxInstants \in Nat
         /\ MaxFaults \in Nat /\ MaxCalls \in Nat /\ Limits!Instant \subseteq Nat
         /\ IsFiniteSet(Worker) /\ Cardinality(Worker) \in Nat \ {0}
<1>1. Cardinality(Worker) \in Nat /\ Cardinality(Worker) # 0
  <2>1. IsFiniteSet(Worker) /\ Worker # {}
    BY SameCount DEF Limits!LimitAssumption
  <2> QED
    BY <2>1, FS_CardinalityType, FS_EmptySet
<1>2. IsFiniteSet(Worker)
  BY SameCount DEF Limits!LimitAssumption
<1> QED
  BY <1>1, <1>2 DEF Limits!LimitAssumption, Limits!Instant

\* The clock only goes on, and the histories only grow, one request at a time.
LEMMA HistoryGrows ==
  ASSUME Limits!LimitAssumption, Limits!TypeOK, [Limits!Next]_(Limits!vars)
  PROVE  /\ limiter' = limiter /\ clock <= clock'
         /\ \/ UNCHANGED <<passed, granted, refused>>
            \/ /\ passed' = Append(passed, clock) /\ granted' \in {granted, Append(granted, clock)}
               /\ UNCHANGED <<clock, refused>>
            \/ /\ UNCHANGED <<clock, passed, granted>>
               /\ \E came \in Limits!Instant : refused' = refused \cup {<<came, Len(passed)>>}
<1>1. /\ clock \in Limits!Instant /\ clock \in Int
      /\ \A w \in Worker : limitJob[w] # -1 => limitJob[w] \in Limits!Instant
  BY SMTT(30), LimitsAreNumbers DEF Limits!TypeOK, Limits!Instant
<1>2. CASE Limits!Tick
  BY <1>1, <1>2 DEF Limits!Tick, Limits!history
<1>3. CASE Limits!CheckRedis
  BY <1>1, <1>3 DEF Limits!CheckRedis, Limits!Answered, Limits!Pass, Limits!Refuse, Limits!Open
<1>4. CASE Limits!CheckMemory
  BY <1>1, <1>4 DEF Limits!CheckMemory, Limits!Answered, Limits!Pass, Limits!Refuse
<1>5. ASSUME NEW w \in Worker, Limits!Arrive(w) \/ Limits!Eval(w)
      PROVE  /\ limiter' = limiter /\ clock' = clock
             /\ \/ UNCHANGED <<passed, granted, refused>>
                \/ /\ passed' = Append(passed, clock)
                   /\ granted' \in {granted, Append(granted, clock)}
                   /\ UNCHANGED refused
                \/ /\ UNCHANGED <<passed, granted>>
                   /\ \E came \in Limits!Instant : refused' = refused \cup {<<came, Len(passed)>>}
  BY <1>1, <1>5
  DEF Limits!Arrive, Limits!Eval, Limits!Open, Limits!Pass, Limits!Refuse, Limits!history
<1>6. CASE UNCHANGED Limits!vars
  BY <1>1, <1>6 DEF Limits!vars, Limits!history
<1> QED
  BY <1>1, <1>2, <1>3, <1>4, <1>5, <1>6 DEF Limits!Next

\* What the most is, and when there is room, in terms of this module.
LEMMA Counted ==
  /\ Limits!Most = IF limiter = "log" THEN Limit + Cardinality(Worker) ELSE 2 * Limit - 1
  /\ \A entries : Limits!HasRoom(entries) <=> Cardinality(entries) < Limit
<1>1. Limits!Most = IF limiter = "log" THEN Limit + Cardinality(Worker) ELSE 2 * Limit - 1
  BY SameCount DEF Limits!Most
<1>2. ASSUME NEW entries PROVE Limits!HasRoom(entries) <=> Cardinality(entries) < Limit
  BY SameCount DEF Limits!HasRoom
<1> QED
  BY <1>1, <1>2

LEMMA LimitTypeKeeps ==
  ASSUME Limits!LimitAssumption, Limits!TypeOK, [Limits!Next]_(Limits!vars)
  PROVE  Limits!TypeOK'
<1>1. /\ limiter \in Limits!Limiter /\ clock \in Limits!Instant
      /\ count \in Nat /\ ttl \in 0..(Window + Slack)
      /\ start \in 0..clock /\ swept \in 0..clock
      /\ log \in SUBSET [score : Limits!Instant, no : Nat] /\ limitJob \in [Worker -> -1..clock]
      /\ calls \in 0..MaxCalls /\ limitFaults \in 0..MaxFaults
      /\ passed \in Seq(Limits!Instant) /\ granted \in Seq(Limits!Instant)
      /\ refused \in SUBSET (Limits!Instant \X Nat)
  BY DEF Limits!TypeOK
<1>2. /\ Limit \in Nat \ {0} /\ Window \in Nat \ {0} /\ Slack \in Nat /\ MaxInstants \in Nat
      /\ MaxFaults \in Nat /\ MaxCalls \in Nat /\ Limits!Instant \subseteq Nat
  BY LimitsAreNumbers
<1>3. /\ passed' \in Seq(Limits!Instant) /\ granted' \in Seq(Limits!Instant)
      /\ refused' \in SUBSET (Limits!Instant \X Nat)
  <2>1. /\ Append(passed, clock) \in Seq(Limits!Instant) /\ Len(passed) \in Nat
        /\ Append(granted, clock) \in Seq(Limits!Instant)
    BY <1>1
  <2>2. ASSUME NEW came \in Limits!Instant, refused' = refused \cup {<<came, Len(passed)>>}
        PROVE  refused' \in SUBSET (Limits!Instant \X Nat)
    BY <1>1, <2>1, <2>2
  <2> QED
    BY <1>1, <2>1, <2>2, HistoryGrows
<1>4. limiter' \in Limits!Limiter
  BY <1>1, HistoryGrows
<1>5. ASSUME Limits!Works \/ Limits!Fails \/ Limits!Open PROVE limitFaults' \in 0..MaxFaults
  BY <1>1, <1>2, <1>5 DEF Limits!Works, Limits!Fails, Limits!Open
<1>6. ASSUME Limits!Call PROVE calls' \in 0..MaxCalls
  BY <1>1, <1>2, <1>6 DEF Limits!Call
<1>7. CASE Limits!Tick
  <2>1. /\ clock' \in Limits!Instant /\ clock' = clock + 1
        /\ UNCHANGED <<start, swept, limitJob, calls, limitFaults>>
    BY <1>1, <1>2, <1>7 DEF Limits!Tick, Limits!Instant
  <2>2. /\ ttl' \in 0..(Window + Slack) /\ count' \in Nat
        /\ log' \in SUBSET [score : Limits!Instant, no : Nat]
    BY <1>1, <1>2, <1>7 DEF Limits!Tick
  <2>3. start' \in 0..clock' /\ swept' \in 0..clock' /\ limitJob' \in [Worker -> -1..clock']
    BY <1>1, <1>2, <2>1
  <2> QED
    BY <1>1, <1>3, <1>4, <2>1, <2>2, <2>3 DEF Limits!TypeOK
<1>8. CASE Limits!CheckRedis
  <2>1. /\ count' \in Nat /\ ttl' \in 0..(Window + Slack)
        /\ UNCHANGED <<clock, start, swept, log, limitJob>>
    BY <1>1, <1>2, <1>8 DEF Limits!CheckRedis, Limits!Incr, Limits!Dropped
  <2> QED
    BY <1>1, <1>3, <1>4, <1>5, <1>6, <1>8, <2>1 DEF Limits!TypeOK, Limits!CheckRedis
<1>9. CASE Limits!CheckMemory
  <2>1. /\ count' \in Nat /\ start' \in 0..clock /\ swept' \in 0..clock
        /\ UNCHANGED <<clock, ttl, log, limitJob, limitFaults>>
    BY <1>1, <1>2, <1>9 DEF Limits!CheckMemory, Limits!Counted, Limits!Begun
  <2> QED
    BY <1>1, <1>3, <1>4, <1>6, <1>9, <2>1 DEF Limits!TypeOK, Limits!CheckMemory
<1>10. ASSUME NEW w \in Worker, Limits!Arrive(w) PROVE Limits!TypeOK'
  <2>1. /\ limitJob' \in [Worker -> -1..clock]
        /\ UNCHANGED <<clock, count, ttl, start, swept, log, limitFaults>>
    BY <1>1, <1>2, <1>10 DEF Limits!Arrive, Limits!fixed
  <2> QED
    BY <1>1, <1>3, <1>4, <1>6, <1>10, <2>1 DEF Limits!TypeOK, Limits!Arrive
<1>11. ASSUME NEW w \in Worker, Limits!Eval(w) PROVE Limits!TypeOK'
  <2>1. limitJob' \in [Worker -> -1..clock] /\ UNCHANGED <<clock, count, start, swept, calls>>
    BY <1>1, <1>2, <1>11 DEF Limits!Eval
  <2>2. limitFaults' \in 0..MaxFaults
    BY <1>5, <1>11 DEF Limits!Eval
  <2>3. /\ limitJob[w] \in Limits!Instant
        /\ Limits!Member(limitJob[w]) \in [score : Limits!Instant, no : Nat]
    BY <1>1, <1>2, <1>11 DEF Limits!Eval, Limits!Member, Limits!Instant
  <2>4. log' \in SUBSET [score : Limits!Instant, no : Nat] /\ ttl' \in 0..(Window + Slack)
    BY <1>1, <1>2, <1>11, <2>3 DEF Limits!Eval, Limits!Script, Limits!Trimmed
  <2> QED
    BY <1>1, <1>3, <1>4, <2>1, <2>2, <2>4 DEF Limits!TypeOK
<1>12. CASE UNCHANGED Limits!vars
  BY <1>1, <1>12 DEF Limits!TypeOK, Limits!vars, Limits!fixed, Limits!history
<1> QED
  BY <1>7, <1>8, <1>9, <1>10, <1>11, <1>12 DEF Limits!Next

Ordered(q) == \A i, j \in DOMAIN q : i <= j => q[i] <= q[j]

HistoryInv ==
  /\ Ordered(passed) /\ Ordered(granted)
  /\ \A k \in DOMAIN passed : passed[k] <= clock
  /\ \A k \in DOMAIN granted : granted[k] <= clock
  /\ \A r \in refused : r[2] <= Len(passed)

LEMMA AppendedIsOrdered ==
  ASSUME NEW q \in Seq(Nat), NEW t \in Nat, Ordered(q), \A k \in DOMAIN q : q[k] <= t
  PROVE  Ordered(Append(q, t)) /\ \A k \in DOMAIN Append(q, t) : Append(q, t)[k] <= t
<1>1. \A k \in DOMAIN Append(q, t) : Append(q, t)[k] <= t
  OBVIOUS
<1>2. ASSUME NEW i \in DOMAIN Append(q, t), NEW j \in DOMAIN Append(q, t), i <= j
      PROVE  Append(q, t)[i] <= Append(q, t)[j]
  <2>1. CASE j = Len(q) + 1
    BY <1>1, <2>1
  <2>2. CASE j # Len(q) + 1
    BY <1>2, <2>2 DEF Ordered
  <2> QED
    BY <2>1, <2>2
<1> QED
  BY <1>1, <1>2 DEF Ordered

LEMMA HistoryTypes ==
  ASSUME Limits!LimitAssumption, Limits!TypeOK
  PROVE  /\ clock \in Nat /\ passed \in Seq(Nat) /\ granted \in Seq(Nat)
         /\ refused \in SUBSET (Limits!Instant \X Nat) /\ Limits!Instant \subseteq Nat
<1>1. Limits!Instant \subseteq Nat
  BY LimitsAreNumbers
<1>2. /\ clock \in Limits!Instant /\ passed \in Seq(Limits!Instant)
      /\ granted \in Seq(Limits!Instant)
      /\ refused \in SUBSET (Limits!Instant \X Nat)
  BY DEF Limits!TypeOK
<1>3. ASSUME NEW q \in Seq(Limits!Instant) PROVE q \in Seq(Nat)
  BY LimitsAreNumbers, <1>3 DEF Limits!Instant
<1> QED
  BY <1>1, <1>2, <1>3

LEMMA HistoryKeeps ==
  ASSUME Limits!LimitAssumption, Limits!TypeOK, HistoryInv,
         [Limits!Next]_(Limits!vars)
  PROVE  HistoryInv'
<1>1. /\ clock \in Nat /\ clock' \in Nat /\ clock <= clock'
      /\ passed \in Seq(Nat) /\ granted \in Seq(Nat) /\ refused \in SUBSET (Limits!Instant \X Nat)
  <2>1. clock' \in Limits!Instant
    BY LimitTypeKeeps DEF Limits!TypeOK
  <2> QED
    BY <2>1, HistoryTypes, HistoryGrows
<1>2. /\ Ordered(Append(passed, clock)) /\ Ordered(Append(granted, clock))
      /\ \A k \in DOMAIN Append(passed, clock) : Append(passed, clock)[k] <= clock
      /\ \A k \in DOMAIN Append(granted, clock) : Append(granted, clock)[k] <= clock
  BY <1>1, AppendedIsOrdered DEF HistoryInv
<1>3. Len(Append(passed, clock)) = Len(passed) + 1 /\ Len(passed) \in Nat
  BY <1>1
<1>4. CASE UNCHANGED <<passed, granted, refused>>
  BY <1>1, <1>4 DEF HistoryInv
<1>5. CASE /\ passed' = Append(passed, clock) /\ granted' \in {granted, Append(granted, clock)}
           /\ UNCHANGED <<clock, refused>>
  <2>1. \A r \in refused' : r[2] <= Len(passed')
    BY <1>1, <1>3, <1>5 DEF HistoryInv
  <2>2. Ordered(granted') /\ \A k \in DOMAIN granted' : granted'[k] <= clock
    BY <1>2, <1>5 DEF HistoryInv
  <2>3. Ordered(passed') /\ \A k \in DOMAIN passed' : passed'[k] <= clock
    BY <1>2, <1>5
  <2> QED
    BY <1>5, <2>1, <2>2, <2>3 DEF HistoryInv, Ordered
<1>6. CASE /\ UNCHANGED <<clock, passed, granted>>
           /\ \E came \in Limits!Instant : refused' = refused \cup {<<came, Len(passed)>>}
  BY <1>3, <1>6 DEF HistoryInv, Ordered
<1> QED
  BY <1>4, <1>5, <1>6, HistoryGrows

\* What was refused stays refused for a reason, since what had passed then is
\* not forgotten: a step need only answer for what it refuses.
LEMMA FewKeeps ==
  ASSUME Limits!LimitAssumption, Limits!TypeOK, HistoryInv, Limits!NeverTooFew,
         [Limits!Next]_(Limits!vars),
         \A came \in Limits!Instant : refused' = refused \cup {<<came, Len(passed)>>} =>
           <<came, Len(passed)>> \in refused
           \/ (Len(passed) >= Limit /\ passed[Len(passed) - Limit + 1] >= came - Limits!Reach)
  PROVE  Limits!NeverTooFew'
<1>1. /\ passed \in Seq(Nat) /\ refused \in SUBSET (Limits!Instant \X Nat) /\ Limit \in Nat \ {0}
      /\ limiter' = limiter /\ Limits!Instant \subseteq Nat /\ clock \in Nat
  BY LimitsAreNumbers, HistoryGrows, HistoryTypes
<1>2. Limits!Reach' = Limits!Reach
  BY <1>1 DEF Limits!Reach
<1>3. \A r \in refused : /\ r[2] \in Nat /\ r[2] <= Len(passed)
                         /\ r[2] >= Limit /\ passed[r[2] - Limit + 1] >= r[1] - Limits!Reach
  BY <1>1 DEF HistoryInv, Limits!NeverTooFew
<1>4. CASE UNCHANGED <<passed, granted, refused>>
  BY <1>2, <1>3, <1>4 DEF Limits!NeverTooFew
<1>5. CASE passed' = Append(passed, clock) /\ UNCHANGED refused
  <2>1. \A r \in refused : passed'[r[2] - Limit + 1] = passed[r[2] - Limit + 1]
    BY <1>1, <1>3, <1>5
  <2> QED
    BY <1>2, <1>3, <1>5, <2>1 DEF Limits!NeverTooFew
<1>6. CASE /\ UNCHANGED <<clock, passed, granted>>
           /\ \E came \in Limits!Instant : refused' = refused \cup {<<came, Len(passed)>>}
  <2>1. PICK came \in Limits!Instant : refused' = refused \cup {<<came, Len(passed)>>}
    BY <1>6
  <2>2. <<came, Len(passed)>>[1] = came /\ <<came, Len(passed)>>[2] = Len(passed)
    OBVIOUS
  <2>3. \A r \in refused' : r \in refused \/ r = <<came, Len(passed)>>
    BY <2>1
  <2>4. \/ \A r \in refused' : r \in refused
        \/ (Len(passed) >= Limit /\ passed[Len(passed) - Limit + 1] >= came - Limits!Reach)
    BY <2>1, <2>3
  <2> QED
    BY <1>2, <1>3, <1>6, <2>2, <2>3, <2>4 DEF Limits!NeverTooFew
<1> QED
  BY <1>4, <1>5, <1>6, HistoryGrows

\* A step need only answer for the request that it grants.
LEMMA ManyKeeps ==
  ASSUME Limits!LimitAssumption, Limits!TypeOK, Limits!NeverTooMany, [Limits!Next]_(Limits!vars),
         granted' = Append(granted, clock) =>
           \A k \in DOMAIN granted :
             Len(granted) + 1 - k >= Limits!Most => clock - granted[k] >= Window
  PROVE  Limits!NeverTooMany'
<1>1. /\ granted \in Seq(Nat) /\ clock \in Nat /\ limiter' = limiter
      /\ granted' \in {granted, Append(granted, clock)}
  BY HistoryTypes, HistoryGrows
<1>2. Limits!Most' = Limits!Most /\ Limits!Most \in Nat \ {0}
  <2>1. Limits!Most' = Limits!Most
    BY <1>1 DEF Limits!Most
  <2> QED
    BY SMTT(30), <2>1, Counted, LimitsAreNumbers
<1>3. CASE granted' = granted
  BY <1>2, <1>3 DEF Limits!NeverTooMany
<1>4. CASE granted' = Append(granted, clock)
  <2>1. SUFFICES ASSUME NEW i \in DOMAIN granted', NEW j \in DOMAIN granted', j - i >= Limits!Most
                 PROVE  granted'[j] - granted'[i] >= Window
    BY <1>2 DEF Limits!NeverTooMany
  <2>2. /\ i \in DOMAIN granted /\ granted'[i] = granted[i]
        /\ j = Len(granted) + 1 => granted'[j] = clock
        /\ j # Len(granted) + 1 => j \in DOMAIN granted /\ granted'[j] = granted[j]
    BY <1>1, <1>2, <1>4, <2>1
  <2> QED
    BY <1>4, <2>1, <2>2 DEF Limits!NeverTooMany
<1> QED
  BY <1>1, <1>3, <1>4

-----------------------------------------------------------------------------
(* The counters.                                                           *)

\* When the counter began.
Since == IF limiter = "redis" THEN clock + ttl - Window ELSE start

\* How many it let through, at least.
Full == IF count <= Limit THEN count ELSE Limit

\* How many were granted after the k-th.
After(k) == Len(granted) - k

\* As many requests as were counted, up to the limit, have passed since the
\* counter began.
Passes ==
  count > 0 =>
    /\ Full <= Len(passed)
    /\ \A k \in DOMAIN passed : k > Len(passed) - Full => passed[k] >= Since

\* The k-th grant is a window ago; or the limit was not reached after it before
\* its counter went, and after that came what is counted now; or it is itself
\* among those counted now.
Dated(k) ==
  \/ granted[k] + Window <= clock
  \/ count = 0 /\ granted[k] < clock /\ After(k) <= Limit - 2
  \/ count > 0 /\ granted[k] < Since /\ After(k) <= Limit - 2 + Full
  \/ /\ count > 0 /\ granted[k] >= Since /\ After(k) <= Full - 1
     /\ granted[k] = Since \/ After(k) <= Full - 2

Grants == \A k \in DOMAIN granted : Dated(k)

Counting(counter) ==
  /\ limiter = counter /\ clock \in Nat /\ ttl \in Nat /\ start \in Nat /\ count \in Nat
  /\ Since \in Int /\ Full \in Nat /\ Full <= Limit
  /\ passed \in Seq(Nat) /\ granted \in Seq(Nat)
  /\ Limit \in Nat \ {0} /\ Window \in Nat \ {0}
  /\ \A k \in DOMAIN passed : passed[k] <= clock
  /\ \A k \in DOMAIN granted : granted[k] <= clock
  /\ Passes /\ Grants

\* One more is counted by a counter that there is.
LEMMA CountsOn ==
  ASSUME NEW counter, Counting(counter), count > 0, count' = count + 1,
         UNCHANGED <<clock, Since>>, Since <= clock,
         \/ /\ count' <= Limit /\ passed' = Append(passed, clock)
            /\ granted' \in {granted, Append(granted, clock)}
         \/ count' > Limit /\ passed' \in {passed, Append(passed, clock)} /\ UNCHANGED granted
  PROVE  /\ Passes' /\ Grants'
         /\ granted' = Append(granted, clock) =>
              \A k \in DOMAIN granted :
                Len(granted) + 1 - k >= 2 * Limit - 1 => clock - granted[k] >= Window
<1>1. /\ clock \in Nat /\ count \in Nat /\ Since \in Int /\ Limit \in Nat \ {0}
      /\ Window \in Nat \ {0}
      /\ passed \in Seq(Nat) /\ granted \in Seq(Nat)
      /\ \A k \in DOMAIN granted : granted[k] \in Nat /\ granted[k] <= clock
      /\ Len(granted) \in Nat /\ Len(passed) \in Nat
  BY DEF Counting
<1>2. /\ Full' = (IF count < Limit THEN Full + 1 ELSE Full) /\ Full \in Nat /\ Full \in 1..Limit
      /\ count < Limit => Full = count
  BY <1>1 DEF Full
<1>3. /\ Full <= Len(passed)
      /\ \A k \in DOMAIN passed : k > Len(passed) - Full => passed[k] >= Since
      /\ \A k \in DOMAIN granted : Dated(k)
  BY DEF Counting, Passes, Grants
<1>4. count' > 0 /\ Since' = Since /\ clock' = clock
  BY <1>1
<1>5. Passes'
  <2>1. CASE passed' = passed /\ Full' = Full
    BY <1>3, <1>4, <2>1 DEF Passes
  <2>2. CASE passed' = Append(passed, clock)
    <3>1. Full' <= Len(passed')
      BY <1>1, <1>2, <1>3, <2>2
    <3>2. ASSUME NEW k \in DOMAIN passed', k > Len(passed') - Full' PROVE passed'[k] >= Since
      <4>1. CASE k = Len(passed) + 1
        BY <1>1, <2>2, <4>1
      <4>2. CASE k # Len(passed) + 1
        <5>1. k \in DOMAIN passed /\ passed'[k] = passed[k] /\ Len(passed') = Len(passed) + 1
          BY <1>1, <2>2, <3>2, <4>2
        <5> QED
          BY <1>1, <1>2, <1>3, <3>2, <5>1
      <4> QED
        BY <4>1, <4>2
    <3> QED
      BY <1>4, <3>1, <3>2 DEF Passes
  <2>3. passed' = Append(passed, clock) \/ (passed' = passed /\ Full' = Full)
    BY <1>1, <1>2
  <2> QED
    BY <2>1, <2>2, <2>3
<1>6. ASSUME NEW k \in DOMAIN granted, granted'[k] = granted[k],
             \/ After(k)' = After(k) /\ Full <= Full'
             \/ After(k)' = After(k) + 1 /\ Full' = Full + 1
      PROVE  Dated(k)'
  <2>1. After(k) \in Int /\ granted[k] \in Nat /\ Full' \in Nat
    BY <1>1, <1>2 DEF After
  <2>2. CASE granted[k] + Window <= clock
    BY <1>4, <1>6, <2>2 DEF Dated
  <2>3. CASE granted[k] < Since /\ After(k) <= Limit - 2 + Full
    <3>1. After(k)' <= Limit - 2 + Full'
      BY <1>1, <1>2, <1>6, <2>1, <2>3
    <3> QED
      BY <1>4, <1>6, <2>3, <3>1 DEF Dated
  <2>4. CASE /\ granted[k] >= Since /\ After(k) <= Full - 1
             /\ granted[k] = Since \/ After(k) <= Full - 2
    <3>1. After(k)' <= Full' - 1 /\ (granted[k] = Since \/ After(k)' <= Full' - 2)
      BY <1>1, <1>2, <1>6, <2>1, <2>4
    <3> QED
      BY <1>4, <1>6, <2>4, <3>1 DEF Dated
  <2> QED
    BY <1>1, <1>3, <2>2, <2>3, <2>4 DEF Dated
<1>7. Grants'
  <2>1. CASE granted' = granted
    <3>1. \A k \in DOMAIN granted : After(k)' = After(k)
      BY <2>1 DEF After
    <3> QED
      BY <1>1, <1>2, <1>6, <2>1, <3>1 DEF Grants
  <2>2. CASE granted' = Append(granted, clock) /\ count < Limit
    <3>1. ASSUME NEW k \in DOMAIN granted' PROVE Dated(k)'
      <4>1. Len(granted') = Len(granted) + 1
        BY <1>1, <2>2
      <4>2. CASE k = Len(granted) + 1
        <5>1. granted'[k] = clock /\ After(k)' = 0
          BY <1>1, <2>2, <4>1, <4>2 DEF After
        <5>2. Full' - 2 >= 0 /\ clock >= Since
          BY <1>1, <1>2, <2>2
        <5> QED
          BY <1>1, <1>2, <1>4, <5>1, <5>2 DEF Dated
      <4>3. CASE k # Len(granted) + 1
        <5>1. k \in DOMAIN granted /\ granted'[k] = granted[k]
          BY <1>1, <2>2, <3>1, <4>3
        <5>2. After(k)' = After(k) + 1
          BY <1>1, <4>1, <5>1 DEF After
        <5> QED
          BY <1>2, <1>6, <2>2, <5>1, <5>2
      <4> QED
        BY <4>2, <4>3
    <3> QED
      BY <3>1 DEF Grants
  <2> QED
    BY <1>1, <2>1, <2>2
<1>8. ASSUME granted' = Append(granted, clock), NEW k \in DOMAIN granted,
             Len(granted) + 1 - k >= 2 * Limit - 1
      PROVE  clock - granted[k] >= Window
  <2>1. granted' # granted
    <3>1. Len(granted') = Len(granted) + 1
      BY <1>1, <1>8
    <3> QED
      BY <1>1, <3>1
  <2>2. count < Limit /\ After(k) + 1 >= 2 * Limit - 1 /\ After(k) \in Int /\ granted[k] \in Nat
    BY <1>1, <1>8, <2>1 DEF After
  <2>3. Full <= Limit - 1
    BY <1>1, <1>2, <2>2
  <2>4. After(k) >= 2 * Limit - 2 /\ After(k) > Full - 1
    BY <1>1, <1>2, <2>2, <2>3
  <2>5. ~(After(k) <= Limit - 2 + Full)
    BY <1>1, <1>2, <2>2, <2>3, <2>4
  <2>6. granted[k] + Window <= clock
    <3>1. ~(After(k) <= Full - 1)
      BY <1>2, <2>2, <2>4
    <3> QED
      BY <1>1, <1>3, <2>5, <3>1 DEF Dated
  <2> QED
    BY <1>1, <2>2, <2>6
<1> QED
  BY <1>5, <1>7, <1>8

\* A counter begins: those granted before are a window ago, or fewer than the
\* limit by two were granted after them.
LEMMA CountsAnew ==
  ASSUME NEW counter, Counting(counter), count' = 1, clock' = clock, Since' = clock,
         passed' = Append(passed, clock), granted' \in {granted, Append(granted, clock)},
         \A k \in DOMAIN granted :
           granted[k] + Window <= clock \/ (granted[k] < clock /\ After(k) <= Limit - 2)
  PROVE  /\ Passes' /\ Grants'
         /\ granted' = Append(granted, clock) =>
              \A k \in DOMAIN granted :
                Len(granted) + 1 - k >= 2 * Limit - 1 => clock - granted[k] >= Window
<1>1. /\ clock \in Nat /\ Limit \in Nat \ {0} /\ Window \in Nat \ {0}
      /\ passed \in Seq(Nat) /\ granted \in Seq(Nat)
      /\ Len(granted) \in Nat /\ Len(passed) \in Nat
      /\ \A k \in DOMAIN granted : granted[k] \in Nat
  BY DEF Counting
<1>2. Full' = 1
  BY <1>1 DEF Full
<1>3. Passes'
  BY <1>1, <1>2 DEF Passes
<1>4. ASSUME NEW k \in DOMAIN granted' PROVE Dated(k)'
  <2>1. CASE k \in DOMAIN granted
    <3>1. granted'[k] = granted[k] /\ Len(granted') \in {Len(granted), Len(granted) + 1}
      <4>1. CASE granted' = granted
        BY <4>1
      <4>2. CASE granted' = Append(granted, clock)
        BY <1>1, <2>1, <4>2
      <4> QED
        BY <4>1, <4>2
    <3>2. After(k) \in Int /\ (After(k)' = After(k) \/ After(k)' = After(k) + 1)
      BY SMTT(30), <1>1, <2>1, <3>1 DEF After
    <3>3. granted[k] + Window <= clock \/ (granted[k] < clock /\ After(k)' <= Limit - 1)
      BY <1>1, <2>1, <3>2
    <3> QED
      BY <1>1, <1>2, <2>1, <3>1, <3>3 DEF Dated
  <2>2. CASE k \notin DOMAIN granted
    <3>1. granted'[k] = clock /\ After(k)' = 0
      BY <1>1, <1>4, <2>2 DEF After
    <3> QED
      BY <1>1, <1>2, <3>1 DEF Dated
  <2> QED
    BY <2>1, <2>2
<1>5. ASSUME NEW k \in DOMAIN granted, Len(granted) + 1 - k >= 2 * Limit - 1
      PROVE  clock - granted[k] >= Window
  <2>1. ~(After(k) <= Limit - 2) /\ granted[k] \in Nat
    BY <1>1, <1>5 DEF After
  <2> QED
    BY <1>1, <1>5, <2>1
<1> QED
  BY <1>3, <1>4, <1>5 DEF Grants

CounterInv ==
  /\ limiter = "redis" => (count > 0 <=> ttl > 0) /\ ttl <= Window
  /\ limiter = "memory" => /\ ttl = 0 /\ (count = 0 => granted = <<>>)
                           /\ \A k \in DOMAIN granted : granted[k] <= start + Window
  /\ limiter # "log" => Passes /\ Grants

LEMMA CountingHolds ==
  ASSUME Limits!LimitAssumption, Limits!TypeOK, HistoryInv, CounterInv, limiter # "log"
  PROVE  Counting(limiter) /\ Since <= clock /\ Limits!Most = 2 * Limit - 1
<1>1. /\ clock \in Nat /\ ttl \in Nat /\ start \in Nat /\ start <= clock /\ count \in Nat
      /\ limiter \in {"redis", "memory"} /\ Limit \in Nat \ {0} /\ Window \in Nat \ {0}
      /\ passed \in Seq(Nat) /\ granted \in Seq(Nat)
  BY SMTT(30), LimitsAreNumbers, HistoryTypes DEF Limits!TypeOK, Limits!Limiter
<1>2. Since \in Int /\ Since <= clock
  BY <1>1 DEF Since, CounterInv
<1>3. Full \in Nat /\ Full <= Limit
  BY <1>1 DEF Full
<1> QED
  BY <1>1, <1>2, <1>3 DEF Counting, CounterInv, HistoryInv, Limits!Most

\* A counter refuses when it has counted as many as the limit allows.
LEMMA CounterRefuses ==
  ASSUME NEW counter, Counting(counter), count >= Limit, clock - Since <= Limits!Reach,
         Limits!Reach \in Nat
  PROVE  Len(passed) >= Limit /\ passed[Len(passed) - Limit + 1] >= clock - Limits!Reach
<1>1. /\ count > 0 /\ Full = Limit /\ Limit \in Nat \ {0} /\ Len(passed) \in Nat
      /\ passed \in Seq(Nat) /\ clock \in Nat /\ Since \in Int
  BY DEF Counting, Full
<1>2. Full <= Len(passed) /\ \A k \in DOMAIN passed : k > Len(passed) - Full => passed[k] >= Since
  BY <1>1 DEF Counting, Passes
<1>3. Len(passed) - Limit + 1 \in DOMAIN passed
  BY <1>1, <1>2
<1>4. passed[Len(passed) - Limit + 1] >= Since /\ passed[Len(passed) - Limit + 1] \in Nat
  BY <1>1, <1>2, <1>3
<1> QED
  BY <1>1, <1>2, <1>4

\* What a step shows of the counters.
CountersKeep == CounterInv' /\ Limits!NeverTooMany' /\ Limits!NeverTooFew'

LEMMA RedisKeeps ==
  ASSUME Limits!LimitAssumption, Limits!TypeOK, HistoryInv, CounterInv, Limits!NeverTooMany,
         Limits!NeverTooFew,
         [Limits!Next]_(Limits!vars), Limits!CheckRedis
  PROVE  CountersKeep
<1>1. /\ Counting("redis") /\ Since <= clock /\ Limits!Most = 2 * Limit - 1 /\ limiter = "redis"
      /\ limiter' = limiter /\ Since = clock + ttl - Window
  BY CountingHolds, HistoryGrows DEF Limits!CheckRedis, Since
<1>2. /\ count \in Nat /\ ttl \in Nat /\ ttl <= Window /\ (count > 0 <=> ttl > 0)
      /\ clock \in Nat /\ Window \in Nat \ {0} /\ Limit \in Nat \ {0}
      /\ passed \in Seq(Nat) /\ granted \in Seq(Nat)
  BY <1>1 DEF Counting, CounterInv
<1>3. UNCHANGED <<limiter, clock>> /\ Since' = clock + ttl' - Window
  BY <1>1 DEF Limits!CheckRedis, Since
<1>4. ASSUME Passes', Grants', (count' > 0 <=> ttl' > 0) /\ ttl' <= Window,
             granted' = Append(granted, clock) =>
               \A k \in DOMAIN granted :
                 Len(granted) + 1 - k >= 2 * Limit - 1 => clock - granted[k] >= Window
      PROVE  CounterInv' /\ Limits!NeverTooMany'
  <2>1. Limits!NeverTooMany'
    BY <1>1, <1>4, ManyKeeps
  <2> QED
    BY <1>1, <1>4, <2>1 DEF CounterInv
<1>5. ASSUME UNCHANGED <<count, ttl>> /\ Limits!Open PROVE CounterInv' /\ Limits!NeverTooMany'
  <2>1. UNCHANGED <<Since, Full>> /\ granted' = granted /\ passed' = Append(passed, clock)
    BY <1>1, <1>3, <1>5 DEF Full, Limits!Open
  <2>2. Grants'
    BY <1>1, <1>3, <1>5, <2>1 DEF Counting, Grants, Dated, After
  <2>3. Passes'
    <3>1. SUFFICES ASSUME count > 0 PROVE Passes'
      BY <1>5 DEF Passes
    <3>2. Full <= Len(passed) /\ \A k \in DOMAIN passed : k > Len(passed) - Full => passed[k] >= Since
      BY <1>1, <3>1 DEF Counting, Passes
    <3>3. ASSUME NEW k \in DOMAIN passed', k > Len(passed') - Full PROVE passed'[k] >= Since
      BY <1>1, <1>2, <2>1, <3>2, <3>3 DEF Counting
    <3>4. Full <= Len(passed')
      BY <1>1, <1>2, <2>1, <3>2 DEF Counting
    <3> QED
      BY <2>1, <3>3, <3>4 DEF Passes
  <2>4. granted' # Append(granted, clock)
    BY <1>2, <2>1
  <2> QED
    BY <1>2, <1>4, <1>5, <2>2, <2>3, <2>4
<1>6. ASSUME count = 0 /\ count' = Limits!Dropped(1) /\ UNCHANGED ttl /\ Limits!Open
      PROVE  CounterInv' /\ Limits!NeverTooMany'
  <2>1. count' = 0 /\ count = 0 /\ granted' = granted
    BY <1>6 DEF Limits!Dropped, Limits!Open
  <2>2. Grants'
    BY <1>1, <1>3, <2>1 DEF Counting, Grants, Dated, After
  <2>3. Passes'
    BY <2>1 DEF Passes
  <2>4. granted' # Append(granted, clock)
    BY <1>2, <2>1
  <2> QED
    BY <1>2, <1>4, <1>6, <2>1, <2>2, <2>3, <2>4
<1>7. ASSUME Limits!Incr,
             \/ /\ count + 1 <= Limit /\ passed' = Append(passed, clock)
                /\ granted' \in {granted, Append(granted, clock)}
             \/ count + 1 > Limit /\ passed' \in {passed, Append(passed, clock)} /\ UNCHANGED granted
      PROVE  CounterInv' /\ Limits!NeverTooMany'
  <2>1. CASE count > 0
    <3>1. count' = count + 1 /\ ttl' = ttl /\ UNCHANGED Since
      BY <1>1, <1>3, <1>7, <2>1 DEF Limits!Incr
    <3>2. (count' > 0 <=> ttl' > 0) /\ ttl' <= Window
      BY <1>2, <2>1, <3>1
    <3> QED
      BY <1>1, <1>3, <1>4, <1>7, <2>1, <3>1, <3>2, CountsOn
  <2>2. CASE count = 0
    <3>1. count' = 1 /\ ttl' = Window /\ Since' = clock /\ count + 1 <= Limit
      BY <1>2, <1>3, <1>7, <2>2 DEF Limits!Incr
    <3>2. \A k \in DOMAIN granted :
            granted[k] + Window <= clock \/ (granted[k] < clock /\ After(k) <= Limit - 2)
      BY <1>1, <2>2 DEF Counting, Grants, Dated
    <3>3. passed' = Append(passed, clock) /\ granted' \in {granted, Append(granted, clock)}
      BY <1>2, <1>7, <3>1
    <3>4. /\ Passes' /\ Grants'
          /\ granted' = Append(granted, clock) =>
               \A k \in DOMAIN granted :
                 Len(granted) + 1 - k >= 2 * Limit - 1 => clock - granted[k] >= Window
      BY <1>1, <1>3, <3>1, <3>2, <3>3, CountsAnew
    <3>5. (count' > 0 <=> ttl' > 0) /\ ttl' <= Window
      BY <1>2, <3>1
    <3> QED
      BY <1>4, <3>4, <3>5
  <2> QED
    BY <1>2, <2>1, <2>2
<1>8. ASSUME Limits!Incr, Limits!Answered(count + 1) \/ Limits!Open
      PROVE  CounterInv' /\ Limits!NeverTooMany'
  <2>1. count + 1 > Limit \/ count + 1 <= Limit
    BY <1>2
  <2> QED
    BY <1>7, <1>8, <2>1 DEF Limits!Answered, Limits!Pass, Limits!Refuse, Limits!Open
<1>9. Limits!NeverTooFew'
  <2>1. SUFFICES ASSUME NEW came \in Limits!Instant, refused' = refused \cup {<<came, Len(passed)>>}
                 PROVE  \/ <<came, Len(passed)>> \in refused
                        \/ (Len(passed) >= Limit /\ passed[Len(passed) - Limit + 1] >= came - Limits!Reach)
    BY FewKeeps
  <2>2. CASE refused' = refused
    BY <2>1, <2>2
  <2>3. CASE refused' # refused
    <3>1. /\ Limits!Incr /\ count + 1 > Limit /\ refused' = refused \cup {<<clock, Len(passed)>>}
      BY <2>3 DEF Limits!CheckRedis, Limits!Answered, Limits!Pass, Limits!Refuse, Limits!Open
    <3>2. <<came, Len(passed)>> \in refused \/ came = clock
      BY <2>1, <3>1
    <3>3. Limits!Reach = Window - 1 /\ count >= Limit /\ ttl > 0
      BY <1>1, <1>2, <3>1 DEF Limits!Reach
    <3>4. Len(passed) >= Limit /\ passed[Len(passed) - Limit + 1] >= clock - Limits!Reach
      BY <1>1, <1>2, <3>3, CounterRefuses
    <3> QED
      BY <3>2, <3>4
  <2> QED
    BY <2>2, <2>3
<1> QED
  BY <1>5, <1>6, <1>8, <1>9 DEF Limits!CheckRedis, CountersKeep

LEMMA MemoryKeeps ==
  ASSUME Limits!LimitAssumption, Limits!TypeOK, HistoryInv, CounterInv, Limits!NeverTooMany,
         Limits!NeverTooFew,
         [Limits!Next]_(Limits!vars), Limits!CheckMemory
  PROVE  CountersKeep
<1>1. /\ Counting("memory") /\ start <= clock /\ Limits!Most = 2 * Limit - 1 /\ limiter = "memory"
      /\ Since = start /\ limiter' = limiter /\ clock' = clock /\ ttl' = ttl
  BY CountingHolds DEF Limits!CheckMemory, Since
<1>2. /\ count \in Nat /\ ttl = 0 /\ start \in Nat /\ clock \in Nat
      /\ Window \in Nat \ {0} /\ Limit \in Nat \ {0} /\ MaxIdle \in Nat /\ Window < MaxIdle
      /\ passed \in Seq(Nat) /\ granted \in Seq(Nat)
      /\ \A k \in DOMAIN granted : granted[k] \in Nat /\ granted[k] <= start + Window
      /\ count = 0 => granted = <<>>
  BY <1>1 DEF Counting, CounterInv, Limits!LimitAssumption
<1>3. Since' = start'
  BY <1>1 DEF Since
<1>4. ASSUME Passes', Grants', count' > 0,
             \A k \in DOMAIN granted' : granted'[k] <= start' + Window,
             granted' = Append(granted, clock) =>
               \A k \in DOMAIN granted :
                 Len(granted) + 1 - k >= 2 * Limit - 1 => clock - granted[k] >= Window
      PROVE  CounterInv' /\ Limits!NeverTooMany'
  <2>1. Limits!NeverTooMany'
    BY <1>1, <1>4, ManyKeeps
  <2> QED
    BY <1>1, <1>2, <1>4, <2>1 DEF CounterInv
\* The bucket begins, or begins anew.
<1>5. ASSUME count = 0 \/ clock > start + Window, count' = 1, start' = clock, Limits!Pass
      PROVE  CountersKeep
  <2>1. \A k \in DOMAIN granted :
          granted[k] + Window <= clock \/ (granted[k] < clock /\ After(k) <= Limit - 2)
    <3>1. SUFFICES ASSUME NEW k \in DOMAIN granted
                   PROVE  granted[k] + Window <= clock \/ (granted[k] < clock /\ After(k) <= Limit - 2)
      OBVIOUS
    <3>2. count > 0 /\ clock > start + Window /\ granted[k] < clock
      BY <1>2, <1>5, <3>1
    <3>3. Dated(k) /\ After(k) \in Int /\ Full \in Nat /\ Full <= Limit
      BY <1>1, <1>2, <3>1 DEF Counting, Grants, After
    <3> QED
      BY <1>1, <1>2, <3>1, <3>2, <3>3 DEF Dated
  <2>2. passed' = Append(passed, clock) /\ granted' = Append(granted, clock) /\ refused' = refused
    BY <1>5 DEF Limits!Pass
  <2>3. /\ Passes' /\ Grants'
        /\ granted' = Append(granted, clock) =>
             \A k \in DOMAIN granted :
               Len(granted) + 1 - k >= 2 * Limit - 1 => clock - granted[k] >= Window
    BY <1>1, <1>3, <1>5, <2>1, <2>2, CountsAnew
  <2>4. \A k \in DOMAIN granted' : granted'[k] <= start' + Window
    BY <1>2, <1>5, <2>2
  <2>5. Limits!NeverTooFew'
    <3>1. ASSUME NEW came \in Limits!Instant, refused' = refused \cup {<<came, Len(passed)>>}
          PROVE  <<came, Len(passed)>> \in refused
      BY <2>2, <3>1
    <3> QED
      BY <3>1, FewKeeps
  <2> QED
    BY <1>4, <1>5, <2>3, <2>4, <2>5 DEF CountersKeep
\* The bucket goes on.
<1>6. ASSUME count > 0, clock <= start + Window, count' = count + 1, start' = start,
             Limits!Answered(count + 1)
      PROVE  CountersKeep
  <2>1. \/ /\ count' <= Limit /\ passed' = Append(passed, clock)
           /\ granted' = Append(granted, clock)
           /\ UNCHANGED refused
        \/ /\ count' > Limit /\ UNCHANGED <<passed, granted>>
           /\ refused' = refused \cup {<<clock, Len(passed)>>}
    BY <1>2, <1>6 DEF Limits!Answered, Limits!Pass, Limits!Refuse
  <2>2. /\ Passes' /\ Grants'
        /\ granted' = Append(granted, clock) =>
             \A k \in DOMAIN granted :
               Len(granted) + 1 - k >= 2 * Limit - 1 => clock - granted[k] >= Window
    BY <1>1, <1>3, <1>6, <2>1, CountsOn
  <2>3. \A k \in DOMAIN granted' : granted'[k] <= start' + Window
    <3>1. CASE granted' = granted
      BY <1>2, <1>6, <3>1
    <3>2. CASE granted' = Append(granted, clock)
      BY <1>2, <1>6, <3>2
    <3> QED
      BY <2>1, <3>1, <3>2
  <2>4. Limits!NeverTooFew'
    <3>1. SUFFICES ASSUME NEW came \in Limits!Instant, refused' = refused \cup {<<came, Len(passed)>>}
                   PROVE  \/ <<came, Len(passed)>> \in refused
                          \/ (Len(passed) >= Limit /\ passed[Len(passed) - Limit + 1] >= came - Limits!Reach)
      BY FewKeeps
    <3>2. CASE refused' = refused
      BY <3>1, <3>2
    <3>3. CASE count' > Limit /\ refused' = refused \cup {<<clock, Len(passed)>>}
      <4>1. <<came, Len(passed)>> \in refused \/ came = clock
        BY <3>1, <3>3
      <4>2. Limits!Reach = Window /\ count >= Limit /\ clock - Since <= Limits!Reach
        BY <1>1, <1>2, <1>6, <3>3 DEF Limits!Reach
      <4>3. Len(passed) >= Limit /\ passed[Len(passed) - Limit + 1] >= clock - Limits!Reach
        BY <1>1, <1>2, <4>2, CounterRefuses
      <4> QED
        BY <4>1, <4>3
    <3> QED
      BY <2>1, <3>2, <3>3
  <2> QED
    BY SMTT(30), <1>2, <1>4, <1>6, <2>2, <2>3, <2>4 DEF CountersKeep
<1>7. CASE Limits!Gone
  <2>1. count = 0 \/ clock > start + Window
    BY <1>2, <1>7 DEF Limits!Gone
  <2>2. Limits!Begun = clock /\ Limits!Counted = 0 /\ ~(clock - clock > Window) /\ ~(1 > Limit)
    BY <1>2, <1>7 DEF Limits!Begun, Limits!Counted
  <2>3. count' = 1 /\ start' = clock /\ Limits!Pass
    BY <1>2, <2>2 DEF Limits!CheckMemory, Limits!Answered
  <2> QED
    BY <1>5, <2>1, <2>3
<1>8. CASE ~Limits!Gone
  <2>1. Limits!Begun = start /\ Limits!Counted = count /\ count > 0
    BY <1>2, <1>8 DEF Limits!Begun, Limits!Counted, Limits!Gone
  <2>2. CASE clock - start > Window
    <3>1. count' = 1 /\ start' = clock /\ Limits!Pass /\ clock > start + Window
      BY <1>2, <2>1, <2>2 DEF Limits!CheckMemory
    <3> QED
      BY <1>5, <3>1
  <2>3. CASE clock - start <= Window
    <3>1. count' = count + 1 /\ start' = start /\ Limits!Answered(count + 1) /\ clock <= start + Window
      BY <1>2, <2>1, <2>3 DEF Limits!CheckMemory
    <3> QED
      BY <1>6, <2>1, <3>1
  <2> QED
    BY <1>2, <2>2, <2>3
<1> QED
  BY <1>7, <1>8

LEMMA CounterTickKeeps ==
  ASSUME Limits!LimitAssumption, Limits!TypeOK, HistoryInv, CounterInv, Limits!Tick, limiter # "log"
  PROVE  CounterInv'
<1>1. /\ Counting(limiter) /\ Since <= clock /\ limiter' = limiter /\ clock' = clock + 1
      /\ UNCHANGED <<passed, granted, start>>
      /\ ttl' = (IF ttl > 0 THEN ttl - 1 ELSE 0) /\ count' = (IF ttl = 1 THEN 0 ELSE count)
  BY CountingHolds, HistoryGrows DEF Limits!Tick, Limits!history
<1>2. /\ limiter \in {"redis", "memory"} /\ clock \in Nat /\ ttl \in Nat /\ start \in Nat
      /\ count \in Nat
      /\ Since \in Int /\ Full \in Nat /\ Limit \in Nat \ {0} /\ Window \in Nat \ {0}
      /\ \A k \in DOMAIN granted : granted[k] \in Nat /\ granted[k] <= clock
      /\ granted \in Seq(Nat)
  BY <1>1 DEF Counting, Limits!TypeOK, Limits!Limiter
<1>3. CASE ttl = 1
  <2>1. limiter = "redis" /\ count' = 0 /\ ttl' = 0 /\ Since = clock + 1 - Window /\ count > 0 /\ ttl <= Window
    BY <1>1, <1>2, <1>3 DEF CounterInv, Since
  <2>2. ASSUME NEW k \in DOMAIN granted PROVE Dated(k)'
    <3>1. Dated(k) /\ After(k)' = After(k) /\ After(k) \in Int /\ Full <= Limit
      BY <1>1, <1>2, <2>2 DEF Counting, Grants, After
    <3>2. granted[k] + Window <= clock + 1 \/ After(k) <= Limit - 2
      BY SMTT(30), <1>1, <1>2, <2>1, <2>2, <3>1 DEF Dated
    <3> QED
      BY <1>1, <1>2, <2>1, <2>2, <3>1, <3>2 DEF Dated
  <2> QED
    BY <1>1, <1>2, <2>1, <2>2 DEF CounterInv, Passes, Grants
<1>4. CASE ttl # 1
  <2>1. count' = count /\ Full' = Full
    BY <1>1, <1>4 DEF Full
  <2>2. limiter = "redis" /\ ttl = 0 => count = 0
    BY <1>2 DEF CounterInv
  <2>3. count > 0 => Since' = Since
    BY <1>1, <1>2, <1>4, <2>2 DEF Since
  <2>4. Passes'
    BY <1>1, <2>1, <2>3 DEF Counting, Passes
  <2>5. ASSUME NEW k \in DOMAIN granted PROVE Dated(k)'
    <3>1. Dated(k) /\ After(k)' = After(k) /\ After(k) \in Int
      BY <1>1, <1>2, <2>5 DEF Counting, Grants, After
    <3> QED
      BY <1>1, <1>2, <2>1, <2>3, <2>5, <3>1 DEF Dated
  <2>6. (limiter = "redis" => (count' > 0 <=> ttl' > 0) /\ ttl' <= Window)
    BY <1>1, <1>2, <1>4, <2>1 DEF CounterInv
  <2>7. limiter = "memory" => /\ ttl' = 0 /\ (count' = 0 => granted' = <<>>)
                              /\ \A k \in DOMAIN granted' : granted'[k] <= start' + Window
    BY <1>1, <2>1 DEF CounterInv
  <2> QED
    BY <1>1, <2>4, <2>5, <2>6, <2>7 DEF CounterInv, Grants
<1> QED
  BY <1>3, <1>4

-----------------------------------------------------------------------------
(* The log.                                                                *)

\* Members with a score after s, and workers that read the clock by then and
\* have not run their script.
Newer(s) == {e \in log : e.score > s}
Waiting(s) == {w \in Worker : limitJob[w] # -1 /\ limitJob[w] <= s}

\* Since s, within the window, no more were granted than have a member with a
\* later score, and one more for each worker; of these one is spent when a
\* worker that read the clock by then runs its script, and one is kept for each
\* that is still to do so.
GrantsLogged ==
  \A s \in Int, k \in DOMAIN granted :
    clock - Window <= s /\ s < granted[k] =>
      After(k) + 1 + Cardinality(Waiting(s)) <= Cardinality(Newer(s)) + Cardinality(Worker)

\* For every member with a score after s a request passed after s.
PassesLogged ==
  \A s \in Int :
    Newer(s) # {} => /\ Cardinality(Newer(s)) <= Len(passed)
                     /\ passed[Len(passed) - Cardinality(Newer(s)) + 1] > s

LogInv ==
  limiter = "log" =>
    /\ IsFiniteSet(log)
    /\ \A e \in log : e.score <= clock /\ e.no <= Len(passed) /\ e.score + Window <= clock + ttl
    /\ GrantsLogged /\ PassesLogged

LEMMA LogIsFinite ==
  ASSUME Limits!LimitAssumption, IsFiniteSet(log), NEW s
  PROVE  /\ IsFiniteSet(Newer(s)) /\ Cardinality(Newer(s)) \in Nat
         /\ IsFiniteSet(Waiting(s)) /\ Cardinality(Waiting(s)) \in Nat
         /\ Cardinality(Waiting(s)) <= Cardinality(Worker)
         /\ \A w \in Worker \ Waiting(s) : Cardinality(Waiting(s)) + 1 <= Cardinality(Worker)
<1>1. IsFiniteSet(Newer(s)) /\ Cardinality(Newer(s)) \in Nat
  BY FS_Subset, FS_CardinalityType DEF Newer
<1>2. IsFiniteSet(Worker) /\ Cardinality(Worker) \in Nat
  BY LimitsAreNumbers
<1>3. /\ IsFiniteSet(Waiting(s)) /\ Cardinality(Waiting(s)) \in Nat
      /\ Cardinality(Waiting(s)) <= Cardinality(Worker)
  BY <1>2, FS_Subset, FS_CardinalityType DEF Waiting
<1>4. ASSUME NEW w \in Worker \ Waiting(s)
      PROVE  Cardinality(Waiting(s)) + 1 <= Cardinality(Worker)
  <2>1. /\ IsFiniteSet(Worker \ {w})
        /\ Cardinality(Worker \ {w}) = Cardinality(Worker) - 1
    BY <1>2, <1>4, FS_RemoveElement
  <2>2. Waiting(s) \subseteq Worker \ {w}
    BY <1>4 DEF Waiting
  <2>3. Cardinality(Waiting(s)) <= Cardinality(Worker \ {w})
    BY <2>1, <2>2, FS_Subset
  <2> QED
    BY <1>2, <1>3, <2>1, <2>3
<1> QED
  BY <1>1, <1>3, <1>4

LEMMA LogTypes ==
  ASSUME Limits!LimitAssumption, Limits!TypeOK
  PROVE  /\ clock \in Nat /\ ttl \in Nat /\ Window \in Nat \ {0} /\ Slack \in Nat
         /\ Limit \in Nat \ {0}
         /\ passed \in Seq(Nat) /\ granted \in Seq(Nat) /\ Len(passed) \in Nat
         /\ Len(granted) \in Nat
         /\ \A e \in log : e.score \in Nat /\ e.no \in Nat
         /\ limitJob \in [Worker -> -1..clock] /\ \A w \in Worker : limitJob[w] \in Int /\ limitJob[w] <= clock
<1>1. /\ passed \in Seq(Nat) /\ granted \in Seq(Nat) /\ Limits!Instant \subseteq Nat
  BY LimitsAreNumbers, HistoryTypes
<1>2. \A e \in log : e.score \in Nat /\ e.no \in Nat
  BY <1>1 DEF Limits!TypeOK
<1>3. clock \in Nat /\ limitJob \in [Worker -> -1..clock]
  BY <1>1 DEF Limits!TypeOK
<1>4. ttl \in Nat
  BY LimitsAreNumbers DEF Limits!TypeOK
<1> QED
  BY <1>1, <1>2, <1>3, <1>4, LimitsAreNumbers

LEMMA LogTickKeeps ==
  ASSUME Limits!LimitAssumption, Limits!TypeOK, HistoryInv, LogInv, Limits!Tick PROVE LogInv'
<1>1. SUFFICES ASSUME limiter = "log" PROVE LogInv'
  BY DEF LogInv, Limits!Tick
<1>2. /\ IsFiniteSet(log) /\ GrantsLogged /\ PassesLogged
      /\ \A e \in log : e.score <= clock /\ e.no <= Len(passed) /\ e.score + Window <= clock + ttl
  BY <1>1 DEF LogInv
<1>3. /\ clock' = clock + 1 /\ UNCHANGED <<limiter, limitJob, passed, granted>>
      /\ ttl' = (IF ttl > 0 THEN ttl - 1 ELSE 0) /\ log' = (IF ttl = 1 THEN {} ELSE log)
  BY DEF Limits!Tick, Limits!history
<1>4. /\ \A s \in Int : Waiting(s)' = Waiting(s)
      /\ \A k \in DOMAIN granted : After(k)' = After(k)
  BY <1>3 DEF Waiting, After
\* What goes with its key had left the window before.
<1>5. ASSUME NEW s \in Int, clock' - Window <= s PROVE Newer(s)' = Newer(s)
  BY <1>2, <1>3, <1>5, LogTypes DEF Newer
<1>6. GrantsLogged'
  <2>1. SUFFICES ASSUME NEW s \in Int, NEW k \in DOMAIN granted',
                        clock' - Window <= s, s < granted'[k]
                 PROVE  After(k)' + 1 + Cardinality(Waiting(s)')
                          <= Cardinality(Newer(s)') + Cardinality(Worker)
    BY DEF GrantsLogged
  <2>2. clock - Window <= s /\ k \in DOMAIN granted /\ s < granted[k]
    BY <1>3, <2>1, LogTypes
  <2>3. Newer(s)' = Newer(s) /\ Waiting(s)' = Waiting(s) /\ After(k)' = After(k)
    BY <1>4, <1>5, <2>1, <2>2
  <2>4. After(k) + 1 + Cardinality(Waiting(s)) <= Cardinality(Newer(s)) + Cardinality(Worker)
    BY <1>2, <2>2 DEF GrantsLogged
  <2> QED
    BY <2>3, <2>4
<1>7. CASE ttl = 1
  <2>1. log' = {} /\ IsFiniteSet(log') /\ \A s \in Int : Newer(s)' = {}
    BY <1>3, <1>7, FS_EmptySet DEF Newer
  <2> QED
    BY <1>6, <2>1 DEF LogInv, PassesLogged
<1>8. CASE ttl # 1
  <2>1. log' = log /\ \A s \in Int : Newer(s)' = Newer(s)
    BY <1>3, <1>8 DEF Newer
  <2>2. PassesLogged'
    BY <1>2, <1>3, <2>1 DEF PassesLogged
  <2>3. \A e \in log : e.score <= clock + 1 /\ e.score + Window <= clock + 1 + ttl'
    BY SMTT(30), <1>2, <1>3, <1>8, LogTypes
  <2> QED
    BY <1>2, <1>3, <1>6, <2>1, <2>2, <2>3 DEF LogInv
<1> QED
  BY <1>7, <1>8

LEMMA LogArriveKeeps ==
  ASSUME Limits!LimitAssumption, Limits!TypeOK, HistoryInv, LogInv, NEW w \in Worker,
         Limits!Arrive(w)
  PROVE  LogInv'
<1>1. /\ limiter = "log" /\ limitJob[w] = -1 /\ limitJob' = [limitJob EXCEPT ![w] = clock]
      /\ UNCHANGED <<limiter, clock, ttl, log, passed, granted>>
  BY DEF Limits!Arrive, Limits!fixed, Limits!history
<1>2. /\ IsFiniteSet(log) /\ GrantsLogged /\ PassesLogged
      /\ \A e \in log : e.score <= clock /\ e.no <= Len(passed) /\ e.score + Window <= clock + ttl
  BY <1>1 DEF LogInv
<1>3. \A s \in Int : Newer(s)' = Newer(s)
  BY <1>1 DEF Newer
<1>4. GrantsLogged'
  <2>1. SUFFICES ASSUME NEW s \in Int, NEW k \in DOMAIN granted, clock - Window <= s, s < granted[k]
                 PROVE  After(k)' + 1 + Cardinality(Waiting(s)')
                          <= Cardinality(Newer(s)') + Cardinality(Worker)
    BY <1>1 DEF GrantsLogged
  <2>2. s < clock
    BY SMTT(30), <2>1, LogTypes DEF HistoryInv
  <2>3. Waiting(s)' = Waiting(s)
    BY <1>1, <2>2, LogTypes DEF Waiting
  <2>4. Newer(s)' = Newer(s) /\ After(k)' = After(k)
    BY <1>1, <1>3 DEF After
  <2>5. After(k) + 1 + Cardinality(Waiting(s)) <= Cardinality(Newer(s)) + Cardinality(Worker)
    BY <1>2, <2>1 DEF GrantsLogged
  <2> QED
    BY <2>3, <2>4, <2>5
<1>5. PassesLogged'
  BY <1>1, <1>2, <1>3 DEF PassesLogged
<1> QED
  BY <1>1, <1>2, <1>4, <1>5 DEF LogInv

\* The script of a worker is run, and keeps what is within the window; or it is
\* not run; and the request is let through, counted or not, or refused.
LEMMA ScriptKeeps ==
  ASSUME Limits!LimitAssumption, Limits!TypeOK, HistoryInv, LogInv, limiter = "log",
         UNCHANGED <<limiter, clock>>,
         NEW w \in Worker, limitJob[w] # -1, limitJob' = [limitJob EXCEPT ![w] = -1],
         NEW kept \in SUBSET log, \A e \in log : e.score > clock - Window => e \in kept,
         \/ /\ log' = kept /\ ttl' = ttl
            /\ passed' \in {passed, Append(passed, clock)} /\ granted' = granted
         \/ /\ log' = kept \cup {Limits!Member(limitJob[w])} /\ ttl' = Window + Slack
            /\ passed' = Append(passed, clock) /\ granted' \in {granted, Append(granted, clock)}
  PROVE  LogInv'
<1> DEFINE m == Limits!Member(limitJob[w])
<1>1. /\ IsFiniteSet(log) /\ GrantsLogged /\ PassesLogged
      /\ \A e \in log : e.score <= clock /\ e.no <= Len(passed) /\ e.score + Window <= clock + ttl
  BY DEF LogInv
<1>2. m.score = limitJob[w] /\ m.no = Len(passed) + 1 /\ m.score \in Nat /\ m.score <= clock /\ m \notin log
  <2>1. m.score = limitJob[w] /\ m.no = Len(passed) + 1
    BY DEF Limits!Member
  <2>2. limitJob[w] \in Nat /\ limitJob[w] <= clock
    BY LogTypes
  <2> QED
    BY <1>1, <2>1, <2>2, LogTypes
<1> HIDE DEF m
<1>3. /\ clock \in Nat /\ Window \in Nat \ {0} /\ Slack \in Nat /\ ttl \in Nat
      /\ passed \in Seq(Nat) /\ granted \in Seq(Nat) /\ Len(passed) \in Nat /\ Len(granted) \in Nat
      /\ \A e \in log : e.score \in Nat /\ e.no \in Nat
      /\ Cardinality(Worker) \in Nat
  BY LogTypes, LimitsAreNumbers
<1>4. /\ IsFiniteSet(kept) /\ IsFiniteSet(log')
      /\ log' = kept \/ (log' = kept \cup {m} /\ ttl' = Window + Slack /\ passed' = Append(passed, clock))
      /\ Len(passed') \in {Len(passed), Len(passed) + 1}
  <2>1. IsFiniteSet(kept) /\ IsFiniteSet(kept \cup {m})
    BY <1>1, FS_Subset, FS_AddElement
  <2>2. log' = kept \/ (log' = kept \cup {m} /\ ttl' = Window + Slack /\ passed' = Append(passed, clock))
    BY DEF m
  <2>3. Len(Append(passed, clock)) = Len(passed) + 1
    BY <1>3
  <2>4. Len(passed') \in {Len(passed), Len(passed) + 1}
    BY <2>3
  <2> QED
    BY <2>1, <2>2, <2>4
<1>5. \A e \in log' : e.score <= clock /\ e.no <= Len(passed') /\ e.score + Window <= clock + ttl'
  <2>1. CASE log' = kept /\ ttl' = ttl
    BY <1>1, <1>3, <1>4, <2>1
  <2>2. CASE log' = kept \cup {m} /\ ttl' = Window + Slack /\ passed' = Append(passed, clock)
    <3>1. Len(passed') = Len(passed) + 1
      BY <1>3, <2>2
    <3>2. ASSUME NEW e \in kept
          PROVE  e.score <= clock /\ e.no <= Len(passed') /\ e.score + Window <= clock + ttl'
      BY SMTT(30), <1>1, <1>3, <2>2, <3>1, <3>2
    <3>3. m.score <= clock /\ m.no <= Len(passed') /\ m.score + Window <= clock + ttl'
      BY <1>2, <1>3, <2>2, <3>1
    <3> QED
      BY <2>2, <3>2, <3>3
  <2> QED
    BY <2>1, <2>2 DEF m
\* How the members after s change.
<1>6. ASSUME NEW s \in Int
      PROVE  /\ Cardinality(Newer(s)) \in Nat /\ Cardinality(Newer(s)') \in Nat
             /\ Cardinality(Newer(s)') <= Cardinality(Newer(s)) + 1
             /\ log' = kept => Cardinality(Newer(s)') <= Cardinality(Newer(s))
             /\ clock - Window <= s =>
                  /\ Cardinality(Newer(s)') >= Cardinality(Newer(s))
                  /\ log' # kept /\ m.score > s =>
                       Cardinality(Newer(s)') = Cardinality(Newer(s)) + 1
  <2> DEFINE rest == {e \in kept : e.score > s}
  <2>1. /\ IsFiniteSet(Newer(s)) /\ Cardinality(Newer(s)) \in Nat
        /\ IsFiniteSet(rest) /\ Cardinality(rest) \in Nat
        /\ Cardinality(rest) <= Cardinality(Newer(s)) /\ m \notin rest
    <3>1. IsFiniteSet(Newer(s)) /\ Cardinality(Newer(s)) \in Nat
      BY <1>1, LogIsFinite
    <3>2. rest \subseteq Newer(s)
      BY DEF Newer
    <3> QED
      BY <1>2, <3>1, <3>2, FS_Subset, FS_CardinalityType
  <2>2. clock - Window <= s => rest = Newer(s)
    BY <1>3 DEF Newer
  <2> HIDE DEF rest
  <2>3. CASE log' = kept
    <3>1. Newer(s)' = rest
      BY <2>3 DEF Newer, rest
    <3> QED
      BY <2>1, <2>2, <2>3, <3>1
  <2>4. CASE log' = kept \cup {m} /\ m.score > s
    <3>1. Newer(s)' = rest \cup {m}
      BY <2>4 DEF Newer, rest
    <3>2. Cardinality(Newer(s)') = Cardinality(rest) + 1
      BY <2>1, <3>1, FS_AddElement
    <3>3. log' # kept
      BY <1>2, <2>4
    <3> QED
      BY <2>1, <2>2, <2>4, <3>2, <3>3
  <2>5. CASE log' = kept \cup {m} /\ ~(m.score > s)
    <3>1. Newer(s)' = rest
      BY <2>5 DEF Newer, rest
    <3> QED
      BY <2>1, <2>2, <2>5, <3>1
  <2> QED
    BY <1>4, <2>3, <2>4, <2>5
\* How the workers that are still to run a script change.
<1>7. ASSUME NEW s \in Int
      PROVE  /\ Cardinality(Waiting(s)) \in Nat /\ Cardinality(Waiting(s)') \in Nat
             /\ Cardinality(Waiting(s)') <= Cardinality(Worker)
             /\ m.score > s => Cardinality(Waiting(s)') = Cardinality(Waiting(s))
             /\ ~(m.score > s) => /\ Cardinality(Waiting(s)') = Cardinality(Waiting(s)) - 1
                                  /\ Cardinality(Waiting(s)') + 1 <= Cardinality(Worker)
  <2>1. /\ IsFiniteSet(Waiting(s)) /\ Cardinality(Waiting(s)) \in Nat
        /\ Cardinality(Waiting(s)) <= Cardinality(Worker)
    BY <1>1, LogIsFinite
  <2>2. CASE m.score > s
    <3>1. Waiting(s)' = Waiting(s)
      BY <1>2, <2>2, LogTypes DEF Waiting
    <3> QED
      BY <2>1, <2>2, <3>1
  <2>3. CASE ~(m.score > s)
    <3>1. w \in Waiting(s) /\ Waiting(s)' = Waiting(s) \ {w}
      BY <1>2, <2>3, LogTypes DEF Waiting
    <3>2. /\ Cardinality(Waiting(s) \ {w}) = Cardinality(Waiting(s)) - 1
          /\ IsFiniteSet(Waiting(s) \ {w}) /\ Cardinality(Waiting(s) \ {w}) \in Nat
      BY <2>1, <3>1, FS_RemoveElement, FS_CardinalityType
    <3> QED
      BY <1>3, <2>1, <2>3, <3>1, <3>2
  <2> QED
    BY <2>2, <2>3
<1>8. GrantsLogged'
  <2>1. SUFFICES ASSUME NEW s \in Int, NEW k \in DOMAIN granted', clock - Window <= s, s < granted'[k]
                 PROVE  After(k)' + 1 + Cardinality(Waiting(s)')
                          <= Cardinality(Newer(s)') + Cardinality(Worker)
    BY DEF GrantsLogged
  <2>2. granted' = granted \/ (granted' = Append(granted, clock) /\ log' # kept)
    BY <1>2 DEF m
  <2>3. CASE k \in DOMAIN granted
    <3>1. /\ granted'[k] = granted[k] /\ After(k) \in Int
          /\ After(k)' = After(k) \/ (log' # kept /\ After(k)' = After(k) + 1)
      <4>1. CASE granted' = granted
        BY <1>3, <2>3, <4>1 DEF After
      <4>2. CASE granted' = Append(granted, clock) /\ log' # kept
        BY SMTT(30), <1>3, <2>3, <4>2 DEF After
      <4> QED
        BY <2>2, <4>1, <4>2
    <3>2. After(k) + 1 + Cardinality(Waiting(s)) <= Cardinality(Newer(s)) + Cardinality(Worker)
      BY <1>1, <2>1, <2>3, <3>1 DEF GrantsLogged
    <3>3. /\ Cardinality(Newer(s)) \in Nat /\ Cardinality(Newer(s)') \in Nat
          /\ Cardinality(Waiting(s)) \in Nat /\ Cardinality(Waiting(s)') \in Nat
          /\ Cardinality(Newer(s)') >= Cardinality(Newer(s)) /\ Cardinality(Worker) \in Nat
      BY <1>3, <1>6, <1>7, <2>1
    <3>4. CASE m.score > s
      <4>1. /\ Cardinality(Waiting(s)') = Cardinality(Waiting(s))
            /\ log' # kept => Cardinality(Newer(s)') = Cardinality(Newer(s)) + 1
        BY <1>6, <1>7, <2>1, <3>4
      <4>2. After(k)' + Cardinality(Newer(s)) <= After(k) + Cardinality(Newer(s)')
        BY <3>1, <3>3, <4>1
      <4> QED
        BY SMTT(30), <3>1, <3>2, <3>3, <4>1, <4>2
    <3>5. CASE ~(m.score > s)
      <4>1. Cardinality(Waiting(s)') = Cardinality(Waiting(s)) - 1
        BY <1>7, <3>5
      <4>2. After(k)' + 1 + Cardinality(Waiting(s)') <= After(k) + 1 + Cardinality(Waiting(s))
        BY <3>1, <3>3, <4>1
      <4> QED
        BY SMTT(30), <3>1, <3>2, <3>3, <4>1, <4>2
    <3> QED
      BY <3>4, <3>5
  <2>4. CASE k \notin DOMAIN granted
    <3>1. After(k)' = 0 /\ log' # kept
      BY <1>3, <2>1, <2>2, <2>4 DEF After
    <3>2. /\ Cardinality(Newer(s)) \in Nat /\ Cardinality(Newer(s)') \in Nat
          /\ Cardinality(Waiting(s)') \in Nat /\ Cardinality(Waiting(s)') <= Cardinality(Worker)
      BY <1>6, <1>7
    <3>3. CASE m.score > s
      <4>1. Cardinality(Newer(s)') = Cardinality(Newer(s)) + 1
        BY <1>6, <2>1, <3>1, <3>3
      <4> QED
        BY <1>3, <3>1, <3>2, <4>1
    <3>4. CASE ~(m.score > s)
      <4>1. Cardinality(Waiting(s)') + 1 <= Cardinality(Worker)
        BY <1>7, <3>4
      <4> QED
        BY <1>3, <3>1, <3>2, <4>1
    <3> QED
      BY <3>3, <3>4
  <2> QED
    BY <2>3, <2>4
<1>9. PassesLogged'
  <2>1. SUFFICES ASSUME NEW s \in Int, Newer(s)' # {}
                 PROVE  /\ Cardinality(Newer(s)') <= Len(passed')
                        /\ passed'[Len(passed') - Cardinality(Newer(s)') + 1] > s
    BY DEF PassesLogged
  <2> DEFINE c == Cardinality(Newer(s))
             d == Cardinality(Newer(s)')
  <2>2. c \in Nat /\ d \in Nat /\ d <= c + 1 /\ (log' = kept => d <= c)
    BY <1>6
  <2>3. d # 0 /\ clock > s
    <3>1. IsFiniteSet(Newer(s)')
      BY <1>4, FS_Subset DEF Newer
    <3>2. d # 0
      BY <2>1, <3>1, FS_EmptySet
    <3>3. clock > s
      <4>1. PICK e \in log' : e.score > s
        BY <2>1 DEF Newer
      <4>2. e.score \in Nat
        BY <1>2, <1>3, <1>4, <4>1
      <4> QED
        BY <1>3, <1>5, <4>1, <4>2
    <3> QED
      BY <3>2, <3>3
  <2>4. c # 0 => c <= Len(passed) /\ passed[Len(passed) - c + 1] > s
    <3>1. c # 0 => Newer(s) # {}
      BY FS_EmptySet
    <3> QED
      BY <1>1, <3>1 DEF PassesLogged
  <2> HIDE DEF c, d
  <2>5. ASSUME NEW n \in Nat \ {0}, n <= c
        PROVE  n <= Len(passed) /\ passed[Len(passed) - n + 1] > s
    <3>1. c <= Len(passed) /\ passed[Len(passed) - c + 1] > s
      BY <2>2, <2>4, <2>5
    <3>2. /\ Len(passed) - n + 1 \in DOMAIN passed /\ Len(passed) - c + 1 \in DOMAIN passed
          /\ Len(passed) - c + 1 <= Len(passed) - n + 1
      BY <1>3, <2>2, <2>5, <3>1
    <3>3. ASSUME NEW i \in DOMAIN passed, NEW j \in DOMAIN passed, i <= j, passed[i] > s
          PROVE  passed[j] > s
      BY <1>3, <3>3 DEF HistoryInv, Ordered
    <3>4. passed[Len(passed) - n + 1] > s
      BY <3>1, <3>2, <3>3
    <3> QED
      BY <1>3, <2>2, <2>5, <3>1, <3>4
  <2>6. CASE passed' = passed /\ log' = kept
    <3>1. d \in Nat \ {0} /\ d <= c
      BY <2>2, <2>3, <2>6
    <3> QED
      BY <2>5, <2>6, <3>1 DEF d
  <2>7. CASE passed' = Append(passed, clock)
    <3>1. Len(passed') = Len(passed) + 1
      BY <1>3, <2>7
    <3>2. CASE d = 1
      <4>1. passed'[Len(passed) + 1] = clock
        BY <1>3, <2>7
      <4> QED
        BY <1>3, <2>3, <3>1, <3>2, <4>1 DEF d
    <3>3. CASE d # 1
      <4>1. d - 1 \in Nat \ {0} /\ d - 1 <= c
        BY <2>2, <2>3, <3>3
      <4>2. d - 1 <= Len(passed) /\ passed[Len(passed) - (d - 1) + 1] > s
        BY <2>5, <4>1
      <4>3. /\ Len(passed') - d + 1 = Len(passed) - (d - 1) + 1
            /\ Len(passed) - (d - 1) + 1 \in 1..Len(passed)
        BY <1>3, <2>2, <3>1, <4>1, <4>2
      <4>4. passed'[Len(passed) - (d - 1) + 1] = passed[Len(passed) - (d - 1) + 1]
        BY <1>3, <2>7, <4>3
      <4>5. passed'[Len(passed') - d + 1] > s
        BY <4>2, <4>3, <4>4
      <4>6. d <= Len(passed')
        BY <1>3, <2>2, <3>1, <4>2
      <4> QED
        BY <4>5, <4>6 DEF d
    <3> QED
      BY <3>2, <3>3
  <2> QED
    BY <1>4, <2>6, <2>7
<1> QED
  BY <1>4, <1>5, <1>8, <1>9 DEF LogInv

LEMMA EvalKeeps ==
  ASSUME Limits!LimitAssumption, Limits!TypeOK, HistoryInv, LogInv, Limits!NeverTooMany,
         Limits!NeverTooFew,
         [Limits!Next]_(Limits!vars), NEW w \in Worker, Limits!Eval(w)
  PROVE  LogInv' /\ Limits!NeverTooMany' /\ Limits!NeverTooFew'
<1> DEFINE came == limitJob[w]
           entries == Limits!Trimmed(limitJob[w])
<1>1. /\ limiter = "log" /\ limitJob[w] # -1 /\ limitJob' = [limitJob EXCEPT ![w] = -1]
      /\ UNCHANGED <<limiter, clock>>
      /\ \/ /\ Limits!Script(limitJob[w]) /\ Limits!Works
            /\ IF Limits!HasRoom(Limits!Trimmed(limitJob[w])) THEN Limits!Pass
               ELSE Limits!Refuse(limitJob[w])
         \/ Limits!Script(limitJob[w]) /\ Limits!Open
         \/ UNCHANGED <<log, ttl>> /\ Limits!Open
  BY DEF Limits!Eval
<1>2. /\ came \in Nat /\ came <= clock /\ clock \in Nat
      /\ Limit \in Nat \ {0} /\ Window \in Nat \ {0} /\ Cardinality(Worker) \in Nat
      /\ passed \in Seq(Nat) /\ granted \in Seq(Nat) /\ Len(passed) \in Nat /\ Len(granted) \in Nat
      /\ \A k \in DOMAIN granted : granted[k] \in Nat
      /\ \A k \in DOMAIN passed : passed[k] \in Nat
  <2>1. came \in Int /\ came <= clock /\ limitJob[w] \in -1..clock
    BY LogTypes
  <2>2. came \in Nat
    BY <1>1, <2>1
  <2>3. /\ Limit \in Nat \ {0} /\ Window \in Nat \ {0} /\ Cardinality(Worker) \in Nat
    BY LimitsAreNumbers
  <2>4. /\ clock \in Nat /\ passed \in Seq(Nat) /\ granted \in Seq(Nat)
        /\ Len(passed) \in Nat /\ Len(granted) \in Nat
    BY LogTypes
  <2> HIDE DEF came
  <2> QED
    BY <2>1, <2>2, <2>3, <2>4
<1>3. /\ IsFiniteSet(log) /\ GrantsLogged /\ PassesLogged
  BY <1>1 DEF LogInv
<1>4. entries = Newer(came - Window) /\ entries \in SUBSET log
  BY DEF Limits!Trimmed, Newer
<1>5. /\ IsFiniteSet(entries) /\ Cardinality(entries) \in Nat
      /\ \A e \in log : e.score > clock - Window => e \in entries
  <2>1. IsFiniteSet(entries) /\ Cardinality(entries) \in Nat
    BY <1>3, <1>4, FS_Subset, FS_CardinalityType
  <2>2. \A e \in log : e.score \in Nat
    BY LogTypes
  <2> QED
    BY <1>2, <2>1, <2>2 DEF Limits!Trimmed
<1>6. LogInv'
  <2>1. CASE /\ log' = entries \cup {Limits!Member(limitJob[w])} /\ ttl' = Window + Slack
             /\ Limits!Pass \/ Limits!Open
    BY <1>1, <1>4, <1>5, <2>1, ScriptKeeps DEF Limits!Pass, Limits!Open
  <2>2. CASE log' = entries /\ ttl' = ttl /\ (Limits!Refuse(limitJob[w]) \/ Limits!Open)
    BY <1>1, <1>4, <1>5, <2>2, ScriptKeeps DEF Limits!Refuse, Limits!Open
  <2>3. CASE log' = log /\ ttl' = ttl /\ Limits!Open
    <3>1. log \in SUBSET log /\ \A e \in log : e.score > clock - Window => e \in log
      OBVIOUS
    <3> QED
      BY <1>1, <2>3, <3>1, ScriptKeeps DEF Limits!Open
  <2> QED
    BY <1>1, <2>1, <2>2, <2>3 DEF Limits!Script
<1>7. Limits!NeverTooMany'
  <2>1. SUFFICES ASSUME granted' = Append(granted, clock), NEW k \in DOMAIN granted,
                        Len(granted) + 1 - k >= Limits!Most
                 PROVE  clock - granted[k] >= Window
    BY ManyKeeps
  <2>2. granted' # granted
    <3>1. Len(Append(granted, clock)) = Len(granted) + 1
      BY <1>2
    <3> QED
      BY <1>2, <2>1, <3>1
  <2>3. ~(Cardinality(entries) >= Limit)
    BY <1>1, <1>2, <1>5, <2>2, Counted DEF Limits!Refuse, Limits!Open
  <2>4. ASSUME ~(clock - granted[k] >= Window) PROVE FALSE
    <3> DEFINE s == clock - Window
    <3>1. s \in Int /\ clock - Window <= s /\ s < granted[k]
      BY <1>2, <2>1, <2>4
    <3>2. After(k) + 1 + Cardinality(Waiting(s)) <= Cardinality(Newer(s)) + Cardinality(Worker)
      BY <1>3, <2>1, <3>1 DEF GrantsLogged
    <3>3. Cardinality(Newer(s)) <= Cardinality(entries) /\ Cardinality(Newer(s)) \in Nat
      <4>1. Newer(s) \subseteq entries
        BY <1>5 DEF Newer
      <4> QED
        BY <1>5, <4>1, FS_Subset, FS_CardinalityType
    <3>4. Cardinality(Waiting(s)) \in Nat
      BY <1>3, LogIsFinite
    <3>5. After(k) + 1 >= Limit + Cardinality(Worker) /\ After(k) \in Int
      BY SMTT(30), <1>1, <1>2, <2>1, Counted DEF After
    <3> HIDE DEF s, entries
    <3> QED
      BY <1>2, <1>5, <2>3, <3>2, <3>3, <3>4, <3>5
  <2> QED
    BY <2>4
<1>8. Limits!NeverTooFew'
  <2>1. SUFFICES ASSUME NEW c \in Limits!Instant, refused' = refused \cup {<<c, Len(passed)>>}
                 PROVE  \/ <<c, Len(passed)>> \in refused
                        \/ (Len(passed) >= Limit /\ passed[Len(passed) - Limit + 1] >= c - Limits!Reach)
    BY FewKeeps
  <2>2. CASE refused' = refused
    BY <2>1, <2>2
  <2>3. CASE refused' # refused
    <3>1. ~Limits!HasRoom(entries) /\ refused' = refused \cup {<<came, Len(passed)>>}
      BY <1>1, <2>3 DEF Limits!Pass, Limits!Refuse, Limits!Open
    <3>2. <<c, Len(passed)>> \in refused \/ c = came
      BY <2>1, <3>1
    <3> DEFINE n == Cardinality(entries)
               s == came - Window
    <3>3. n >= Limit /\ n \in Nat
      BY <1>2, <1>5, <3>1, Counted
    <3>4. n <= Len(passed) /\ passed[Len(passed) - n + 1] > s
      <4>1. s \in Int /\ Newer(s) = entries /\ Newer(s) # {}
        <5>1. s \in Int /\ n # 0
          BY <1>2, <3>3
        <5>2. Newer(s) = entries
          BY <1>4
        <5> QED
          BY <5>1, <5>2, FS_EmptySet
      <4> QED
        BY <1>3, <4>1 DEF PassesLogged
    <3> HIDE DEF n, s
    <3>5. /\ Len(passed) - n + 1 \in DOMAIN passed /\ Len(passed) - Limit + 1 \in DOMAIN passed
          /\ Len(passed) - n + 1 <= Len(passed) - Limit + 1
      BY <1>2, <3>3, <3>4
    <3>6. ASSUME NEW i \in DOMAIN passed, NEW j \in DOMAIN passed, i <= j, passed[i] > s
          PROVE  passed[j] > s
      BY <1>2, <3>6 DEF HistoryInv, Ordered, s
    <3>7. passed[Len(passed) - Limit + 1] > s
      BY <3>4, <3>5, <3>6
    <3>8. Limits!Reach = Window - 1 /\ Len(passed) >= Limit
      BY <1>1, <1>2, <3>3, <3>4 DEF Limits!Reach
    <3>9. passed[Len(passed) - Limit + 1] >= came - Limits!Reach
      <4>1. passed[Len(passed) - Limit + 1] \in Nat
        BY <1>2, <3>5
      <4>2. came \in Nat /\ Window \in Nat
        BY <1>2
      <4> HIDE DEF came
      <4> QED
        BY <3>7, <3>8, <4>1, <4>2 DEF s
    <3> QED
      BY <3>2, <3>8, <3>9
  <2> QED
    BY <2>2, <2>3
<1> QED
  BY <1>6, <1>7, <1>8

\* The inductive invariant of a limiter.
LimitInv ==
  /\ Limits!TypeOK /\ HistoryInv /\ CounterInv /\ LogInv
  /\ Limits!NeverTooMany /\ Limits!NeverTooFew

LEMMA LimitKeeps ==
  ASSUME Limits!LimitAssumption, LimitInv, [Limits!Next]_(Limits!vars)
  PROVE  LimitInv'
<1>1. /\ Limits!TypeOK /\ HistoryInv /\ CounterInv /\ LogInv /\ Limits!NeverTooMany
      /\ Limits!NeverTooFew
  BY DEF LimitInv
<1>2. Limits!TypeOK' /\ HistoryInv' /\ limiter' = limiter
  BY <1>1, LimitTypeKeeps, HistoryKeeps, HistoryGrows
<1>3. SUFFICES CounterInv' /\ LogInv' /\ Limits!NeverTooMany' /\ Limits!NeverTooFew'
  BY <1>2 DEF LimitInv
<1>4. limiter # "log" => LogInv'
  BY <1>2 DEF LogInv
<1>5. limiter = "log" => CounterInv'
  BY <1>2 DEF CounterInv
<1>6. ASSUME UNCHANGED <<passed, granted, refused>>
      PROVE  Limits!NeverTooMany' /\ Limits!NeverTooFew'
  BY <1>1, <1>2, <1>6 DEF Limits!NeverTooMany, Limits!NeverTooFew, Limits!Most, Limits!Reach
<1>7. CASE Limits!Tick
  BY <1>1, <1>4, <1>5, <1>6, <1>7, CounterTickKeeps, LogTickKeeps DEF Limits!Tick, Limits!history
<1>8. CASE Limits!CheckRedis
  BY <1>1, <1>4, <1>8, RedisKeeps DEF Limits!CheckRedis, CountersKeep
<1>9. CASE Limits!CheckMemory
  BY <1>1, <1>4, <1>9, MemoryKeeps DEF Limits!CheckMemory, CountersKeep
<1>10. ASSUME NEW w \in Worker, Limits!Arrive(w)
       PROVE  CounterInv' /\ LogInv' /\ Limits!NeverTooMany' /\ Limits!NeverTooFew'
  BY <1>1, <1>5, <1>6, <1>10, LogArriveKeeps DEF Limits!Arrive, Limits!history
<1>11. ASSUME NEW w \in Worker, Limits!Eval(w)
       PROVE  CounterInv' /\ LogInv' /\ Limits!NeverTooMany' /\ Limits!NeverTooFew'
  BY <1>1, <1>5, <1>11, EvalKeeps DEF Limits!Eval
<1>12. CASE UNCHANGED Limits!vars
  <2>1. UNCHANGED <<limiter, clock, count, ttl, start, log, limitJob, passed, granted, refused>>
    BY <1>12 DEF Limits!vars, Limits!fixed, Limits!history
  <2>2. CounterInv'
    BY <1>1, <2>1 DEF CounterInv, Passes, Grants, Dated, Full, Since, After
  <2>3. LogInv'
    BY <1>1, <2>1 DEF LogInv, GrantsLogged, PassesLogged, Newer, Waiting, After
  <2> QED
    BY <1>6, <2>1, <2>2, <2>3
<1> QED
  BY <1>7, <1>8, <1>9, <1>10, <1>11, <1>12 DEF Limits!Next

LEMMA LimitStarts == ASSUME Limits!LimitAssumption, Limits!Init PROVE LimitInv
<1>1. /\ limiter \in Limits!Limiter /\ clock = 0 /\ count = 0 /\ ttl = 0 /\ start = 0
      /\ swept = 0 /\ log = {}
      /\ limitJob = [w \in Worker |-> -1] /\ calls = 0 /\ limitFaults = 0
      /\ passed = <<>> /\ granted = <<>> /\ refused = {}
  BY DEF Limits!Init
<1>2. /\ Limit \in Nat \ {0} /\ Window \in Nat \ {0} /\ Slack \in Nat /\ MaxInstants \in Nat
      /\ MaxFaults \in Nat /\ MaxCalls \in Nat
  BY LimitsAreNumbers
<1>3. Limits!TypeOK
  BY <1>1, <1>2 DEF Limits!TypeOK, Limits!Instant
<1>4. HistoryInv
  BY <1>1 DEF HistoryInv, Ordered
<1>5. CounterInv
  BY <1>1, <1>2 DEF CounterInv, Passes, Grants
<1>6. LogInv
  BY <1>1, FS_EmptySet DEF LogInv, GrantsLogged, PassesLogged, Newer
<1>7. Limits!NeverTooMany /\ Limits!NeverTooFew
  BY <1>1 DEF Limits!NeverTooMany, Limits!NeverTooFew
<1> QED
  BY <1>3, <1>4, <1>5, <1>6, <1>7 DEF LimitInv

-----------------------------------------------------------------------------
(* The registry.                                                           *)

\* The interval of the keep-alives is a number of ticks, and two of them are
\* shorter than a lease.
LEMMA IntervalFits ==
  ASSUME Registry!RegistryAssumption
  PROVE  /\ Registry!Interval \in Nat \ {0} /\ LeaseTtl \in Nat /\ 2 * Registry!Interval < LeaseTtl
         /\ MaxInstances \in Nat /\ MaxFaults \in Nat
         /\ Registry!Instance \subseteq Nat \ {0}
<1>1. LeaseTtl \in Nat /\ 2 * Registry!Interval < LeaseTtl /\ MaxInstances \in Nat /\ MaxFaults \in Nat
  BY DEF Registry!RegistryAssumption
<1>2. Registry!Interval \in Nat \ {0}
  <2>1. LeaseTtl \div 3 \in Int
    BY <1>1
  <2> QED
    BY <2>1 DEF Registry!Interval
<1>3. Registry!Instance \subseteq Nat \ {0}
  BY <1>1 DEF Registry!Instance
<1> QED
  BY <1>1, <1>2, <1>3

\* The step of an instance is one of the steps there are.
Steps == {"new", "grant", "put", "spawn", "held", "told", "left", "failed", "dead",
          "abort", "delete", "abortAgain", "deleteAgain"}

LEMMA RegTypeKeeps ==
  ASSUME Registry!RegistryAssumption, Registry!TypeOK, [Registry!Next]_(Registry!vars)
  PROVE  Registry!TypeOK'
<1> DEFINE Hosted == \A i \in Registry!Instance : Registry!At(i, "new") \/ \E p \in Worker : i \in hosts[p]
<1>1. /\ at \in [Registry!Instance -> Steps] /\ hosts \in [Worker -> SUBSET Registry!Instance]
      /\ Hosted
      /\ lease \in [Registry!Instance -> 0..LeaseTtl] /\ keys \in SUBSET Registry!Instance
      /\ keeper \in [Worker -> {0} \cup Registry!Instance]
      /\ due \in [Registry!Instance -> -1..LeaseTtl] /\ etcdFaults \in 0..MaxFaults
      /\ clean \in SUBSET Registry!Instance /\ loose \in SUBSET Registry!Instance
      /\ over \in [Registry!Instance -> 0..(LeaseTtl + 1)]
  BY DEF Registry!TypeOK, Steps, Registry!Leaving
<1>2. ASSUME at' \in [Registry!Instance -> Steps], hosts' \in [Worker -> SUBSET Registry!Instance],
             Hosted',
             lease' \in [Registry!Instance -> 0..LeaseTtl], keys' \in SUBSET Registry!Instance,
             keeper' \in [Worker -> {0} \cup Registry!Instance],
             due' \in [Registry!Instance -> -1..LeaseTtl], etcdFaults' \in 0..MaxFaults,
             clean' \in SUBSET Registry!Instance, loose' \in SUBSET Registry!Instance,
             over' \in [Registry!Instance -> 0..(LeaseTtl + 1)]
      PROVE  Registry!TypeOK'
  BY <1>2 DEF Registry!TypeOK, Steps, Registry!Leaving
<1>3. Registry!Interval \in 1..LeaseTtl /\ LeaseTtl \in Nat /\ MaxFaults \in Nat
  BY IntervalFits
<1>4. ASSUME Registry!Works \/ Registry!Fails PROVE etcdFaults' \in 0..MaxFaults
  BY <1>1, <1>3, <1>4 DEF Registry!Works, Registry!Fails
<1>5. ASSUME NEW i \in Registry!Instance, NEW step \in Steps,
             ~Registry!At(i, "new"), Registry!Become(i, step)
      PROVE  at' \in [Registry!Instance -> Steps] /\ (UNCHANGED hosts => Hosted')
  BY <1>1, <1>5 DEF Registry!At, Registry!Become
<1>6. CASE Registry!Tick
  BY <1>1, <1>2, <1>3, <1>6 DEF Registry!Tick, Registry!program, Registry!At
<1>7. ASSUME NEW p \in Worker, Registry!Crash(p) PROVE Registry!TypeOK'
  <2>1. at' \in [Registry!Instance -> Steps]
    BY <1>1, <1>7 DEF Registry!Crash, Steps
  <2>2. Hosted'
    BY <1>1, <1>7 DEF Registry!Crash, Registry!At
  <2> QED
    BY <1>1, <1>2, <1>3, <1>4, <1>7, <2>1, <2>2 DEF Registry!Crash, Registry!etcd, Registry!history
<1>8. ASSUME NEW p \in Worker, NEW i \in Registry!Instance, Registry!Register(p, i)
      PROVE  Registry!TypeOK'
  <2>1. at' = [at EXCEPT ![i] = "grant"] /\ hosts' = [hosts EXCEPT ![p] = @ \cup {i}]
    BY <1>8 DEF Registry!Register, Registry!Become
  <2>2. at' \in [Registry!Instance -> Steps] /\ hosts' \in [Worker -> SUBSET Registry!Instance]
    BY <1>1, <2>1 DEF Steps
  <2>3. Hosted'
    BY <1>1, <2>1 DEF Registry!At
  <2>4. clean' \in SUBSET Registry!Instance
    BY <1>1, <1>8 DEF Registry!Register
  <2> QED
    BY <1>1, <1>2, <1>8, <2>2, <2>3, <2>4 DEF Registry!Register, Registry!etcd, Registry!tasks
<1>9. ASSUME NEW i \in Registry!Instance, Registry!Grant(i) PROVE Registry!TypeOK'
  <2>1. at' \in [Registry!Instance -> Steps] /\ UNCHANGED hosts /\ Hosted'
    BY <1>5, <1>9 DEF Registry!Grant, Registry!Go, Registry!At, Steps
  <2> QED
    BY <1>1, <1>2, <1>3, <1>4, <1>9, <2>1 DEF Registry!Grant, Registry!tasks, Registry!history
<1>10. ASSUME NEW i \in Registry!Instance, Registry!Put(i) PROVE Registry!TypeOK'
  <2>1. at' \in [Registry!Instance -> Steps] /\ UNCHANGED hosts /\ Hosted'
    BY <1>5, <1>10 DEF Registry!Put, Registry!Go, Registry!At, Steps
  <2> QED
    BY <1>1, <1>2, <1>4, <1>10, <2>1 DEF Registry!Put, Registry!tasks
<1>11. ASSUME NEW i \in Registry!Instance, Registry!Spawn(i) PROVE Registry!TypeOK'
  <2>1. at' \in [Registry!Instance -> Steps] /\ UNCHANGED hosts /\ Hosted'
    BY <1>5, <1>11 DEF Registry!Spawn, Registry!Go, Registry!At, Steps
  <2>2. Registry!Host(i) \in Worker
    BY <1>1, <1>11 DEF Registry!Spawn, Registry!At, Registry!Host
  <2>3. /\ UNCHANGED <<lease, keys, etcdFaults, clean, over>>
        /\ keeper' \in [Worker -> {0} \cup Registry!Instance]
        /\ due' \in [Registry!Instance -> -1..LeaseTtl]
        /\ loose' \in SUBSET Registry!Instance
    BY <1>1, <1>3, <1>11, <2>2 DEF Registry!Spawn, Registry!etcd, Registry!Period
  <2> QED
    BY <1>1, <1>2, <2>1, <2>3
<1>12. ASSUME NEW i \in Registry!Instance, Registry!KeepAlive(i) PROVE Registry!TypeOK'
  BY <1>1, <1>2, <1>3, <1>4, <1>12
  DEF Registry!KeepAlive, Registry!program, Registry!history, Registry!Period, Registry!At
<1>13. ASSUME NEW i \in Registry!Instance, Registry!Ask(i) \/ Registry!Drop(i)
       PROVE  Registry!TypeOK'
  <2>1. at' \in [Registry!Instance -> Steps] /\ UNCHANGED hosts /\ Hosted'
    BY <1>5, <1>13 DEF Registry!Ask, Registry!Drop, Registry!Go, Registry!At, Steps
  <2>2. clean' \in SUBSET Registry!Instance /\ UNCHANGED <<lease, keys, keeper, due, etcdFaults, loose, over>>
    BY <1>13 DEF Registry!Ask, Registry!Drop, Registry!etcd, Registry!tasks
  <2> QED
    BY <1>1, <1>2, <2>1, <2>2
<1>14. ASSUME NEW i \in Registry!Instance, Registry!Abort(i) PROVE Registry!TypeOK'
  <2>1. at' \in [Registry!Instance -> Steps] /\ UNCHANGED hosts /\ Hosted'
    BY <1>5, <1>14 DEF Registry!Abort, Registry!Go, Registry!At, Steps
  <2>2. keeper' \in [Worker -> {0} \cup Registry!Instance]
    BY <1>1, <1>14 DEF Registry!Abort
  <2>3. due' \in [Registry!Instance -> -1..LeaseTtl]
    <3>1. PICK j : due' = due \/ due' = [due EXCEPT ![j] = -1]
      BY <1>14 DEF Registry!Abort, Registry!Aborted
    <3> QED
      BY <1>1, <1>3, <3>1
  <2>4. UNCHANGED <<lease, keys, etcdFaults, clean, loose, over>>
    BY <1>14 DEF Registry!Abort, Registry!etcd, Registry!history
  <2> QED
    BY <1>1, <1>2, <2>1, <2>2, <2>3, <2>4
<1>15. ASSUME NEW i \in Registry!Instance, Registry!Delete(i) PROVE Registry!TypeOK'
  <2>1. at' \in [Registry!Instance -> Steps] /\ UNCHANGED hosts /\ Hosted'
    BY <1>5, <1>15 DEF Registry!Delete, Registry!Go, Registry!At, Steps
  <2> QED
    BY <1>1, <1>2, <1>4, <1>15, <2>1 DEF Registry!Delete, Registry!tasks, Registry!history
<1>16. CASE UNCHANGED Registry!vars
  BY <1>1, <1>2, <1>16
  DEF Registry!vars, Registry!program, Registry!etcd, Registry!tasks, Registry!history,
      Registry!At
<1> QED
  BY <1>6, <1>7, <1>8, <1>9, <1>10, <1>11, <1>12, <1>13, <1>14, <1>15, <1>16
  DEF Registry!Next

\* What a clean registration can be sure of: when it is over, its key is
\* there, and the lease lasts for a call more than is due, even if the next
\* one fails.
Ready(i) ==
  /\ at[i] \in {"grant", "put", "spawn", "held", "failed", "dead"}
  /\ Registry!At(i, "spawn") => i \in keys
  /\ Registry!At(i, "held") /\ etcdFaults <= 1 =>
       /\ i \in keys /\ due[i] >= 0
       /\ lease[i] - due[i] >= LeaseTtl - 2 * Registry!Interval
       /\ etcdFaults = 0 => lease[i] - due[i] >= LeaseTtl - Registry!Interval

FoundInv ==
  /\ \A j \in Registry!Instance : at[j] \in Registry!Leaving => clean = {}
  /\ \A i \in Registry!Instance : at[i] \in {"put", "spawn"} => lease[i] = LeaseTtl
  /\ \A i \in clean : Ready(i)

\* A clean registration whose step, lease, key and task are left alone stays
\* ready, whatever fails meanwhile.
LEMMA ReadyKeeps ==
  ASSUME NEW i, Ready(i), UNCHANGED <<at[i], lease[i], due[i]>>,
         i \in keys => i \in keys', etcdFaults' \in Nat, etcdFaults \in Nat, etcdFaults <= etcdFaults'
  PROVE  Ready(i)'
BY DEF Ready, Registry!At

LEMMA FoundKeeps ==
  ASSUME Registry!RegistryAssumption, Registry!TypeOK, FoundInv,
         [Registry!Next]_(Registry!vars)
  PROVE  FoundInv'
<1>1. /\ at \in [Registry!Instance -> Steps]
      /\ lease \in [Registry!Instance -> 0..LeaseTtl] /\ keys \in SUBSET Registry!Instance
      /\ due \in [Registry!Instance -> -1..LeaseTtl] /\ etcdFaults \in Nat
      /\ clean \in SUBSET Registry!Instance
  BY IntervalFits DEF Registry!TypeOK, Steps, Registry!Leaving
<1>2. Registry!Interval \in Nat \ {0} /\ LeaseTtl \in Nat /\ 2 * Registry!Interval < LeaseTtl
  BY IntervalFits
<1>3. /\ \A j \in Registry!Instance : at[j] \in Registry!Leaving => clean = {}
      /\ \A j \in Registry!Instance : at[j] \in {"put", "spawn"} => lease[j] = LeaseTtl
      /\ \A j \in clean : Ready(j)
  BY DEF FoundInv
<1>4. ASSUME Registry!Works \/ Registry!Fails PROVE etcdFaults' \in Nat /\ etcdFaults <= etcdFaults'
  BY <1>1, <1>4 DEF Registry!Works, Registry!Fails
\* What is left to show of a step of one instance.
<1>5. ASSUME NEW i \in Registry!Instance,
             \A j \in Registry!Instance \ {i} : UNCHANGED <<at[j], lease[j], due[j]>>,
             etcdFaults' \in Nat, etcdFaults <= etcdFaults',
             clean' \subseteq clean \cup {i},
             clean' \subseteq clean \/ \A j \in Registry!Instance : at[j] \notin Registry!Leaving,
             \A j \in clean' \ {i} : j \in keys => j \in keys',
             at'[i] \in Registry!Leaving => clean' = {},
             at'[i] \in {"put", "spawn"} => lease'[i] = LeaseTtl,
             i \in clean' => Ready(i)'
      PROVE  FoundInv'
  <2>1. ASSUME NEW j \in clean' PROVE Ready(j)'
    <3>1. CASE j # i
      BY <1>1, <1>3, <1>5, <2>1, <3>1, ReadyKeeps
    <3> QED
      BY <1>5, <2>1, <3>1
  <2>2. ASSUME NEW j \in Registry!Instance, at'[j] \in Registry!Leaving PROVE clean' = {}
    BY <1>3, <1>5, <2>2
  <2>3. ASSUME NEW j \in Registry!Instance, at'[j] \in {"put", "spawn"} PROVE lease'[j] = LeaseTtl
    BY <1>3, <1>5, <2>3
  <2> QED
    BY <2>1, <2>2, <2>3 DEF FoundInv
<1>6. CASE Registry!Tick
  <2>1. ASSUME NEW i \in clean PROVE Ready(i)'
    <3>1. /\ Ready(i) /\ i \in Registry!Instance /\ at[i] # "spawn" /\ UNCHANGED <<at, etcdFaults>>
          /\ lease'[i] = IF lease[i] > 0 THEN lease[i] - 1 ELSE 0
          /\ due'[i] = IF due[i] > 0 THEN due[i] - 1 ELSE due[i]
          /\ due[i] # 0 /\ (i \in keys' <=> i \in keys /\ lease[i] > 1)
      BY <1>1, <1>3, <1>6, <2>1 DEF Registry!Tick, Registry!program
    <3>2. lease[i] \in Nat /\ due[i] \in Int
      BY <1>1, <1>2, <3>1
    <3> QED
      BY <1>1, <1>2, <3>1, <3>2 DEF Ready, Registry!At
  <2>2. UNCHANGED <<at, clean>> /\ \A i \in Registry!Instance : at[i] \notin {"put", "spawn"}
    BY <1>6 DEF Registry!Tick, Registry!program
  <2> QED
    BY <1>3, <2>1, <2>2 DEF FoundInv
<1>7. ASSUME NEW p \in Worker, Registry!Crash(p) PROVE FoundInv'
  <2>1. /\ at' = [i \in Registry!Instance |-> IF i \in hosts[p] THEN "dead" ELSE at[i]]
        /\ due' = [i \in Registry!Instance |-> IF i \in hosts[p] THEN -1 ELSE due[i]]
        /\ UNCHANGED <<lease, keys, clean>> /\ etcdFaults' \in Nat /\ etcdFaults <= etcdFaults'
    BY <1>4, <1>7 DEF Registry!Crash, Registry!etcd, Registry!history
  <2>2. ASSUME NEW i \in clean PROVE Ready(i)'
    <3>1. CASE i \in hosts[p]
      BY <1>1, <2>1, <2>2, <3>1 DEF Ready, Registry!At
    <3>2. CASE i \notin hosts[p]
      BY <1>1, <1>3, <2>1, <2>2, <3>2, ReadyKeeps
    <3> QED
      BY <3>1, <3>2
  <2>3. "dead" \notin Registry!Leaving
    BY DEF Registry!Leaving
  <2> QED
    BY <1>3, <2>1, <2>2, <2>3 DEF FoundInv
<1>8. ASSUME NEW p \in Worker, NEW i \in Registry!Instance, Registry!Register(p, i) PROVE FoundInv'
  <2>1. /\ at' = [at EXCEPT ![i] = "grant"] /\ UNCHANGED <<lease, keys, due, etcdFaults>>
        /\ clean' = IF \E j \in Registry!Instance : at[j] \in Registry!Leaving THEN clean ELSE clean \cup {i}
    BY <1>8 DEF Registry!Register, Registry!Become, Registry!etcd, Registry!tasks
  <2>2. at'[i] = "grant" /\ "grant" \notin Registry!Leaving
    BY <1>1, <2>1 DEF Registry!Leaving
  <2>3. Ready(i)'
    BY <2>2 DEF Ready, Registry!At
  <2> QED
    BY <1>1, <1>5, <2>1, <2>2, <2>3
<1>9. ASSUME NEW i \in Registry!Instance, Registry!Grant(i) PROVE FoundInv'
  <2>1. /\ at[i] = "grant" /\ UNCHANGED <<keys, due, clean>>
        /\ etcdFaults' \in Nat /\ etcdFaults <= etcdFaults'
        /\ \/ at' = [at EXCEPT ![i] = "put"] /\ lease' = [lease EXCEPT ![i] = LeaseTtl]
           \/ at' = [at EXCEPT ![i] = "failed"] /\ UNCHANGED lease
    BY <1>4, <1>9
    DEF Registry!Grant, Registry!Go, Registry!Become, Registry!At, Registry!tasks,
        Registry!history
  <2>2. /\ at'[i] = "put" \/ at'[i] = "failed"
        /\ at'[i] = "put" => lease'[i] = LeaseTtl
    BY <1>1, <2>1
  <2>3. Ready(i)' /\ at'[i] \notin Registry!Leaving
    BY <2>2 DEF Ready, Registry!At, Registry!Leaving
  <2> QED
    BY <1>1, <1>5, <2>1, <2>2, <2>3
<1>10. ASSUME NEW i \in Registry!Instance, Registry!Put(i) PROVE FoundInv'
  <2>1. /\ at[i] = "put" /\ UNCHANGED <<lease, due>>
        /\ etcdFaults' \in Nat /\ etcdFaults <= etcdFaults'
        /\ keys \subseteq keys' /\ clean' \subseteq clean
        /\ \/ at' = [at EXCEPT ![i] = "spawn"] /\ (i \in clean' => i \in keys')
           \/ at' = [at EXCEPT ![i] = "failed"]
    BY <1>4, <1>10 DEF Registry!Put, Registry!Go, Registry!Become, Registry!At, Registry!tasks
  <2>2. /\ at'[i] = "spawn" \/ at'[i] = "failed"
        /\ at'[i] = "spawn" => (i \in clean' => i \in keys')
    BY <1>1, <2>1
  <2>3. (i \in clean' => Ready(i)') /\ at'[i] \notin Registry!Leaving
    BY <2>2 DEF Ready, Registry!At, Registry!Leaving
  <2> QED
    BY <1>1, <1>3, <1>5, <2>1, <2>2, <2>3
<1>11. ASSUME NEW i \in Registry!Instance, Registry!Spawn(i) PROVE FoundInv'
  <2>1. /\ at[i] = "spawn" /\ at' = [at EXCEPT ![i] = "held"]
        /\ due' = [due EXCEPT ![i] = Registry!Interval]
        /\ UNCHANGED <<lease, keys, etcdFaults, clean>>
    BY <1>11
    DEF Registry!Spawn, Registry!Go, Registry!Become, Registry!At, Registry!etcd,
        Registry!Period
  <2>2. at'[i] = "held" /\ due'[i] = Registry!Interval /\ lease'[i] = LeaseTtl
    BY <1>1, <1>3, <2>1
  <2>3. i \in clean => i \in keys
    BY <1>3, <2>1 DEF Ready, Registry!At
  <2>4. (i \in clean' => Ready(i)') /\ at'[i] \notin Registry!Leaving
    BY <1>2, <2>1, <2>2, <2>3 DEF Ready, Registry!At, Registry!Leaving
  <2> QED
    BY <1>1, <1>5, <2>1, <2>2, <2>4
<1>12. ASSUME NEW i \in Registry!Instance, Registry!KeepAlive(i) PROVE FoundInv'
  <2>1. /\ due[i] = 0 /\ due' = [due EXCEPT ![i] = Registry!Interval]
        /\ UNCHANGED <<at, keys, clean>>
        /\ \/ lease' = [lease EXCEPT ![i] = IF @ > 0 THEN LeaseTtl ELSE 0] /\ UNCHANGED etcdFaults
           \/ UNCHANGED lease /\ etcdFaults' = etcdFaults + 1
        /\ etcdFaults' \in Nat /\ etcdFaults <= etcdFaults'
    BY <1>4, <1>12
    DEF Registry!KeepAlive, Registry!program, Registry!history, Registry!Period, Registry!Works,
        Registry!Fails
  <2>2. /\ due'[i] = Registry!Interval
        /\ \/ lease'[i] = (IF lease[i] > 0 THEN LeaseTtl ELSE 0) /\ UNCHANGED etcdFaults
           \/ lease'[i] = lease[i] /\ etcdFaults' = etcdFaults + 1
    BY <1>1, <2>1
  <2>3. i \in clean => Ready(i)'
    <3>1. SUFFICES ASSUME i \in clean PROVE Ready(i)'
      OBVIOUS
    <3>2. Ready(i) /\ lease[i] \in Nat
      BY <1>1, <1>2, <1>3, <3>1
    <3>3. CASE at[i] = "held" /\ etcdFaults' <= 1
      BY <1>1, <1>2, <2>1, <2>2, <3>2, <3>3 DEF Ready, Registry!At
    <3>4. CASE ~(at[i] = "held" /\ etcdFaults' <= 1)
      BY <2>1, <3>2, <3>4 DEF Ready, Registry!At
    <3> QED
      BY <3>3, <3>4
  <2>4. at[i] \in {"put", "spawn"} => lease'[i] = LeaseTtl
    BY <1>2, <1>3, <2>2
  <2> QED
    BY <1>1, <1>3, <1>5, <2>1, <2>3, <2>4
<1>13. ASSUME NEW i \in Registry!Instance, Registry!Ask(i) \/ Registry!Drop(i) PROVE FoundInv'
  <2>1. /\ clean' = {} /\ UNCHANGED <<lease, keys, due, etcdFaults>>
        /\ at' = [at EXCEPT ![i] = "abort"] \/ at' = [at EXCEPT ![i] = "abortAgain"]
    BY <1>13
    DEF Registry!Ask, Registry!Drop, Registry!Go, Registry!Become, Registry!etcd, Registry!tasks
  <2>2. at'[i] \notin {"put", "spawn"}
    BY <1>1, <2>1
  <2> QED
    BY <1>1, <1>5, <2>1, <2>2
<1>14. ASSUME NEW i \in Registry!Instance, Registry!Abort(i) \/ Registry!Delete(i) PROVE FoundInv'
  <2>1. at[i] \in Registry!Leaving /\ clean' = clean /\ UNCHANGED lease
    BY <1>14
    DEF Registry!Abort, Registry!Delete, Registry!At, Registry!Leaving, Registry!etcd,
        Registry!history, Registry!tasks
  <2>2. clean = {}
    BY <1>3, <2>1
  <2>3. PICK step \in {"delete", "told", "deleteAgain", "left"} : at' = [at EXCEPT ![i] = step]
    BY <1>14 DEF Registry!Abort, Registry!Delete, Registry!Go, Registry!Become
  <2>4. \A j \in Registry!Instance : at'[j] \in {"put", "spawn"} => at[j] = at'[j]
    BY <1>1, <2>3
  <2> QED
    BY <1>3, <2>1, <2>2, <2>4 DEF FoundInv
<1>15. CASE UNCHANGED Registry!vars
  <2>1. UNCHANGED <<at, lease, keys, due, etcdFaults, clean>>
    BY <1>15 DEF Registry!vars, Registry!program, Registry!etcd, Registry!tasks, Registry!history
  <2> QED
    BY <2>1, <1>3 DEF FoundInv, Ready, Registry!At
<1> QED
  BY <1>6, <1>7, <1>8, <1>9, <1>10, <1>11, <1>12, <1>13, <1>14, <1>15 DEF Registry!Next

\* An instance is of one process, from its registration on; a process keeps
\* the task of one of its own instances, that has not given it up yet; and a
\* task that runs is kept, or was overwritten.
Keeping == {"held", "abort", "abortAgain"}

TaskInv ==
  /\ \A i \in Registry!Instance, p, q \in Worker : i \in hosts[p] /\ i \in hosts[q] => p = q
  /\ \A i \in Registry!Instance, p \in Worker : i \in hosts[p] => ~Registry!At(i, "new")
  /\ \A p \in Worker : keeper[p] # 0 => keeper[p] \in hosts[p] /\ at[keeper[p]] \in Keeping
  /\ \A i \in Registry!Instance, p \in Worker :
       due[i] >= 0 /\ i \in hosts[p] => keeper[p] = i \/ i \in loose
  /\ \A i \in Registry!Instance : due[i] >= 0 => at[i] \in {"held", "told", "left"} \cup Registry!Leaving

\* The process of an instance that has begun to register.
LEMMA HostIsOne ==
  ASSUME Registry!TypeOK, TaskInv, NEW i \in Registry!Instance, ~Registry!At(i, "new")
  PROVE  /\ Registry!Host(i) \in Worker /\ i \in hosts[Registry!Host(i)]
         /\ \A p \in Worker : i \in hosts[p] => p = Registry!Host(i)
<1>1. \E p \in Worker : i \in hosts[p]
  BY DEF Registry!TypeOK
<1>2. Registry!Host(i) \in Worker /\ i \in hosts[Registry!Host(i)]
  BY <1>1 DEF Registry!Host
<1>3. \A p \in Worker : i \in hosts[p] => p = Registry!Host(i)
  BY <1>2 DEF TaskInv
<1> QED
  BY <1>2, <1>3

LEMMA TaskKeeps ==
  ASSUME Registry!RegistryAssumption, Registry!TypeOK, TaskInv,
         [Registry!Next]_(Registry!vars)
  PROVE  TaskInv'
<1>1. /\ at \in [Registry!Instance -> Steps] /\ hosts \in [Worker -> SUBSET Registry!Instance]
      /\ keeper \in [Worker -> {0} \cup Registry!Instance]
      /\ due \in [Registry!Instance -> -1..LeaseTtl] /\ loose \in SUBSET Registry!Instance
  BY DEF Registry!TypeOK, Steps, Registry!Leaving
<1>2. Registry!Interval \in Nat /\ LeaseTtl \in Nat /\ \A i \in Registry!Instance : i # 0
  BY IntervalFits
<1>3. /\ \A i \in Registry!Instance, p, q \in Worker : i \in hosts[p] /\ i \in hosts[q] => p = q
      /\ \A i \in Registry!Instance, p \in Worker : i \in hosts[p] => at[i] # "new"
      /\ \A p \in Worker : keeper[p] # 0 => keeper[p] \in hosts[p] /\ at[keeper[p]] \in Keeping
      /\ \A i \in Registry!Instance, p \in Worker :
           due[i] >= 0 /\ i \in hosts[p] => keeper[p] = i \/ i \in loose
      /\ \A i \in Registry!Instance : due[i] >= 0 => at[i] \in {"held", "told", "left"} \cup Registry!Leaving
  BY DEF TaskInv, Registry!At
\* A step of an instance that is registered and leaves the tasks alone.
<1>4. ASSUME NEW i \in Registry!Instance, NEW step \in Steps \ {"new"}, at[i] # "new",
             at' = [at EXCEPT ![i] = step], UNCHANGED <<hosts, keeper, due, loose>>,
             at[i] \in Keeping => step \in Keeping,
             due[i] >= 0 => step \in {"held", "told", "left"} \cup Registry!Leaving
      PROVE  TaskInv'
  <2>1. \A j \in Registry!Instance : at'[j] = IF j = i THEN step ELSE at[j]
    BY <1>1, <1>4
  <2>2. \A p \in Worker : keeper[p] # 0 => keeper[p] \in Registry!Instance
    BY <1>1
  <2> QED
    BY <1>3, <1>4, <2>1, <2>2 DEF TaskInv, Registry!At
<1>5. CASE Registry!Tick
  <2>1. UNCHANGED <<at, hosts, keeper, loose>>
    BY <1>5 DEF Registry!Tick, Registry!program
  <2>2. \A i \in Registry!Instance : due'[i] >= 0 => due[i] >= 0
    BY <1>1, <1>5 DEF Registry!Tick
  <2> QED
    BY <1>3, <2>1, <2>2 DEF TaskInv, Registry!At
<1>6. ASSUME NEW p \in Worker, Registry!Crash(p) PROVE TaskInv'
  <2>1. /\ \A i \in Registry!Instance : at'[i] = IF i \in hosts[p] THEN "dead" ELSE at[i]
        /\ \A i \in Registry!Instance : due'[i] = IF i \in hosts[p] THEN -1 ELSE due[i]
        /\ \A q \in Worker : keeper'[q] = IF q = p THEN 0 ELSE keeper[q]
        /\ UNCHANGED <<hosts, loose>>
    BY <1>1, <1>6 DEF Registry!Crash, Registry!history
  <2>2. \A q \in Worker : keeper'[q] # 0 =>
          keeper'[q] \in hosts[q] /\ at'[keeper'[q]] \in Keeping
    BY <1>1, <1>3, <2>1
  <2>3. \A i \in Registry!Instance : due'[i] >= 0 => i \notin hosts[p] /\ due[i] >= 0
    BY <2>1
  <2> QED
    BY <1>1, <1>3, <2>1, <2>2, <2>3 DEF TaskInv, Registry!At
<1>7. ASSUME NEW p \in Worker, NEW i \in Registry!Instance, Registry!Register(p, i) PROVE TaskInv'
  <2>1. /\ at[i] = "new" /\ UNCHANGED <<keeper, due, loose>>
        /\ \A j \in Registry!Instance : at'[j] = IF j = i THEN "grant" ELSE at[j]
        /\ \A q \in Worker : hosts'[q] = IF q = p THEN hosts[q] \cup {i} ELSE hosts[q]
    BY <1>1, <1>7 DEF Registry!Register, Registry!Become, Registry!At, Registry!tasks
  <2>2. ~(due[i] >= 0)
    BY <1>3, <2>1 DEF Registry!Leaving
  <2>3. \A q \in Worker : keeper[q] # 0 => keeper[q] \in Registry!Instance
    BY <1>1
  <2>4. \A j \in Registry!Instance, q \in Worker : j \in hosts'[q] =>
          (j = i /\ q = p) \/ (j # i /\ j \in hosts[q])
    <3>1. \A q \in Worker : i \notin hosts[q]
      BY <1>3, <2>1
    <3> QED
      BY <2>1, <3>1
  <2>5. \A j \in Registry!Instance, q, r \in Worker : j \in hosts'[q] /\ j \in hosts'[r] => q = r
    BY <1>3, <2>4
  <2>6. \A q \in Worker : keeper'[q] # 0 =>
          keeper'[q] \in hosts'[q] /\ at'[keeper'[q]] \in Keeping
    BY <1>3, <2>1, <2>3 DEF Keeping
  <2>7. \A j \in Registry!Instance, q \in Worker : due'[j] >= 0 /\ j \in hosts'[q] =>
          keeper'[q] = j \/ j \in loose'
    BY <1>3, <2>1, <2>2, <2>4
  <2>8. \A j \in Registry!Instance, q \in Worker : j \in hosts'[q] => at'[j] # "new"
    BY <1>3, <2>1, <2>4
  <2> QED
    BY <1>3, <2>1, <2>2, <2>5, <2>6, <2>7, <2>8 DEF TaskInv, Registry!At
<1>8. ASSUME NEW i \in Registry!Instance, Registry!Grant(i) \/ Registry!Put(i) PROVE TaskInv'
  <2>1. PICK step \in {"put", "spawn", "failed"} :
          /\ at' = [at EXCEPT ![i] = step] /\ at[i] \in {"grant", "put"}
          /\ UNCHANGED <<hosts, keeper, due, loose>>
    BY <1>8
    DEF Registry!Grant, Registry!Put, Registry!Go, Registry!Become, Registry!At, Registry!tasks,
        Registry!history
  <2>2. at[i] \notin Keeping /\ ~(due[i] >= 0) /\ step \in Steps \ {"new"}
    BY <1>3, <2>1 DEF Keeping, Registry!Leaving, Steps
  <2> QED
    BY <1>4, <2>1, <2>2
<1>9. ASSUME NEW i \in Registry!Instance, Registry!Spawn(i) PROVE TaskInv'
  <2>1. at[i] = "spawn"
    BY <1>9 DEF Registry!Spawn, Registry!At
  <2> DEFINE p == Registry!Host(i)
  <2>2. /\ p \in Worker /\ i \in hosts[p]
        /\ \A q \in Worker : i \in hosts[q] => q = p
    BY <2>1, HostIsOne DEF Registry!At
  <2> HIDE DEF p
  <2>3. /\ \A j \in Registry!Instance : at'[j] = IF j = i THEN "held" ELSE at[j]
        /\ \A j \in Registry!Instance : due'[j] = IF j = i THEN Registry!Interval ELSE due[j]
        /\ \A q \in Worker : keeper'[q] = IF q = p THEN i ELSE keeper[q]
        /\ loose' = IF keeper[p] = 0 THEN loose ELSE loose \cup {keeper[p]}
        /\ UNCHANGED hosts
    BY <1>1, <1>9, <2>2 DEF Registry!Spawn, Registry!Go, Registry!Become, Registry!Period, p
  <2>4. \A q \in Worker : keeper[q] # 0 => keeper[q] \in Registry!Instance
    BY <1>1
  <2>5. \A q \in Worker : keeper'[q] # 0 =>
          keeper'[q] \in hosts[q] /\ at'[keeper'[q]] \in Keeping
    BY <1>3, <2>2, <2>3, <2>4 DEF Keeping
  <2>6. \A j \in Registry!Instance, q \in Worker : due'[j] >= 0 /\ j \in hosts[q] =>
          keeper'[q] = j \/ j \in loose'
    <3>1. SUFFICES ASSUME NEW j \in Registry!Instance, NEW q \in Worker, due'[j] >= 0, j \in hosts[q]
                   PROVE  keeper'[q] = j \/ j \in loose'
      OBVIOUS
    <3>2. CASE j = i
      BY <2>2, <2>3, <3>1, <3>2
    <3>3. CASE j # i
      <4>1. keeper[q] = j \/ j \in loose
        BY <1>3, <2>3, <3>1, <3>3
      <4>2. loose \subseteq loose' /\ (keeper[p] # 0 => keeper[p] \in loose')
        BY <2>3
      <4> QED
        BY <1>2, <2>2, <2>3, <4>1, <4>2
    <3> QED
      BY <3>2, <3>3
  <2>7. \A j \in Registry!Instance : due'[j] >= 0 =>
          at'[j] \in {"held", "told", "left"} \cup Registry!Leaving
    BY <1>3, <2>3
  <2> QED
    BY <1>3, <2>3, <2>5, <2>6, <2>7 DEF TaskInv, Registry!At
<1>10. ASSUME NEW i \in Registry!Instance, Registry!KeepAlive(i) PROVE TaskInv'
  <2>1. due[i] = 0 /\ UNCHANGED <<at, hosts, keeper, loose>>
    BY <1>10 DEF Registry!KeepAlive, Registry!program, Registry!history
  <2>2. \A j \in Registry!Instance : due'[j] >= 0 => due[j] >= 0
    BY <1>1, <1>2, <1>10 DEF Registry!KeepAlive
  <2> QED
    BY <1>3, <2>1, <2>2 DEF TaskInv, Registry!At
<1>11. ASSUME NEW i \in Registry!Instance, Registry!Ask(i) \/ Registry!Drop(i) PROVE TaskInv'
  <2>1. PICK step \in {"abort", "abortAgain"} :
          /\ at' = [at EXCEPT ![i] = step] /\ at[i] \in {"held", "told"}
          /\ UNCHANGED <<hosts, keeper, due, loose>>
    BY <1>11
    DEF Registry!Ask, Registry!Drop, Registry!Go, Registry!Become, Registry!At, Registry!tasks
  <2>2. step \in Keeping /\ step \in Registry!Leaving /\ step \in Steps \ {"new"}
    BY DEF Keeping, Registry!Leaving, Steps
  <2> QED
    BY <1>4, <2>1, <2>2
<1>12. ASSUME NEW i \in Registry!Instance, Registry!Abort(i) PROVE TaskInv'
  <2>1. at[i] \in {"abort", "abortAgain"}
    BY <1>12 DEF Registry!Abort, Registry!At
  <2> DEFINE p == Registry!Host(i)
  <2>2. /\ p \in Worker /\ i \in hosts[p]
        /\ \A q \in Worker : i \in hosts[q] => q = p
    BY <2>1, HostIsOne DEF Registry!At
  <2> HIDE DEF p
  <2>3. PICK step \in {"delete", "deleteAgain"} : at' = [at EXCEPT ![i] = step]
    BY <1>12 DEF Registry!Abort, Registry!Go, Registry!Become
  <2>4. /\ \A j \in Registry!Instance : at'[j] = IF j = i THEN step ELSE at[j]
        /\ \A j \in Registry!Instance : due'[j] = IF j = keeper[p] THEN -1 ELSE due[j]
        /\ \A q \in Worker : keeper'[q] = IF q = p THEN 0 ELSE keeper[q]
        /\ UNCHANGED <<hosts, loose>>
    BY <1>1, <1>2, <1>12, <2>2, <2>3
    DEF Registry!Abort, Registry!Go, Registry!Aborted, Registry!history, p
  <2>5. \A q \in Worker : keeper'[q] # 0 =>
          keeper'[q] \in hosts[q] /\ at'[keeper'[q]] \in Keeping
    BY <1>1, <1>3, <2>2, <2>4
  <2>6. \A j \in Registry!Instance : due'[j] >= 0 => due[j] >= 0 /\ j # keeper[p]
    BY <2>4
  <2>7. step \in Registry!Leaving /\ step # "new"
    BY DEF Registry!Leaving
  <2> QED
    BY <1>3, <2>4, <2>5, <2>6, <2>7 DEF TaskInv, Registry!At
<1>13. ASSUME NEW i \in Registry!Instance, Registry!Delete(i) PROVE TaskInv'
  <2>1. PICK step \in {"told", "left"} :
          /\ at' = [at EXCEPT ![i] = step] /\ at[i] \in {"delete", "deleteAgain"}
          /\ UNCHANGED <<hosts, keeper, due, loose>>
    BY <1>13
    DEF Registry!Delete, Registry!Go, Registry!Become, Registry!At, Registry!tasks,
        Registry!history
  <2>2. at[i] \notin Keeping /\ step \in Steps \ {"new"}
    BY <2>1 DEF Keeping, Steps
  <2> QED
    BY <1>4, <2>1, <2>2
<1>14. CASE UNCHANGED Registry!vars
  BY <1>3, <1>14
  DEF TaskInv, Registry!At, Registry!vars, Registry!program, Registry!tasks, Registry!history
<1> QED
  BY <1>5, <1>6, <1>7, <1>8, <1>9, <1>10, <1>11, <1>12, <1>13, <1>14 DEF Registry!Next

\* A key goes with its lease.  Of what has ended, the lease runs out, since
\* no task keeps it alive; unless the task was overwritten, and then the key is
\* there only because a call failed, or its process died.
Over(i) == lease[i] + over[i] <= LeaseTtl /\ due[i] = -1

GoneInv ==
  /\ \A i \in Registry!Instance : Registry!At(i, "put") => lease[i] = LeaseTtl
  /\ \A i \in keys : lease[i] >= 1
  /\ \A i \in Registry!Instance : ~Registry!Ended(i) => over[i] = 0
  /\ \A i \in keys : Registry!Ended(i) => Over(i) \/ (i \in loose /\ etcdFaults > 0)

LEMMA GoneKeeps ==
  ASSUME Registry!RegistryAssumption, Registry!TypeOK, TaskInv, GoneInv,
         [Registry!Next]_(Registry!vars)
  PROVE  GoneInv'
<1>1. /\ at \in [Registry!Instance -> Steps] /\ hosts \in [Worker -> SUBSET Registry!Instance]
      /\ lease \in [Registry!Instance -> 0..LeaseTtl] /\ keys \in SUBSET Registry!Instance
      /\ due \in [Registry!Instance -> -1..LeaseTtl] /\ etcdFaults \in Nat
      /\ over \in [Registry!Instance -> 0..(LeaseTtl + 1)]
  BY IntervalFits DEF Registry!TypeOK, Steps, Registry!Leaving
<1>2. LeaseTtl \in Nat \ {0} /\ Registry!Interval \in Nat
  BY IntervalFits
<1>3. /\ \A i \in Registry!Instance : at[i] = "put" => lease[i] = LeaseTtl
      /\ \A i \in keys : lease[i] >= 1
      /\ \A i \in Registry!Instance : ~Registry!Ended(i) => over[i] = 0
      /\ \A i \in keys : Registry!Ended(i) => Over(i) \/ (i \in loose /\ etcdFaults > 0)
  BY DEF GoneInv, Registry!At
<1>4. \A i \in Registry!Instance : due[i] >= 0 => at[i] \in {"held", "told", "left"} \cup Registry!Leaving
  BY DEF TaskInv
<1>5. ASSUME Registry!Works \/ Registry!Fails PROVE etcdFaults' \in Nat /\ etcdFaults <= etcdFaults'
  BY <1>1, <1>5 DEF Registry!Works, Registry!Fails
\* What is left to show of a step of one instance.
<1>6. ASSUME NEW i \in Registry!Instance,
             \A j \in Registry!Instance \ {i} : UNCHANGED <<at[j], lease[j]>> /\ due'[j] \in {-1, due[j]},
             \A j \in keys' \ {i} : j \in keys,
             UNCHANGED over, loose \subseteq loose', etcdFaults' \in Nat, etcdFaults <= etcdFaults',
             keys' \subseteq Registry!Instance,
             at'[i] = "put" => lease'[i] = LeaseTtl,
             i \in keys' => lease'[i] >= 1,
             Registry!Ended(i) => Registry!Ended(i)',
             i \in keys' /\ Registry!Ended(i)' => Over(i)' \/ (i \in loose' /\ etcdFaults' > 0)
      PROVE  GoneInv'
  <2>1. ASSUME NEW j \in Registry!Instance, at'[j] = "put" PROVE lease'[j] = LeaseTtl
    BY <1>3, <1>6, <2>1
  <2>2. ASSUME NEW j \in keys' PROVE lease'[j] >= 1
    BY <1>3, <1>6, <2>2
  <2>3. ASSUME NEW j \in Registry!Instance, ~Registry!Ended(j)' PROVE over'[j] = 0
    BY <1>3, <1>6, <2>3 DEF Registry!Ended
  <2>4. ASSUME NEW j \in keys', Registry!Ended(j)'
        PROVE  Over(j)' \/ (j \in loose' /\ etcdFaults' > 0)
    <3>1. CASE j = i
      BY <1>6, <2>4, <3>1
    <3>2. CASE j # i
      <4>1. j \in keys /\ Registry!Ended(j) /\ j \in Registry!Instance
        BY <1>6, <2>4, <3>2 DEF Registry!Ended
      <4>2. CASE Over(j)
        BY <1>6, <3>2, <4>1, <4>2 DEF Over
      <4>3. CASE j \in loose /\ etcdFaults > 0
        BY <1>1, <1>6, <4>3
      <4> QED
        BY <1>3, <4>1, <4>2, <4>3
    <3> QED
      BY <3>1, <3>2
  <2> QED
    BY <2>1, <2>2, <2>3, <2>4 DEF GoneInv, Registry!At
<1>7. CASE Registry!Tick
  <2>1. /\ UNCHANGED <<at, etcdFaults, loose>> /\ keys' = {i \in keys : lease[i] > 1}
        /\ \A i \in Registry!Instance :
             /\ at[i] # "put"
             /\ lease'[i] = IF lease[i] > 0 THEN lease[i] - 1 ELSE 0
             /\ due'[i] = IF due[i] > 0 THEN due[i] - 1 ELSE due[i]
             /\ over'[i] = IF Registry!Ended(i) /\ over[i] <= LeaseTtl THEN over[i] + 1 ELSE over[i]
    BY <1>7 DEF Registry!Tick, Registry!program
  <2>2. ASSUME NEW i \in keys', Registry!Ended(i)'
        PROVE  Over(i)' \/ (i \in loose' /\ etcdFaults' > 0)
    <3>1. i \in keys /\ i \in Registry!Instance /\ Registry!Ended(i) /\ lease[i] \in Nat /\ over[i] \in Nat
      BY <1>1, <1>2, <2>1, <2>2 DEF Registry!Ended
    <3>2. CASE Over(i)
      BY <1>2, <2>1, <2>2, <3>1, <3>2 DEF Over
    <3> QED
      BY <1>3, <2>1, <3>1, <3>2
  <2>3. ASSUME NEW i \in keys' PROVE lease'[i] >= 1
    BY <1>1, <1>2, <2>1, <2>3
  <2>4. ASSUME NEW i \in Registry!Instance, ~Registry!Ended(i)' PROVE over'[i] = 0
    BY <1>3, <2>1, <2>4 DEF Registry!Ended
  <2> QED
    BY <2>1, <2>2, <2>3, <2>4 DEF GoneInv, Registry!At
<1>8. ASSUME NEW p \in Worker, Registry!Crash(p) PROVE GoneInv'
  <2>1. /\ \A i \in Registry!Instance : at'[i] = IF i \in hosts[p] THEN "dead" ELSE at[i]
        /\ \A i \in Registry!Instance : due'[i] = IF i \in hosts[p] THEN -1 ELSE due[i]
        /\ UNCHANGED <<lease, keys, loose, over>> /\ etcdFaults' \in Nat
        /\ etcdFaults <= etcdFaults'
    BY <1>5, <1>8 DEF Registry!Crash, Registry!etcd, Registry!history
  <2>2. ASSUME NEW i \in keys', Registry!Ended(i)'
        PROVE  Over(i)' \/ (i \in loose' /\ etcdFaults' > 0)
    <3>1. i \in keys /\ i \in Registry!Instance /\ lease[i] \in 0..LeaseTtl
      BY <1>1, <2>1, <2>2
    <3>2. CASE ~Registry!Ended(i)
      <4>1. over[i] = 0 /\ due'[i] = -1
        BY <1>3, <2>1, <2>2, <3>1, <3>2 DEF Registry!Ended
      <4> QED
        BY <1>2, <2>1, <3>1, <4>1 DEF Over
    <3>3. CASE Registry!Ended(i)
      BY <1>1, <1>3, <2>1, <3>1, <3>3 DEF Over
    <3> QED
      BY <3>2, <3>3
  <2>3. ASSUME NEW i \in Registry!Instance, ~Registry!Ended(i)' PROVE over'[i] = 0
    BY <1>3, <2>1, <2>3 DEF Registry!Ended
  <2> QED
    BY <1>3, <2>1, <2>2, <2>3 DEF GoneInv, Registry!At
<1>9. ASSUME NEW p \in Worker, NEW i \in Registry!Instance, Registry!Register(p, i) PROVE GoneInv'
  <2>1. /\ at[i] = "new" /\ at' = [at EXCEPT ![i] = "grant"]
        /\ UNCHANGED <<lease, keys, due, etcdFaults, loose, over>>
    BY <1>9 DEF Registry!Register, Registry!Become, Registry!At, Registry!etcd, Registry!tasks
  <2>2. at'[i] = "grant"
    BY <1>1, <2>1
  <2>3. ~Registry!Ended(i) /\ ~Registry!Ended(i)'
    BY <2>1, <2>2 DEF Registry!Ended
  <2> QED
    BY <1>1, <1>3, <1>6, <2>1, <2>2, <2>3
<1>10. ASSUME NEW i \in Registry!Instance, Registry!Grant(i) PROVE GoneInv'
  <2>1. /\ at[i] = "grant" /\ UNCHANGED <<keys, due, loose, over>>
        /\ etcdFaults' \in Nat /\ etcdFaults <= etcdFaults'
        /\ \/ at' = [at EXCEPT ![i] = "put"] /\ lease' = [lease EXCEPT ![i] = LeaseTtl]
           \/ at' = [at EXCEPT ![i] = "failed"] /\ UNCHANGED lease
    BY <1>5, <1>10
    DEF Registry!Grant, Registry!Go, Registry!Become, Registry!At, Registry!tasks,
        Registry!history
  <2>2. over[i] = 0 /\ due[i] = -1 /\ ~Registry!Ended(i)
    BY <1>1, <1>3, <1>4, <2>1 DEF Registry!Ended, Registry!Leaving
  <2>3. CASE at' = [at EXCEPT ![i] = "put"] /\ lease' = [lease EXCEPT ![i] = LeaseTtl]
    <3>1. at'[i] = "put" /\ lease'[i] = LeaseTtl
      BY <1>1, <2>3
    <3>2. ~Registry!Ended(i)'
      BY <3>1 DEF Registry!Ended
    <3> QED
      BY <1>1, <1>2, <1>6, <2>1, <2>2, <2>3, <3>1, <3>2
  <2>4. CASE at' = [at EXCEPT ![i] = "failed"] /\ UNCHANGED lease
    <3>1. at'[i] = "failed" /\ Over(i)'
      BY <1>1, <1>2, <2>1, <2>2, <2>4 DEF Over
    <3> QED
      BY <1>1, <1>3, <1>6, <2>1, <2>2, <2>4, <3>1
  <2> QED
    BY <2>1, <2>3, <2>4
<1>11. ASSUME NEW i \in Registry!Instance, Registry!Put(i) PROVE GoneInv'
  <2>1. /\ at[i] = "put" /\ UNCHANGED <<lease, due, loose, over>>
        /\ etcdFaults' \in Nat /\ etcdFaults <= etcdFaults'
        /\ keys' \subseteq keys \cup {i}
        /\ at' = [at EXCEPT ![i] = "spawn"] \/ at' = [at EXCEPT ![i] = "failed"]
    BY <1>5, <1>11 DEF Registry!Put, Registry!Go, Registry!Become, Registry!At, Registry!tasks
  <2>2. over[i] = 0 /\ due[i] = -1 /\ lease[i] = LeaseTtl
    BY <1>1, <1>3, <1>4, <2>1 DEF Registry!Ended, Registry!Leaving
  <2>3. at'[i] = "spawn" \/ at'[i] = "failed"
    BY <1>1, <2>1
  <2>4. Over(i)' /\ ~Registry!Ended(i)
    BY <1>2, <2>1, <2>2 DEF Over, Registry!Ended
  <2> QED
    BY <1>1, <1>2, <1>6, <2>1, <2>2, <2>3, <2>4
<1>12. ASSUME NEW i \in Registry!Instance, Registry!Spawn(i) PROVE GoneInv'
  <2>1. /\ at[i] = "spawn" /\ at' = [at EXCEPT ![i] = "held"]
        /\ due' = [due EXCEPT ![i] = Registry!Interval]
        /\ UNCHANGED <<lease, keys, etcdFaults, over>>
        /\ loose \subseteq loose'
    BY <1>12
    DEF Registry!Spawn, Registry!Go, Registry!Become, Registry!At, Registry!etcd,
        Registry!Period
  <2>2. at'[i] = "held"
    BY <1>1, <2>1
  <2>3. ~Registry!Ended(i) /\ ~Registry!Ended(i)'
    BY <2>1, <2>2 DEF Registry!Ended
  <2> QED
    BY <1>1, <1>3, <1>6, <2>1, <2>2, <2>3
<1>13. ASSUME NEW i \in Registry!Instance, Registry!KeepAlive(i) PROVE GoneInv'
  <2>1. /\ due[i] = 0 /\ due' = [due EXCEPT ![i] = Registry!Interval]
        /\ UNCHANGED <<at, keys, loose, over>>
        /\ \/ lease' = [lease EXCEPT ![i] = IF @ > 0 THEN LeaseTtl ELSE 0]
           \/ UNCHANGED lease
        /\ etcdFaults' \in Nat /\ etcdFaults <= etcdFaults'
    BY <1>5, <1>13 DEF Registry!KeepAlive, Registry!program, Registry!history, Registry!Period
  <2>2. /\ i \in keys => lease'[i] >= 1
        /\ at[i] = "put" => lease'[i] = LeaseTtl
    BY <1>1, <1>2, <1>3, <2>1
  <2>3. i \in keys /\ Registry!Ended(i) => i \in loose /\ etcdFaults > 0
    BY <1>3, <2>1 DEF Over
  <2>4. Registry!Ended(i)' <=> Registry!Ended(i)
    BY <2>1 DEF Registry!Ended
  <2> QED
    BY <1>1, <1>6, <2>1, <2>2, <2>3, <2>4
<1>14. ASSUME NEW i \in Registry!Instance, Registry!Ask(i) \/ Registry!Drop(i) PROVE GoneInv'
  <2>1. /\ at[i] \in {"held", "told"} /\ UNCHANGED <<lease, keys, due, etcdFaults, loose, over>>
        /\ at' = [at EXCEPT ![i] = "abort"] \/ at' = [at EXCEPT ![i] = "abortAgain"]
    BY <1>14
    DEF Registry!Ask, Registry!Drop, Registry!Go, Registry!Become, Registry!At, Registry!etcd,
        Registry!tasks
  <2>2. at'[i] = "abort" \/ at'[i] = "abortAgain"
    BY <1>1, <2>1
  <2>3. ~Registry!Ended(i) /\ ~Registry!Ended(i)'
    BY <2>1, <2>2 DEF Registry!Ended
  <2> QED
    BY <1>1, <1>3, <1>6, <2>1, <2>2, <2>3
<1>15. ASSUME NEW i \in Registry!Instance, Registry!Abort(i) PROVE GoneInv'
  <2>1. /\ at[i] \in {"abort", "abortAgain"} /\ UNCHANGED <<lease, keys, etcdFaults, loose, over>>
        /\ at' = [at EXCEPT ![i] = "delete"] \/ at' = [at EXCEPT ![i] = "deleteAgain"]
    BY <1>15
    DEF Registry!Abort, Registry!Go, Registry!Become, Registry!At, Registry!etcd,
        Registry!history
  <2>2. at'[i] = "delete" \/ at'[i] = "deleteAgain"
    BY <1>1, <2>1
  <2>3. ~Registry!Ended(i) /\ ~Registry!Ended(i)'
    BY <2>1, <2>2 DEF Registry!Ended
  <2>4. \A j \in Registry!Instance : due'[j] \in {-1, due[j]}
    BY <1>1, <1>15 DEF Registry!Abort, Registry!Aborted
  <2> QED
    BY <1>1, <1>3, <1>6, <2>1, <2>2, <2>3, <2>4
<1>16. ASSUME NEW i \in Registry!Instance, Registry!Delete(i) PROVE GoneInv'
  <2>1. /\ at[i] \in {"delete", "deleteAgain"} /\ UNCHANGED <<lease, due, loose, over>>
        /\ at' = [at EXCEPT ![i] = "told"] \/ at' = [at EXCEPT ![i] = "left"]
        /\ etcdFaults' \in Nat /\ etcdFaults <= etcdFaults'
        /\ keys' = {} \/ (keys' = keys /\ etcdFaults' > 0)
    BY <1>1, <1>5, <1>16
    DEF Registry!Delete, Registry!Go, Registry!Become, Registry!At, Registry!tasks,
        Registry!history, Registry!Works, Registry!Fails
  <2>2. over[i] = 0 /\ at'[i] \in {"told", "left"}
    BY <1>1, <1>3, <2>1 DEF Registry!Ended
  <2>3. due[i] = -1 \/ i \in loose
    <3>1. Registry!Host(i) \in Worker /\ i \in hosts[Registry!Host(i)]
      BY <2>1, HostIsOne DEF Registry!At
    <3>2. due[i] >= 0 => keeper[Registry!Host(i)] = i \/ i \in loose
      BY <3>1 DEF TaskInv
    <3>3. keeper[Registry!Host(i)] = i /\ i # 0 => at[i] \in Keeping
      BY <3>1 DEF TaskInv
    <3>4. i # 0
      BY IntervalFits
    <3> QED
      BY <1>1, <1>2, <2>1, <3>2, <3>3, <3>4 DEF Keeping
  <2>4. i \in keys' => Over(i)' \/ (i \in loose' /\ etcdFaults' > 0)
    BY <1>1, <1>2, <2>1, <2>2, <2>3 DEF Over
  <2>5. i \in keys' => lease'[i] >= 1
    BY <1>3, <2>1
  <2>6. ~Registry!Ended(i)
    BY <2>1 DEF Registry!Ended
  <2> QED
    BY <1>1, <1>6, <2>1, <2>2, <2>4, <2>5, <2>6
<1>17. CASE UNCHANGED Registry!vars
  BY <1>3, <1>17
  DEF GoneInv, Registry!At, Over, Registry!Ended, Registry!vars, Registry!program,
      Registry!etcd, Registry!tasks, Registry!history
<1> QED
  BY <1>7, <1>8, <1>9, <1>10, <1>11, <1>12, <1>13, <1>14, <1>15, <1>16, <1>17 DEF Registry!Next

\* The inductive invariant of the registry.
RegistryInv == Registry!TypeOK /\ FoundInv /\ TaskInv /\ GoneInv

LEMMA RegistryKeeps ==
  ASSUME Registry!RegistryAssumption, RegistryInv,
         [Registry!Next]_(Registry!vars)
  PROVE  RegistryInv'
BY RegTypeKeeps, FoundKeeps, TaskKeeps, GoneKeeps DEF RegistryInv

LEMMA RegistryStarts == ASSUME Registry!RegistryAssumption, Registry!Init PROVE RegistryInv
<1>1. /\ at = [i \in Registry!Instance |-> "new"] /\ hosts = [p \in Worker |-> {}]
      /\ lease = [i \in Registry!Instance |-> 0] /\ keys = {}
      /\ keeper = [p \in Worker |-> 0] /\ due = [i \in Registry!Instance |-> -1]
      /\ etcdFaults = 0 /\ clean = {} /\ loose = {} /\ over = [i \in Registry!Instance |-> 0]
  BY DEF Registry!Init
<1>2. LeaseTtl \in Nat /\ MaxFaults \in Nat
  BY IntervalFits
<1>3. Registry!TypeOK
  BY <1>1, <1>2 DEF Registry!TypeOK, Registry!At
<1>4. FoundInv
  BY <1>1 DEF FoundInv, Registry!Leaving
<1>5. TaskInv
  BY <1>1 DEF TaskInv
<1>6. GoneInv
  BY <1>1 DEF GoneInv, Registry!At
<1> QED
  BY <1>3, <1>4, <1>5, <1>6 DEF RegistryInv

\* What the invariant shows.
LEMMA RegistryShows ==
  ASSUME Registry!RegistryAssumption,
         RegistryInv PROVE Registry!RegisteredIsFound /\ Registry!EndedIsGone
<1>1. Registry!RegisteredIsFound
  BY DEF RegistryInv, FoundInv, Ready, Registry!RegisteredIsFound
<1>2. Registry!EndedIsGone
  <2>1. SUFFICES ASSUME NEW i \in keys, Registry!Ended(i), ~(i \in loose /\ etcdFaults > 0)
                 PROVE  over[i] <= LeaseTtl
    BY DEF Registry!EndedIsGone
  <2>2. i \in Registry!Instance /\ Over(i)
    BY <2>1 DEF RegistryInv, GoneInv, Registry!TypeOK
  <2>3. lease[i] \in Nat /\ over[i] \in Nat /\ LeaseTtl \in Nat
    BY <2>2, IntervalFits DEF RegistryInv, Registry!TypeOK
  <2> QED
    BY <2>2, <2>3 DEF Over
<1> QED
  BY <1>1, <1>2

-----------------------------------------------------------------------------
(* The guard of the login and the orders paid in coins: what is proved of  *)
(* the modules holds of their instances.                                   *)

Accounts == INSTANCE LoginGuard_proofs WITH job <- loginJob, faults <- loginFaults

Payments == INSTANCE CryptoPayment_proofs WITH job <- coinJob

LEMMA GuardIsTheSame ==
  /\ Guard!GuardAssumption => Accounts!GuardAssumption
  /\ Guard!Init => Accounts!Init
  /\ [Guard!Next]_(Guard!vars) => [Accounts!Next]_(Accounts!vars)
<1>1. Guard!GuardAssumption => Accounts!GuardAssumption
  <2>1. Guard!IsFiniteSet(Worker) <=> Accounts!IsFiniteSet(Worker)
    BY Zenon DEF Guard!IsFiniteSet, Accounts!IsFiniteSet
  <2> QED
    BY <2>1 DEF Guard!GuardAssumption, Accounts!GuardAssumption
<1>2. Guard!Init => Accounts!Init
  BY DEF
      Guard!Init, Accounts!Init, Guard!Captcha, Accounts!Captcha, Guard!Job,
      Accounts!Job, Guard!Idle, Accounts!Idle
<1>3. [Guard!Next]_(Guard!vars) => [Accounts!Next]_(Accounts!vars)
  BY DEF
      Guard!Captcha, Accounts!Captcha, Guard!marks, Accounts!marks, Guard!counter,
      Accounts!counter, Guard!locks, Accounts!locks, Guard!vars, Accounts!vars,
      Guard!Job, Accounts!Job, Guard!Idle, Accounts!Idle, Guard!Init, Accounts!Init,
      Guard!At, Accounts!At, Guard!Continue, Accounts!Continue, Guard!Go, Accounts!Go,
      Guard!End, Accounts!End, Guard!Works, Accounts!Works, Guard!Fails, Accounts!Fails,
      Guard!Solve, Accounts!Solve, Guard!Arrive, Accounts!Arrive, Guard!PastCaptcha,
      Accounts!PastCaptcha, Guard!LookMark, Accounts!LookMark, Guard!Removed,
      Accounts!Removed, Guard!DelMark, Accounts!DelMark, Guard!Locked, Accounts!Locked,
      Guard!LookLock, Accounts!LookLock, Guard!CheckPassword, Accounts!CheckPassword,
      Guard!TooMany, Accounts!TooMany, Guard!First, Accounts!First, Guard!Counted,
      Accounts!Counted, Guard!Incr, Accounts!Incr, Guard!Expire, Accounts!Expire,
      Guard!SetLock, Accounts!SetLock, Guard!NoCounter, Accounts!NoCounter,
      Guard!DropCount, Accounts!DropCount, Guard!ClearCount, Accounts!ClearCount,
      Guard!ClearLock, Accounts!ClearLock, Guard!GiveUp, Accounts!GiveUp, Guard!Older,
      Accounts!Older, Guard!Tick, Accounts!Tick, Guard!Handle, Accounts!Handle,
      Guard!Next, Accounts!Next
<1> QED
  BY <1>1, <1>2, <1>3

LEMMA CoinsAreTheSame ==
  /\ Coins!CryptoAssumption => Payments!CryptoAssumption
  /\ Coins!Init => Payments!Init
  /\ [Coins!Next]_(Coins!vars) => [Payments!Next]_(Payments!vars)
<1>1. Coins!CryptoAssumption => Payments!CryptoAssumption
  BY DEF Coins!CryptoAssumption, Payments!CryptoAssumption, Coins!Order, Payments!Order
<1>2. Coins!Init => Payments!Init
  BY DEF
      Coins!Init, Payments!Init, Coins!Order, Payments!Order, Coins!Job, Payments!Job,
      Coins!Idle, Payments!Idle
<1>3. [Coins!Next]_(Coins!vars) => [Payments!Next]_(Payments!vars)
  BY DEF
      Coins!Order, Payments!Order, Coins!history, Payments!history, Coins!vars,
      Payments!vars, Coins!Job, Payments!Job, Coins!Idle, Payments!Idle, Coins!Init,
      Payments!Init, Coins!Begin, Payments!Begin, Coins!Continue, Payments!Continue,
      Coins!Go, Payments!Go, Coins!End, Payments!End, Coins!At, Payments!At,
      Coins!Pending, Payments!Pending, Coins!Placed, Payments!Placed, Coins!PlaceOrder,
      Payments!PlaceOrder, Coins!PayRead, Payments!PayRead, Coins!Reuses,
      Payments!Reuses, Coins!Decides, Payments!Decides, Coins!Meets, Payments!Meets,
      Coins!PayOwn, Payments!PayOwn, Coins!UsedBy, Payments!UsedBy, Coins!PayUsed,
      Payments!PayUsed, Coins!Free, Payments!Free, Coins!UniqueAmount,
      Payments!UniqueAmount, Coins!Save, Payments!Save, Coins!SaveOwn, Payments!SaveOwn,
      Coins!SaveNew, Payments!SaveNew, Coins!Transfer, Payments!Transfer,
      Coins!Unverified, Payments!Unverified, Coins!ConfirmRead, Payments!ConfirmRead,
      Coins!MemoFits, Payments!MemoFits, Coins!Matches, Payments!Matches, Coins!Verify,
      Payments!Verify, Coins!Taken, Payments!Taken, Coins!CheckTx, Payments!CheckTx,
      Coins!Duplicate, Payments!Duplicate, Coins!NoteTx, Payments!NoteTx, Coins!Claim,
      Payments!Claim, Coins!CancelRead, Payments!CancelRead, Coins!CancelSave,
      Payments!CancelSave, Coins!Abort, Payments!Abort, Coins!Starts, Payments!Starts,
      Coins!Proceeds, Payments!Proceeds, Coins!Next, Payments!Next
<1> QED
  BY <1>1, <1>2, <1>3

\* And the properties say the same.
LEMMA SameOfTheGuard ==
  /\ Accounts!TypeOK => Guard!TypeOK
  /\ Accounts!CaptchaServesOnce => Guard!CaptchaServesOnce
  /\ Accounts!GuessesBounded => Guard!GuessesBounded
  /\ Accounts!StaleNeverCounts => Guard!StaleNeverCounts
<1>1. Accounts!TypeOK => Guard!TypeOK
  BY DEF
      Guard!TypeOK, Accounts!TypeOK, Guard!Captcha, Accounts!Captcha, Guard!MarkSteps,
      Accounts!MarkSteps, Guard!LockSteps, Accounts!LockSteps
<1>2. \A S : Guard!Cardinality(S) = Accounts!Cardinality(S)
  BY Zenon DEF Guard!Cardinality, Accounts!Cardinality
<1>3. Accounts!CaptchaServesOnce => Guard!CaptchaServesOnce
  BY <1>2 DEF
      Guard!CaptchaServesOnce, Accounts!CaptchaServesOnce, Guard!Captcha,
      Accounts!Captcha
<1>4. Accounts!GuessesBounded => Guard!GuessesBounded
  BY <1>2 DEF Guard!GuessesBounded, Accounts!GuessesBounded
<1>5. Accounts!StaleNeverCounts => Guard!StaleNeverCounts
  BY DEF Guard!StaleNeverCounts, Accounts!StaleNeverCounts
<1> QED
  BY <1>1, <1>3, <1>4, <1>5

LEMMA SameOfTheCoins ==
  /\ Payments!TypeOK => Coins!TypeOK
  /\ Payments!AmountsDiffer => Coins!AmountsDiffer
  /\ Payments!ShownIsKept => Coins!ShownIsKept
<1>1. Payments!TypeOK => Coins!TypeOK
  BY DEF
      Coins!TypeOK, Payments!TypeOK, Coins!Order, Payments!Order, Coins!JobType,
      Payments!JobType, Coins!OrderSteps, Payments!OrderSteps
<1>2. Payments!AmountsDiffer => Coins!AmountsDiffer
  BY DEF
      Coins!AmountsDiffer, Payments!AmountsDiffer, Coins!Rivals, Payments!Rivals,
      Coins!Pending, Payments!Pending, Coins!Order, Payments!Order
<1>3. Payments!ShownIsKept => Coins!ShownIsKept
  BY DEF
      Coins!ShownIsKept, Payments!ShownIsKept, Coins!Pending, Payments!Pending,
      Coins!Order, Payments!Order
<1> QED
  BY <1>1, <1>2, <1>3

-----------------------------------------------------------------------------
(* The parts together.                                                     *)

\* Every part does in a behaviour of them all what it does by itself: it takes
\* a step of its own, or it is at rest.
LEMMA PartsAreTheirOwn ==
  PartsSpec => Spec /\ Guard!Spec /\ Coins!Spec /\ Limits!Spec /\ Registry!Spec
<1>1. PartsInit => Init /\ Guard!Init /\ Coins!Init /\ Limits!Init /\ Registry!Init
  BY DEF PartsInit
<1>2. ASSUME [PartsNext]_<<part, vars, guardVars, coinVars, limitVars, registryVars>>
      PROVE  /\ [Next]_vars /\ [Guard!Next]_(Guard!vars) /\ [Coins!Next]_(Coins!vars)
             /\ [Limits!Next]_(Limits!vars) /\ [Registry!Next]_(Registry!vars)
  <2>1. UNCHANGED guardVars => UNCHANGED Guard!vars
    BY DEF guardVars, Guard!vars, Guard!marks, Guard!counter, Guard!locks
  <2>2. UNCHANGED coinVars => UNCHANGED Coins!vars
    BY DEF coinVars, Coins!vars, Coins!history
  <2>3. UNCHANGED limitVars => UNCHANGED Limits!vars
    BY DEF limitVars, Limits!vars, Limits!fixed, Limits!history
  <2>4. UNCHANGED registryVars => UNCHANGED Registry!vars
    BY DEF registryVars, Registry!vars, Registry!program, Registry!etcd, Registry!tasks,
           Registry!history
  <2>5. CASE UNCHANGED <<part, vars, guardVars, coinVars, limitVars, registryVars>>
    BY <2>1, <2>2, <2>3, <2>4, <2>5
  <2>6. CASE PartsNext
    BY <2>1, <2>2, <2>3, <2>4, <2>6 DEF PartsNext, RestBut
  <2> QED
    BY <1>2, <2>5, <2>6
<1> QED
  BY <1>1, <1>2, PTL DEF PartsSpec, Spec, Guard!Spec, Coins!Spec, Limits!Spec, Registry!Spec

LEMMA AccountsRun == PartsSpec => Accounts!Spec
<1>1. PartsSpec => Guard!Spec
  BY PartsAreTheirOwn
<1> QED
  BY <1>1, GuardIsTheSame, PTL DEF Guard!Spec, Accounts!Spec

LEMMA PaymentsRun == PartsSpec => Payments!Spec
<1>1. PartsSpec => Coins!Spec
  BY PartsAreTheirOwn
<1> QED
  BY <1>1, CoinsAreTheSame, PTL DEF Coins!Spec, Payments!Spec

\* The captcha, the guesses and the counter of failures: what LoginGuard_proofs
\* shows of any number of workers, captchas and faults.
LEMMA AccountsHold ==
  PartsSpec => /\ []Guard!TypeOK /\ []Guard!CaptchaServesOnce
               /\ []Guard!GuessesBounded /\ []Guard!StaleNeverCounts
<1>1. Accounts!GuardAssumption
  BY PartsAssumption, GuardIsTheSame
<1>2. /\ Accounts!Spec => []Accounts!TypeOK
      /\ Accounts!Spec => []Accounts!CaptchaServesOnce
      /\ Accounts!Spec => []Accounts!GuessesBounded
      /\ Accounts!Spec => []Accounts!StaleNeverCounts
  BY <1>1, Accounts!TypeCorrect, Accounts!CaptchaHolds, Accounts!GuessesHeld,
     Accounts!StaleNotCounted
<1>3. /\ Accounts!TypeOK => Guard!TypeOK
      /\ Accounts!CaptchaServesOnce => Guard!CaptchaServesOnce
      /\ Accounts!GuessesBounded => Guard!GuessesBounded
      /\ Accounts!StaleNeverCounts => Guard!StaleNeverCounts
  BY SameOfTheGuard
<1> QED
  BY <1>2, <1>3, AccountsRun, PTL

\* The amounts: what CryptoPayment_proofs shows of any number of workers,
\* orders and transfers.
LEMMA PaymentsHold ==
  PartsSpec => []Coins!TypeOK /\ []Coins!AmountsDiffer /\ []Coins!ShownIsKept
<1>1. Payments!CryptoAssumption
  BY PartsAssumption, CoinsAreTheSame
<1>2. /\ Payments!Spec => []Payments!TypeOK
      /\ Payments!Spec => []Payments!AmountsDiffer
      /\ Payments!Spec => []Payments!ShownIsKept
  BY <1>1, Payments!TypeCorrect, Payments!AmountsTellApart, Payments!ShownAgain
<1>3. /\ Payments!TypeOK => Coins!TypeOK
      /\ Payments!AmountsDiffer => Coins!AmountsDiffer
      /\ Payments!ShownIsKept => Coins!ShownIsKept
  BY SameOfTheCoins
<1> QED
  BY <1>2, <1>3, PaymentsRun, PTL

\* A solved captcha lets one request through, and one more for each worker that
\* had looked at its mark before it was removed, or for each fault.
THEOREM CaptchaHolds == PartsSpec => []CaptchaServesOnce
<1>1. Guard!CaptchaServesOnce => CaptchaServesOnce
  BY DEF CaptchaServesOnce
<1> QED
  BY <1>1, AccountsHold, PTL

\* However logins interleave, the wrong passwords before the account is locked
\* are bounded by the limit, the workers and the faults.
THEOREM GuessesHeld == PartsSpec => []GuessesBounded
<1>1. Guard!GuessesBounded => GuessesBounded
  BY DEF GuessesBounded
<1> QED
  BY <1>1, AccountsHold, PTL

\* Failures of more than one life of the counter are not added up.
THEOREM StaleNotCounted == PartsSpec => []StaleNeverCounts
<1>1. Guard!StaleNeverCounts => StaleNeverCounts
  BY DEF StaleNeverCounts
<1> QED
  BY <1>1, AccountsHold, PTL

\* Two pending orders of a chain have different amounts, but for the two races
\* that the property names.
THEOREM AmountsTellApart == PartsSpec => []AmountsDiffer
<1>1. Coins!AmountsDiffer => AmountsDiffer
  BY DEF AmountsDiffer
<1> QED
  BY <1>1, PaymentsHold, PTL

\* Who pays for a pending order again is told the same amount.
THEOREM ShownAgain == PartsSpec => []ShownIsKept
<1>1. Coins!ShownIsKept => ShownIsKept
  BY DEF ShownIsKept
<1> QED
  BY <1>1, PaymentsHold, PTL

\* A transfer that is noted for an order was made for it, but for the same
\* races.
THEOREM TransferFound == PartsSpec => TransferFindsItsOrder
<1> DEFINE Noted ==
             \A o \in Coins!Order :
               tx'[o] # tx[o] =>
                 LET t == transfers[tx'[o]] IN
                 \/ t.of = o \/ ~Coins!Pending(o) \/ ~Coins!Pending(t.of)
                 \/ ~t.memo /\ (met \cap {{o}, {t.of}, {o, t.of}} # {} \/ full \cap {o, t.of} # {})
           NotedThere ==
             \A o \in Payments!Order :
               tx'[o] # tx[o] =>
                 LET t == transfers[tx'[o]] IN
                 \/ t.of = o \/ ~Payments!Pending(o) \/ ~Payments!Pending(t.of)
                 \/ ~t.memo /\ (met \cap {{o}, {t.of}, {o, t.of}} # {} \/ full \cap {o, t.of} # {})
<1>1. [NotedThere]_(Payments!vars) => [Noted]_(Coins!vars)
  BY DEF Payments!Order, Coins!Order, Payments!Pending, Coins!Pending, Payments!vars, Coins!vars,
         Payments!history, Coins!history
<1>2. Payments!CryptoAssumption
  BY PartsAssumption, CoinsAreTheSame
<1>3. Payments!Spec => Payments!TransferFindsItsOrder
  BY <1>2, Payments!TransferFound
<1>4. Payments!TransferFindsItsOrder => [][NotedThere]_(Payments!vars)
  BY DEF Payments!TransferFindsItsOrder
<1>5. [][NotedThere]_(Payments!vars) => [][Noted]_(Coins!vars)
  BY <1>1, PTL
<1>6. [][Noted]_(Coins!vars) => TransferFindsItsOrder
  BY DEF TransferFindsItsOrder, Coins!TransferFindsItsOrder
<1> QED
  BY <1>3, <1>4, <1>5, <1>6, PaymentsRun

\* The invariants of the limiters and of the registry hold throughout.
LEMMA LimitsHold == PartsSpec => []LimitInv
<1>1. Limits!Init => LimitInv
  BY PartsAssumption, LimitStarts
<1>2. LimitInv /\ [Limits!Next]_(Limits!vars) => LimitInv'
  BY PartsAssumption, LimitKeeps
<1>3. PartsSpec => Limits!Spec
  BY PartsAreTheirOwn
<1> QED
  BY <1>1, <1>2, <1>3, PTL DEF Limits!Spec

LEMMA RegistryHolds == PartsSpec => []RegistryInv
<1>1. Registry!Init => RegistryInv
  BY PartsAssumption, RegistryStarts
<1>2. RegistryInv /\ [Registry!Next]_(Registry!vars) => RegistryInv'
  BY PartsAssumption, RegistryKeeps
<1>3. PartsSpec => Registry!Spec
  BY PartsAreTheirOwn
<1> QED
  BY <1>1, <1>2, <1>3, PTL DEF Registry!Spec

\* Every variable of every part keeps its type.
THEOREM TypesCorrect == PartsSpec => []TypesOK
<1>1. PartsSpec => []TypeOK
  <2>1. PartsSpec => Spec
    BY PartsAreTheirOwn
  <2> QED
    BY <2>1, TypeCorrect
<1>2. LimitInv => Limits!TypeOK
  BY DEF LimitInv
<1>3. RegistryInv => Registry!TypeOK
  BY DEF RegistryInv
<1>4. TypeOK /\ Guard!TypeOK /\ Coins!TypeOK /\ Limits!TypeOK /\ Registry!TypeOK => TypesOK
  BY DEF TypesOK
<1> QED
  BY <1>1, <1>2, <1>3, <1>4, AccountsHold, PaymentsHold, LimitsHold, RegistryHolds, PTL

\* No limiter lets more through in a span as long as the window than one under
\* twice the limit, if it counts, or than the limit and one more for each
\* worker, if it keeps a log: whatever fails, and however workers interleave.
THEOREM NeverTooManyHolds == PartsSpec => []NeverTooMany
<1>1. LimitInv => NeverTooMany
  BY DEF LimitInv, NeverTooMany
<1> QED
  BY <1>1, LimitsHold, PTL

\* No limiter refuses who kept to the limit.
THEOREM NeverTooFewHolds == PartsSpec => []NeverTooFew
<1>1. LimitInv => NeverTooFew
  BY DEF LimitInv, NeverTooFew
<1> QED
  BY <1>1, LimitsHold, PTL

\* An instance whose key etcd took is found, even if one keep-alive is lost, as
\* long as nobody of its name deregisters.
THEOREM FoundHolds == PartsSpec => []RegisteredIsFound
<1>1. RegistryInv => RegisteredIsFound
  BY PartsAssumption, RegistryShows DEF RegisteredIsFound
<1> QED
  BY <1>1, RegistryHolds, PTL

\* What has ended is not found for longer than a lease, unless its task was
\* overwritten by that of another instance.
THEOREM GoneHolds == PartsSpec => []EndedIsGone
<1>1. RegistryInv => EndedIsGone
  BY PartsAssumption, RegistryShows DEF EndedIsGone
<1> QED
  BY <1>1, RegistryHolds, PTL
=============================================================================
