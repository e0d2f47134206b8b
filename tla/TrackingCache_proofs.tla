------------------------ MODULE TrackingCache_proofs ------------------------
(***************************************************************************)
(* The types, the isolation of tenants in the gateway's detail records, what *)
(* a tenant that was told a number can read with it, and how many calls a    *)
(* failed carrier still gets, for any number of tenants, queries, events and *)
(* (finitely many) handlers.                                               *)
(***************************************************************************)
EXTENDS TrackingCache, FiniteSetTheorems, TLAPS

\* A handler works for a tenant that asked; nobody else has records.
OwnInv ==
  /\ asked \subseteq Tenant /\ queries \in Nat /\ track.q \in Nat
  /\ detail \in [Tenant -> [QueryNo -> Nat]]
  /\ req \in [Request -> [at : Step, tenant : Tenant \cup {Nobody}, q : Nat]]
  /\ \A r \in Request : req[r].at # "idle" => req[r].tenant \in asked
  /\ DetailIsOwn

LEMMA OwnInvInit == Init => OwnInv
  BY DEF Init, OwnInv, DetailIsOwn, Readable, Resting, Query, Step, Empty

\* A detail record is only ever written for the tenant of a handler.
LEMMA WritesAreOwn ==
  ASSUME OwnInv, NEW r \in Request, req[r].at # "idle",
         NEW q, WriteDetail(req[r].tenant, q) \/ UNCHANGED detail,
         UNCHANGED asked
  PROVE  detail' \in [Tenant -> [QueryNo -> Nat]] /\ DetailIsOwn'
<1>1. req[r].tenant \in asked /\ req[r].tenant \in Tenant
  BY DEF OwnInv
<1>2. CASE UNCHANGED detail
  BY <1>2 DEF OwnInv, DetailIsOwn, Readable
<1>3. CASE WriteDetail(req[r].tenant, q)
  <2>1. detail' = [detail EXCEPT ![req[r].tenant] = [detail[req[r].tenant] EXCEPT ![q] = DetailTtl]]
    BY <1>3 DEF WriteDetail
  <2>2. detail[req[r].tenant] \in [QueryNo -> Nat] /\ DetailTtl \in Nat
    BY <1>1, TrackingAssumption DEF OwnInv
  <2>3. [detail[req[r].tenant] EXCEPT ![q] = DetailTtl] \in [QueryNo -> Nat]
    BY <2>2
  <2>4. detail' \in [Tenant -> [QueryNo -> Nat]]
    BY <1>1, <2>1, <2>3 DEF OwnInv
  <2>5. \A u \in Tenant : u # req[r].tenant => detail'[u] = detail[u]
    BY <1>1, <2>1 DEF OwnInv
  <2>6. DetailIsOwn'
    BY <1>1, <2>5 DEF OwnInv, DetailIsOwn, Readable
  <2> QED
    BY <2>4, <2>6
<1> QED
  BY <1>2, <1>3

\* Steps that go on with the same tenant, or end.
LEMMA RequestsKeep ==
  ASSUME OwnInv, NEW r \in Request, req[r].at # "idle", UNCHANGED asked,
         \/ End(r)
         \/ \E s \in Step : Go(r, s)
         \/ \E s \in Step, q \in Nat : GoWith(r, s, q)
  PROVE  /\ req' \in [Request -> [at : Step, tenant : Tenant \cup {Nobody}, q : Nat]]
         /\ \A p \in Request : req'[p].at # "idle" => req'[p].tenant \in asked'
<1>1. req[r].tenant \in asked /\ req[r].tenant \in Tenant
  BY DEF OwnInv
<1>2. CASE End(r)
  BY <1>1, <1>2 DEF OwnInv, End, Resting, Query, Step
<1>3. CASE \E s \in Step : Go(r, s)
  BY <1>1, <1>3 DEF OwnInv, Go
<1>4. CASE \E s \in Step, q \in Nat : GoWith(r, s, q)
  BY <1>1, <1>4 DEF OwnInv, GoWith, Query
<1> QED
  BY <1>2, <1>3, <1>4

LEMMA OwnInvStep == OwnInv /\ [Next]_vars => OwnInv'
<1> SUFFICES ASSUME OwnInv, [Next]_vars PROVE OwnInv'
  OBVIOUS
<1>1. ASSUME NEW r \in Request, Handle(r) PROVE OwnInv'
  <2>1. UNCHANGED asked /\ req[r].at # "idle"
    BY <1>1 DEF Handle, LookDetect, AskDetect, SetDetect, LookTrack, Hit, LookErr,
         Forward, Answer, SetDetail, SetTrack, SetErr, history, At
  <2>2. \/ End(r)
        \/ \E s \in Step : Go(r, s)
        \/ \E s \in Step, q \in Nat : GoWith(r, s, q)
    <3>1. CASE LookTrack(r) \/ Answer(r)
      BY <3>1 DEF LookTrack, Answer, Step, OwnInv
    <3>2. CASE ~(LookTrack(r) \/ Answer(r))
      BY <1>1, <3>2 DEF Handle, LookDetect, AskDetect, SetDetect, Hit, LookErr,
         Forward, SetDetail, SetTrack, SetErr, Step
    <3> QED
      BY <3>1, <3>2
  <2>3. \E q : WriteDetail(req[r].tenant, q) \/ UNCHANGED detail
    BY <1>1 DEF Handle, LookDetect, AskDetect, SetDetect, LookTrack, Hit, LookErr,
         Forward, Answer, SetDetail, SetTrack, SetErr, cache, OrFails, Backfill
  <2>4. queries' \in Nat /\ track'.q \in Nat
    <3>1. req[r].q \in Nat
      BY DEF OwnInv
    <3> QED
      BY <1>1, <3>1 DEF OwnInv, Handle, LookDetect, AskDetect, SetDetect, LookTrack, Hit,
         LookErr, Forward, Answer, SetDetail, SetTrack, SetErr, cache, carrier, OrFails
  <2>5. detail' \in [Tenant -> [QueryNo -> Nat]] /\ DetailIsOwn'
    BY <2>1, <2>3, WritesAreOwn
  <2>6. /\ req' \in [Request -> [at : Step, tenant : Tenant \cup {Nobody}, q : Nat]]
        /\ \A p \in Request : req'[p].at # "idle" => req'[p].tenant \in asked'
    BY <2>1, <2>2, RequestsKeep
  <2> QED
    BY <2>1, <2>4, <2>5, <2>6 DEF OwnInv
<1>2. ASSUME NEW r \in Request, NEW t \in Tenant, NEW named \in BOOLEAN,
             Arrive(r, t, named)
      PROVE  OwnInv'
  <2>1. /\ asked' = asked \cup {t}
        /\ UNCHANGED <<queries, track, detail>>
    BY <1>2 DEF Arrive, carrier, cache
  <2>2. /\ req' \in [Request -> [at : Step, tenant : Tenant \cup {Nobody}, q : Nat]]
        /\ \A p \in Request : req'[p].at # "idle" => req'[p].tenant \in asked'
    BY <1>2 DEF Arrive, OwnInv, Query, Step
  <2>3. DetailIsOwn'
    BY <2>1 DEF OwnInv, DetailIsOwn, Readable
  <2> QED
    BY <2>1, <2>2, <2>3 DEF OwnInv
<1>3. ASSUME NEW r \in Request, Drop(r) PROVE OwnInv'
  <2>1. UNCHANGED <<asked, queries, track, detail>> /\ req[r].at # "idle" /\ End(r)
    BY <1>3 DEF Drop, carrier, cache, history, At
  <2>2. /\ req' \in [Request -> [at : Step, tenant : Tenant \cup {Nobody}, q : Nat]]
        /\ \A p \in Request : req'[p].at # "idle" => req'[p].tenant \in asked'
    BY <2>1, RequestsKeep
  <2> QED
    BY <2>1, <2>2 DEF OwnInv, DetailIsOwn, Readable
<1>4. CASE Tick
  <2>1. UNCHANGED <<asked, queries, req>> /\ detail' = Aged(detail)
    BY <1>4 DEF Tick, carrier
  <2>2. track'.q \in Nat
    BY <1>4 DEF Tick, Empty, OwnInv
  <2>3. detail' \in [Tenant -> [QueryNo -> Nat]]
    BY <2>1 DEF Aged, Older, OwnInv
  <2>4. \A t \in Tenant, q \in QueryNo : Readable(t, q)' => Readable(t, q)
    BY <2>1 DEF Aged, Older, OwnInv, Readable
  <2> QED
    BY <2>1, <2>2, <2>3, <2>4 DEF OwnInv, DetailIsOwn
<1>5. ASSUME \/ NewEvent \/ UNCHANGED vars
             \/ \E h \in Hook : HandleHook(h) \/ \E e \in Event : Receive(h, e)
      PROVE  OwnInv'
  <2>1. UNCHANGED <<asked, queries, detail, req>> /\ (track' = track \/ track' = Empty)
    BY <1>5 DEF NewEvent, vars, HandleHook, Insert, Update, Invalidate, Receive,
         carrier, cache, history, OrFails
  <2> QED
    BY <2>1 DEF OwnInv, DetailIsOwn, Readable, Empty
<1> QED
  BY <1>1, <1>2, <1>3, <1>4, <1>5 DEF Next

\* Isolation holds for any number of tenants, handlers and queries, however
\* they interleave and whatever fails: no tenant can read the details of a
\* parcel that its own key never asked for.
THEOREM DetailIsOwnHolds == Spec => []DetailIsOwn
<1>1. OwnInv => DetailIsOwn
  BY DEF OwnInv
<1> QED
  BY <1>1, OwnInvInit, OwnInvStep, PTL DEF Spec
-----------------------------------------------------------------------------
(* Types.                                                                  *)

\* A handler at a step: for whom, and with the number of a result if it is
\* about to use one.
ReqOK(j, given) ==
  /\ j \in [at : Step, tenant : Tenant \cup {Nobody}, q : 0..given]
  /\ j.at # "idle" => j.tenant \in Tenant
  /\ j.at \in {"hit", "setDetail", "setTrack"} => j.q > 0

\* With the types of the history, and with the event that a callback is about.
TypeInv ==
  /\ TypeOK
  /\ \A h \in Hook : hook[h].at # "idle" => hook[h].event \in Event
  /\ promised \in [Tenant -> [QueryNo -> 0..DetailTtl]]
  /\ late \in Nat /\ degraded \in BOOLEAN

\* The handler r goes on as j.
Turns(r, j) == req' = [req EXCEPT ![r] = j]

LEMMA TurnTyped ==
  ASSUME TypeOK, NEW r \in Request, queries' \in Nat, queries <= queries',
         NEW j, ReqOK(j, queries'), Turns(r, j)
  PROVE  /\ req' \in [Request -> [at : Step, tenant : Tenant \cup {Nobody}, q : 0..queries']]
         /\ \A p \in Request : ReqOK(req'[p], queries')
<1>1. \A p \in Request : ReqOK(req[p], queries')
  BY TrackingAssumption DEF TypeOK, ReqOK
<1>2. req' = [p \in Request |-> IF p = r THEN j ELSE req[p]]
  BY DEF Turns, TypeOK
<1>3. \A p \in Request : ReqOK(req'[p], queries')
  BY <1>1, <1>2
<1> QED
  BY <1>2, <1>3 DEF ReqOK

\* What a step of a handler makes of the handler.
LEMMA HandlerTurns ==
  ASSUME TypeOK, NEW r \in Request, Handle(r) \/ Drop(r)
  PROVE  /\ queries' \in queries..MaxQueries
         /\ req[r].at # "idle"
         /\ \E j : ReqOK(j, queries') /\ Turns(r, j)
<1> USE TrackingAssumption
<1>1. /\ queries \in 0..MaxQueries /\ ReqOK(req[r], queries)
      /\ req[r] \in [at : Step, tenant : Tenant \cup {Nobody}, q : 0..queries]
      /\ req = [req EXCEPT ![r] = req[r]]
  BY DEF TypeOK, ReqOK
<1>10. queries' \in queries..MaxQueries /\ req[r].at # "idle"
  BY <1>1 DEF Handle, Drop, LookDetect, AskDetect, SetDetect, LookTrack, Hit, LookErr, Forward,
     Answer, SetDetail, SetTrack, SetErr, carrier, At
<1> SUFFICES \E j : ReqOK(j, queries') /\ Turns(r, j)
  BY <1>10
<1>2. CASE End(r)
  <2>1. ReqOK(Resting, queries')
    BY <1>1, <1>10 DEF ReqOK, Resting, Query, Step
  <2> QED
    BY <1>2, <2>1 DEF End, Turns
<1>3. ASSUME NEW s \in Step \ {"hit", "setDetail", "setTrack"}, Go(r, s), req[r].at # "idle",
             UNCHANGED queries
      PROVE  \E j : ReqOK(j, queries') /\ Turns(r, j)
  <2> DEFINE j == [req[r] EXCEPT !.at = s]
  <2>1. ReqOK(j, queries')
    BY <1>1, <1>3 DEF ReqOK
  <2> QED
    BY <1>3, <2>1 DEF Go, Turns
<1>4. CASE LookDetect(r) \/ SetDetect(r) \/ LookErr(r) \/ Forward(r)
  BY <1>1, <1>2, <1>3, <1>4 DEF LookDetect, SetDetect, LookErr, Forward, At, carrier, Step
<1>5. CASE AskDetect(r)
  BY <1>1, <1>2, <1>3, <1>5 DEF AskDetect, At, carrier, Step
<1>6. CASE LookTrack(r)
  <2>1. CASE Go(r, "err")
    BY <1>1, <1>3, <1>6, <2>1 DEF LookTrack, At, carrier, Step
  <2>2. CASE track.ttl > 0 /\ GoWith(r, "hit", track.q)
    <3> DEFINE j == Query("hit", req[r].tenant, track.q)
    <3>1. ReqOK(j, queries')
      BY <1>1, <1>6, <2>2 DEF LookTrack, At, carrier, ReqOK, Query, Step, TypeOK
    <3>2. Turns(r, j)
      BY <2>2 DEF GoWith, Turns
    <3> QED
      BY <3>1, <3>2
  <2> QED
    BY <1>6, <2>1, <2>2 DEF LookTrack
<1>7. CASE Hit(r) \/ SetTrack(r) \/ SetErr(r)
  BY <1>1, <1>2, <1>7 DEF Hit, SetTrack, SetErr, At, carrier
<1>8. CASE Answer(r)
  <2>1. CASE (Go(r, "setErr") \/ End(r)) /\ UNCHANGED <<queries, result>>
    BY <1>1, <1>2, <1>3, <1>8, <2>1 DEF Answer, At, Step
  <2>2. CASE queries < MaxQueries /\ queries' = queries + 1 /\ GoWith(r, "setDetail", queries')
    <3> DEFINE j == Query("setDetail", req[r].tenant, queries')
    <3>1. ReqOK(j, queries')
      BY <1>1, <1>8, <2>2 DEF Answer, At, ReqOK, Query, Step
    <3>2. Turns(r, j)
      BY <2>2 DEF GoWith, Turns
    <3> QED
      BY <3>1, <3>2
  <2> QED
    BY <1>8, <2>1, <2>2 DEF Answer
<1>9. CASE SetDetail(r)
  <2> DEFINE j == [req[r] EXCEPT !.at = "setTrack"]
  <2>1. ReqOK(j, queries')
    BY <1>1, <1>9 DEF SetDetail, At, carrier, ReqOK, Step
  <2>2. Turns(r, j)
    BY <1>9 DEF SetDetail, Go, Turns
  <2> QED
    BY <2>1, <2>2
<1> QED
  BY <1>2, <1>4, <1>5, <1>6, <1>7, <1>8, <1>9 DEF Handle, Drop

\* The caches and the books after a step of a handler.
LEMMA HandlerWrites ==
  ASSUME TypeInv, NEW r \in Request, Handle(r) \/ Drop(r)
  PROVE  /\ result' \in [QueryNo -> Version]
         /\ track' \in [q : 0..queries', ttl : 0..TrackTtl] /\ (track'.ttl > 0 <=> track'.q > 0)
         /\ detail' \in [Tenant -> [QueryNo -> 0..DetailTtl]]
         /\ promised' \in [Tenant -> [QueryNo -> 0..DetailTtl]]
         /\ err' \in 0..ErrTtl /\ detected' \in 0..DetectTtl
         /\ late' \in Nat /\ degraded' \in BOOLEAN
         /\ UNCHANGED <<truth, recorded, hook>>
<1> USE TrackingAssumption
<1>1. /\ queries' \in queries..MaxQueries /\ queries \in Nat /\ queries <= MaxQueries
  BY HandlerTurns DEF TypeInv, TypeOK
<1>2. /\ req[r].at \in {"hit", "setDetail", "setTrack"} =>
           req[r].tenant \in Tenant /\ req[r].q \in QueryNo /\ req[r].q \in 0..queries
      /\ req[r].q \in 0..queries
  BY SMTT(30), <1>1 DEF TypeInv, TypeOK, QueryNo
<1>3. ASSUME NEW f \in [Tenant -> [QueryNo -> 0..DetailTtl]],
             NEW t \in Tenant, NEW q \in QueryNo
      PROVE  [f EXCEPT ![t][q] = DetailTtl] \in [Tenant -> [QueryNo -> 0..DetailTtl]]
  <2>1. DetailTtl \in 0..DetailTtl
    OBVIOUS
  <2>2. [f[t] EXCEPT ![q] = DetailTtl] \in [QueryNo -> 0..DetailTtl]
    BY <2>1
  <2> QED
    BY <2>2
<1>4. detail' \in [Tenant -> [QueryNo -> 0..DetailTtl]]
  <2>1. \/ UNCHANGED detail
        \/ /\ req[r].at \in {"hit", "setDetail"}
           /\ detail' = [detail EXCEPT ![req[r].tenant][req[r].q] = DetailTtl]
    BY DEF Handle, Drop, LookDetect, AskDetect, SetDetect, LookTrack, Hit, LookErr, Forward,
       Answer, SetDetail, SetTrack, SetErr, cache, OrFails, Backfill, WriteDetail, At
  <2> QED
    BY SMTT(30), <1>2, <1>3, <2>1 DEF TypeInv, TypeOK
<1>5. promised' \in [Tenant -> [QueryNo -> 0..DetailTtl]]
  <2>1. \/ UNCHANGED promised
        \/ /\ req[r].at \in {"hit", "setTrack"}
           /\ promised' = [promised EXCEPT ![req[r].tenant][req[r].q] = DetailTtl]
    BY DEF Handle, Drop, LookDetect, AskDetect, SetDetect, LookTrack, Hit, LookErr, Forward,
       Answer, SetDetail, SetTrack, SetErr, history, Tell, At
  <2> QED
    BY <1>2, <1>3, <2>1 DEF TypeInv
<1>6. track' \in [q : 0..queries', ttl : 0..TrackTtl] /\ (track'.ttl > 0 <=> track'.q > 0)
  <2>1. \/ UNCHANGED track
        \/ req[r].at = "setTrack" /\ track' = [q |-> req[r].q, ttl |-> TrackTtl]
    BY DEF Handle, Drop, LookDetect, AskDetect, SetDetect, LookTrack, Hit, LookErr, Forward,
       Answer, SetDetail, SetTrack, SetErr, cache, OrFails, At
  <2>2. CASE UNCHANGED track
    BY <1>1, <2>2 DEF TypeInv, TypeOK
  <2>3. CASE req[r].at = "setTrack" /\ track' = [q |-> req[r].q, ttl |-> TrackTtl]
    BY <1>1, <1>2, <2>3 DEF TypeInv, TypeOK
  <2> QED
    BY <2>1, <2>2, <2>3
<1>7. result' \in [QueryNo -> Version]
  BY <1>1 DEF Handle, Drop, LookDetect, AskDetect, SetDetect, LookTrack, Hit, LookErr, Forward,
     Answer, SetDetail, SetTrack, SetErr, carrier, TypeInv, TypeOK
<1>8. err' \in 0..ErrTtl /\ detected' \in 0..DetectTtl
  BY DEF Handle, Drop, LookDetect, AskDetect, SetDetect, LookTrack, Hit, LookErr, Forward,
     Answer, SetDetail, SetTrack, SetErr, cache, OrFails, TypeInv, TypeOK
<1>9. late' \in Nat /\ degraded' \in BOOLEAN
  <2>1. late' \in {late, late + 1, 0}
    BY DEF Handle, Drop, LookDetect, AskDetect, SetDetect, LookTrack, Hit, LookErr, Forward,
       Answer, SetDetail, SetTrack, SetErr, history
  <2>2. degraded' = degraded \/ degraded' = TRUE
    BY Zenon DEF Handle, Drop, LookDetect, AskDetect, SetDetect, LookTrack, Hit, LookErr, Forward,
       Answer, SetDetail, SetTrack, SetErr, OrFails, Works, Fails
  <2>3. late' \in Nat
    BY <2>1 DEF TypeInv
  <2>4. degraded' \in BOOLEAN
    BY <2>2 DEF TypeInv
  <2> QED
    BY <2>3, <2>4
<1>10. UNCHANGED <<truth, recorded, hook>>
  BY DEF Handle, Drop, LookDetect, AskDetect, SetDetect, LookTrack, Hit, LookErr, Forward,
     Answer, SetDetail, SetTrack, SetErr, carrier
<1> QED
  BY <1>4, <1>5, <1>6, <1>7, <1>8, <1>9, <1>10

LEMMA TypeInvInit == Init => TypeInv
<1> SUFFICES ASSUME Init PROVE TypeInv
  OBVIOUS
<1> USE TrackingAssumption DEF Init
<1>1. truth \in Version /\ queries \in 0..MaxQueries /\ result \in [QueryNo -> Version]
  BY DEF Version
<1>2. track \in [q : 0..queries, ttl : 0..TrackTtl] /\ (track.ttl > 0 <=> track.q > 0)
  BY DEF Empty
<1>3. /\ detail \in [Tenant -> [QueryNo -> 0..DetailTtl]]
      /\ promised \in [Tenant -> [QueryNo -> 0..DetailTtl]]
  OBVIOUS
<1>4. /\ req \in [Request -> [at : Step, tenant : Tenant \cup {Nobody}, q : 0..queries]]
      /\ \A r \in Request : req[r].at = "idle"
  BY DEF Resting, Query, Step
<1>5. /\ hook \in [Hook -> [at : {"idle", "insert", "update", "invalidate"}, event : Version]]
      /\ \A h \in Hook : hook[h].at = "idle"
  BY DEF Version
<1>6. err \in 0..ErrTtl /\ detected \in 0..DetectTtl /\ recorded \subseteq Event /\ late \in Nat
  OBVIOUS
<1> QED
  BY <1>1, <1>2, <1>3, <1>4, <1>5, <1>6 DEF TypeInv, TypeOK

LEMMA TypeInvStep == TypeInv /\ [Next]_vars => TypeInv'
<1> SUFFICES ASSUME TypeInv, [Next]_vars PROVE TypeInv'
  OBVIOUS
<1> USE TrackingAssumption
<1>1. ASSUME NEW r \in Request, Handle(r) \/ Drop(r) PROVE TypeInv'
  <2>1. /\ queries' \in 0..MaxQueries /\ queries <= queries'
        /\ \E j : ReqOK(j, queries') /\ Turns(r, j)
    BY <1>1, HandlerTurns DEF TypeInv, TypeOK
  <2>2. /\ req' \in [Request -> [at : Step, tenant : Tenant \cup {Nobody}, q : 0..queries']]
        /\ \A p \in Request : ReqOK(req'[p], queries')
    BY <2>1, TurnTyped DEF TypeInv
  <2>3. /\ result' \in [QueryNo -> Version]
        /\ track' \in [q : 0..queries', ttl : 0..TrackTtl] /\ (track'.ttl > 0 <=> track'.q > 0)
        /\ detail' \in [Tenant -> [QueryNo -> 0..DetailTtl]]
        /\ promised' \in [Tenant -> [QueryNo -> 0..DetailTtl]]
        /\ err' \in 0..ErrTtl /\ detected' \in 0..DetectTtl
        /\ late' \in Nat /\ degraded' \in BOOLEAN
        /\ UNCHANGED <<truth, recorded, hook>>
    BY <1>1, HandlerWrites
  <2> QED
    BY <2>1, <2>2, <2>3 DEF TypeInv, TypeOK, ReqOK
<1>2. ASSUME NEW r \in Request, NEW t \in Tenant, NEW named \in BOOLEAN, Arrive(r, t, named)
      PROVE  TypeInv'
  <2> DEFINE j == Query(IF named THEN "track" ELSE "detect", t, 0)
  <2>1. /\ Turns(r, j)
        /\ UNCHANGED <<carrier, cache, recorded, hook, promised, late, degraded>>
    BY <1>2 DEF Arrive, Turns
  <2>2. ReqOK(j, queries') /\ queries' \in Nat /\ queries <= queries'
    BY <2>1 DEF ReqOK, Query, Step, carrier, TypeInv, TypeOK
  <2> HIDE DEF j
  <2>3. /\ req' \in [Request -> [at : Step, tenant : Tenant \cup {Nobody}, q : 0..queries']]
        /\ \A p \in Request : ReqOK(req'[p], queries')
    BY <2>1, <2>2, TurnTyped DEF TypeInv
  <2> QED
    BY <2>1, <2>3 DEF TypeInv, TypeOK, ReqOK, carrier, cache
<1>3. CASE Tick
  <2>1. \A n \in Nat : Older(n) \in 0..n
    BY DEF Older
  <2>2. ASSUME NEW f \in [Tenant -> [QueryNo -> 0..DetailTtl]]
        PROVE  Aged(f) \in [Tenant -> [QueryNo -> 0..DetailTtl]]
    BY <2>1 DEF Aged
  <2>3. track' \in [q : 0..queries', ttl : 0..TrackTtl] /\ (track'.ttl > 0 <=> track'.q > 0)
    BY <1>3 DEF Tick, Older, Empty, carrier, TypeInv, TypeOK
  <2>4. err' \in 0..ErrTtl /\ detected' \in 0..DetectTtl
    BY <1>3, <2>1 DEF Tick, TypeInv, TypeOK
  <2> QED
    BY <1>3, <2>2, <2>3, <2>4 DEF Tick, carrier, TypeInv, TypeOK
<1>4. CASE NewEvent
  BY <1>4 DEF NewEvent, cache, history, TypeInv, TypeOK, Version
<1>5. ASSUME NEW h \in Hook, HandleHook(h) \/ \E e \in Event : Receive(h, e) PROVE TypeInv'
  <2>1. /\ UNCHANGED <<carrier, req, detail, err, promised, late>>
        /\ track' = track \/ track' = Empty
        /\ detected' = detected \/ detected' = 0
    BY <1>5 DEF HandleHook, Insert, Update, Invalidate, Receive, cache, history, OrFails
  <2>2. degraded' = degraded \/ degraded' = TRUE
    BY <1>5, Zenon DEF HandleHook, Insert, Update, Invalidate, Receive, OrFails, Works, Fails
  <2>3. \E s \in {"idle", "insert", "update", "invalidate"}, e \in Version :
          HookGo(h, s, e) /\ (s = "idle" \/ e \in Event)
    <3>1. /\ 0 \in Version /\ Event \subseteq Version
          /\ hook[h].at # "idle" => hook[h].event \in Event
      BY DEF Version, Event, TypeInv
    <3> QED
      BY <1>5, <3>1 DEF HandleHook, Insert, Update, Invalidate, Receive, HookEnd, HookAt
  <2>4. /\ hook' \in [Hook -> [at : {"idle", "insert", "update", "invalidate"}, event : Version]]
        /\ \A i \in Hook : hook'[i].at # "idle" => hook'[i].event \in Event
    BY <2>3 DEF HookGo, TypeInv, TypeOK
  <2>5. recorded' \subseteq Event
    <3>1. \/ HookAt(h, "insert") /\ recorded' = recorded \cup {hook[h].event}
          \/ UNCHANGED recorded
      BY <1>5 DEF HandleHook, Insert, Update, Invalidate, Receive
    <3> QED
      BY <3>1 DEF TypeInv, TypeOK, HookAt
  <2>6. track' \in [q : 0..queries', ttl : 0..TrackTtl] /\ (track'.ttl > 0 <=> track'.q > 0)
    BY <2>1 DEF TypeInv, TypeOK, carrier, Empty
  <2>7. detected' \in 0..DetectTtl
    BY <2>1 DEF TypeInv, TypeOK
  <2>8. degraded' \in BOOLEAN
    BY <2>2 DEF TypeInv
  <2> QED
    BY <2>1, <2>4, <2>5, <2>6, <2>7, <2>8 DEF TypeInv, TypeOK, carrier
<1>6. CASE UNCHANGED vars
  BY <1>6 DEF vars, carrier, cache, history, TypeInv, TypeOK
<1> QED
  BY <1>1, <1>2, <1>3, <1>4, <1>5, <1>6 DEF Next

\* Caches, handlers and callbacks keep their types (main.rs:493-727,
\* CallbackController.php:62-130).
THEOREM TypeCorrect == Spec => []TypeOK
<1>1. TypeInv => TypeOK
  BY DEF TypeInv
<1> QED
  BY <1>1, TypeInvInit, TypeInvStep, PTL DEF Spec

-----------------------------------------------------------------------------
(* What was told can be read.                                              *)

\* A promise lasts no longer than the detail record, and the record of a
\* handler that is about to make one has just been written: no tick comes
\* between the two.
ToldInv ==
  ~degraded =>
    /\ \A t \in Tenant, q \in QueryNo : promised[t][q] <= detail[t][q]
    /\ \A r \in Request : At(r, "setTrack") => detail[req[r].tenant][req[r].q] = DetailTtl

\* A record that is written is there, the others are as they were.
LEMMA WrittenIsThere ==
  ASSUME NEW f \in [Tenant -> [QueryNo -> 0..DetailTtl]],
         NEW t \in Tenant, NEW q \in QueryNo
  PROVE  LET g == [f EXCEPT ![t][q] = DetailTtl]
         IN \A u \in Tenant, p \in QueryNo :
              g[u][p] = IF u = t /\ p = q THEN DetailTtl ELSE f[u][p]
<1> DEFINE g == [f EXCEPT ![t][q] = DetailTtl]
<1>1. \A u \in Tenant : g[u] = IF u = t THEN [f[t] EXCEPT ![q] = DetailTtl] ELSE f[u]
  OBVIOUS
<1>2. \A p \in QueryNo : [f[t] EXCEPT ![q] = DetailTtl][p] = IF p = q THEN DetailTtl ELSE f[t][p]
  OBVIOUS
<1> QED
  BY <1>1, <1>2

\* As long as nothing fails, only two steps write detail records and only two
\* make promises.
LEMMA ToldWrites ==
  ASSUME TypeInv, ~degraded', NEW r \in Request, Handle(r) \/ Drop(r)
  PROVE  /\ ~degraded
         /\ \/ ~Hit(r) /\ ~SetDetail(r) /\ ~SetTrack(r) /\ UNCHANGED <<detail, promised>>
               /\ req'[r].at # "setTrack"
            \/ Hit(r) /\ Tell(req[r].tenant, req[r].q) /\ WriteDetail(req[r].tenant, req[r].q)
               /\ req'[r].at # "setTrack"
            \/ SetDetail(r) /\ WriteDetail(req[r].tenant, req[r].q) /\ UNCHANGED promised
               /\ req'[r] = [req[r] EXCEPT !.at = "setTrack"]
            \/ SetTrack(r) /\ Tell(req[r].tenant, req[r].q) /\ UNCHANGED detail
               /\ req'[r].at # "setTrack"
         /\ \A p \in Request \ {r} : req'[p] = req[p]
<1>1. ~degraded
  BY Zenon DEF Handle, Drop, LookDetect, AskDetect, SetDetect, LookTrack, Hit, LookErr,
     Forward, Answer, SetDetail, SetTrack, SetErr, OrFails, Works, Fails
<1>2. End(r) \/ (\E s : Go(r, s)) \/ (\E s, q : GoWith(r, s, q))
  BY DEF Handle, Drop, LookDetect, AskDetect, SetDetect, LookTrack, Hit, LookErr,
     Forward, Answer, SetDetail, SetTrack, SetErr
<1>3. \A p \in Request \ {r} : req'[p] = req[p]
  BY <1>2 DEF End, Go, GoWith, TypeInv, TypeOK
<1>4. CASE Hit(r)
  BY <1>1, <1>3, <1>4 DEF Hit, OrFails, Backfill, Fails, At, End, Resting, Query,
     TypeInv, TypeOK
<1>5. CASE SetDetail(r)
  BY <1>1, <1>3, <1>5 DEF SetDetail, OrFails, Fails, At, Go, history, TypeInv, TypeOK
<1>6. CASE SetTrack(r)
  BY <1>1, <1>3, <1>6 DEF SetTrack, End, Resting, Query, TypeInv, TypeOK
<1>7. CASE ~Hit(r) /\ ~SetDetail(r) /\ ~SetTrack(r)
  <2>1. UNCHANGED <<detail, promised>>
    BY <1>7 DEF Handle, Drop, LookDetect, AskDetect, SetDetect, LookTrack, LookErr, Forward,
       Answer, SetErr, cache, history
  <2>2. req'[r].at # "setTrack"
    BY <1>7 DEF Handle, Drop, LookDetect, AskDetect, SetDetect, LookTrack, LookErr, Forward,
       Answer, SetErr, End, Go, GoWith, Resting, Query, TypeInv, TypeOK
  <2> QED
    BY <1>1, <1>3, <1>7, <2>1, <2>2
<1> QED
  BY <1>4, <1>5, <1>6, <1>7

LEMMA ToldInvStep == TypeInv /\ ToldInv /\ [Next]_vars => ToldInv'
<1> SUFFICES ASSUME TypeInv, ToldInv, [Next]_vars, ~degraded'
             PROVE  /\ \A t \in Tenant, q \in QueryNo : promised'[t][q] <= detail'[t][q]
                    /\ \A r \in Request :
                         req'[r].at = "setTrack" => detail'[req'[r].tenant][req'[r].q] = DetailTtl
  BY DEF ToldInv, At
<1> USE TrackingAssumption
<1>0. /\ detail \in [Tenant -> [QueryNo -> 0..DetailTtl]]
      /\ promised \in [Tenant -> [QueryNo -> 0..DetailTtl]]
      /\ \A r \in Request : req[r].at \in {"hit", "setDetail", "setTrack"} =>
           req[r].tenant \in Tenant /\ req[r].q \in QueryNo
  BY DEF TypeInv, TypeOK, QueryNo
<1>1. ASSUME NEW r \in Request, Handle(r) \/ Drop(r)
      PROVE  /\ \A t \in Tenant, q \in QueryNo : promised'[t][q] <= detail'[t][q]
             /\ \A p \in Request :
                  req'[p].at = "setTrack" => detail'[req'[p].tenant][req'[p].q] = DetailTtl
  <2> DEFINE u == req[r].tenant
             n == req[r].q
  <2>1. /\ ~degraded
        /\ \A t \in Tenant, q \in QueryNo : promised[t][q] <= detail[t][q]
        /\ \A p \in Request : req[p].at = "setTrack" => detail[req[p].tenant][req[p].q] = DetailTtl
    BY <1>1, ToldWrites DEF ToldInv, At
  <2>2. \A p \in Request \ {r} : req'[p] = req[p]
    BY <1>1, ToldWrites
  <2>3. CASE UNCHANGED <<detail, promised>> /\ req'[r].at # "setTrack"
    BY <2>1, <2>2, <2>3
  <2>4. ASSUME u \in Tenant, n \in QueryNo, WriteDetail(u, n)
        PROVE  /\ \A t \in Tenant, q \in QueryNo :
                    detail'[t][q] = IF t = u /\ q = n THEN DetailTtl ELSE detail[t][q]
               /\ \A p \in Request \ {r} : 
                    req'[p].at = "setTrack" => detail'[req'[p].tenant][req'[p].q] = DetailTtl
    <3>1. \A t \in Tenant, q \in QueryNo :
            detail'[t][q] = IF t = u /\ q = n THEN DetailTtl ELSE detail[t][q]
      BY <1>0, <2>4, WrittenIsThere DEF WriteDetail
    <3> QED
      BY <1>0, <2>1, <2>2, <3>1
  <2>5. ASSUME u \in Tenant, n \in QueryNo, Tell(u, n)
        PROVE  \A t \in Tenant, q \in QueryNo :
                 promised'[t][q] = IF t = u /\ q = n THEN DetailTtl ELSE promised[t][q]
    BY <1>0, <2>5, WrittenIsThere DEF Tell
  <2>6. CASE Hit(r) /\ Tell(u, n) /\ WriteDetail(u, n) /\ req'[r].at # "setTrack"
    <3>1. u \in Tenant /\ n \in QueryNo
      BY <1>0, <2>6 DEF Hit, At
    <3> QED
      BY <2>1, <2>4, <2>5, <2>6, <3>1
  <2>7. CASE SetDetail(r) /\ WriteDetail(u, n) /\ UNCHANGED promised
             /\ req'[r] = [req[r] EXCEPT !.at = "setTrack"]
    <3>1. u \in Tenant /\ n \in QueryNo /\ req[r] \in [at : Step, tenant : Tenant \cup {Nobody}, q : 0..queries]
      BY <1>0, <2>7 DEF SetDetail, At, TypeInv, TypeOK
    <3>2. req'[r].tenant = u /\ req'[r].q = n
      BY <2>7, <3>1
    <3>3. \A t \in Tenant, q \in QueryNo : promised[t][q] \in 0..DetailTtl
      BY <1>0
    <3> QED
      BY <2>1, <2>4, <2>7, <3>1, <3>2, <3>3
  <2>8. CASE SetTrack(r) /\ Tell(u, n) /\ UNCHANGED detail /\ req'[r].at # "setTrack"
    <3>1. u \in Tenant /\ n \in QueryNo /\ detail[u][n] = DetailTtl
      BY <1>0, <2>1, <2>8 DEF SetTrack, At
    <3> QED
      BY <2>1, <2>2, <2>5, <2>8, <3>1
  <2> QED
    BY <1>1, ToldWrites, <2>3, <2>6, <2>7, <2>8
<1>2. ASSUME NEW r \in Request, NEW t \in Tenant, NEW named \in BOOLEAN, Arrive(r, t, named)
      PROVE  /\ \A u \in Tenant, q \in QueryNo : promised'[u][q] <= detail'[u][q]
             /\ \A p \in Request :
                  req'[p].at = "setTrack" => detail'[req'[p].tenant][req'[p].q] = DetailTtl
  <2>1. UNCHANGED <<promised, detail, degraded>>
    BY <1>2 DEF Arrive, cache
  <2>2. \A p \in Request : req'[p] = req[p] \/ req'[p].at # "setTrack"
    BY <1>2 DEF Arrive, Query, TypeInv, TypeOK
  <2> QED
    BY <2>1, <2>2 DEF ToldInv, At
<1>3. CASE Tick
  <2>1. UNCHANGED <<req, degraded>> /\ detail' = Aged(detail) /\ promised' = Aged(promised)
        /\ \A r \in Request : req[r].at # "setTrack"
    BY <1>3 DEF Tick, At
  <2>2. \A m \in Nat, n \in Nat : m <= n => Older(m) <= Older(n)
    BY DEF Older
  <2>3. \A t \in Tenant, q \in QueryNo :
          detail'[t][q] = Older(detail[t][q]) /\ promised'[t][q] = Older(promised[t][q])
    BY <2>1 DEF Aged
  <2>4. \A t \in Tenant, q \in QueryNo : promised[t][q] \in Nat /\ detail[t][q] \in Nat
    BY <1>0
  <2> QED
    BY <2>1, <2>2, <2>3, <2>4 DEF ToldInv
<1>4. CASE UNCHANGED <<req, detail, promised>> /\ ~degraded
  BY <1>4 DEF ToldInv, At
<1>5. CASE NewEvent \/ UNCHANGED vars
  BY <1>4, <1>5 DEF NewEvent, vars, cache, history
<1>6. ASSUME NEW h \in Hook, HandleHook(h) \/ \E e \in Event : Receive(h, e)
      PROVE  UNCHANGED <<req, detail, promised>> /\ ~degraded
  <2>1. UNCHANGED <<req, detail, promised>>
    BY <1>6 DEF HandleHook, Insert, Update, Invalidate, Receive, cache, history
  <2>2. ~degraded
    BY <1>6, Zenon DEF HandleHook, Insert, Update, Invalidate, Receive, OrFails, Works, Fails
  <2> QED
    BY <2>1, <2>2
<1> QED
  BY <1>1, <1>2, <1>3, <1>4, <1>5, <1>6 DEF Next

\* Whoever is told a query number can read its details for the life of a
\* record, whichever tenant's query gave the answer, as long as Redis works
\* (main.rs:560-575, :632-660).
THEOREM ToldIsReadableHolds == Spec => []ToldIsReadable
<1>1. Init => ToldInv
  BY DEF Init, ToldInv, At, Resting, Query
<1>2. TypeInv /\ ToldInv => ToldIsReadable
  BY TrackingAssumption DEF TypeInv, TypeOK, ToldInv, ToldIsReadable, Readable
<1> QED
  BY <1>1, <1>2, TypeInvInit, TypeInvStep, ToldInvStep, PTL DEF Spec

-----------------------------------------------------------------------------
(* A carrier that failed is left alone.                                    *)

\* Handlers that looked before the failure was known, and are yet to call.
Ahead == {r \in Request : At(r, "forward")}

\* A call that gets through uses up one of them, and nobody joins them; the
\* handler that remembers the failure is none of them.
SparedInv ==
  ~degraded /\ err > 0 => late + Cardinality(Ahead) < Cardinality(Request)

\* The size of a part of the handlers that one handler leaves, if it was in it.
LEMMA OneLeaves ==
  ASSUME NEW A \in SUBSET Request, NEW B \in SUBSET Request, B \subseteq A
  PROVE  /\ Cardinality(A) \in Nat /\ Cardinality(B) \in Nat /\ Cardinality(Request) \in Nat
         /\ Cardinality(B) <= Cardinality(A)
         /\ \A r \in A : r \notin B => Cardinality(B) < Cardinality(A)
         /\ \A r \in Request : r \notin A => Cardinality(A) < Cardinality(Request)
<1>1. IsFiniteSet(Request) /\ IsFiniteSet(A) /\ IsFiniteSet(B)
  BY TrackingAssumption, FS_Subset
<1>2. /\ Cardinality(A) \in Nat /\ Cardinality(B) \in Nat /\ Cardinality(Request) \in Nat
      /\ Cardinality(B) <= Cardinality(A) /\ Cardinality(A) <= Cardinality(Request)
      /\ Cardinality(A) = Cardinality(B) => A = B
      /\ Cardinality(Request) = Cardinality(A) => Request = A
  BY <1>1, FS_CardinalityType, FS_Subset
<1> QED
  BY <1>2

LEMMA SparedInvStep == TypeInv /\ SparedInv /\ [Next]_vars => SparedInv'
<1> SUFFICES ASSUME TypeInv, SparedInv, [Next]_vars, ~degraded', err' > 0
             PROVE  late' + Cardinality(Ahead') < Cardinality(Request)
  BY DEF SparedInv
<1> USE TrackingAssumption
<1>0. /\ Ahead \in SUBSET Request /\ Ahead' \in SUBSET Request
      /\ late \in Nat /\ err \in Nat /\ err' \in Nat
      /\ Cardinality(Request) \in Nat
      /\ Cardinality(Ahead) \in Nat /\ Cardinality(Ahead') \in Nat
  <2>1. Ahead \in SUBSET Request /\ Ahead' \in SUBSET Request
    BY DEF Ahead
  <2>2. late \in Nat /\ err \in Nat /\ err' \in Nat
    BY TypeInvStep DEF TypeInv, TypeOK
  <2> QED
    BY <2>1, <2>2, OneLeaves
<1>1. ASSUME Ahead' \subseteq Ahead, UNCHANGED late, ~degraded, err > 0
      PROVE  late' + Cardinality(Ahead') < Cardinality(Request)
  BY <1>0, <1>1, OneLeaves DEF SparedInv
<1>2. ASSUME NEW r \in Request, Handle(r) \/ Drop(r)
      PROVE  late' + Cardinality(Ahead') < Cardinality(Request)
  <2>1. ~degraded /\ \A p \in Request \ {r} : req'[p] = req[p]
    BY <1>2, ToldWrites
  <2>2. CASE SetErr(r)
    <3>1. /\ err' = ErrTtl /\ late' = (IF err > 0 THEN late ELSE 0)
          /\ r \notin Ahead /\ req'[r].at = "idle"
      BY <2>1, <2>2 DEF SetErr, OrFails, Fails, Ahead, At, End, Resting, Query, TypeInv, TypeOK
    <3>2. Ahead' \subseteq Ahead
      BY <2>1, <3>1 DEF Ahead, At
    <3>3. Cardinality(Ahead') < Cardinality(Request)
      BY <1>0, <3>1, <3>2, OneLeaves
    <3> QED
      BY <1>0, <1>1, <2>1, <3>1, <3>2, <3>3
  <2>3. CASE Forward(r)
    <3>1. /\ UNCHANGED err /\ r \in Ahead /\ req'[r].at # "forward"
          /\ late' = late \/ late' = late + 1
      BY <2>3 DEF Forward, cache, Ahead, At, End, Go, Resting, Query, TypeInv, TypeOK
    <3>2. Ahead' \subseteq Ahead /\ r \notin Ahead'
      BY <2>1, <3>1 DEF Ahead, At
    <3>3. Cardinality(Ahead') < Cardinality(Ahead)
      BY <1>0, <3>1, <3>2, OneLeaves
    <3>4. late + Cardinality(Ahead) < Cardinality(Request)
      BY <2>1, <3>1 DEF SparedInv
    <3> QED
      BY <1>0, <3>1, <3>3, <3>4
  <2>4. CASE LookErr(r)
    <3>1. UNCHANGED <<err, late>> /\ req'[r].at = "idle"
      BY <2>1, <2>4 DEF LookErr, RecentFailure, Fails, cache, history, End, Resting, Query,
         TypeInv, TypeOK
    <3>2. Ahead' \subseteq Ahead
      BY <2>1, <3>1 DEF Ahead, At
    <3> QED
      BY <1>1, <2>1, <3>1, <3>2
  <2>5. CASE ~SetErr(r) /\ ~Forward(r) /\ ~LookErr(r)
    <3>1. UNCHANGED <<err, late>>
      BY <1>2, <2>5 DEF Handle, Drop, LookDetect, AskDetect, SetDetect, LookTrack, Hit, Answer,
         SetDetail, SetTrack, cache, history
    <3>2. req'[r].at # "forward"
      BY <1>2, <2>5 DEF Handle, Drop, LookDetect, AskDetect, SetDetect, LookTrack, Hit, Answer,
         SetDetail, SetTrack, End, Go, GoWith, Resting, Query, TypeInv, TypeOK
    <3>3. Ahead' \subseteq Ahead
      BY <2>1, <3>2 DEF Ahead, At
    <3> QED
      BY <1>1, <2>1, <3>1, <3>3
  <2> QED
    BY <2>2, <2>3, <2>4, <2>5
<1>3. ASSUME NEW r \in Request, NEW t \in Tenant, NEW named \in BOOLEAN, Arrive(r, t, named)
      PROVE  late' + Cardinality(Ahead') < Cardinality(Request)
  <2>1. UNCHANGED <<err, late, degraded>>
    BY <1>3 DEF Arrive, cache
  <2>2. \A p \in Request : req'[p] = req[p] \/ req'[p].at # "forward"
    BY <1>3 DEF Arrive, Query, TypeInv, TypeOK
  <2>3. Ahead' \subseteq Ahead
    BY <2>2 DEF Ahead, At
  <2> QED
    BY <1>1, <2>1, <2>3
<1>4. CASE UNCHANGED <<req, late, degraded>> /\ err > 0
  <2>1. Ahead' \subseteq Ahead
    BY <1>4 DEF Ahead, At
  <2> QED
    BY <1>1, <1>4, <2>1
<1>5. CASE Tick
  <2>1. UNCHANGED <<req, late, degraded>> /\ err' = Older(err)
    BY <1>5 DEF Tick
  <2>2. err > 0
    BY <1>0, <2>1 DEF Older
  <2> QED
    BY <1>4, <2>1, <2>2
<1>6. CASE NewEvent \/ UNCHANGED vars
  BY <1>4, <1>6 DEF NewEvent, vars, cache, history
<1>7. ASSUME NEW h \in Hook, HandleHook(h) \/ \E e \in Event : Receive(h, e)
      PROVE  late' + Cardinality(Ahead') < Cardinality(Request)
  <2>1. UNCHANGED <<req, late, err>>
    BY <1>7 DEF HandleHook, Insert, Update, Invalidate, Receive, cache, history
  <2>2. ~degraded
    BY <1>7, Zenon DEF HandleHook, Insert, Update, Invalidate, Receive, OrFails, Works, Fails
  <2>3. Ahead' \subseteq Ahead
    BY <2>1 DEF Ahead, At
  <2>4. err > 0
    BY <1>0, <2>1
  <2> QED
    BY <1>1, <2>1, <2>2, <2>3, <2>4
<1> QED
  BY <1>2, <1>3, <1>4, <1>5, <1>6, <1>7 DEF Next

\* However many handlers run at the same time, one of them at least is kept
\* away from a carrier that is known to have failed, and all that come later
\* (main.rs:577-600).
THEOREM OutageIsSparedHolds == Spec => []OutageIsSpared
<1>1. Init => SparedInv
  BY DEF Init, SparedInv
<1>2. TypeInv /\ SparedInv => OutageIsSpared
  <2>1. Ahead \in SUBSET Request
    BY DEF Ahead
  <2>2. Cardinality(Ahead) \in Nat /\ Cardinality(Request) \in Nat
    BY <2>1, OneLeaves
  <2> QED
    BY <2>2 DEF TypeInv, SparedInv, OutageIsSpared
<1> QED
  BY <1>1, <1>2, TypeInvInit, TypeInvStep, SparedInvStep, PTL DEF Spec
=============================================================================
