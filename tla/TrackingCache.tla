---------------------------- MODULE TrackingCache ----------------------------
(***************************************************************************)
(* A tracking query on its way through the gateway, and the caches in Redis *)
(* that queries and carrier callbacks share (tracking_query in             *)
(* tracking-gateway/src/main.rs, CallbackController and InternalService in *)
(* admin/app).                                                             *)
(*                                                                         *)
(* One carrier and one tracking number.  What the carrier knows is counted *)
(* in events: truth is the number of events it has, and a result is the    *)
(* number of events that it shows.  A handler is cut into steps where it   *)
(* awaits Redis or a worker; other handlers run in between.  A cached value *)
(* is there as long as its time to live is positive; a tick is coarse, of  *)
(* the order of the shortest time to live, so that the writes with which a *)
(* handler ends fall into one tick.  The circuit breaker appears by what a *)
(* query can tell of it: a call is let through or not.                     *)
(***************************************************************************)
EXTENDS Integers, FiniteSets

CONSTANTS
  Request,     \* handlers of queries that can run at the same time
  Hook,        \* handlers of callbacks that can run at the same time
  Tenant,      \* API keys that the gateway lets in
  Nobody,      \* no tenant
  MaxEvents,   \* bound: events of the parcel
  MaxQueries,  \* bound: successful queries of the carrier, each with a number
  TrackTtl, DetailTtl, ErrTtl, DetectTtl,
  Faulty       \* whether Redis and the database may fail

Version == 0..MaxEvents
Event == 1..MaxEvents
QueryNo == 1..MaxQueries

ASSUME TrackingAssumption ==
  /\ IsFiniteSet(Request)
  /\ MaxEvents \in Nat /\ MaxQueries \in Nat /\ Faulty \in BOOLEAN
  /\ TrackTtl \in Nat \ {0} /\ ErrTtl \in Nat \ {0} /\ DetectTtl \in Nat \ {0}
  /\ DetailTtl \in Nat \ {0} /\ Nobody \notin Tenant

VARIABLES
  truth,     \* events that the carrier knows of
  queries,   \* query numbers given out
  result,    \* what each numbered query answered
  track,     \* cache:track, shared: a query number and its time to live
  detail,    \* cache:query:<api key hash>:<query_no>, time to live
  err,       \* cache:err, time to live
  detected,  \* cache:detect, time to live
  req,       \* what each query handler is doing, for whom
  recorded,  \* events in the table of tracking events
  hook,      \* what each callback handler is doing, for which event
  \* History, read by no action:
  asked,     \* tenants that ever asked for the tracking number
  promised,  \* query numbers told to a tenant, with the time they last
  late,      \* calls let through since a failure of the carrier was cached,
             \* counted until something fails
  acked,     \* events whose callback was answered "ok"
  handled,   \* events whose callback was carried out to the end
  degraded   \* Redis or the database failed at some time

carrier == <<truth, queries, result>>
cache == <<track, detail, err, detected>>
history == <<asked, promised, late, acked, handled>>
vars == <<carrier, cache, req, recorded, hook, history, degraded>>

Query(at, t, q) == [at |-> at, tenant |-> t, q |-> q]
Resting == Query("idle", Nobody, 0)
Empty == [q |-> 0, ttl |-> 0]

Init ==
  /\ truth = 0 /\ queries = 0 /\ result = [q \in QueryNo |-> 0]
  /\ track = Empty
  /\ detail = [t \in Tenant |-> [q \in QueryNo |-> 0]]
  /\ err = 0 /\ detected = 0
  /\ req = [r \in Request |-> Resting]
  /\ recorded = {}
  /\ hook = [h \in Hook |-> [at |-> "idle", event |-> 0]]
  /\ asked = {} /\ late = 0 /\ acked = {} /\ handled = {}
  /\ promised = [t \in Tenant |-> [q \in QueryNo |-> 0]]
  /\ degraded = FALSE

At(r, step) == req[r].at = step
Go(r, step) == req' = [req EXCEPT ![r].at = step]
GoWith(r, step, q) == req' = [req EXCEPT ![r] = Query(step, @.tenant, q)]
End(r) == req' = [req EXCEPT ![r] = Resting]

\* A call of Redis or of the database works, or fails and is only logged.
Works == UNCHANGED degraded
Fails == Faulty /\ degraded' = TRUE
OrFails(write, unchanged) == (write /\ Works) \/ (UNCHANGED unchanged /\ Fails)

-----------------------------------------------------------------------------
(* The query: which carrier, and what the caches know.                     *)

\* The key was accepted and the rate limit not reached.  A query that names
\* its carrier skips the detection.
Arrive(r, t, named) ==
  /\ At(r, "idle")
  /\ req' = [req EXCEPT ![r] = Query(IF named THEN "track" ELSE "detect", t, 0)]
  /\ asked' = asked \cup {t}
  /\ UNCHANGED <<carrier, cache, recorded, hook, promised, late, acked, handled, degraded>>

LookDetect(r) ==
  /\ At(r, "detect")
  /\ \/ detected > 0 /\ Go(r, "track") /\ Works
     \/ detected = 0 /\ Go(r, "askDetect") /\ Works
     \/ Go(r, "askDetect") /\ Fails
  /\ UNCHANGED <<carrier, cache, recorded, hook, history>>

\* The worker names a carrier, or the query ends with an error.
AskDetect(r) ==
  /\ At(r, "askDetect")
  /\ Go(r, "setDetect") \/ End(r)
  /\ UNCHANGED <<carrier, cache, recorded, hook, history, degraded>>

SetDetect(r) ==
  /\ At(r, "setDetect")
  /\ OrFails(detected' = DetectTtl, detected)
  /\ Go(r, "track")
  /\ UNCHANGED <<carrier, track, detail, err, recorded, hook, history>>

LookTrack(r) ==
  /\ At(r, "track")
  /\ \/ track.ttl > 0 /\ GoWith(r, "hit", track.q) /\ Works
     \/ track.ttl = 0 /\ Go(r, "err") /\ Works
     \/ Go(r, "err") /\ Fails
  /\ UNCHANGED <<carrier, cache, recorded, hook, history>>

\* Mutant: the key of the record leaves the tenant out.
SharedDetail(t, q) == detail' = [u \in Tenant |-> [detail[u] EXCEPT ![q] = DetailTtl]]

\* The detail record of a query number, under the key of the tenant.
WriteDetail(t, q) == detail' = [detail EXCEPT ![t][q] = DetailTtl]

\* The tenant gets query number q, whose details it may ask for from now on.
Tell(t, q) == promised' = [promised EXCEPT ![t][q] = DetailTtl]

\* Mutant: only the query that asked the carrier writes a detail record.
NoBackfill(t, q) == UNCHANGED detail

\* A hit gives the tenant a detail record of its own.
Backfill(t, q) == WriteDetail(t, q)

\* Mutant: a hit starts the life of the shared record again.
HitRenews(r) ==
  /\ At(r, "hit")
  /\ OrFails(Backfill(req[r].tenant, req[r].q), detail)
  /\ track' = [q |-> req[r].q, ttl |-> TrackTtl]
  /\ Tell(req[r].tenant, req[r].q)
  /\ End(r)
  /\ UNCHANGED <<carrier, err, detected, recorded, hook, asked, late, acked, handled>>

Hit(r) ==
  /\ At(r, "hit")
  /\ OrFails(Backfill(req[r].tenant, req[r].q), detail)
  /\ Tell(req[r].tenant, req[r].q)
  /\ End(r)
  /\ UNCHANGED <<carrier, track, err, detected, recorded, hook, asked, late, acked, handled>>

\* Mutant: a failure of the carrier is not remembered.
Forgotten == FALSE

\* The carrier failed a moment ago (negative cache).
RecentFailure == err > 0

LookErr(r) ==
  /\ At(r, "err")
  /\ \/ RecentFailure /\ End(r) /\ Works
     \/ ~RecentFailure /\ Go(r, "forward") /\ Works
     \/ Go(r, "forward") /\ Fails
  /\ UNCHANGED <<carrier, cache, recorded, hook, history>>
-----------------------------------------------------------------------------
(* The query: asking the carrier.                                          *)

\* The breaker rejects the call, or lets it through to a worker.
Forward(r) ==
  /\ At(r, "forward")
  /\ \/ End(r) /\ UNCHANGED late
     \/ Go(r, "asked") /\ late' = IF err > 0 /\ ~degraded THEN late + 1 ELSE late
  /\ UNCHANGED <<carrier, cache, recorded, hook, asked, promised, acked, handled, degraded>>

\* The worker asks the carrier and gives its answer a number; or the carrier
\* fails (5xx), the query is refused (4xx) or no answer arrives.
Answer(r) ==
  /\ At(r, "asked")
  /\ \/ /\ queries < MaxQueries
        /\ queries' = queries + 1
        /\ result' = [result EXCEPT ![queries'] = truth]
        /\ GoWith(r, "setDetail", queries')
     \/ (Go(r, "setErr") \/ End(r)) /\ UNCHANGED <<queries, result>>
  /\ UNCHANGED <<truth, cache, recorded, hook, history, degraded>>

SetDetail(r) ==
  /\ At(r, "setDetail")
  /\ OrFails(WriteDetail(req[r].tenant, req[r].q), detail)
  /\ Go(r, "setTrack")
  /\ UNCHANGED <<carrier, track, err, detected, recorded, hook, history>>

SetTrack(r) ==
  /\ At(r, "setTrack")
  /\ OrFails(track' = [q |-> req[r].q, ttl |-> TrackTtl], track)
  /\ Tell(req[r].tenant, req[r].q)
  /\ End(r)
  /\ UNCHANGED <<carrier, detail, err, detected, recorded, hook, asked, late, acked, handled>>

SetErr(r) ==
  /\ At(r, "setErr")
  /\ OrFails(err' = ErrTtl, err)
  /\ late' = IF err > 0 THEN late ELSE 0
  /\ End(r)
  /\ UNCHANGED <<carrier, track, detail, detected, recorded, hook, asked, promised, acked, handled>>

\* The client goes away and the server drops the handler where it waits.
Drop(r) ==
  /\ ~At(r, "idle")
  /\ End(r)
  /\ UNCHANGED <<carrier, cache, recorded, hook, history, degraded>>

-----------------------------------------------------------------------------
(* The carrier and its callbacks.                                          *)

\* Something happens to the parcel (external).
NewEvent ==
  /\ truth < MaxEvents
  /\ truth' = truth + 1
  /\ UNCHANGED <<queries, result, cache, req, recorded, hook, history, degraded>>

HookAt(h, step) == hook[h].at = step
HookGo(h, step, e) == hook' = [hook EXCEPT ![h] = [at |-> step, event |-> e]]
HookEnd(h) == HookGo(h, "idle", 0)

\* The carrier reports an event, once or again (signature and carrier are in
\* order).
Receive(h, e) ==
  /\ e <= truth
  /\ HookAt(h, "idle") /\ HookGo(h, "insert", e)
  /\ UNCHANGED <<carrier, cache, req, recorded, history, degraded>>

\* The event is inserted unless it is there: then the callback is answered
\* at once.
Insert(h) ==
  LET e == hook[h].event IN
  /\ HookAt(h, "insert")
  /\ \/ /\ e \in recorded
        /\ acked' = acked \cup {e}
        /\ HookEnd(h)
        /\ UNCHANGED <<recorded, degraded>>
     \/ /\ e \notin recorded
        /\ recorded' = recorded \cup {e}
        /\ HookGo(h, "update", e)
        /\ UNCHANGED <<acked, degraded>>
     \/ HookEnd(h) /\ Fails /\ UNCHANGED <<recorded, acked>>
  /\ UNCHANGED <<carrier, cache, req, asked, promised, late, handled>>

\* The latest query of the parcel in the database is brought up to date; if
\* that fails the callback ends with an error.
Update(h) ==
  /\ HookAt(h, "update")
  /\ \/ HookGo(h, "invalidate", hook[h].event) /\ Works
     \/ HookEnd(h) /\ Fails
  /\ UNCHANGED <<carrier, cache, req, recorded, history>>

\* The shared records are removed; a failure to do so is only logged.
Invalidate(h) ==
  /\ HookAt(h, "invalidate")
  /\ OrFails(track' = Empty /\ detected' = 0, <<track, detected>>)
  /\ acked' = acked \cup {hook[h].event}
  /\ handled' = handled \cup {hook[h].event}
  /\ HookEnd(h)
  /\ UNCHANGED <<carrier, detail, err, req, recorded, asked, promised, late>>

-----------------------------------------------------------------------------

\* Mutant: times to live run below zero.
Minus(n) == n - 1

Older(n) == IF n > 0 THEN n - 1 ELSE 0

Aged(times) == [t \in Tenant |-> [q \in QueryNo |-> Older(times[t][q])]]

Tick ==
  /\ \A r \in Request : ~At(r, "setTrack")
  /\ track' = IF track.ttl > 1 THEN [track EXCEPT !.ttl = Older(@)] ELSE Empty
  /\ detail' = Aged(detail) /\ promised' = Aged(promised)
  /\ err' = Older(err) /\ detected' = Older(detected)
  /\ UNCHANGED <<carrier, req, recorded, hook, asked, late, acked, handled, degraded>>

Handle(r) ==
  \/ LookDetect(r) \/ AskDetect(r) \/ SetDetect(r) \/ LookTrack(r) \/ Hit(r)
  \/ LookErr(r) \/ Forward(r) \/ Answer(r) \/ SetDetail(r) \/ SetTrack(r) \/ SetErr(r)

HandleHook(h) == Insert(h) \/ Update(h) \/ Invalidate(h)

Next ==
  \/ Tick \/ NewEvent
  \/ \E r \in Request :
       \/ \E t \in Tenant, named \in BOOLEAN : Arrive(r, t, named)
       \/ Handle(r) \/ Drop(r)
  \/ \E h \in Hook : HandleHook(h) \/ \E e \in Event : Receive(h, e)

Spec == Init /\ [][Next]_vars

-----------------------------------------------------------------------------
(* Properties.                                                             *)

Step == {"idle", "detect", "askDetect", "setDetect", "track", "hit", "err",
         "forward", "asked", "setDetail", "setTrack", "setErr"}

\* The types, and that a handler about to write a result has a number for it.
TypeOK ==
  /\ truth \in Version /\ queries \in 0..MaxQueries
  /\ result \in [QueryNo -> Version]
  /\ track \in [q : 0..queries, ttl : 0..TrackTtl]
  /\ track.ttl > 0 <=> track.q > 0
  /\ detail \in [Tenant -> [QueryNo -> 0..DetailTtl]]
  /\ err \in 0..ErrTtl /\ detected \in 0..DetectTtl
  /\ req \in [Request -> [at : Step, tenant : Tenant \cup {Nobody}, q : 0..queries]]
  /\ \A r \in Request :
       /\ req[r].at # "idle" => req[r].tenant \in Tenant
       /\ req[r].at \in {"hit", "setDetail", "setTrack"} => req[r].q > 0
  /\ recorded \subseteq Event
  /\ hook \in [Hook -> [at : {"idle", "insert", "update", "invalidate"}, event : Version]]

\* GET /v1/tracking/{query_no} answers from the detail record alone.
Readable(t, q) == detail[t][q] > 0

\* Isolation: nobody reads the details of a query number unless their own
\* key asked for that parcel, whichever tenant asked the carrier.
DetailIsOwn ==
  \A t \in Tenant, q \in QueryNo : Readable(t, q) => t \in asked

\* Whoever was told a query number can read it for the life of a detail
\* record, also if the answer came from what another tenant had asked for.
ToldIsReadable ==
  ~degraded =>
    \A t \in Tenant, q \in QueryNo : promised[t][q] > 0 => Readable(t, q)

\* While a failure of the carrier is remembered, the only calls that still
\* get through are those of handlers that had looked before it was known.
OutageIsSpared ==
  ~degraded /\ err > 0 => late < Cardinality(Request)

\* The documented answer to a repeated callback, "already processed": an
\* event whose callback was answered ok has been carried out.
AckedIsHandled ==
  \A e \in acked : e \in handled \/ \E h \in Hook : hook[h].event = e

(* Every step of a handler is taken and time goes on.  Clients, callbacks  *)
(* and the carrier owe nothing.                                            *)
FairSpec ==
  /\ Spec
  /\ SF_vars(Tick)
  /\ \A r \in Request : WF_vars(Handle(r))

\* Whatever was cached too late, whatever callback was lost or failed to
\* remove a record: in the end no query is answered without an event that
\* the carrier already knew.
CacheCatchesUp ==
  \A e \in Event :
    truth >= e ~> [](track.ttl > 0 => result[track.q] >= e)
=============================================================================
