# Verification of integrated-global-logistics

TLA+ models of the parts of this repository in which concurrency, failure and
ordering decide whether the system is correct, TLC runs that check them on
small instances, and TLAPS proofs that carry the most important safety
properties over to every instance.

Contents: [the system](#the-system) - [the modules](#the-modules) -
[the runs](#the-runs) - [the proofs](#the-proofs) -
[disagreements](#where-the-code-and-its-comments-disagree) -
[not modelled](#what-is-not-modelled) - [plan](#plan).

Paths below are relative to `src/`.  `PROJECT.json` maps every definition to
the lines it models, and lists the hazards with the properties that cover them.

## The system

```
 client ---> tracking-gateway (Rust, axum) ---gRPC---> worker (PHP, HTTP/2 driver) ---> carrier
                 |  breaker per worker                    |                               |
                 |                                        |  MySQL                        | callbacks
                 +------------- Redis --------------------+--- admin and client API <-----+
                       api_keys:*, cache:track,               (PHP, webman workers) <---- Stripe, PayPal
                       cache:query, cache:err, cache:detect
```

* **`infrastructure/ecat-*`**: a Rust framework in some fifty crates
  (transport, middleware, registries, queues, data stores, tracing).
* **`infrastructure/tracking-gateway`**: the public tracking API. It lets an
  API key in if Redis has a record of it, limits its rate, answers from four
  caches in Redis, and otherwise calls a worker through a circuit breaker.
* **`admin`**: PHP under webman, several single-threaded workers. The API of
  administrators and clients (orders, payment, review of applications), the
  receivers of payment webhooks and carrier callbacks, and, in `app/grpc`, an
  HTTP/2 server by which the gateway reaches the same code.

The gateway and `admin` share no memory and no lock; they meet in Redis (the
keys above), in gRPC calls, and through providers and carriers who call back.

### Components, their state, and what makes them correct

| Component | State | Operations | Correct when |
| --- | --- | --- | --- |
| Circuit breaker (`ecat-circuit-breaker`) | state, sliding window, opened_at, half_open_count, under one mutex | admission and completion of a call; callers may drop a call | a failing service is left alone; a bounded number of probes; a healthy service is served again; late results do no harm |
| Orders, payment, access (`admin`: PaymentService, PaymentWebhookController, OrderController, ClientController, ClientAppController) | `orders`, `client_apps`, Redis `api_keys:*`, the provider's payment | place, pay, webhook, capture, confirm, cancel, review, disable, reset key, edit | access is never more than what was paid; a charge is never lost; no extension is lost; gateway record and row agree; revoked keys are dead |
| Tracking gateway and carrier callbacks (`tracking-gateway`, CallbackController, InternalService) | `cache:detect`, `cache:track`, `cache:query`, `cache:err`; stored events | query, detection, forwarding, hit and backfill, negative cache; callback and invalidation | details are read only by those who asked; what was told can be read; stale answers go away; a failed carrier is spared |
| Administrator sessions (AuthController, ProfileController, AdminAuth) | `user_tokens` sorted set, `jwt_blacklist:*`, signed tokens | login, refresh, track and evict, logout | a refresh token is traded once; a dead token gets in only where the blacklist could not be asked; the number of sessions is bounded |
| HTTP/2 driver (`admin/app/grpc`) | streams, slots, windows, buffers, request map per connection | frames in, responses out, upgrade | no slot leaks, no response is cut, windows are never exceeded |
| Event bus, queues (`ecat-events`, `ecat-mq`) | consumers, placeholders, broadcast channel | subscribe, publish, receive | a subscriber that returned receives what is published next; no receiver sleeps over a message |
| Rate limiters (`ecat-middleware`, `admin` RateLimit) | a counter in Redis, a bucket in memory, a log of instants in Redis | allow, sweep, expiry | no span as long as a window sees much more than the limit; who keeps to the limit is not refused |
| Registries, resolver, balancer, retry (`ecat-registry*`, `ecat-client`) | keys, leases, keep-alive tasks; the turn of the balancer | register, keep alive, deregister, resolve, pick, retry | a registered instance is found, one that ended is not |
| Crypto payment (CryptoService) | amounts and transactions of pending orders, transfers on the chain | pay, verify, confirm, cancel | an amount names one order, a transaction pays one order |
| Captcha and login lock (CaptchaController, AuthController, ClientAuthController) | mark, counter of failures and lock in Redis, each with a time to live | solve, verify, count, lock, clear | a captcha serves once; guesses are bounded; old failures do not count; a lock holds and ends |
| Application life cycle (`ecat`) | servers, hooks | start, stop | every server started is stopped |

The hard behaviours are: results of calls that come back in another state of
the breaker than they were admitted in; handlers of several PHP workers that
read a row, work, and save it without looking again; two stores (MySQL, Redis)
written one after the other without a transaction across them; webhooks and
callbacks that repeat, race and arrive late; workers that die between two
writes; futures dropped at an `.await`; values cached by a handler that looked
before they became stale; times to live worked out from one reading of the
clock and used at another.

## The modules

| Module | Models | Extends |
| --- | --- | --- |
| `AdmissionGate` | what a breaker promises: pass, shut, or a bounded trial | |
| `CircuitBreaker` | `ecat-circuit-breaker/src/lib.rs`; implements `AdmissionGate` | |
| `Subscription` | orders, payment, review, keys, and the gateway's record of a key | |
| `TrackingCache` | a query from admission to answer, the four caches, the callbacks | |
| `AdminSession` | issue, rotation, tracking, eviction, logout of tokens | |
| `Http2Stream` | one HTTP/2 connection of a worker, frame by frame | |
| `EventBus` | the event bus in remote mode over the queue in memory | |
| `LoginGuard` | the mark of a solved captcha, the count of failed logins, the lock | |
| `CryptoPayment` | orders paid in coins: amounts, transfers, confirmation | |
| `RateLimit` | the three limiters, one key | |
| `EtcdRegistry` | the instances of one service name in etcd | |
| `MC*` | model values and small functions for TLC | the module of that name |
| `MCParts` | five parts side by side | `MCAdminSession`; instances of the last four |
| `Parts_proofs` | theorems about `AdminSession`, `RateLimit`, `EtcdRegistry` and the parts together | `MCParts`; instances of `LoginGuard_proofs` and `CryptoPayment_proofs` |
| other `*_proofs` | theorems | the module of that name, `TLAPS`, theorem libraries |

The components are modelled apart because they share nothing but Redis
records whose meaning is simple at the seam: the gateway reads an `api_keys`
record (`Subscription` says which are there) and calls a worker through the
breaker (`CircuitBreaker` says when). `TrackingCache` represents the breaker by
what a query can tell of it - a call is let through or not - which allows more
than the breaker does.  `EventBus` is two crates in one module, since what goes
wrong there goes wrong between the two: the bus decides who consumes, the queue
decides when the consumer wakes up.  `CryptoPayment` and `Subscription` share the
status of an order: what an order buys is told by the one, which transfer pays for it by
the other.

### CircuitBreaker

A call has two critical sections under the breaker's mutex; `CallClosed`,
`CallOpen`, `CallHalfOpen` are the branches of the first, `FinishClosed`,
`FinishHalfOpen`, `FinishOpen` of the second. Between them the call is in
`inFlight`, the breaker may go through any number of states, and the
caller may drop the future (`Drop`). A rejected call changes nothing (`Rejects`).
`Rotated` and `Record` are `SlidingWindow`. Instants appear as ages, since
the code only asks for `elapsed()`; an age stops growing at the limit it
is compared with, which keeps the state space finite without a clock bound.

`ClassifyType`/`ResponseType` model the type-erased `classify` callback: it is
stored behind `Any` and downcast to the response type at each call, so that a
callback written for another type is never asked and the response counts as a
success. That is a property of how the breaker is configured, hence constants.

`carrierFailures`, `admitted` and `dropped` are history. The bound `MaxOutcomes` limits
outcomes and calls within one window; 7 is two more than the minimum of
outcomes at which the ratio counts.

The trial: half_open_probes = n admits n + 1 calls, since the call that starts
the trial is not counted. `admin/docs/ARCHITECTURE.en.md:697` says "half-open with 3
probes"; `ProbeBudget` and the gate's `Trials` state what the code does.

### Subscription

One application and its orders. A handler is a sequence of steps of a `Worker`,
cut wherever the code touches the database, Redis or the provider; what
it has read is in `job`. The transaction of `confirmOrder` is two steps.
`ConfirmLock` claims the order by a conditional update, locks the row of the
application and works out the new expiry from what it reads there;
`ConfirmCommit` writes both, or is rolled back. In between, whoever writes the
same rows waits (`RowFree`, `OrderFree`), and whoever reads them reads on.
Everything outside a transaction interleaves freely: the save of
`cancel`, the review that writes Redis before the row, the gateway record
that is written after the commit with the key read inside it. Reviews,
rejections, disablings and edits of one application may be under way
any number at once; each tests the status when it begins and saves without looking again.

`payment` is the provider's view and is external: a Stripe checkout charges, a
PayPal approval has to be captured by the code. Webhooks may come at any time
and any number of times. `Faulty` allows each call of Redis, of the
provider and the save of a review to fail; where the code swallows the failure, so does the
model. `Crash` loses what a worker was doing.

`settled`, `bought`, `earned` and `astray` are history. `earned` is the account that
the application ought to have: an approval sets it to the expiry it gives, every
order confirmed while the application is approved adds its term. A review or an edit that saves over a status that it did not
read starts it again, because such a save forfeits the terms confirmed since the read
(`ClientController.php:230`). `ExtensionsAddUp` says that the expiry
of the row is never less; without the lock, two confirmations would save the same expiry
and the account would be ahead. `astray` is set when a handler that reads the application to change its
record in Redis or its status (`Touching`) begins while another one is at work,
dies, or has a call to Redis that failed. `GatewayAgrees` is about any number of workers
until then, and about everything that is no such handler for good: webhooks, captures,
cancellations, orders that extend nothing, rolled back transactions and their deaths.

Bounds: `MaxOrders`, `MaxKeys`, `MaxTime`, `MaxCrashes`.

### TrackingCache

One carrier and one parcel. A result is the number of events that it shows and
`truth` the number the carrier has, so that "stale" is `result < truth`.
Handlers of queries and of callbacks are cut at each await. A cached value
lives as long as its time to live is positive.

A tick of the clock is coarse, of the order of the shortest time to live; the
two writes with which a handler ends (`SetDetail`, then `SetTrack`) fall into
one tick, which is what `Tick`'s guard says. Without that, a handler could stand
between the two for as long as a detail record lives (`ToldIsReadable` would then be
about a stalled Redis rather than about the code).

`degraded` remembers whether Redis or the database ever failed: what the code
can only promise while they work is stated under `~degraded`. `promised`,
`asked`, `late`, `acked`, `handled` are history.

Not in the module: the rate limiter, the rows of `tracking_query`, the list of
carriers, the public routes and the start-up of the gateway.

### AdminSession

One administrator. Token n is the n-th pair of an access and a refresh token.
`Claim` is the `SET NX` that trades a refresh token; `Purge`, `Add`, `Count`,
`Oldest`, `Remove`, `Blacklist` are the Redis commands of `trackSession`, one
action each, from any number of workers. Refresh goes on when Redis fails, and
tracking is abandoned when it does: both are modelled (`faults`).

`Look` and `Decode` are the middleware `AdminAuth`, which asks the blacklist and then decodes the
token, at two readings of the clock; `BlacklistOwn` is a logout behind it. `Look` is
the code's in both ways: a token on the blacklist is refused, and when Redis fails
the question is skipped and the request goes on (`AdminAuth.php:46`), so that a token that was
logged out gets in. `missed` is history: the workers that Redis told that a dead token is not on the
blacklist, until they decode it.

Tokens are taken to be distinct. The status of the account, captcha, login lock
and password decide only whether a login gets here; captcha and lock are
`LoginGuard`.

What the code does, and the properties take into account: logout leaves the
refresh token valid and does not remove the session from the sorted set; two
trackings that run at once can pick the same oldest session and evict it
twice, so that "at most three valid tokens" (`AuthController.php:223`) fails
without any fault. `SessionsBounded` says by how much: by the trackings
under way, failed, or spent on a token that was already evicted (`lost`), by the
requests that are past the blacklist and not yet decoded, among them those for
which Redis failed, and by nothing else. `DeadStaysDead` is about the requests for which Redis did
not fail: who is told that a dead token is not on the blacklist finds it expired.

### Http2Stream

The worker handles a frame to its end before it takes the next one, hence one
action per frame: `Headers`, `SplitHeaders` and `Continuation` (a header block in
one frame or in several), `Data`, `StreamUpdate`, `ConnectionUpdate`, `Settings`,
`RstStream`, `Priority`, `GoAway`, and before them `Preface` or `Upgrade`. What a
handler does to the connection is an operator on `conn`
(`HandleHeaders`, `HandleData`, `Respond`, `WriteBuffered`, `SendBuffered`,
`EndStream`, `Release`), named after the method of `Http2Driver.php`; the
action puts them together in the order of the calls. An answer is written
within the action of the frame that completes the request, because the
services are called synchronously.

`peer`, `allowed` and `credit` are the client's own books: what each stream is
to it, and what it has granted. They are kept from the frames alone, by the
rules of the protocol, and no handler reads them; so they say what the worker
owed, rather than what it believes. `breaches` counts frames that a client which
keeps to the protocol does not send (`plain` when there are none). Properties
about what such a client gets are stated for `plain`, those about slots and
windows for every client.

Sizes are small numbers: a body of one, or of three where the window is two.
Header blocks are reduced to what can be wrong with them (`Wrong`). PING, server
push and streaming calls are left out: PING changes nothing, and
`InternalService` declares unary calls only. Padding is not modelled: the worker does not
count it against its windows, which is a loss to the client and to nobody else.

What the code does, and the model with it:

* An answer larger than the window is written as far as the window goes, its
  stream is ended by the trailers, and the rest is dropped with the stream
  (`Http2Driver.php:143`). `CutByWindowOnly` says that nothing else is ever cut.
* A method that is not allowed gets headers and no end of stream.
* DATA for a stream that is gone, and any exception of a handler, ends the
  connection with all its streams.
* A header block that could not be decoded is still there when the next one of
  the same stream comes (`Blamed`); END_STREAM on a HEADERS frame that
  CONTINUATION follows is acted upon before there is a request, and ends the
  connection.
* The error of one stream leaves the frame loop; the frames that arrived with it wait
  until the next bytes arrive. The model takes them then, so that no property depends on it.

### EventBus

One event. `Register`, `Claim`, `Attach`, `Bind` are the steps of `subscribe`,
cut at its two locks and at the call of the queue; `Refuse` and `Abandon` are the
queue's error, after which the place is given up, and a caller that drops the
future there, after which it is not. `Begin`, `Send`, `Notify` are `publish`, cut between
the `send` of the broadcast channel and `notify_waiters`, for each channel in
turn; the map of channels is locked for reading meanwhile, so that `Attach` waits.

`Top`, `Arm`, `Poll`, `Again` are `poll_recv`: look, create the notification,
poll it, look again. `notified` is that notification with the semantics of
tokio's `Notify::notify_waiters` (external): it fires notifications that exist,
polled or not, and stores nothing for later ones. A channel keeps `Capacity` messages;
a receiver that fell behind skips to the oldest (`SkipTo`).
`CallAll` calls the handlers in their order; `Panic` is a handler that panics in
the consumer's task and ends it.

The task a handler starts for its own work runs apart, so `HeardOnceInOrder` is about
the order in which handlers are called.
`due` is history: to whom a message is owed, which is every handler whose
`subscribe` had returned when it was published, as long as there is a consumer, the
channel does not overflow and the consumer does not die.

### LoginGuard

One user name at one address, and its captchas. `Solve` is
`CaptchaController::verify`, which sets the mark; `LookMark` and `DelMark` are the two
commands by which a login or a registration uses it up (`AuthController::login`,
`ClientAuthController`); `LookLock`, `CheckPassword`, `Incr`,
`Expire`, `SetLock`, `DropCount`, `ClearCount`, `ClearLock` are the commands of
`AuthController::login`, one action each. A registration uses up a captcha like a
login and is over then; the login of a client is the same from `LookLock` on. `GiveUp` is a
failure of Redis at the bookkeeping, after which the rest is left out, or a worker that
dies; the other commands carry their own failure, since the code goes on without them.

`served`, `guesses`, `late`, `age`, `orphan` are history. `orphan` is the case in
which a fault comes between `INCR` and `EXPIRE`: that counter lives until it is removed,
and the code has nothing against it.

Whether an answer to a captcha is right is decided by a library; the model takes the right ones.
A tick is coarse: the `EXPIRE` follows its `INCR` before the next one.

### CryptoPayment

Orders are numbered in the order of creation. `PayRead`, `PayOwn`, `PayUsed`,
`SaveOwn`, `SaveNew` are `pay` with `CryptoService::initiate`, cut at each access to the
database; `ConfirmRead`, `Verify`, `CheckTx`, `NoteTx`, `Claim` are
`OrderController::confirm` with `verifyTrc20`; `CancelRead`, `CancelSave` are `cancel`.
`Transfer` is the buyer, and the answer of the explorer is any transfer on
the chain that matches, or nothing (both external). `Duplicate` is the unique index on `tx_id`.

`Bases` gives what the price of an order may come to, as the exchange rate moves:
any set in the proofs, one value in the run. `MCParts` leaves it and the chain of each order
(`Chain`) as constants, so that its theorems are about all of them. The memo is
taken to be unique to the order: it is the end of its number. The age of transfers (48 hours) and
their confirmations are left out, so the model matches more than the code.

`met` names the orders whose amounts were worked out at the same time, `full` those for
which no offset was left; these are the two exceptions that the properties make,
and the code is exposed to both (`CryptoService.php:85`, `uniqueAmount`).

### RateLimit

A behaviour is about one of three limiters (`limiter`). `CheckRedis` is the script of the
gateway, one step, with the script's own failure (`EXPIRE` fails and the counter is
removed) and the gateway's (the request is let through). `CheckMemory` is the bucket
under its mutex, with the sweep before it. `Arrive` and `Eval` are the limiter of `admin`:
the worker reads the clock, and the script trims, counts and adds by that reading later,
after scripts with a later reading perhaps. A `Tick` lets keys expire. The log is a set of
members, each with the score it was added with: the real members are told apart by
microseconds and random bytes, those of the model by a number.

`passed`, `granted` and `refused` are history: when requests were let through, when they were
let through because they were counted and not because Redis failed, and which were refused,
with the instant they read and the number of those let through until then. The properties are about this history
alone and not about counters, so they say what callers see, whatever the limiter
believes: `NeverTooMany` that two entries of `granted` that are a given number of places apart are a window apart in
time, `NeverTooFew` that before a refusal as many requests as the limit fall within the
time the limiter looks back.

The clocks of workers and gateway agree in the model. `SweepEvery` and `MaxIdle` are the
sweep of the buckets; that a bucket is swept only when its window is over is
the part `Window < MaxIdle` of `LimitAssumption`; a limit is at least one.

### EtcdRegistry

The instances of one service name, in several processes. `Register`, `Grant`, `Put`,
`Spawn` are `register`; `KeepAlive` the task; `Ask`, `Drop`, `Abort`, `Delete` are `deregister`,
called by the program and again by the drop of the `Registration`; `Crash` ends a process.
The file of tasks has one place for each name (`keeper`), and `Delete` removes every key
of the name: both are as in the code. Leases and keys are etcd's and external.

The code looks at whether a call of etcd came back, never at what it said:
`Put` may be refused and `register` succeed, a keep-alive may find no lease.

`clean` are the instances that registered while nobody of the name was
leaving, `loose` those whose task was overwritten, `over` the time since an instance ended. A
tick is coarse: a keep-alive that is due, and the steps of `register` after the lease, come before the
next one; a deregistration may take any time.

## The runs

All runs together take about eight minutes.

| Run | Instance | Checks |
| --- | --- | --- |
| `breaker` | 4 calls, 2 probes, window 2, dropped calls | `ClosedMeansHealthy`, `ProbeBudget`, `ImplementsGate`, `Recovers` |
| `breaker_gateway_types` | the types the gateway uses | violates `ClosedMeansHealthy` |
| `subscription_races` | 2 workers, 2 orders (one confirmed by hand, one by Stripe), 2 keys, faults, 1 crash | `AccessIsPaidFor`, `CancelledIsFinal`, `ExtensionsAddUp`, `GatewayAgrees` |
| `subscription_serial` | 1 worker, 2 orders (PayPal, Stripe), 2 keys, 3 ticks, 1 crash, fairness | `ChargeIsHonoured` |
| `subscription_cancel` | 2 workers, 1 order, no fault | violates `OnlyPendingIsCancelled` |
| `subscription_revoked` | 2 workers, 2 orders, 2 keys, no fault | violates `RevokedKeysAreDead` |
| `tracking_caches` | 2 handlers, 2 tenants, 1 callback handler | `TypeOK`, `DetailIsOwn`, `ToldIsReadable`, `OutageIsSpared` |
| `tracking_catches_up` | 1 handler, 2 queries, faults, fairness | `CacheCatchesUp` |
| `tracking_callback` | 1 handler, 1 callback handler, faults | violates `AckedIsHandled` |
| `parts` | 2 workers or processes, 1 fault; 3 tokens, 1 session, 2 ticks; 1 captcha, 2 failures lock; 2 orders, 1 offset, 1 transfer; window 2, limit 2, 5 requests, 4 ticks; 2 instances, lease 3 | `RefreshedOnce`, `DeadStaysDead`, `SessionsBounded`, `CaptchaServesOnce`, `GuessesBounded`, `StaleNeverCounts`, `AmountsDiffer`, `ShownIsKept`, `TransferFindsItsOrder`, `NeverTooMany`, `NeverTooFew`, `RegisteredIsFound`, `EndedIsGone` |
| `http2` | streams 1, 2, 3; 2 slots; windows of 2, bodies of 1 and 3; 1 frame against the rules | `SlotsAccounted`, `PlainClientIsKept`, `UploadGoesOn`, `WithinWindow`, `CutByWindowOnly`, `AnsweredOnce` |
| `event_bus` | 2 subscribers, 2 publishers, 2 messages, capacity 1, 1 fault, fairness | `HeardOnceInOrder`, `OneConsumerAtMost`, `OwedIsComing`, `PlaceHasOwner`, `SleeperHears`, `SubscribeRestarts` |

Where `TypeOK` is not in the list of a run it is proved (`TypeCorrect`, and `TypesCorrect` for the five parts). In `parts` five
specifications share a run: a behaviour is one of a single part, because the parts
have no state in common and to interleave them would show nothing.

### What they show

* **Breaker.** `ClosedMeansHealthy`: while it is closed, errors and 5xx of the
  window are below the tripping condition; in particular what opened it is
  forgotten when it closes. `ProbeBudget`: also with late
  results and concurrent callers. `ImplementsGate`: nothing that a caller or the
  service can see goes beyond `AdmissionGate`, which includes that the
  cool-down is respected. `Recovers`: once the service is
  well the breaker closes for good, unless every call of a trial was
  dropped by its caller (`Wedged`: the places are not given back and nothing
  else leaves the half-open state). The gateway drops none, because it runs
  each call in a spawned task.
* **Access.** `AccessIsPaidFor`: no record and no row outlives the sum of the
  terms that were paid, whatever races, repeats and dies; `CancelledIsFinal`: a
  late webhook does not revive an order; `ExtensionsAddUp`: two confirmations
  at once both count, and so does one that meets a reset of the key, a disabling or a
  review that saves over what it read; `GatewayAgrees`: with two workers, failing calls and a
  crash, the gateway's record and the row agree whenever nobody is at work on
  them, unless two handlers that touch the record met or one was cut short (then they may
  differ, see below); `ChargeIsHonoured`: a charged payment
  ends in a paid order, or in one that was cancelled.
* **Tracking.** `DetailIsOwn`: a tenant reads no details of a parcel that its
  own key never asked for, although tenants share results; `ToldIsReadable`: a
  query number told to a tenant can be read, also if another one's query gave
  it; `OutageIsSpared`: after a failure was remembered only those handlers call
  that had looked before; `CacheCatchesUp`: whatever was cached too late or not
  invalidated, in the end no query is answered without an event the
  carrier already knew.
* **Sessions.** `RefreshedOnce`: a refresh token is traded once before it expires, also by
  requests at the same time and by one that reaches the `SET NX` long after it was decoded; `DeadStaysDead`: the record on the blacklist outlasts the token, so that a dead token
  gets in only where Redis failed when it was asked, or was asked before;
  `SessionsBounded`: see above.
* **HTTP/2.** `SlotsAccounted`: slots that are left and streams that are held
  never exceed the limit, and sum up to it for a plain client (a PRIORITY frame for
  a stream that is gone takes a slot for good, `Http2Driver.php:649`).
  `PlainClientIsKept`, `UploadGoesOn`: who keeps to the rules is not
  disconnected and never runs out of window for a body, whatever other streams of the connection do.
  `WithinWindow`: by the client's books nothing is sent beyond what it
  granted, however SETTINGS and increments fall. `CutByWindowOnly`,
  `AnsweredOnce`: see above; one answer to each request, ended once, nothing after.
* **Events.** `HeardOnceInOrder`: no handler is called twice with a message, nor
  with the messages of one publisher out of order, however many consumers came and went.
  `OneConsumerAtMost`: also when several calls find the last one ended.
  `OwedIsComing`: what is owed is before the consumer or on its way to it.
  `SleeperHears`: a consumer that registered is woken by the next publication
  and then gets everything that came before. Neither of the two says anything for a consumer that
  went to sleep over a message without being told, until the next publication, or that went
  deaf; these are disagreements of the code with its comments (below). `SubscribeRestarts`,
  `PlaceHasOwner`: a dead consumer is replaced by the next subscriber,
  unless a dropped call holds the place.
* **Logins.** `CaptchaServesOnce`: one solved captcha lets through at most one
  request for each worker that looked at the mark before it was removed, and none later.
  `GuessesBounded`: however logins interleave and die, the wrong passwords before a lock exceed the
  limit by no more than one for each other worker and fault; the lock is not skipped when two
  failures step over the limit at once. `StaleNeverCounts`: failures of more than one life of the
  counter are not added up, also if somebody removes it between an `INCR` and its `EXPIRE`.
* **Coins.** `AmountsDiffer`, `ShownIsKept`: pending orders of a chain have amounts that tell them apart, and
  who pays again is told the same amount; both up to `met` and `full`.
  `TransferFindsItsOrder`: no transfer made for an open order is taken for another open one.
* **Limits.** `NeverTooMany`: in any span as long as a window, the fixed windows let through at
  most twice the limit less one, the log the limit and one for each worker. (Both are reached; the
  code does not promise less, as its windows start anew in the middle of such a span, and
  a late script counts by an early clock.) `NeverTooFew`: who is
  refused has had as many requests as the limit within the window. With the counter that got
  no time to live left in place, a caller would be refused for ever; the script removes it.
* **Registry.** `RegisteredIsFound`: a registered instance stays in etcd while it lives and nobody
  of its name deregisters, a lost keep-alive or a slow other instance notwithstanding.
  `EndedIsGone`: what has ended is not found for longer than a lease, even when etcd failed to
  remove it, unless its task was overwritten by another instance's (then it is kept alive for ever).

### Why the bounds are enough

* Four calls let two results come back late into a trial with its two probes;
  a window of two ticks separates "in the window" from "about to be forgotten"; a
  cool-down of one tick separates open from cooled down.
* Two workers are all that a check-then-act race takes; a third adds more of
  the same. Two orders are enough for two extensions at once, three
  for a free plan, an approval and a renewal in sequence. One crash hits any
  step; two crashes kill a request and its repetition.
* Two tenants are enough for sharing; two handlers for one that looked before
  and one that writes. Time to live 1 makes a record go away at any
  tick, 2 makes records of different kinds go away in either order.
* One session in place of three keeps the runs small and needs one eviction for
  the second login; three tokens let two trackings evict at once. In two
  ticks access tokens expire and those issued later outlive them; refresh tokens live as long as the run,
  since trades after their expiry are not counted. Later instants are in the proofs alone.
* Two odd streams and two slots let one stream wait for window while another one uses
  it up; stream 2 is what a client may not open, except by PRIORITY, and then its
  slot is lost. A window of two with frames of one separates "low" from "used up"; a body of
  three does not fit, one of one does. One frame against the rules in any state
  is followed by any sequence of frames that keep to them.
* Two subscribers race for the place and follow each other; two publishers interleave
  on one channel; a channel of one overflows with the second message. (The
  instance with three messages and capacity two also holds, in ten times the states.)

* Logins: two workers race for the mark, for the counter and for the lock; a limit of two makes the
  first failure, which sets the life, another one than the failure that locks.
* Two orders and one offset: the amounts collide, are used up, or are free again. One
  transfer can be claimed by both orders. The rate stands still in the run, which makes collisions
  more likely.
* Five requests fill a limit of two twice and are one too many; four ticks are two windows. A lease of three
  is the shortest that outlives a keep-alive that is lost; two instances in one process or in two
  get in each other's way.

`CHECK_DEADLOCK FALSE` is used where the clock, the orders or the tokens are
bounded: there a run ends when the bound is reached; and for connections, which close, and
for an event bus whose messages are published.

### Fairness, and why the code justifies it

* `RecoverySpec`: time passes; each caller keeps calling and each call returns
  or is dropped (the gateway wraps calls in a timeout); from some time on the
  service is well. The breaker has no timer: without callers it stays open.
* `Subscription!FairSpec`: a worker that does not die finishes its
  request (weak fairness); a provider repeats a webhook until it is answered.
  The latter is strong fairness because a worker is not always free to take it.
* `TrackingCache!FairSpec`: handlers proceed, time passes (strong, because a
  tick waits for a handler between its last two writes). Clients, callbacks and
  the carrier owe nothing: `CacheCatchesUp` rests on times to live alone.
* `EventBus!FairSpec`: a task that is ready runs, and a call of `subscribe` or
  `publish` that has begun goes on, as the tokio runtime promises. Nobody has to
  subscribe or to publish. A consumer that is asleep, or deaf (below), is not ready.

## The proofs

TLAPS (SMT, Zenon, LS4) checks every theorem for every value of the constants
that the assumptions allow. These assumptions (`BreakerAssumption`,
`SubscriptionAssumption`, `TrackingAssumption`, `SessionAssumption`, `Http2Assumption`, `BusAssumption`,
`GuardAssumption`, `CryptoAssumption`) give the types and
signs of the constants and, for `TrackingCache`, that `Nobody` is no tenant; for `Http2Stream`, that a
frame is no longer than the reserve of a window and than one increment (frames have
at most 16,384 bytes, the reserve and the increment more); for `RateLimit`, that a bucket is
swept only when it is older than a window (24 hours to 60 s); for `EtcdRegistry`, that a
lease outlives the keep-alive that follows one that is lost. No bound on the
number of workers, calls, tenants, orders, requests, instances or tokens is used. (The sets of
calls, subscribers and publishers are not assumed finite. Where a property or its invariant counts workers or
handlers, their set is: `LoginGuard`, `TrackingCache`, `AdminSession`, `RateLimit`; a process has as many as it was
started with. `RoomInModel` plays no part in a proof.) `ClosedMeansHealthyHolds`
assumes more, which is said in its row.

`Parts_proofs` is about the composition that the run `parts` checks. The lemma `PartsAreTheirOwn` says that a
behaviour of it is one of each of its five parts. Two of these have a proof module of
their own, and their theorems come in by `INSTANCE` with the variables of the composition put for those of the module;
since the composition and the proof module each make an instance of the same component, the lemmas
`GuardIsTheSame`, `CoinsAreTheSame`, `SameOfTheGuard`, `SameOfTheCoins` say that the two are the same,
definition by definition.

| Theorem | Inductive invariant | Argument |
| --- | --- | --- |
| `ProbeBudgetHolds`, `CoolDownHolds`, `BreakerImplementsGate` | `BreakerInv` = `TypeOK` and, while half-open, `admitted` = half_open_count + 1 (while open, 0) | `ProbeBudget` alone does not survive a step: it does not tie the calls let through to the counter that the guard reads |
| `ClosedMeansHealthyHolds` | additionally `WindowTrue`: the failures of the carrier are the failures counted, and these do not trip a closed breaker | assumes that the classify callback fits the response; without that assumption the statement is false |
| `AccessIsPaidForHolds` | `PaidInv` = `TypeOK`, `AccountInv` (paid orders are settled, unpaid ones are not, and every settled term is within `bought`), `TermInv` (also the expiry that a worker still remembers, and is about to write, is paid for), `LockInv` (that of an open transaction is, with the term of its order) | the remembered expiry is the point: it is written long after it was worked out |
| `CancelledIsFinalHolds` | `PaidInv`, of which `LockInv` | one case for each action that writes an order; what a transaction claimed is still pending when it commits, since `cancel` waits |
| `ExtensionsAddUpHolds` | `EarnInv` (the expiry of the row is at least `earned`, which is 0 while the application waits for an approval or is rejected) with `LockInv` of `PaidInv`: one transaction is open at most, and what it read of the application is what the row holds | `ExtensionsAddUp` alone does not survive a commit, which writes an expiry worked out earlier; the lock is what makes it the row's own plus the term |
| `GatewayAgreesHolds` | `AgreeInv`: until `astray`, one handler at most touches the record, and `StepAgrees` says for each of its steps how far record and row are apart and what the handler knows | for any number of workers with failures and crashes; the other handlers' steps are shown to leave record and row alone (`BesideAgree`) |
| `DetailIsOwnHolds` | `OwnInv`: the tenant of every handler under way has asked | a detail record is written under the handler's own key |
| `ToldIsReadableHolds` | `ToldInv`: a promise lasts no longer than the detail record, and a handler between its last two writes has a fresh one | the promise is made by the write after the record; the invariant carries the record over to it |
| `OutageIsSparedHolds` | `SparedInv`: late calls and handlers that are yet to call (`Ahead`) are together fewer than the handlers | the property bounds the late calls alone and is not inductive; the handler that remembered the failure is in neither set |
| `RefreshedOnceHolds`, `DeadStaysDeadHolds` | `SessionInv`: the score of a session is no earlier than its token's expiry, a traded token is blacklisted until it expires, so is a dead one, and the rest of life remembered by an eviction is enough when it is written | relates the clock reading at which a time to live is worked out to the one at which it is used |
| `SessionsBoundedHolds` | `CountInv` with `IssuedOnce`: sessions in the sorted set and good tokens outside it (`Strays`) are no more than the limit, the trackings that are yet to evict, and `lost` | a pair moves from one of these sets to the next as its worker goes on; lemmas say what each move does to the sizes |
| `NeverTooManyHolds`, `NeverTooFewHolds`, the two fixed windows | `CounterInv`: all requests that the counter counts passed since it began (`Passes`); of a granted request, either a window has gone by since, or those granted after it are bounded, by what the counter holds if it passed before the counter began (`Grants`) | a span holds the end of one window and the start of the next at most, and the request that starts a window lies outside one that ends with it |
| the same, the log | `LogInv`: for every instant `s` within the window, the requests granted after a later one are no more than the members with a score after `s` and the workers, less those that read the clock by `s` and wait (`GrantsLogged`); for every `s`, as many as there are members with a score after `s` passed after `s` (`PassesLogged`) | a script by an old reading adds a member that is trimmed too early, and it can do so once for each worker: who waits has yet to spend that place. Quantified over all `s` because a member ages while scripts run |
| `FoundHolds` | `FoundInv`: a lease has more life than the time to its next keep-alive and an interval, as long as none was lost; while anybody of the name is leaving, nobody is `clean` | says by how much a lease outlives one loss |
| `GoneHolds` | `TaskInv` (an instance is of one process, and a task that runs is the one kept or was overwritten) and `GoneInv` (of what ended the lease runs out, `Over`) | what keeps a dead instance alive is a task that nobody holds; the invariant says there is none but the overwritten |
| `TypeCorrect` (`CircuitBreaker`, `Subscription`, `TrackingCache`, `LoginGuard`, `CryptoPayment`, `Http2Stream`, `EventBus`), `TypesCorrect` (the five parts) | `TypeOK`; for `TrackingCache` with the types of the history (`TypeInv`); for sessions `SessionInv` | inductive by itself but in `Http2Stream` and `EventBus`, where it rests on the invariants of the next rows |
| `SlotsAreAccounted`, `PlainClientsAreKept`, `UploadsGoOn`, `WindowsAreKept`, `CutByWindows`, `AnsweredOnceEach` | `IInv` = `TypeOK`, `Sound` (what holds for every client: no buffer outlives a frame, every stream has upload window, slots within the limit), `Balanced` (the worker's windows equal the client's books), and `PlainState` as long as the client is plain (each stream of the worker is in the state that the client thinks it in) | lemmas on the operators a frame is made of say what each does to slots, windows and streams; each action then combines them |
| `OnceInOrder`, `OneConsumerOnly`, `NothingIsLost`, `PlaceIsOwned` | `IInv` of `EventBus_proofs` | one place, so one consumer; one consumer, so each message is in one log that somebody reads; each publisher is in one pass, so the log, and with it the calls, keep its order. `OnePlace` ties the entry, the calls under way and the live channels together: `OneConsumerAtMost` alone does not survive `Bind` |
| `CaptchaHolds`, `LockStands`, `GuessesHeld`, `StaleNotCounted` (all in `LoginGuard_proofs`, all but the lock again in `Parts_proofs`) | `MarkInv`, `LockInv`, `GuessInv`, `AgeInv`, each with `TypeOK` | those who were let through and those who are about to be are together no more than the workers and the faults; lemmas say what the number of workers at a step becomes when one worker moves |
| `AmountsTellApart`, `ShownAgain`, `TransferFound` (in `CryptoPayment_proofs`, again in `Parts_proofs`) | `CoinInv`: what each worker remembers is true of the order, or another worker decided meanwhile and then `met` says so | the amounts in use are read before the own amount is saved; the invariant relates the remembered set to the amounts of all orders that were not decided since |

Each step of an invariant's proof has one case per action; what an action does not touch
is dispatched by the lemma on `UNCHANGED`. The refinement
`BreakerImplementsGate` maps the initial state and each action to a step of the
gate or to a stutter.

Every safety property of a passing run is proved. Model-checked only are the liveness
properties (`Recovers`, `ChargeIsHonoured`, `CacheCatchesUp`, `SleeperHears`, `SubscribeRestarts`):
they rest on fairness, which is out of this prover's reach. The properties of the runs that end
with a violation are false, and there is nothing to prove.

What the proofs add to the runs: the bounds of `NeverTooMany`, `SessionsBounded`, `GuessesBounded`
and `OutageIsSpared` hold for any number of workers and not only for two, and no
property depends on the caps on time, requests, orders, tokens or faults, which are arbitrary numbers in the theorems.

## Where the code and its comments disagree

1. **5xx responses do not open the gateway's breaker**
   (`tracking-gateway/src/main.rs:252`, run `breaker_gateway_types`). The
   callback takes a `Result<QueryResponse, UpstreamError>`, the breaker calls
   it with the `QueryResponse` inside `Ok`; the downcast fails and the
   response counts as a success. main.rs:251 and ARCHITECTURE.en.md:697 say that 5xx
   counts.
2. **A paid order can end cancelled** (`OrderController.php:158`, run
   `subscription_cancel`). The status is tested, then overwritten.
3. **A revoked key can come back** (`ClientAppController.php:196`,
   `PaymentService.php:321`, run `subscription_revoked`). The record is written
   by a handler that read the key before it was reset or disabled.
4. **A repeated callback is answered "already processed" although it was not**
   (`CallbackController.php:91`, run `tracking_callback`). The event is inserted
   before the rest of the work; if that fails, the repetition finds it.

In the first three no failure of Redis, database or worker is needed.

Further disagreements, visible in the models but not stated as properties:

* **A receiver goes deaf** (`ecat-mq/src/lib.rs:128`). The message that woke the
  receiver is taken by the look at the top of the next poll, while the used notification
  stays; the poll after that finds it used, sees an empty channel and returns Pending without
  having registered. The comments (:101, :127: the next poll registers again) say
  otherwise; the tests send a single message. In `EventBus` this is the step
  `deaf`, which nothing leaves; `SleeperHears` is about a receiver that did register.
* **A second subscriber is told too early** (`ecat-events/src/lib.rs:80`). It
  returns while the first is still asking the queue, although :67-71 promise that
  what is published after the return is consumed. `due` starts with a consumer for this reason.
* **A dropped call keeps the place** (`ecat-events/src/lib.rs:87`): no consumer
  of that event is ever started again (`PlaceHasOwner` names the case).
* **A message is slept over** (`ecat-mq/src/lib.rs:115`). What is published between the look that finds the
  channel empty and the creation of the notification wakes nobody: it is heard when something else is
  published. `ecat-events/src/lib.rs:68-69` promise that it is consumed. `SleeperHears` is
  therefore about the next publication, and `OwedIsComing` is satisfied by a message that waits.
* **A late review forfeits terms** (`ClientController.php:230`). `PaymentService.php:284` says that the row lock
  lets no concurrent write lose an extension. A review saves the expiry it worked
  out from its own reading, without the lock: if another review approved the application meanwhile
  and an order extended it, that term is gone. And an order that is confirmed after a
  review read the plan, but before it saves, finds the application pending and extends nothing.
  `ExtensionsAddUp` names the first case, and counts the second as the code does: no term is earned by it.
* **A dead token gets in while Redis fails** (`AdminAuth.php:46`). The middleware's comment says so; "at most 3 valid
  tokens" (`AuthController.php:223`) and "logged out, the token joins the blacklist" (`ProfileController.php:135`) do not.
* **PRIORITY takes slots** (`Http2Driver.php:649`): `SlotsAccounted` is an
  inequality for clients that are not plain.
* **One service name, one task** (`ecat-registry-etcd/src/lib.rs:66`, `:105`). A second instance
  of a name in one process overwrites the task of the first, and a deregistration
  removes the keys of all instances of the name, those of other processes too. The
  drop of a registration that was deregistered long ago does so once more. (The example in the
  README of `ecat-registry` drops the registration at once, and with it the entry.)
* **Answers of etcd are not read** (`ecat-registry-etcd/src/lib.rs:87`): a put that is refused is a
  registration, a keep-alive of a lost lease goes on and registers nothing again.
* **A limit of zero** (`ecat-middleware/src/ratelimit.rs`, test
  `rate_limiter_zero_max_blocks_everything`) blocks only in the first window: the request that starts
  a later one gets through, since the bucket that starts anew is not compared with the limit. `RateLimit`
  therefore takes a limit of at least one.
* **A cancelled order can be captured** (`PaymentWebhookController.php:82`): its status is not
  read before the capture. `ChargeIsHonoured` ends in paid or cancelled for this reason.

## What is not modelled

* Of the registries: discovery and the list, which read, and the registries in memory and in Consul, which
  remove one instance. Resolver and balancer of the client: a map that is read, and one counter.
* Retry, timeout, recovery, validation: retry counts the attempts of one call, the rest keeps no state.
* Application life cycle: start and stop in sequence within one task; the
  repository has no server for it but those of its tests.
* Of the limiters: how a request is given its key and its limit.
* Of the HTTP/2 driver: PING, push, streaming calls, padding, and the decoding of
  header fields. Of the event bus: local mode, where `publish` calls the handlers
  itself, and the brokers.
* Scheduler and lock: the lock is a trait whose only implementation is in its
  tests, the scheduler a loop around timers.
* Authentication, TLS and encoding crates, configuration: conversions, and
  reading of files at start.
* Data-store adapters, brokers, transports: one request, one answer of a client
  library.
* Administration pages: single-row reads and writes.
* Observability, code generation, generated and vendored code, installation.
  All JavaScript of the repository is of this kind: the page of the API
  documentation under `admin/public/apidoc`, with the Monaco editor.

## Plan

Done: `CircuitBreaker` with `AdmissionGate`, `Subscription`, `TrackingCache`,
`AdminSession`, `Http2Stream`, `EventBus`, `LoginGuard`, `CryptoPayment`, `RateLimit`,
`EtcdRegistry`; every safety property that a run checks is proved. Left, the most important first:

1. Abstract specifications in the manner of `AdmissionGate`: a log that is read at one end for
   `EventBus` (each subscriber gets a suffix of what each publisher sent, in order), and
   an account whose access is the sum of what it paid for `Subscription`; the invariants above are the
   larger part of the proof that the modules implement them.
2. A bound on what a late review forfeits in `Subscription`, in terms of the orders confirmed since
   it read the application.
3. The second application of an account, whose orders and keys `Subscription` leaves out.
