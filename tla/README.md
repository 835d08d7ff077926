# A TLA+ verification of iot-metrics

iot-metrics is a Go service that records temperature and battery metrics of IoT
devices, compares them with thresholds that were configured per device, stores
alerts, and lists them page by page. It serves a REST API (Echo) and a
Connect/gRPC API from one process, keeps its data in one SQLite file, and
limits the rate of requests per device.

This directory holds TLA+ models of its core, TLC configurations that check
them on small instances, and TLAPS proofs of the main safety properties for
every value of the constants. `PROJECT.json` maps each definition to the lines
it models and lists the runs, the findings, the hazards and the theorems.

To check a run: `tlc -config MCDeviceService.cfg MCDeviceService`.
To check the proofs of a module: `tlapm DeviceServiceProofs.tla`.

## Inventory

| Component | Source | State | Operations |
|---|---|---|---|
| Device service | `device/service.go`, `validation.go` | none of its own | ConfigureDevice, RecordMetric, GetDeviceAlerts |
| Page tokens | `device/pagination.go` | none: the cursor travels with the client | encode, decode |
| Repository | `sqlite/repository.go`, `queries/`, `sqlc/`, `migrations/` | tables configs, metrics, alerts | one SQL statement per method |
| Handlers | `device/echo_handler.go`, `connect_handler.go` | none | decode, call the service, encode |
| Error middlewares | `http/error.go`, `req_validator.go`, `recover.go` | none | turn errors and panics into answers |
| Rate limiter | `rlimit/rate_limiter.go`, `http/rate_limit.go` | map of token buckets with last use, under a mutex | Wait, garbage collection |
| Server | `main.go`, `http/server.go` | listener | start, serve, stop on interrupt |
| Database start-up | `sqlite/conn.go`, `migrate.go` | the single connection, the schema version | Open, waitHealthy, Migrate |
| Configuration | `config/config.go` | none after start | Load, Validate |
| Stress tool | `cmd/stress/` | job and error channels, wait group | QueueJob, Start, Wait, Close |
| Request log | `http/log.go` | none | one line per request that comes back through it |
| Logger, generated code | `log/`, `proto/gen/` | none | |

**Interaction.** A REST request passes the recovery, the error middleware, the
log and the rate limiter before its handler binds it and calls the service,
which executes up to four SQL statements. A Connect message is decoded first and
then takes the same way. Coming back, the log sees what the limiter or the
handler returned, and the error middleware turns it into the answer. Every
request has its own goroutine. They meet in two places: the database, where
`SetMaxOpenConns(1)` puts single statements, not handlers, one after the other,
and the rate limiter's map and buckets.

**What is hard.**
RecordMetric is a sequence of statements without a transaction: ConfigureDevice
requests of the same device run between them, each of them can fail, the
client's context can be canceled, and the process can be killed. Paging is
stateless: alerts are stored between two pages, with timestamps that devices
choose, in whole seconds that tie. The rate limiter looks a bucket up under its
mutex and uses it without, for as long as the request waits, while a collector
removes entries. The process can be interrupted or killed in any phase, inside a
migration included, and each start may find another configuration. Both APIs
have a chain of middlewares of their own that must tell clients the same, and a
panic goes past most of it. The stress tool's goroutines meet in two bounded channels, a
wait group and a channel that is closed.

**What makes each component correct.**
Device service: alerts agree with one configuration that was in force, every
alert has its metric, nothing is stored twice, only values in range are stored,
every request is answered. Repository and paging: tables only grow, a walk lists
each matching alert once, in order, and ends. Rate limiter: a device never gets
more than the burst and the refill, over both APIs and across collections, and
idle entries are removed. Middlewares: every request is answered, the answer tells
whether the request took effect, and both APIs and the log agree on it. Server:
the configuration it accepts is one it can work with, it serves on a complete schema only, ends when it
is told to, and answers what it has accepted. Stress tool: every job is counted
once, nothing panics while the test runs, and an interrupt ends it.

## Modules

| Module | Contents |
|---|---|
| `DeviceRepository` | rows, the cursor query, pages and tokens; no variables |
| `AppendOnlyLog` | abstract specification of a table with an AUTOINCREMENT key |
| `DeviceService` | ConfigureDevice and RecordMetric over the three tables; extends `DeviceRepository` |
| `AlertPaging` | GetDeviceAlerts and a client that walks through pages; extends `DeviceRepository` |
| `RateLimiter` | the key, the map, Wait, the collector, the clock |
| `RequestPipeline` | the chain of middlewares around the limiter and the handlers; extends `RateLimiter` |
| `AppConfig` | `config.Load` and `Validate`; no variables |
| `WorkerPool` | the stress tool: pool, workers, QueueJob, Close and the goroutines of `run` |
| `ServerLifecycle` | `run` of `main.go`: configuration, database, migration, serving, stop, restart; extends `AppConfig` |
| `DeviceServiceProofs`, `AlertPagingProofs`, `RateLimiterProofs`, `RequestPipelineProofs`, `WorkerPoolProofs`, `ServerLifecycleProofs` | theorems about the modules they extend, and their proofs |
| `MCDeviceService`, `MCAlertPaging`, `MCRateLimiter`, `MCRequestPipeline`, `MCServerLifecycle` | constants for TLC; `WorkerPool` needs none |

Definitions whose comment begins with "Mutant" are variants of the definition
that follows them, each with one plausible bug. They are used by nothing; put in
the place of the original they make TLC report the property they are listed with.

### DeviceRepository

Instants are integers, `TicksPerSecond` of them in a second; `Unix` truncates
and `FromUnix` goes back, as the columns hold whole seconds. `Selected` is the
WHERE clause, `ListedBefore` the ORDER BY, `IsLimit` the LIMIT. `IsPage` is what
the Go code does with the rows: it reads one row more than the page, drops it,
and makes the last row that is left the cursor. The ghost field `by` says who
wrote a row. GetDeviceMetrics has the same query and the same Go code over the
metrics table; no handler calls it.

### DeviceService

| TLA+ | Code |
|---|---|
| `configs`, `metrics`, `alerts` | the tables; `lastMetricId`, `lastAlertId` their AUTOINCREMENT counters |
| `pc[r]` | the statement the handler of r executes next, or the answer it gave |
| `req[r]`, `cfg[r]` | the handler's `req` and `cfg` |
| `canceled` | requests whose context is canceled |
| `cfgErr`, `inForce` | history: whose config read failed; which configurations were stored between the metric being saved and the config read |
| `ConfigureDevice`, `RecordMetric` | the request is decoded and validated |
| `UpsertDeviceConfig`, `SaveDeviceMetric`, `GetDeviceConfig`, `SaveTempAlert`, `SaveBattAlert` | one statement each, with the code up to the next one |
| `BindFails`, `Cancel`, `Crash` | the environment |

A statement has three outcomes: it succeeds, it fails and changes nothing, or it
takes effect and the canceled context makes the driver report an error all the
same. A context that is canceled makes every later statement fail. NaN is a
value of its own that compares with nothing: it passes validation (protobuf can
carry it) and the NOT NULL columns stop it. Log output and the text of alert
descriptions are left out.

### AlertPaging

A client asks for a first page with any timeframe and size, then follows tokens,
with a size it may change, through either API. `SaveDeviceAlert` stores alerts
all the while. What the client means by a timeframe is `Matching`: the alerts
whose metric carries an instant between its bounds, exactly and inclusively; the
ghost field `by` of a row is that instant. What the program looks for is `Found`:
the rows whose whole second is between the whole seconds of the bounds.
`snapshot` remembers what the walk was to list, by `Matching`, when it began.
`OddToken` sends tokens that no answer contained: garbled ones, and JSON with
fields missing. The answer fails when a timestamp has no JSON form: Go's
`time.Time` cannot be marshaled beyond the year 9999, and the token of both APIs
is JSON, as is the whole answer of the REST API and of Connect when the client
asks for its JSON codec (`codec`).

### RateLimiter

`limiters` is the map, `buckets[k]` every bucket that was ever made for key k (a
waiting request holds on to a bucket the map has dropped). `GetLimiter` is the
part of Wait under the mutex, `Reserve`, `Proceed` and `Abandon` are
`rate.Limiter.Wait`, which is external: reservation, timer, and the cancellation
that gives back only what later reservations have not counted on. `GC` is one
round of `startGC`; it may be late and then works with the time its ticker
fired. Time is an integer, a token takes `Interval` ticks, levels are counted in
ticks so that there are no fractions. `MaxStall` bounds how long a goroutine
that can go on is kept waiting by the scheduler, so that the clock cannot run
away between two instructions. Only Connect passes the timeout of a client on as
a deadline; a REST request waits until its client goes away.

### RequestPipeline

The steps of `RateLimiter` are those of a request inside the limiter. Around them:

| TLA+ | Code |
|---|---|
| `result[r]`, `took` | what the handler returned; whether statements of the service took effect |
| `log[r]`, `answer[r]` | the level and code of the log line, and what the client got |
| `Undecodable`, `Undecoded` | Connect answers a message it cannot decode, or of an unknown content type, ahead of all interceptors |
| `Handle`, `DecodeErrors`, `ServiceReturns`, `Violations` | the handler: REST binds first, which fails on a malformed body or an unknown content type; the service validates and then succeeds, rejects a token, panics or fails |
| `Respond` | the way back through the log and the error middleware |
| `RestError`, `EchoCode`, `ConnectError`, `RestBadRequest`, `ConnectBadRequest`, `Recovered` | the translation of errors and panics |
| `RestLog`, `ConnectLog` | which code the log knows at that point |

Codes are those of the code: HTTP statuses for REST and Connect's names, and only
the properties put them into classes. The REST error middleware keeps the code of
echo's own errors, which are 400 for a body that cannot be bound and 415 for an
unknown content type; Connect answers the latter with the bare status 415, here
called `unsupported_media`. Requests without a route, which reach no handler, are
left out. What the service does is left to
`DeviceService` and `AlertPaging`; here it returns any of its results, and a
call that fails may have taken effect, as `DeviceService` shows for a metric
whose alert cannot be stored. Which results take effect is thus stated here, not
derived: `AnswerTellsEffect` is about the translation. The limiter is switched on; without it the chain
is the same with nothing refused.

### AppConfig

`ReadFile` and `ReadEnv` override the defaults, in this order, where a setting is
present. The environment library does not look into a section that is a nil
pointer, so that variables change a rate limit that the file has and do not
introduce one. `Validate` has the port check as it is written.

### WorkerPool

| TLA+ | Code |
|---|---|
| `jobs`, `errs`, `closed` | the three channels of the pool; a channel's capacity is the number of workers |
| `wg` | the counter of the wait group |
| `pc[p]` | the statement goroutine p is at: the workers, `run` itself ("main"), the producer, the waiter for the setup, and the closer |
| `doing[w]`, `toQueue[c]` | the job of a worker; the jobs `run` and the producer still have to queue |
| `Check`, `Add`, `Select`, `Undo`, `UndoReleases` | the statements of `QueueJob` |
| `Receive`, `Finish`, `Report`, `JobDone`, `JobReleases`, `Exit` | the loop of a worker |
| `CloseClosed`, `CloseJobs`, `Wait`, `CloseErrs` | the statements of `Close` |
| `NextJob`, `StartWaiter`, `AwaitSetup`, `ReadErrs` | `run` |

A send on a closed channel panics, a select takes any case that is ready, and a
select without one is parked: it is released by the receiver that makes room or
by the close of `closed`, and never sees that `jobs` is closed as well. The
wait group misbehaves as `sync.WaitGroup` does. A Done that reaches zero while
somebody waits first counts down (`Done`, place "release") and then releases the
waiters (`Release`): an Add in between is misuse, which panics the one who adds or
the one who is about to release (`CountUp`). Released waiters run later, and
`Close` panics when the counter was raised before it does. Jobs run under
a context of their own and end after five seconds at the latest, whatever
happens to the tool's.

### ServerLifecycle

`pc` is where `run` is, `serve` the goroutine that serves, `schema` the one thing
that survives the process: the version that golang-migrate marks as dirty before
a migration and as clean after it, and the tables in between. `cfg` is what
`AppConfig` makes of a file and an environment that may differ from start to
start. `LoadConfig`, `Open`,
`Ping`, `Pause`, `Migrate` and the steps of the migration may fail. `Select` is
the select of `run`; the error of Serve is handed over on a channel without
buffer, so that a goroutine whose error nobody takes stays where it is. `Stop`
closes the listener; `Shutdown` is the rest of it, which ends when no request is
left to wait for, when its context is done, or after ten seconds. `Hijacked` are
requests on connections that h2c took over (gRPC over HTTP/2 without TLS), which
`http.Server` no longer knows of.

## Runs

| Run | Instance | Shows | States |
|---|---|---|---|
| `device_service` | 2 requests, 2 devices, readings below, at, inside and above the bounds, NaN | the safety properties, the refinement of `AppendOnlyLog`, `EventuallyAnswered` | 73 k |
| `record_metric_doc` | 2 requests | violation: alerts that no configuration explains | |
| `alert_paging` | 3 alerts, 2 devices, 4 instants in 3 seconds, of which JSON cannot express the last, bounds at and inside a second, page sizes 1 (default), 2 (cap) and out of range | walks are ordered, complete, within a second of the timeframe, bounded, and end | 33 k |
| `timeframe_doc` | 2 alerts | violation: an alert from outside of the timeframe is listed | |
| `page_token_panic` | 2 alerts | violation: a token without LastTime panics | |
| `rate_limiter` | 3 requests, both APIs, with and without device id, burst 2, a token every 2 ticks | `RateBound`, `WaitersKeepTheirBucket` | 5.9 M |
| `request_pipeline` | 2 requests over either API, a token every 3 ticks, TTL shorter than the wait, deadlines before and at the turn of a request | `AnswerTellsEffect`, `ApisAgree`, `LogTellsAnswer`, `EventuallyAnswered`, `IdleEntriesGo` | 217 k |
| `rate_limit_long_interval` | 2 requests, 1 token, TTL below the interval | violation: a collected bucket starts full | |
| `worker_pool` | 2 workers, 2 jobs of the setup, 5 of the producer | the wait group counts the jobs, Close drains the pool, the setup comes first, nothing panics before the interrupt, which ends the tool | 38 k |
| `worker_pool_closed` | the same, 3 jobs of the producer | violation: a send on the closed channel panics | |
| `server_lifecycle` | 3 starts, 4 files and 5 environments, 2 pings, 2 requests, one of them over h2c | `ServesMigrated`, `LimiterAdmits`, `EndsWhenTold` | 30 k |
| `graceful_stop` | 1 start | violation: an interrupt cuts active requests off | |

**Why the bounds are enough to be interesting.** Two requests are needed for a
configuration to change under a metric, and for a second metric to be stored
between the statements of the first. The ranges -1..1 and 0..1 put readings and
thresholds below, on and above each other and on both sides of the bounds and of
the zero Config. Three alerts over three seconds make ties inside a page and
across a page boundary, with pages of one and of two rows; two of the instants
share a second, and bounds of the timeframe lie at and inside of it. The rate limiter
needs a bucket that is emptied, left alone for the TTL and used again: the clock
runs past TTL + GCInterval. In the pipeline the second request waits longer than
the TTL, so that its bucket is collected under it, and the clock runs on until
both requests had their turn and the collector its round. Two requests meet in
every combination of APIs and results. Five jobs fill the channel of jobs, both workers and
the parked sender at once; with two workers the channel of errors fills up as
well. Three starts let a process be killed in the migration, the next one find
the mark, and one more do so again. `CHECK_DEADLOCK FALSE` is set where the model
really stops: each element of `Requests` is used once, and the stress tool and
the server end.

**The TTL.** `RateBound` needs a TTL in which every bucket that is collected has
become full: at least `MaxStall`, plus the time in which an empty bucket refills
(`Capacity`), plus the longest wait. The theorem `RateBoundedWhile` says so: as
long as no request has to wait for more than w ticks (`WaitsAtMost(w)`) and
TTL >= MaxStall + Capacity + w, the rate is bounded. `RateBounded` is for
instances with a TTL that covers an interval for every request there ever is, as in
`rate_limiter`: 7 >= 1 + 3 * 2. The program guarantees neither: its TTL is 5 minutes
whatever the configuration and however long clients wait (`main.go:93`), and
`rate_limit_long_interval` shows what follows. `WaitersKeepTheirBucket`, too,
needs waits that are shorter than the TTL; `request_pipeline` has longer ones and
shows that requests are answered all the same.

**Fairness.** `DeviceService!FairSpec`: weak fairness of each handler's
statements; database/sql hands the one connection to waiting callers in turn and
SQLite ends every statement. `AlertPaging!FairSpec`: strong fairness of
`NextPage`; the client repeats a request that fails, and the database does not
fail for ever. `RequestPipeline!FairPipelineSpec`:
the clock advances, goroutines that can go on are scheduled, the collector among
them (and within `MaxStall` ticks, or it would outlast the bounded clock), and
the service returns, as `DeviceService!EventuallyAnswered` has it.
`WorkerPool!FairSpec`: each goroutine that can go on is scheduled, and a job ends
by its timeout; the interrupt is given none. `ServerLifecycle!FairSpec`: `run`
and the goroutine that serves are scheduled (pings, pauses and Shutdown end by
their timeouts); handlers are given no fairness, so that `EndsWhenTold` holds
although they may hang.

## Findings

1. `device/service.go:78` drops every error of GetDeviceConfig but "not found"
   and compares the metric with the zero Config (`record_metric_doc`). What that
   can lead to is bounded: `FallbackAlertsOnlyTemperature` is proved.
2. `sqlite/repository.go:136` dereferences `LastTime` of a token that was decoded
   from JSON without it (`page_token_panic`).
3. `main.go:93`: the TTL does not depend on the interval, so that a limit with
   an interval above 5 minutes is not enforced (`rate_limit_long_interval`).
   Apart from that, a bucket that starts full and refills lets through up to
   twice `tokens` requests in one interval, where the documentation says
   `tokens`; `RateBound` states the bound that holds.
4. `cmd/stress/worker_pool.go:57`: Close between QueueJob's check and its select
   makes the tool panic (`worker_pool_closed`). The wait group may panic for a
   similar reason, when a QueueJob that passed its check adds to it while `Close`
   waits for it to reach zero: `Close` does when it was released but has not run
   yet, and either the Add or the last Done when the release is still to come.
5. `main.go:125`: Stop gets a context that is already canceled, and does not
   wait (`graceful_stop`).
6. `sqlite/repository.go:129` truncates the bounds of a timeframe to seconds, as
   the columns are, and `queries/device.sql:50` compares inclusively. A timeframe
   that starts or ends inside a second also lists the alerts of that second from
   before its start or after its end, where `openapi.yaml:63` and `:68` promise
   "alerts after this time" and "before this time" (`timeframe_doc`, even with the
   bounds themselves allowed). No alert is lost by it (`WalkComplete`), and none is
   listed that is a second or more outside (`WalkWithinASecond`).

Met while modelling, without a run:

- `config/config.go:28` joins the two halves of the port check with `&&`, so that
  no port fails it, although the message says "must be between 1 and 65535".
  `AppConfig` has the check as it is: port 0 is accepted and the system picks
  another one; a port above the range fails the listener, after the database was
  opened and migrated, and `EndsWhenTold` shows that the process then ends.
- `README.md:31` of the repository says that requests are logged by a middleware.
  REST requests that panic and Connect messages that cannot be decoded leave no
  line; `LogTellsAnswer` shows that they have no effect either.
- The status in the log of a REST request that is answered with a bad request or
  an internal error is 200: the log is inside the error middleware.
- REST requests that the limiter refuses are answered without the structured
  body that other errors have.
- `DEVICE_RATE_LIMIT_*` variables have no effect when the file has no
  `deviceRateLimit` section, and `logger.level` is validated but never applied
  (`main.go:68`).
- The select of the stress tool's setup may take the end of the setup although an
  error is waiting (`cmd/stress/main.go:116`).

## Proofs

The theorems hold for all sets of devices, requests and inputs, any bounds of
the ranges, page sizes, clock resolution, tokens, intervals, numbers of workers,
jobs, pings and starts, under the named assumptions of the modules. These say
that constants are numbers where the code has numbers, that burst, interval,
retries and the like are not zero where they must not be, that there are finitely
many requests and workers, that the special values (NULL, NaN, ZeroTime, Garbled,
NoDevice) are none of the ordinary ones, that minBattery is not negative, and
that goroutines have different names. Nothing is assumed about the configuration
that is loaded but that it decodes to numbers (`InputsAssumption`). What
the program does not guarantee are the hypotheses about the TTL, and about the
length of waits, in the theorems about the rate and the buckets of the limiter and
of the pipeline; they are stated in these theorems, not assumed.

**DeviceServiceProofs.** The properties speak of tables and of requests that are
over, and are not inductive. `Inv` adds, for every handler, what the rows so far
have to do with the statement that is next: the request passed validation
(`RequestInv`), its metric is in the table exactly once from `getConfig` on and
not before (`MetricInv`), and an alert is stored only by a handler that has come
that far, the battery alert last (`AlertInv`); with ids bounded by the counters
(`IdInv`). From `Inv` follow `TypeOK`, `AlertBackedByMetric`, `StoredOnce`,
`StoredValuesInRange` and, step by step, both refinements of `AppendOnlyLog`.
`AlertsFollowConfig` and `FallbackAlertsOnlyTemperature` need a second
invariant on top, `EvalInv`: until the config is read, the configuration of the
moment is in `inForce`; afterwards `cfg` is one of `inForce` (or the zero Config
after an error), and a handler that is about to store a battery alert has stored
a temperature alert if and only if that same `cfg` was breached. The last part is
what makes the two alerts of a metric agree on one configuration.

**AlertPagingProofs.** The lemma `PageSplits` is about one page, for any table:
either it is all that was found, or it ends with a row that everything left is
listed behind, and it is no longer than asked for. `CursorInv` lifts this to
walks: the token points at a row of the last page such that every other row that
was listed is before it, and every row of the snapshot that was not listed is
behind it. Rows that are stored meanwhile change nothing, as rows are never
removed and their ids are new. The cursor is about what the program looks for;
that this has to do with what the client means rests on `Unix` being monotone: an
alert of the timeframe, by its instant, is found (`FindsMatching`, for
completeness), and a row that is found is less than a second outside of it
(`FindsNear`, for `WalkWithinASecond`). The invariant remembers this of the rows
that were listed (`FoundInv`) and of the second of each row (`SecondInv`). Order,
completeness and the bound on pages are conjuncts of the inductive invariant.

**RateLimiterProofs.** What a bucket has given away is measured by `ZeroAt`, the
moment at which it is empty: a reservation moves it on by an interval, or further
when the bucket was full, and only a canceled reservation moves it back. `MapOK`
is inductive whatever the TTL is: types, the map holds the newest bucket of a key
(`MapInv`), a request that has been let through was due (`RequestInv`), and its
bucket stays in the map until its TTL is over (`KeepInv`). `Inv(draw)` is
inductive while `DrawnAtMost(draw)` holds, that is while no bucket is short of more
than `draw` ticks, and TTL >= MaxStall + draw:

- `KeyBound` is `RateBound` per key. To preserve it, a reservation needs
  `GivenInv`: what was let through since the turn of some request is no more than
  the bucket has given away since then.
- A cancellation must not give back what is still used. rate.Limiter gives back
  what is left when later reservations are subtracted, and finds them by
  `lastEvent`. `AheadInv` says why that is right: reservations that are ahead are
  an interval apart and the last of them is at `lastEvent`, which is `ZeroAt`.
  Only the last reservation therefore gives anything back.
- A new bucket starts full, so that the one before must be full, too, when it is
  removed (`FullInv`). It is, because its last request came at most
  `MaxStall + draw - Capacity` ticks before it is empty (`DrawInv`), and the
  collector waits for the TTL. This is the step that fails when the TTL is short.

What a client can tell is not the draw of a bucket but how long requests wait:
`WaitsDraw` shows that while `WaitsAtMost(w)` holds, no bucket is short of more
than `Capacity + w` ticks, as the last reservation ahead is at `lastEvent`, so
that `Inv` and `DrawnAtMost` are inductive together (`WaitsInv`). This gives `RateBoundedWhile` and `WaitersKeepBucketWhile`, the
statements about a server that runs for ever, where clients that give up keep the
waits short. `DrawIsBounded` bounds the draw by an interval for each request
(`DrawnInv`), and gives `RateBounded` and `WaitersKeepBucket` for instances with
few requests, without a condition on the behaviour.

**RequestPipelineProofs.** Each property speaks of a request that was answered.
The invariant says what is known on its way: nothing has come back and nothing
has taken effect before the limiter decided; what the handler returned tells the
effect (`ResultInv`); the answer and the log line are what the middlewares make of
what was returned, and a message that was not decoded has its own answer
(`AnswerInv`). The lemmas about the middlewares then go through the returns, and
give them one meaning over both APIs. `ChainRefinesLimiter` maps the pipeline to
`RateLimiter`: a request that was never decoded is one that never came, and what
happens outside of the limiter is a stuttering step. `ChainKeepsRateBound` and
`ChainKeepsBuckets` carry `RateBoundedWhile` and `WaitersKeepBucketWhile` over to
the pipeline, with their conditions on the waits and the TTL.

**WorkerPoolProofs.** `CountsJobs` relates the counter to a cardinality; its
steps add a goroutine to the set of those that hold a job, remove one, or hand a
job over between a goroutine and the channel. The rest says who may still use the
wait group in which phase: `SetupInv` (nobody adds while the waiter is being
released), `CloseInv` (which channels are closed at each statement of `Close`, and
that nothing is left to do after its wait), `KindInv` (jobs of the setup and of
the simulation never meet), `ReleaseInv` (one goroutine at most is about to
release, whoever it releases still waits, and the counter stays at zero unless
the misuse panics), and `PanicsOnlyOnInterrupt` itself. A QueueJob that passed its check in time may still add
to the wait group when Close has waited; as the channel is closed, its job is
dropped or the send panics, and `DrainedWhenClosed` holds all the same.

**ServerLifecycleProofs.** `SchemaInv` ties the schema to everything that serves,
or served, in this process, `ConfigInv` says that run() goes on only with a
configuration that Load returned and Validate accepted, `PingsInv` that it pings
while it has pings left. `LimiterAdmits` follows from what Validate accepts,
wherever a setting comes from.

The inductive invariants were checked with TLC before they were proved.

**Only model-checked.** Liveness (`EventuallyAnswered` of `DeviceService` and of
`RequestPipeline`, `WalkEnds`, `IdleEntriesGo`, `InterruptEnds`, `EndsWhenTold`),
which is out of the reach of the prover. Every invariant of the passing runs and
both refinements of `AppendOnlyLog` are proved.

## Not modelled

Log output and the set-up of the logger, generated code, the conversions between
Go and protobuf types, the wording of errors, the flags of the two commands,
health and reflection endpoints. `GetDeviceMetrics`, which nothing calls. A page that is read while the statement that fills
it is canceled counts as a failed request. Integer widths: battery levels are
int32 and columns int64, validation bounds them to 0..100, and no arithmetic is
done on them. The AUTOINCREMENT counters are taken to be unbounded (SQLite
refuses an insert at 2^63 - 1).

## Plan

Done: all modules with their runs, and proofs of every safety property the runs
check. Left:

1. `RateLimiter`: that deadlines of all requests imply `WaitsAtMost`, so that the
   theorems about the rate need no condition on the behaviour when every client
   has one.
