# FortressWAF: specifications

FortressWAF is a web application firewall in Go: a reverse proxy (`cmd/proxy`)
that runs every request through a pipeline of inspectors and forwards it to the
upstream of its site, together with libraries for rate limiting, sessions,
reputation, rules, billing, tenants, compliance and an admin API. This directory
holds TLA+ models of the parts that keep shared state, TLC configurations that
check them on small instances, and TLAPS proofs about them.

Paths below are relative to the repository. `PROJECT.json` maps every definition
to the lines it models and lists the runs, the mutants, the hazards and the
theorems.

## 1. Inventory

### Parts on the path of a request

| Part | State | Operations | Interacts with |
|---|---|---|---|
| Reverse proxy handler, `cmd/proxy/main.go` | proxies by site name, counters | `ServeHTTP`, `forwardRequest`, OnChange callback, admin endpoints, shutdown | configuration manager (Get, OnChange), engine, upstreams |
| Configuration manager, `internal/config` | live configuration, file, callbacks, watcher | `Load`, `Reload`, `watchLoop`, `UpdateConfig`, `SaveToFile` | file system, site handlers of `internal/api`, the handler's callback |
| Inspection pipeline, `internal/engine/engine.go` | slice of inspectors, per-request decisions and score | `InspectRequest`, `finalDecision`, `UpdateInspector` | every inspector, isolation layer |
| Isolation layer, `internal/engine/performance.go` | worker counter, circuit breaker per inspector | `Inspect`, `canProceed`, `recordFailure`, `recordSuccess` | one goroutine per inspector call |
| Inspectors with counters: `credential`, `adaptive`, `ddos`, `behavioral`, `websocket` | sliding windows, back-off, statistics by address | `Inspect`, cleanup | engine, clock |
| Authentication inspector, `auth.go` | JWKS cache, OAuth state and sessions | key lookup, refresh, callback | remote key and token services |
| Content detectors (`sqli`, `xss`, `rce`, `protocol`, `upload`, `graphql`, ...) | none | pattern matching | engine |
| SIEM export, `internal/siem` | buffer, signal channel, exporters | `Send`, `flushLoop`, `flush`, `Close` | remote collectors |

### Library packages (most are not imported by `cmd/proxy`)

| Part | State | Operations |
|---|---|---|
| Rate limiter, `internal/ratelimit` | windows and buckets by key, limits | `Inspect`, `SetRateLimit`, `SetPriority`, cleanup |
| Rule engine, `internal/rules` | rule slice, pointers into it by id | load, swap, add, update, delete, reorder, match |
| Session store, `internal/session` | sessions, index by user and by address | create, touch, update, delete, (de)serialise, expiry |
| Reputation, `internal/reputation` | cache, lists | inspect, list changes, feed refresh |
| ML client, `internal/ml` | circuit breaker | inspect with retries and fallback |
| Billing, `internal/billing` | usage counters, licence, subscriptions | record, check limit, reset, webhook |
| Tenants, `internal/tenant` | tenants, quotas | create, update, suspend, quota check |
| Compliance, `internal/compliance` | audit log with a hash chain, reports | append, query, verify |
| Admin API, `internal/api` | in-memory lists, log channel | REST handlers |
| Geo, learning mode, confidence, middleware, rewriting, eBPF, WASM, mTLS, `cmd/ctl` | little or none | see `PROJECT.json` |

### What is hard, and what makes each part correct

* Isolation layer: the counter is incremented and then read, the goroutine of a
  timed-out call lives on and may panic later, the breaker keeps two time stamps.
  Correct: slots are neither leaked nor returned twice and never exceed the
  limit; an open breaker refuses calls for its recovery time, but for one; calls return.
* Pipeline: the outcome depends on the whole sequence of answers; inspectors are
  replaced while requests iterate. Correct: the outcome is the documented
  function of the answers, a request sees one pipeline, nobody starves.
* Configuration: the file, the live configuration and the callbacks are changed
  by the watcher, reload requests, API handlers and an operator. Correct: the
  file can be loaded again unless a write of it broke off, the live configuration is
  valid but for a change that was refused, and it ends up equal to the file.
* Handler: ten ways out of `ServeHTTP`, configuration live before its proxies
  are built. Correct: counters add up, refused requests never reach an upstream,
  sites are served at once and where the configuration says.
* SIEM: signals may be dropped, `Close` flushes beside the loop. Correct: each
  event reaches each exporter once, in order, without waiting for the ticker
  when the buffer is full.
* Rate limiter: limits read before the lock, buckets deleted by cleanup.
  Correct: no interval admits more than the algorithm allows, `ResetAt` is true.
* Rules: an index of pointers into a slice that `append` moves and `sort` permutes;
  the list of the configuration, its file and the engine's list change in separate
  steps. Correct: the first matching rule by priority decides, every listed rule can
  be found, patches leave no rules behind.
* Session store: two indexes beside the map, a touch through a pointer that may have
  left the store, a dump and a restore. Correct: indexes and sessions agree.
* Counting inspectors: state fetched under one lock and used under another or none,
  cleanup in between. Correct: no limit is passed and nobody else is refused, a
  lockout lasts, a token is redeemed once, what is remembered is what happened.
* Remote services: keys, introspection answers, reputation scores and the ML breaker
  are caches of somebody else's state. Correct: no verdict is older than the TTL (or the
  expiry the answer named) and the calls that filled the cache; an open breaker keeps
  new callers out for its cooldown.
* Billing: check and count are separate calls; webhooks arrive late, twice and out of
  order, and their handlers overlap at every database call. Correct: limits are overrun
  by less than the number of clients, the end of a subscription, once handled, is final.
* Admin API and process: records are stamped before the lock and added under it; two
  servers, a signal and an error race at the end. Correct: a login's token works until a
  reload, no two requests create one tenant, alerts are listed in the order of requests;
  the process ends, and drained unless it was told to stop at once.

The hazards in `PROJECT.json` name the lines. The one without a property says why.

## 2. Modules

| Module | Models | Checked by | Proved in |
|---|---|---|---|
| `Bulkhead` | abstract: never more than `MaxWorkers` permits out | as a PROPERTY of `perf` | `PerformanceManagerProofs` |
| `PerformanceManager` | `internal/engine/performance.go` | `MCPerformanceManager` | `PerformanceManagerProofs` |
| `Engine` | `internal/engine/engine.go` | `MCEngine` | `EngineProofs` |
| `ConfigManager` | `internal/config/config.go`, site handlers of `internal/api/handlers.go` | `MCConfigManager` | `ConfigManagerProofs` |
| `WafHandler` | `wafHandler` of `cmd/proxy/main.go` | `MCWafHandler` | `WafHandlerProofs` |
| `SiemManager` | `internal/siem/siem.go` | `MCSiemManager` | `SiemManagerProofs` |
| `RateLimiter` | `internal/ratelimit/ratelimit.go` | `MCStores` | `RateLimiterProofs` |
| `RuleEngine` | `internal/rules/rules.go` | `MCRules`, `MCStores` | `StoreProofs` |
| `Subsequence` | the loops that filter a slice of rules | `MCRules`, `MCStores` | `StoreProofs` |
| `RuleAdmin` | rule, patch and configuration handlers of `internal/api/handlers.go`; extends `RuleEngine` | `MCRules`, `MCStores` | `StoreProofs` |
| `SessionStore` | `internal/session/session.go` | `MCStores` | `StoreProofs` |
| `Learning` | `internal/engine/shadow.go`, `confidence.go` | `MCStores` | `StoreProofs` |
| `Billing` | `internal/billing/usage.go`, `stripe.go` | `MCStores` | `StoreProofs` |
| `AdminState` | tenants, alerts, channels of `internal/api`; login and key check of `cmd/proxy` | `MCStores` | `StoreProofs` |
| `Lifecycle` | `main` of `cmd/proxy/main.go` | `MCStores` | `StoreProofs` |
| `CredentialProtection`, `DDoSProtection`, `WebSocketInspector`, `AdaptiveChallenge`, `BehavioralEngine` | the files of `internal/engine` of these names | `MCInspectors` | `InspectorProofs` |
| `Auth` | `internal/engine/auth.go` | `MCInspectors` | `InspectorProofs` |
| `Reputation` | `internal/reputation/reputation.go` | `MCInspectors` | `InspectorProofs` |
| `MLClient` | `internal/ml/client.go` | `MCInspectors` | `InspectorProofs` |

The modules of the request path are composed by their interfaces. What an inspector
answers in `Engine` includes every answer `PerformanceManager` and the inspectors'
modules can give; the verdicts in `WafHandler` are the results of `Engine` (which never
returns an error, so the runs use allow, block, challenge and rate_limit); the sequence
of configurations in `WafHandler` is any sequence `ConfigManager` can make live. The
branch of `ServeHTTP` for a configuration without sites is in the model; `ReloadKeepsValid`
shows that it is taken only after an update that left an invalid configuration live. `RuleAdmin` composes the handlers
with the configuration's list, the file and the rule engine.

`MCStores` and `MCInspectors` hold components that do not interact: the initial state
chooses one of them, and the others stand still, so that their state spaces add up.
Each property of such a run is about the variables of one component.

Some properties are conjunctions of parts that are defined and explained one by one
(`SessionsConsistent` is `SessionTypeOK`, `ByIPFindsAll`, `IndexesExact` and
`RiskIsCappedSum`); the mutants show that the parts are tested.

Operators whose comment begins with `Mutant:` are deliberately wrong versions of the
definition that follows them. They are not part of any specification;
`PROJECT.json` says which property each of them breaks.

### PerformanceManager

State: `breaker` is `circuitBreakers`, `activeWorkers` the atomic counter, `pc`,
`goroutine` and `ch` the position of each call, of its goroutine and the content
of its two one-slot channels. `Admit` and `Refuse` are `canProceed`; `AddWorker`
and `LoadWorkers` are the two atomic operations; `Reject` and `MemoryLimit` the
early returns PERF_002 and PERF_003; `Receive` and `Timeout` the cases of the
select; `RecoverFailure` the deferred recover of a goroutine, possibly long after
its call. Time is the age of the two time stamps, cut off at `Recovery + 1`
because the code only compares them with `recoveryTime`.

### Engine

`Arrive` takes the read lock or queues behind a waiting writer, as `sync.RWMutex`
does; `Inspect` is one round of the loop (error, nil and decision; early return
on a block outside shadow mode), `SkipNil` a disabled feature, `InspectPanics`
a panic when isolation is off, `Finish` is `finalDecision`; `UpdateLock` and
`UpdateInspector` wait for and hold the write lock; the run calls it with a name that an
entry answers to and with one, "ddos", that none does. Evidence, log lines and
confidence are left out. The history `ran` has the inspectors a request has met and their
places in the pipeline; `Reference` says what the outcome should be, from the recorded
decisions alone.

### ConfigManager

A configuration is its list of sites. `Load` reads the file without the lock, `Swap` and
`Notify` are the rest of `Reload`; `Mutate`, `SaveTruncate`, `SaveWrite` and `Notify` are
`UpdateConfig` with `SaveToFile`, which truncates the file before it writes it.
`SaveFails` is an error before the truncation, `SaveTears` one after it: the file keeps
what was written so far, possibly with its last site cut short. Write events are
coalesced: one pending event stands for any number, since each makes the watcher load the
whole file. The history `unsaved` says that the live configuration holds a change that was
refused or not saved, `torn` that the last write of the file broke off; the properties
name them as their exceptions. What the callbacks do to the proxy is in `WafHandler`.

### WafHandler

`Arrive`, `Route`, `Inspect`, `Lock`, `forwardRequest` and `Return` follow `ServeHTTP`;
`InspectPanics` leaves it through the deferred decrement. `Reload` makes a
configuration live, `Lock` and `OnChange` build the missing proxies: `h.mu` is taken in one
step and released in the one that does what it guards. The reverse proxy and the upstream
are external: `UpstreamDone` ends the exchange in any way, or never.

### SiemManager

`Send` and `Signal` are the two halves of `Send`; `Tick`, `Receive` and `Stop` are
the cases of the select in `flushLoop`; `Take`, `Export`, `ExportFails` and
`Flushed` are `flush`, for the loop and for `Close`. Exporters are external: a
call succeeds or fails. Events are numbered in the order of the buffer.

### RateLimiter

`getRate` and `getBurst` read the limits, the four checks are one step each because they
hold `rl.mu` or the bucket's lock throughout, `cleanup` is one pass of `cleanupLoop`.
`getBurst` reads `priorityQueues` without the lock: while `SetPriority` writes (a step to
begin and a step to end) it may see the old value or the new one. A sliding window is a set
of calls, each with its time and its number among the admitted calls of its key; time does
not go back, so the first entry of the slice in the code is one with the least time. Time
is a discrete clock; token counts are multiples of 1/`Second`, so refills are exact; float
rounding is left out. A zero burst and negative rates, for which the code indexes an empty
slice, are excluded by `LimiterAssumption`; a zero rate is allowed, and so is a rate that
does not divide a second, for which `refillTime` is cut to whole milliseconds (`Cut`).
`promise` is the time a refusal names: `ResetAt`, for the token bucket the millisecond
after it, for the leaky bucket the one after `RetryAfter`. The leaky bucket's `ResetAt`
(`ratelimit.go:279`) is not a promise the code keeps: it counts from the oldest queued
call, while a leak sets `lastLeak` to the time of the call that notices it and drops the
fraction. With a capacity of 2, a leak every 2 ticks and two calls queued at 0, a call at 3
lets one out and is queued, with `lastLeak` now 3; the refusal of the next call names 4,
and the next leak is at 5.

### RuleEngine and RuleAdmin

An engine is a value: the list, the capacity of its array, and the index. A pointer of
the index leads to a slot of the current array, or to a copy in an array that `append`
has left behind. Every operation of the engine is an operator on this value, since it
holds `e.mu` throughout; the handlers are actions of two steps, the change of the
configuration (which may fail to be saved) and the change of the engine. A reload has four:
it loads the file, installs what it loaded, reads the list again and swaps the engine's. Strings are
members of small sets with tables for transforms and text operators. What `sort.Slice` may
leave is any ordered permutation of the list. The loops that filter a list are `Kept`,
which finds an entry by counting the kept positions before it instead of by recursion;
`MCRules` checks that it is `SelectSeq`. `BulkRules` is given as what its loop leaves: the
last rule of an ID takes the last place that had the ID, and new IDs are appended.

### SessionStore

`byIP` counts how often an ID is in an address's list, so that a duplicate entry is
visible. `GetOrCreateFind` and `updateLastSeen` are the two critical sections of
`GetOrCreate`; `era` tells a restored session from the object it replaced. `Restart`
empties the store and keeps the last dump. IDs are never given out twice.

### Learning, Billing, AdminState, Lifecycle

`Learning` keeps the counts of a path and its grant; confidence is in exact fractions of
what the code computes in floats. `Billing` has the usage tracker (check, record,
rollover at the first record of a day, resets, copies, merge) and the webhook handlers on
the subscriptions and licences in the database. Events may arrive in any order and any
number of times; a handler begins with its read of the subscription (`HandleEvent`), and
each of its database calls (`PutSubscription`, `GetLicenseByOrg`, `PutLicense`) is a step of
its own that may fail, which the handlers ignore. `AdminState` has the login of
`cmd/proxy` and the lists of tenants, alerts and channels; `CreateAlert` reads the clock,
`AddAlert` changes the list. The login sessions of `internal/api` are not in it: no route of
either server leads to `Login`. `Lifecycle` has `main` from the start of its servers to its
end, with requests that are answered in full or given up once their context is cancelled;
`ListenAndServe` and `Shutdown` are external.

### The inspectors

Each has its goroutines, its maps and one action per critical section, or, in
`AdaptiveChallenge`, per unlocked access. What a pattern matches, the entropy of a path
or the content of a frame is an input. Clocks are discrete and the histories
(`passed`, `admitted`, `frames`, `seen`, `worst`) exist only for the properties. The
sliding windows of `DDoSProtection` and `BehavioralEngine` are sets of requests, each with
its time and its number: the code only counts the entries that are young enough, so
their order does not matter. In `Auth`
a signature verifies when key material and digest agree; key server and OAuth server
change what they publish at any time, and a fetch lasts at most `FetchTimeout`; the answer
about an inactive token may name an expiry or not (`NamedExpiry`). In
`MLClient` the service answers or fails; the answer itself is an input.

## 3. Runs

| Run | Instance | What it shows |
|---|---|---|
| `perf` | 2 calls, 1 slot, threshold 2, recovery 1 tick | exact slot accounting, refinement of `Bulkhead`, at most one early admission of an open breaker, calls return, goroutines end, the breaker readmits |
| `engine` | 2 requests, 7 kinds of answer, both shadow modes, endless updates under a name that is found and one that is not | the outcome equals the reference definition, one pipeline per request, updates take effect at the place of their name and nowhere else, neither side starves |
| `engine_shadow_blocks` (violation) | shadow mode on | scores of monitored blocks still block |
| `config_watch` | 2 edits, 1 client with 2 calls, watcher | the live configuration converges to the file |
| `config_updates` | 2 clients, a reload request, watcher, 1 edit, 3 calls, saves that fail before or after the truncation | the file stays loadable unless a write broke off, half-written files never go live, every call returns |
| `config_reload_race` (violation) | 1 edit, 1 reload request | an older load may be swapped in last |
| `handler` | 2 connections, 3 requests, 2 reloaders, 2 reloads that add sites, one with an unusable upstream | counters, routing, proxies, every request is answered or gets to its upstream |
| `handler_moved_upstream` (violation) | a reload that changes an upstream | the old proxy stays in use |
| `siem` | 2 senders, 4 events, batch of 2, 2 exporters | exactly once, in order, full buffers signalled, loop ends |
| `stores` | one of ten components, 2 goroutines each | see below |
| `inspectors` | one of eight inspectors and clients, 2 goroutines each | see below |
| `rules_not_enforced` (violation) | 1 administrator, 3 rules, no failures | a rule that is enabled in the configuration is off in the engine |

`stores`: `LimiterHonest` (no interval admits more than its algorithm allows, a caller who
comes back when it was told is admitted), `RulesConsistent`, `SessionsConsistent`,
`LearningSound` (a grant is earned by fresh traffic and not prolonged; rules that were never
wrong are trusted most), `UsageConsistent`, `EndIsFinal` (after a handled deletion only a
creation or an update revives), `AdminConsistent` (the login's token opens the routes, no two
requests create one tenant, alerts are listed against the order of the requests),
`ShutdownComplete` (the process always has a step to its end; requests are cut off only at
the deadline or after a signal).

`inspectors`: `GuessesBounded` (attempts between lockouts are bounded, a lockout holds),
`FloodLimited` (no window passes a rate, refusals are earned), `CountIsExact` (frames are
only lost when two first frames race), `ChallengesSound` (a token passes one request and
not long after its expiry; a level has a score behind it), `BehaviourSound` (a window is
exactly the recent requests, a bad address has a reason), `TokensCurrent` (no verdict on a
token is older than the caches and fetches allow), `ScoreKnowsOldEntries` (a score knows
every entry of the five lists older than the TTL), `CooldownKept` (after the threshold nobody is
admitted before the cooldown is over, whatever calls in progress do).

Why the bounds are enough. In `perf` two calls are what it takes for one to time
out, free its slot and panic while the other runs, and the threshold of two lets
a late panic trip the breaker. `engine` has scores on both sides of both
thresholds, reachable alone and only together. Two clients with one name reach
duplicate creates and deletes of the last site; one reload request is enough for
two concurrent reloads. Four events fill a batch of two twice, so a flush of a
full buffer overlaps with the next. In the rate limiter the clock passes two
whole windows, the age at which cleanup deletes entries, and one caller can hold
limits that a change has made stale; four calls pass the limit of a window with a doubled
burst. Three rules move the list to a larger array twice, and five calls let two patches
that share a rule ID be created, applied and revoked beside a reload or another handler.
Three goroutines handle a payment, a deletion and its repetition at the same time, and two
requests add alerts past a cap of 2 in either order. Two sessions with two addresses are dumped, dropped and restored
beside each other. 22 records of a path pass twice
the minimum of a grant and the ratios at which its integer division rounds. In `AdaptiveChallenge` `MaxStates` is 1: a
request touches no state but the one it holds, and no property relates two states, so an
address whose state was dropped needs no second one in the model. The window of `DDoSProtection` is two
ticks, so that a request may leave it while one a tick younger stays. `Auth` lets a fetch
overlap with a second one and with two rotations, and the clock pass the TTL. The
remaining bounds let each counter pass its limit by one and each timer run out.

Fairness. In every model only steps that the Go scheduler or a timer must take
are weakly fair: steps of goroutines that are able to go on, the select's timer,
the ticker, callbacks. No client and no administrator has to act, an operator only has to finish a
write once begun, and in `PerformanceManager` no inspector has to return. `Engine`
and `WafHandler` assume that each inspector answers, which is what `CallReturns` of
`PerformanceManager` (a part of `CallEnds`) shows for the isolation layer between them. Strong fairness is assumed in two places: a blocked
`Lock` is granted eventually (`sync.Mutex` hands over to a starving waiter), and
a select whose `done` case stays ready does not choose its other cases for ever
(Go chooses among ready cases at random). In `WafHandler` an upstream may
stall for ever, since the transport sets no time-out for the body of a response
(`main.go:417`): `UpstreamDone` is not fair, and `RequestsAnswered` claims that a request is
answered or gets to its upstream, however many others hang in theirs. `stores` and `inspectors` check safety only and
assume no fairness; that a shutdown cannot get stuck is stated there with the guards of
the steps that the process takes by itself (`ProcessCanStep`).

Deadlock is checked in every run but `stores`, `inspectors` and `rules_not_enforced`, whose
clocks and call counts are used up and whose process ends. `ConfigManager`, `WafHandler`
and `SiemManager` have a step `AtRest` that is enabled only when everything is idle and
the bounds are used up; in the other models some step is always possible.

## 4. Findings

With a run: shadow mode blocks through the cumulative score
(`internal/engine/engine.go:364`); a reload that loaded an older file may undo a
newer one (`internal/config/config.go:713`); a changed upstream takes no effect until a
restart (`cmd/proxy/main.go:389`); a rule that is enabled after another was added is not
enforced, since `append` has moved the list away from the index
(`internal/rules/rules.go:444`).

Without a run of their own, on the request path:

* `UpdateConfig` applies a change before it validates and saves it, and does not undo it
  (`config.go:802`), although `docs/concepts/components.md:102` lists "Validation via
  `Config.Validate()` ensuring required fields". `LiveConfigValid` excepts such a change.
* A save that fails after the truncation leaves a torn file (`config.go:793`), which the
  next start refuses, or loads without its last sites.
* `UpdateInspector` stores most inspectors under names that differ from
  `Name()`, such as "ddos" against "ddos_protection", and then leaves the
  pipeline as it was; `docs/concepts/components.md:75` says "Hot-reload via
  `UpdateInspector()` allows runtime inspector swaps". `PipelineConsistent` says so of both
  kinds of names.
* Two concurrent creates of one site both succeed, although
  `docs/api-reference.md:95` lists "409 Conflict - Resource already exists": the
  check and the update are separate critical sections (`internal/api/handlers.go:234`).
* `PerformanceManager.Stats` locks a breaker's mutex twice (`performance.go:300`). It has no
  caller.
* After a crash between truncation and write the file is one that `NewManager`
  refuses.
* On SIGTERM the base context of all requests is cancelled before `Shutdown` drains them
  (`main.go:218`, `main.go:278`), so requests are cut off at once although main reports
  that it is draining; and the SIEM manager is never closed, so that buffered events are
  lost.
* `verifyECSignature` is given the signed text instead of its digest, so no standard ES256
  token verifies; `docs/architecture.md:74` promises ES256.
* The array of a behavioural window never grows; the request that finds it full panics
  and, isolated, passes. A later, shorter `BlockIP` shortens a longer one.
* The credential inspector never stores the user names of a spray, so that detector
  does not fire; its brute-force counter is never reset.
* The ML client's success does not close an open breaker, and after the cooldown all
  callers are admitted at once. Retries do not ask the breaker again.
* `cacheToken` keeps the answer about an inactive token until the expiry it names, so a
  token that becomes active again may be refused that long (`auth.go:599`), and a revoked
  one is accepted until its expiry.

In the libraries and the admin API:

* A limit of zero makes the sliding window index an empty slice (`ratelimit.go:180`).
  `getBurst` reads a map that `SetPriority` may be writing (`ratelimit.go:321`). A leaky
  bucket's `ResetAt` may be over before its next leak. Cleanup replaces a token bucket by a
  full one after ten minutes, which gives more than the refill when the burst is over 300
  times the rate.
* Rules created over the API start disabled and `EnableRule` is not routed; `ReorderRule`
  changes the engine only; revoking a patch removes rules of other patches with the
  same ID; a patch whose save failed is live while its status is draft; a reload that loaded
  the file before a patch was revoked and installs it afterwards brings its rules back. Invalid patterns
  are not rejected, although `docs/concepts/rules.md:681` says so.
* Nothing writes to the log channel of the handlers, so the log store and its analytics
  stay empty. Keys made by `CreateAPIKey` are never consulted.
* A creation or update that Stripe delivers after the end of a subscription revives it, and
  so does a payment whose handler read `past_due` before the deletion was written
  (`stripe.go:234`); errors of the database's writes are dropped (`stripe.go:208`);
  `CheckLimit` never rolls the day over; a renewal does not extend the licence.
* `UpdateTenant` does not check whether a name is taken (`handlers.go:1934`); alerts of
  overlapping requests may be listed against their `CreatedAt` (`handlers.go:2049`). The
  login of `internal/api` is not routed.
* `NewAuditLog` makes the log immutable, so `Append` always fails.
* ASN and country lists are never read; a cached score outlives a list change by the TTL.

## 5. Proofs

All theorems hold for every value of the constants that satisfies the named
assumptions (non-zero limits, valid initial files, disjoint kinds of goroutines,
distinguishable null values).

* `PerformanceManagerProofs`. `TypeCorrect`. `SlotsAccounted` and
  `SlotsNeverExceeded`: the invariant `SlotInv` joins types, `WorkerAccounting` and
  `SlotsBounded`. The bound alone is not inductive, since it needs to know that
  the counter a call loads covers every holder; holders are counted calls, so a
  call that passes the limit check sees at least one more than the other
  holders. `OpenCircuit` needs `ProbeInv`: after the one early admission the breaker
  is no longer half-open, so no second one follows before the next trip.
  `ImplementsBulkhead` maps the calls past the check to permits; every step takes
  one, returns one, or stutters, given `SlotInv`.
* `EngineProofs`. `TypeCorrect`; `PipelineStable` from the write lock's guard;
  `AllowJustified` and `BlockJustified` from
  `OutcomeInv`, which adds `Undecided`: a request in the loop has no result yet and,
  outside shadow mode, no recorded block. `PipelineKeeps` holds for any names: an update
  replaces an entry by one of the same `Name()`, so the place of each name stays where `New`
  put it, and a name that no entry answers to changes nothing. `OutcomeRight` from
  `ReferenceInv`: the places a running request has met are exactly those before `next`
  that are not nil, in order, and its score is the last of the partial sums of its decisions.
  `Total` is a recursive function, which the prover knows only as a choice; that partial
  sums exist is kept in the invariant, one more for each answer, and that there is only one
  such function follows from the least position at which two of them would differ.
* `ConfigManagerProofs`. `TypeCorrect`. `FileLoadable` and `ReloadKeepsValid` from one
  invariant, which adds that what a reload is about to swap in was validated and that a
  handler about to write holds the lock and the live configuration is valid: nothing can
  swap it away in between. Both hold with any number of clients and with saves that fail
  at either point; what they except is what `torn` and `unsaved` say.
* `WafHandlerProofs`. `TypeCorrect`; `ActiveExact`, `RequestsCounted` and `StatisticsRight`
  from `Accounting`, by cardinalities of the sets of requests in flight and undecided;
  `SitesCovered` from `SitesPending`: a usable site of the live configuration has a
  proxy or a callback with this configuration is still to come; `ProxiesRight` adds
  `KnownInv` (every site a request or a callback carries was configured);
  `NoneForwardedUnpassed` and `SitesServedAtOnce` from `ForwardInv`, which follows each
  request from its verdict to its target.
* `SiemManagerProofs`. `TypeCorrect` (the channel holds at most one signal);
  `FullBufferFlushed`, inductive as it stands; `EventsExactlyOnce` from `Split`, the
  pairwise form of `ExactlyOnce`; `EventsInOrder` from `OrderInv`: before Close only the
  loop flushes, and what an exporter has was sent before what the loop holds for it, and
  that before what is buffered.
* `StoreProofs`. `SessionsAgree` from `SessionInv`, which adds `IssuedInv` (whatever is
  live, dumped or listed was issued, so a new ID is nowhere yet), `AddressInv` (an ID has
  one address for ever, which is why even a restore into a store in use does not make
  `GetByIP` return a session of another address) and `RiskInv` for the dump.
  `UsageBounded` from `UsageInv`: the highest limit of the day covers the present one, and
  a copy that may be merged is itself consistent. `EndStays` from `EndInv`: while a subscription counts as ended, no goroutine is on its way to write anything but the end of it or
  of its licence, because a payment's handler stops at a status that is not `past_due` and a
  creation or an update ends the claim; and a deletion in progress that met nothing has
  written what it has passed. `TrustEarned` from
  `CountsInv` (a baseline is exactly what was recorded since it was last forgotten) and
  `TrustInv` (the base confidence is bounded by a function of the reports, and equal to it
  for a rule that was never wrong). `AdminRight`: alerts stand in the order in which they were added, and each was stamped
  before it was added, so whatever stands behind an alert, or was dropped, is older than its
  place. `ShutdownRight` from `LifeInv`: a server whose
  `Shutdown` has drained it has no request and listens no more, and without a signal no
  context is cancelled, so no request is given up. `RulesAgree` from `RuleInv`.
  `EngineOK`: the list is ordered and fits its array, every pointer leads to one of its
  slots or to a copy, and the index knows every ID in it. Pointers do not follow the rules
  that a sort moves, so a write through the pointer of one ID may replace the rule of
  another: no ID gets lost because what is written has an ID that the index knows, which
  `TaskOK` says of every request between its steps. `RuleConfigInv`: until a save fails or a reload installs a list that was changed after it
  was loaded, the file has the live list, and every ID in the list is an operator's or a
  deployed patch's. `FirstMatchWins` follows from
  the order of the list: the first match is before every other, and two rules that are each
  before the other have the same priority and ID. Positions of filtered lists are counted
  (`RankNumbers`, `KeptEntries`), so that no induction over lists is needed.
* `InspectorProofs`. `GuessingBounded` from `CredInv`: while an account is not locked, the
  tracker counts what has passed, and its last lockout is over; while it is, the tracker
  has the time of the lockout and nothing has passed since. `FloodsLimited`
  from `FloodInv`: a counter holds requests that asked it, never more than its rate, and
  all admitted ones of the window, also after a cleanup, since a counter outlives its
  window (`Window <= CounterTTL`). `FramesCounted` from `WsInv`: no two addresses share
  an entry, and while the entry of an address was never replaced by a racing first frame,
  every call of the address in progress holds the one in the map. `ChallengesRight` from `TokenInv` (a
  token that can still be redeemed has let nobody through and was alive at the last
  cleanup) and `LevelsInv` (whatever a call has read and will write back without a lock is
  covered by the worst score of its state). `BehaviourRight` from `BehInv`: a window that a
  call still holds after cleanup has dropped it from the map is remembered as evicted, and
  every other one holds exactly the numbered requests in time.
  `VerdictsCurrent` from `AuthInv`. What a cache holds is described by a
  moment (`AsOf`, `SaidOf`): the keys of an answer are what the server published at some
  time after the call began, and stay so, since whatever the server changes later is
  recorded later. A call in progress began at most a `FetchTimeout` ago, so the answer it
  stores is at most that old, and an answer that overtakes another by a slower call is at
  most two fetches old when the second look of `getKey` misses a key in it. It needs
  `FetchTimeout <= JwksTTL` (ten seconds and an hour in the code): otherwise the cache could
  expire during a call. `ScoresCurrent` from `RepInv`: a score, cached or on its way to the
  cache, knows every entry listed before its `LastSeen`, because lists only grow while a
  call computes. `OpenBreaker` from `AdmissionInv`: no trip is later than `mlLastError`, and a
  breaker that is closed has seen the cooldown of every trip pass.
* `RateLimiterProofs`. `LimiterKeepsItsWord` from `LimiterInv`, which adds to the types and
  the bound itself one part for each algorithm, since what a key was admitted has to be
  read off the state the next check will look at. `FixedOK`: the entry of the current
  second counts at least the calls admitted in it; cleanup takes only entries two seconds
  old. `SlidingOK`: every admitted call younger than a
  second is in the window, and a promised `ResetAt` is the time at which the entries still
  there are fewer than the limit. `TokenOK`: for every start `a`, the calls since `a` and
  the tokens left are together at most the largest burst and the refill since `a`, and
  what is in the bucket and will be refilled until a promised `ResetAt` is a token.
  `LeakyOK`: the same with the level of the queue and whole leaks; the fraction dropped
  with `lastLeak` only delays. Limits that two critical sections read at different times
  are covered because the bounds are the largest ones (`CallsOK`). The bound of the token
  bucket has the condition `CleanupFull` in its statement: in the time after which cleanup
  drops a bucket it could have been filled at the largest rate. By default that holds for
  bursts up to 300 times the rate.

Only model-checked: the liveness properties (`CallEnds`, `CircuitReadmits`, `NobodyStarves`,
`ConvergesToFile`, `CallsReturn`, `RequestsAnswered`, `CloseCompletes`),
since the prover does not reason about fairness. Every invariant of a passing run has a
theorem. No proof uses induction over sequences: where a definition folds over one, the
proof goes through a least counterexample or a count of positions.

## 6. Not modelled, and what is left

Content detectors match regular expressions over bytes, which is out of TLC's
reach; in `Engine` they are inspectors with arbitrary answers. The dashboard, the
command-line client, the Python ML engine and the deployment files keep no state
the models would tell apart. Tenants and compliance (used by no command) are maps and
tables behind one lock; the audit log refuses every append. The log store of the admin
API has no writer, and its login sessions no route. Middleware and rewriting are functions of one response; eBPF, WASM,
mTLS and geo lookup call into other systems.

Left: `ConfigManager` and `WafHandler` composed into one specification, with `RuleAdmin`
on the same manager.
