# Verification of skgateway

skgateway is a Node.js process that stands between agents and LLM providers. It
decides which backend serves a request, admits the request to it, sends it on,
translates what comes back, and fails over when the answer is not usable. This
directory holds TLA+ models of the parts that keep state between requests, or
that carry one request through several steps, together with what TLC checks of
them on small instances and what TLAPS proves of them in general.

Paths below are relative to the repository's own root, so `src/proxy/router.mjs`
is the router; the project's metadata names the same file with one more leading
`src/`.

## 1. The system

### 1.1 How a request travels

    client -> index.mjs    authentication, authorization gate, identity, body limits
           -> (Messages format: anthropic-frontend.mjs), history trimmed
           -> routeAndSend()            name -> alias, pin, bucket, registry, @match
                 router.route()         candidates: matching, health, claims, verdicts
                 for each candidate:
                   request limit, context preflight
                   throttle cooldown, provider capacity (admitCapacity)
                   pool.acquire()       slot, or wait, or rejection
                   (backend's format: anthropic-adapter.mjs, codex-adapter.mjs)
                   sendUpstream()       one HTTP attempt, between two meter readings
                   response contract    whole, or not usable
                   outcome recorders    health, claim, capacity, lifecycle, cooldown
                   pool.release()       in a finally block
                   return, or next candidate
           -> response, one metrics record and one "response" event per request

There is one process and one thread. A handler runs from one `await` to the next
without interruption; everything that goes wrong between handlers does so because
other requests, timers or answers ran during an `await`. The shared state is the
pool, the `Backend` objects, the module-level maps of the router (cooldowns,
decisions, refreshes, bucket counters), the catalog and the stores, which are
also files, and the credentials files.

### 1.2 Components

| component | state | operations | hard behaviour | what makes it correct |
|---|---|---|---|---|
| **Connection pool** `proxy/connection-pool.mjs` | per capacity domain: active slots, FIFO of waiters, counters; the issued tickets | `acquire`, queue timer, abort listener, `release` with its promotion loop | a release races timers and aborts of the waiters; the fast path ignores the queue; tickets released twice; ids that share a domain | the slot counter is the number of tickets out; no free slot beside a waiter; no lost waiter; FIFO; every waiter settles |
| **Provider capacity** `discovery/capacity_store.mjs`, `routeAndSend` | a persisted record per provider and per model; the probe token; the scheduler's transaction | `admitCapacity`, `finishCapacityProbe`, `runDueCapacityProbes` | overlapping ticks, probes that never answer, restarts, records that age | one probe at a time, its token comes free, a throttled provider is probed again |
| **Backend health** `class Backend` | window of outcomes, status, run of failures, quarantine | `recordOutcome`, `isAvailable` | outcomes come in in any order; two machines decide about one backend | both are what the window calls for; a backend that is out is tried again |
| **Model claims** `class Backend`, `candidatesFor` | per backend and model: failures, quarantine, half-open lease | `recordModelClaimOutcome`, `tryAcquireModelClaimProbe`, `releaseModelClaimProbe` | the lease lives in the claim and not in the request | no ordinary traffic to a quarantined claim |
| **Candidate loop** `routeAndSend` | per request: position, last result, counters of rejections; shared: cooldowns, the pool | the loop body, its early returns, the synthesized errors at its end | failover while others hold the doors; disconnects at every point | slots follow requests; one result, reported; no error while a door is untried |
| **OAuth credentials** `class Backend`, `startKimiAuthKeepalive` | credentials files, cached headers, running refreshes | `_getKimiAuthHeaders`, `_refreshKimiOAuth`, `_getOAuthToken`, `_refreshOAuth` | single-use refresh tokens, lost answers, logins from outside, overlapping refreshes | the login survives; no dead token is handed out |
| **Router** `proxy/router.mjs`, `registry.mjs`, `decision-cache.mjs` | backends and their model lists, turns, the registry, cached decisions | `route`, `candidatesFor`, the prelude of `routeAndSend` | lists, verdicts and files that change between a decision and its use | owners answer for their models; condemned models are not tried; decisions follow the files |
| **Bucket pools** `policy/buckets.mjs`, `generic-participation.mjs`, `bucket-affinity.mjs` | counters, a bounded memory of picks, which entries leave by age and by number | a bucket's members, their order, the chain of doors | members come and go under weights, rotation, wishes and affinity; conversations share an entry or push one out | weights are kept; a conversation keeps its member while its entry stands |
| **Upstream call** `proxy/upstream.mjs` | locals of one call | `sendUpstream` | response, error, abort, idle timeout, deadline and size limit race | a bounded call settles |
| **Retry engine** `proxy/retry.mjs` | circuit breakers, rate-limit holds | four layers of retries | layers that start each other again | it ends |
| **Proxy core** `proxy/core.mjs` | tool rounds per model | standalone `handleRequest` | conversations that share the counter, streams that have begun when a retry is needed | a loop of tool calls is cut |
| **Catalog and lifecycle** `discovery.mjs`, `discovery/lifecycle.mjs`, `model_catalog_store.mjs`, `probe.mjs` | verdicts and measurements in one file, a cached copy, sweeps under way | completions, refreshes, sweeps, measurements, restarts | a whole file is rewritten by everybody, from copies of several ages | a dead model leaves routing, a live one comes back |
| **Served catalog** `index.mjs`, `proxy/advertise.mjs` | the catalog, the model lists of backends, the refresh in flight, a memo | refreshes, views, the allowlist | overlapping refreshes; views over state that changed since | what is advertised can be served |
| **Measured capabilities** `discovery/capability-assessment.mjs`, `ranking/eval.mjs` | measurements per model | batteries of a sweep and of an operator | throttled and lost calls; three writers of one file | a measurement is true and complete |
| **Local failover** `proxy/local-failover.mjs` | a cached verdict with its time | `probeLocalHealth`, `recordLocalOutcome` | a slow probe overwrites a newer outcome | recovery is noticed |
| **Front door and metrics** `index.mjs`, `metrics/collector.mjs` | requests in flight, buffered rows | the handler, the batches, the shutdown | every way in which a request may end | records follow requests; who is there is answered |
| **Authorization** `policy/authz_*.mjs` | cached allows, the service credential | the gate, two clients of the decision point | slow and late answers, changed decisions, a full cache | no pass without an allow that is young enough |
| **Conversation trimming** `proxy/sanitizer.mjs`, `core.mjs` | none | trim, repair, order | cuts between a call and its results | pairs stay whole |
| **Response contract and adapters** `response-contract.mjs`, `anthropic-*.mjs`, `codex-adapter.mjs`, `stream.mjs` | an accumulator per stream | validation, re-emission, translation both ways | interleaved fragments, streams that break, several turns | what passes is whole and says the same in every form |
| **SIEM events** `siem/*.mjs` | a queue, a file with archives, a socket, a bulk buffer | `emit`, write, rotation, flush, reconnect, close | rotations within rotations, failed steps | order is kept; drops only when behind |
| **Configuration** `config.mjs`, `index.mjs` | the active configuration, two boundaries | SIGHUP | bad files, missing keys, credentials that cannot be read | no boundary goes down by itself |
| **Atomic activation** `restart/atomic-activation.mjs` | two listeners, revisions | `activateReplacement` | failure of each step and of the rollback | two listeners never serve at once |
| **Sessions and identity** `identity/capauth.mjs`, `session.mjs` | three indexes of sessions | identify, track, expire, evict | caps, expiry and ids used again | the indexes agree |
| **Energy** `metrics/energy.mjs`, `routeAndSend` | users of each meter | the window of an attempt, its row | overlapping windows | overlap is seen |
| Semantic cache `proxy/semantic-cache*.mjs` | entries | lookup, store, shadow comparison | - | a hit answers the same question |
| Classifiers and ranking `classifiers/*`, `ranking/*` | tables | scores | - | bounded scores |
| Other tables and shaping `sensitivity.mjs`, `codex-purity.mjs`, `model-address.mjs`, `request-limits.mjs`, `media-routes.mjs`, `classify.mjs`, `model-size.mjs`, `client-auth.mjs` | none | - | - | - |
| Usage and delivery, dashboard, operator, integrations, Python proxy and scripts | none of their own | views, reports, tools | - | - |

Interactions that matter to the models:

* **calls**: `routeAndSend` calls the pool, the stores and the recorders of
  `Backend`; `route` calls `isAvailable`, the claim lease and `buildAuthHeaders`;
* **callbacks**: the pool settles a waiter's promise from a timer, an abort
  listener, or another request's `release`; an upstream call settles from any of
  six events;
* **shared state**: cooldowns, windows, claims, leases, records, decisions, the
  catalog and the credentials are written by requests that know nothing of each
  other, and by refreshes and sweeps that run between them;
* **timers**: queue timeout, attempt timeout, capacity scheduler, keepalive,
  refresh of the catalog, flushes; cooldowns are compared with the clock when
  somebody looks.

## 2. Modules

| module | models | written as |
|---|---|---|
| `SlotDoor` | what the pool promises: a bounded room per domain with one waiting line | abstract specification |
| `ConnectionPool` | `connection-pool.mjs` | one action per outcome of `acquire`, per exit of the queue, per outcome of `release` |
| `CapacityProbe` | the capacity store, its scheduler, and its part of `routeAndSend` | one action per macrotask |
| `RouteLoop` | the candidate loop, composed with `SlotDoor` | request-local steps as functions from a request's state to its next |
| `BackendHealth` | status and quarantine of one backend | one action per outcome, consultation and cooldown |
| `ModelClaim` | claims of one model at several backends, with the lease | one action per route, await and exit of the loop |
| `KimiAuth`, `ClaudeAuth` | the two logins that are refreshed | one action per exit of the header builder and of the refresh |
| `ModelRouting` | `route()` and `candidatesFor()` over changing registry, health, claims, verdicts | the choice as operators, a request as one action, each change another |
| `Dispatch` | `routeAndSend()` before the loop: names, registry, cached decisions, failover gate | one action per way a name is taken |
| `BucketPolicy`, `BucketChain` | members and orders of a bucket; its chain, turn after turn | operators; a state machine over them |
| `UpstreamCall` | `sendUpstream()` | one action per event |
| `RetryEngine` | `createRetryEngine()` | one action per answer, for overlapping executions |
| `ProxyCore` | `handleRequest()` of the standalone proxy | one action per answer of the upstream |
| `LocalFailover` | the verdict on a local machine | one action per look, probe, outcome and tick |
| `Lifecycle`, `CatalogStore` | the transitions of one record; the store with cycles, sweeps, completions | operators; a state machine over them |
| `ServedCatalog` | refreshes of the catalog and the views of it | one action per answer of a provider, view and change |
| `CapabilityBattery` | the battery of calls and its writers | one action per call |
| `EnergyMeter` | meters, windows and rows | one action per await of an attempt |
| `Sessions` | identity and session tracker | one action per arrival, end, sweep |
| `FrontDoor` | the handler of a request, and its ledger | one action per await |
| `Authorization` | the gate and its two clients | one action per step of a call |
| `HistoryTrim` | what is left of a long history | a history grows message by message; operators for the trim |
| `ResponseContract` | accumulator, validators, re-emission | a stream grows frame by frame; operators for the rest |
| `AnthropicBridge` | formats out and back, Anthropic and Codex | a conversation, turn by turn |
| `EventBus`, `SiemOutputs` | the queue; the file, the socket and the bulk sender | one action per macrotask |
| `ConfigReload` | SIGHUP | one action per reload and edit |
| `AtomicActivation` | the hand-over and its rollback | one action per step, which may fail |
| `ConnectionPoolProofs`, `RouteLoopProofs` | theorems about the module of that name | TLAPS |
| `DoorsProofs` | theorems about `BackendHealth`, `ModelClaim` and `CapacityProbe` | TLAPS |
| `RoutingProofs`, `ServingProofs`, `GatewayProofs` | theorems about parts of the run of that name | TLAPS |
| `ResponseProofs` | theorems about `HistoryTrim`, `ResponseContract` and `AnthropicBridge` | TLAPS |
| `LineLemmas` | facts about sequences that the other proof modules cite | TLAPS |
| `MC*` | the instances TLC explores | constants, and which part runs |

**Composition.** `RouteLoop` contains the pool as `INSTANCE SlotDoor`, and
`ConnectionPool` implements `SlotDoor`: TLC checks the refinement and TLAPS
proves its safety, for any calls, domains and limits. So the loop is explored
against the pool's promise and not against its queue arithmetic. `BucketChain`
is built on `BucketPolicy`, `CatalogStore` and `ServedCatalog` on `Lifecycle`.
What makes a candidate unavailable for other reasons - health, claim, capacity -
appears in `RouteLoop` only as candidates that are missing from the route or
passed over, and is the subject of `BackendHealth`, `ModelClaim`,
`ModelRouting` and `CapacityProbe`, each of which models the same handler from
the side of its own state.

`MCDoors`, `MCRouting`, `MCServing` and `MCGateway` each hold several parts that
share no variable. A behaviour runs one of them from each of its initial states
while the others rest; the variable `running` says which. So one run explores
each part as if it were alone, and no product of independent states is built.

**Atomicity.** An action is what the event loop runs without giving way: from a
request, answer, timer or resumed `await` to the next `await` that really waits.
Continuations of promises that are already settled run before anything else, so
they belong to the action that settled them; `KimiAuth` keeps them apart
(`Resume`), because another *process* writes the file it reads there.

**Time** is a number only where two lengths are compared (`Authorization`,
`LocalFailover`, `Sessions`, `CapabilityBattery`). Elsewhere a cooldown, a
`retry_at`, a lease or a token is young or over, an action makes it over, and
nothing but fairness says when. This covers every length that can be configured.

**Mutants.** A definition whose comment begins with `mutant:` is not used. It is
a plausible wrong version of the one after it, kept to show that the property it
is listed with in `PROJECT.json` would notice.

### 2.1 ConnectionPool

A *call* is one invocation of `acquire()`, and its ticket is named after it.
`target` is the backend id a call names, `Door` the domain that id belongs to.
`outcome[c]` is the state of the promise: none, pending, or how it settled.
`active`, `queue`, `total`, `peakActive`, `peakQueue` are the fields of
`PoolState`, and `issued` is `_issuedTickets`.

| code | action |
|---|---|
| `acquire`, signal already aborted | `AcquireAborted` |
| `acquire`, slot free | `AcquireFast` |
| `acquire` with `nonBlocking`, no slot | `AcquireDeferred` |
| `acquire`, queue full | `AcquireDropped` |
| `acquire`, waits | `Enqueue` |
| timer callback, `onAbort` | `QueueTimeout`, `QueueAbort` |
| `release` of a ticket that is not owned | `ReleaseRefused` |
| `release`, loop finds nobody / somebody | `ReleaseIdle` / `ReleaseHandOff` |

The promotion loop is one step: it stops at the first unsettled waiter, so
`ReleaseHandOff` takes the least such position and drops what is before it, and
`ReleaseIdle` drops the whole queue. That neither ever drops an unsettled waiter
is `NoLostWaiter`, and not an assumption of the action. Left out: wait estimates,
`getStats` and the wording of rejections.

### 2.2 CapacityProbe

`store` maps the provider and each model to a record with a state and a phase
(`waiting` until `retry_at`, then `due`, then `stale` after 48 hours). `token` is
`probes`, `scheduled` is `scheduledProbes`, `cursor[t]` the position of a tick in
its list of exact targets, `flight` and `model` describe requests. `TickStarts`,
`ProbeEnds` and `TickMarks` are the passes of `runDueCapacityProbes`; a deadline
is `ProbeEnds` with the answer `none`. `SendPlain`, `SendProbe`, `AnswerPlain`,
`AnswerProbe` are the admission and the update in `routeAndSend`. `Stop` loses
the maps and keeps the file. `save()` swallows the failure of a write, so every
write may also leave the file as it was, or truncated and hence empty (`Saved`).
One provider is modelled: providers share no record and no token. The operator's
clearing of a record by hand is left out.

### 2.3 BackendHealth

The variables are the private fields of `Backend`; `cooled` and `released` say
whether `cooldown_ms` and `quarantine_cooldown_ms` have passed. `failures` stops
at the threshold, since the code only compares it with that. `ring` is the window
in the order of its array, with `_windowHead` and `_windowErrors`; a sample says
whether the outcome was good, bad, or bad for the class `response_budget`. The
success of an authoritative recovery takes the samples of this class out, starts
the ring at the front and counts its failures anew (`Purged`); a readmission
without it empties the ring. `routeAndSend()` reports an answer that ran out of
its budget as healthy (router.mjs:4988-5013), so today no request leaves such a
sample; `recordOutcome()` and its test know the class, and so does the model.
`Consult` is the
side effect of `isAvailable` on a backend that is asked and not used; `Send` is
`isAvailable` by the request that goes; `SendAnyway` is the full list `route()`
falls back to. `Outcome` is `recordOutcome`, for a failure, a success, and the
success of an authoritative recovery probe. Latencies and reasons are left out.

### 2.4 ModelClaim

Backends are numbered in order of priority. A request is `resolving` while
`buildAuthHeaders` is awaited, `waiting` in the loop, `sent` during the attempt.
`Route` is the claim part of `candidatesFor` with the two places that take a
lease; `RouteDiscarded` is a `route()` whose result nobody uses. `flagged` is
`modelClaimProbe`, which is read from the claim after the await (`Resolve`), so a
request may carry, and give back, a lease somebody else took. The claimers are
taken to be in rotation.

### 2.5 RouteLoop

`req[r]` is the local state of one `routeAndSend`: stage, route, position,
`lastResult`, the lengths of `throttledAttempts`, `contextRejections` and
`transportRejections` as far as the code asks for them, the `response` events
emitted and the result. The steps of the loop body are functions from such a
record to the next (`Advance`, `Rejected`, `Answered`, `Conclude`), and the
actions apply them and do what they do to the pool and the cooldowns.

| code | action |
|---|---|
| `requestLimitError` | `TooLarge` |
| context preflight | `TooSmall` |
| throttle cooldown, `admitCapacity` refusing | `SkipThrottled` |
| `pool.acquire` | `AcquireClosed`, `AcquireAdmitted`, `AcquireQueued`, `AcquireRejected` |
| queue timeout | `QueueTimeout` |
| client gone | `Disconnect` |
| answer, `release` in the finally block | `Answer`, `Aborted` |
| end of the loop | `Conclude` |

A route is a list of candidates with a flag that says whether it is a bucket
chain, because a chain fails over on 404/410 and jumps to another family when
the history has no reasoning. Bodies have a size; everything else about them is
abstracted to the class of the answer.

### 2.6 KimiAuth

Token pairs are numbered in the order the server issues them; `file` names the
pair in the credentials file and the refresh token stored with it, and doubles as
the mtime. `entry` is `kimiRefreshes.get(filePath)` and `flight[c]` the refresh
that call `c` started, kept apart so that two refreshes at once *could* happen.
The server (`ServerIssues`, which may rotate the refresh token or not) and the
Kimi CLI (`Login`) are external; of the server it is assumed that it issues
tokens only for a refresh token it accepts and that a login leaves earlier logins
alone. The file always has its three fields and can always be read; with a
missing one the code returns no headers and changes nothing.


### 2.7 ClaudeAuth

`creds` is the credentials file, `held[b]` the token a backend keeps in memory,
`cooldown[b]` its `_refreshCooldownUntil`, `asking[c]` the call of
`_getOAuthToken` that awaits the refresh. Unlike Kimi's, the refresh has no
single flight: `AskRefresh` starts one for every call that finds an old token,
with the refresh token it read itself. `Granted` writes the new pair in place.
`Refused` leaves the file alone (`LeaveFile`), caches the token that the call had
read and starts the cooldown. A write may be torn (`Torn`) by a stop.

### 2.8 ModelRouting

One model, three backends. `Registered`, `SupportsModel`, `ClaimAvailable`,
`Held`, `Matched`, `OwnedMatch`, `Unmatched` are the passes of
`candidatesFor()`, in its order; `CandidatesFor` is the list `route()` returns,
`Balanced` the turn of the replica groups, `Condemned` what the lifecycle takes
out. `Route` asks and remembers the answer; `HealthChanges`, `ClaimChanges`,
`VerdictChanges`, `RegisterDiscovered`, `RemoveBackend`, `AddBackend` are what
runs between two requests.

### 2.9 Dispatch

The prelude of `routeAndSend()`. `file` and `loaded` are `registry.yaml` and the
copy that is kept by mtime, `roleFor` and `picksFor` the two decision caches,
`bounded` the doors on which the failover has left its timeout. `ArriveExact`,
`ArriveBucket`, `ArriveMisspelt`, `ArriveByName`, `ArriveMatch`,
`ArriveResolved`, `ArriveAuto` are the ways a name is taken, tried in the order
of the code. `EditRegistry`, `CatalogWritten`, `ModelChanges`, `SettingsChange`
and `DecisionExpires` happen between requests.

### 2.10 BucketPolicy and BucketChain

`BucketPolicy` has no variables: `Members` is the membership of a bucket,
`OrderByCost`, `OrderForClass`, `OrderByWeight`, `ApplyPreference` and
`PreferRemembered` its orders. A filter is `Only`; models are sorted by their place
in `ModelOrder`. `BucketChain` takes a turn (`Turn`) of a
conversation with them: counter, memory and the chain of doors of
`resolveBucketCandidates()`. Which backends are available and which of them answer
is chosen anew for every turn; `EligibilityChanges` moves the members.

The memory is `_bucketAffinity`, the Map of `createDecisionCache()`: `order` is the
order of its keys, `entry` their values and the time they have left. `Recalled` and
`Looked` are `get()`, where a hit becomes the youngest and what has expired goes;
`Kept` is `set()`, where a key that is there keeps its place and the oldest goes
when there are too many. `KeyOf` is `bucketAffinityKey()`: conversations with the
same header or the same opening share an entry, and a request with neither has
none. `TimePasses` is the clock. `last` is history, for the property.

### 2.11 UpstreamCall, RetryEngine, ProxyCore

`UpstreamCall` is one `sendUpstream()`: its promise, its two timers, and what
the connection still does (`HeadersArrive`, `DataOverLimit`, `BodyEnds`,
`ConnectionFails`, `ErrorEvent`, `IdleFires`, `DeadlineFires`, `Abort`).
`CallOptions` are the options its callers give.

`RetryEngine` runs two `execute()` over shared circuit breakers; `At` is a place
in the four layers and `After` what the answer's class makes of it.

`ProxyCore` is the standalone `handleRequest()`: `Receive`, then one
`UpstreamAnswers` per attempt, which relays, repairs, shrinks or gives up.
`counters` are the tool rounds per model that conversations share. Bodies and
requests are representatives of the classes the code tells apart.

### 2.12 LocalFailover

The verdict on a local machine with the age of its timestamp. `Request` looks,
`ProbeEnds` writes the verdict with the time the probe *captured*, `LocalAnswers`
is the outcome of a completion. The machine may be up, wedged (`/models` answers
and completions hang) or down.

### 2.13 Lifecycle and CatalogStore

`Lifecycle` is the machine of one record: `AfterCompletion`, `AfterCatalog`,
`AfterProbe`. `CatalogStore` applies it to the file: `RecordModelOutcome` is a
completion, through the cached copy; `RefreshWithoutSweep`, `RefreshWithSweep`,
`SweepProvider`, `SweepSaves` are the passes of a cycle, each up to its next
await; `RecordCapabilityMeasurement` the operator's evaluation; `Restart` may
find the file lost. `WorldSettles` ends outside changes, so that the liveness
properties have a premise.

### 2.14 ServedCatalog

Refreshes overlap: the timer's, a request's that finds no catalog, and the
operator's, of which only the last are kept apart. A refresh asks its providers
one after the other (`FetchAnswers`, `FetchFails`) and then writes lists and
catalog (`Finish`). What each provider listed is kept as history, in `answers` for a
refresh under way and in `basis` for the catalog in force. `ModelsListed`, `Poll` and `QualifiedRows` are views, made
without an await. Verdicts, throttles, doors and the allowlist change around.

### 2.15 CapabilityBattery

A sweep reads the store, runs batteries for the models it selected and writes
the whole store; an evaluation and the traffic write through the cached copy. A
call is answered as the model is (`Truth`), throttled or lost.

### 2.16 EnergyMeter, Sessions

`EnergyMeter` has the two awaited readings around an attempt, the count of
attempts under way at a meter, and the rows that are booked from them.
`Sessions` has the three indexes of the tracker, its caps and its sweep, and the
identity that a request's headers give it.

### 2.17 FrontDoor and Authorization

`FrontDoor` is the handler of `index.mjs`, one action per await, with the
buffered rows of the collector: `Open` inserts, `ClosedAfterAnswer` and
`ClosedFinally` update, `FlushTimer` writes a batch or loses it, `Shutdown`
flushes and closes, `ForcedExit` does not. `Authorization` is the gate: `Enter`,
the credential of the strict client (`SeeCredential`, `OpenCredential`,
`ReadCredential`), `Decide`, the response head, and its body, which the timer no
longer bounds.

### 2.18 HistoryTrim, ResponseContract, AnthropicBridge

In `HistoryTrim` a history grows message by message and is sent under a budget;
`Trim`, `Repair` and `Normalized` are what the gateway leaves of it.

In `ResponseContract` frames come in any order the upstream likes
(`TakeUpstream`), or are the re-emission of a buffered completion
(`TakeReemitted`); `Take` is the accumulator and `Judge` the validator. `got` is
what a client makes of the same frames by the usual rules.

In `AnthropicBridge` an agent composes a turn, `FromAnthropic`, `ToAnthropic`
and `ToCodex` translate it, the answer returns whole or as events, and the agent
keeps what it heard, whole or cut off.

### 2.19 EventBus, SiemOutputs

`EventBus` is `emit()`, the chains of writes and `close()`. `SiemOutputs` has the
syslog socket with its pending frames and the bulk sender with its batches
(`SiemSpec`), and the JSONL log whose rotation flushes and whose flush rotates
(`FileSpec`): `task` is the running task with the rotations that stand above it.

### 2.20 ConfigReload, AtomicActivation

`Sighup` reads, validates and merges the file and rebuilds the two boundaries;
`Edit` changes the file before it. `AtomicActivation` has one action per step of
the hand-over, which succeeds or rejects; a rejection leads to the rollback.

## 3. What is checked

| run | instance | properties |
|---|---|---|
| `pool` | four calls; a domain of two slots and a queue of two shared by two backend ids, a backend configured with 0 and clamped to one slot | `ImplementsSlotDoor` `WaiterSettles` |
| `capacity` | three models, two of them exact targets; two ticks, one public probe, one ordinary request, one restart | `SingleFlight` `TokenComesFree` `ThrottledIsProbed` |
| `route` | two requests; a direct route and a bucket chain over a door with a queue and two replicas of different context, and a door of another family without a queue and with a body limit | `SlotsFollowRequests` `ResponseIsTheResult` `NoDoorUntried` `RequestEnds` |
| `doors` | health: two requests, window 4, threshold 3. Claims: two backends, two requests, threshold 2. Local: two requests, a verdict that lives two ticks. Catalog: one model, one provider, thresholds 2, two events before the world settles. Upstream call: every combination of options. Retry: two executions, two engines, breaker threshold 1 | `ComesBack` `NoTrafficWhileQuarantined` `RoutesBack` `DeadLeavesRouting` `AliveComesBack` `BoundedCallSettles` `ExecuteEnds` |
| `routing` | three doors and two changes; two registries, two catalogs, two settings, about fifteen kinds of request; three buckets of three members, four conversations of which two share a key and one has none, a memory of one entry that lives one tick, three turns | `OwnersAnswer` `DeadIsNotTried` `DecisionsAreCurrent` `WeightedShare` `SessionKeepsItsPick` |
| `serving` | two visits; two governed requests, one cached allow that lives two ticks; histories of up to nine messages; streams of up to four frames with two slots and two ids; two turns of up to two blocks; five lines, rotation at two, two archives, three seconds; two outputs with a buffer of two; four events; one optional section; two active requests | `ActiveIsInFlight` `AllowIsTold` `PairsStayWhole` `StreamIsComplete` `ReemissionSaysTheSame` `WireIsPaired` `AnswerIsWhole` `EventsInOrder` `DropsOnlyWhenBehind` `NoOverlap` `BoundaryStands` |
| `gateway` | Kimi: two backends, a request and the keepalive, three token pairs. Claude: two backends, two calls, three pairs that rotate. Core: two conversations, limit of three rounds. Sessions: caps of two and three. Energy: two attempts, two doors. Catalog: two models, three doors of which the first and the last are asked, aliases of these two, two refreshes, two changes. Batteries: two models, two batteries | `LoginSurvives` `ClaudeLoginSurvives` `NoStaleHeader` `LoopIsCut` `IndexesAgree` `OverlapIsSeen` `AliasRestsOnAnswers` `MeasurementsAreTrue` |
| `capacity_long_stop` | `capacity`, down for more than 48 hours | violates `ExhaustedIsProbed` |
| `claim_gated` | one admission-gated backend, three requests | violates `ClaimIsProbed` |
| `door_unanswered` | two visits | violates `AnsweredUnlessGone` |
| `measurement_takes_others` | the catalog part of `doors` with two models | violates `OtherRecordsKept` |
| `quarantine_sprays` | the routing part of `routing` | violates `QuarantineDoesNotSpray` |

**Why these bounds are enough.** In `pool`, four calls fill two slots and a queue
of two, or one slot, its queue and one more that is dropped, so that promotion
past a waiter who left, double release, sharing of a domain and a full queue all
occur. In `capacity`, two ticks and a public probe are the three ways to compete
for one token; three models are two targets of a transaction and a model the
scheduler does not know. In `route`, two requests are enough to wait for, overtake
and hand over to each other, and every reason to pass a candidate over occurs on
both kinds of route. In `doors`, a window of 4 fills, is overwritten and may be
purged with its head anywhere, and its rates separate one, two and three failures; two claimers give an order of priority; two
requests let a slow probe and a fresh outcome cross; thresholds of 2 tell first
evidence from sufficient evidence, and two events are an operator's write or a
completion under a cycle that runs. In `routing`, three doors are an owner, a
second declarer and a door that learned of the model, and two changes, from
every assignment of model lists, take one away and bring it back; two versions of a file and a stamp that moves
twice make a cached decision old in each way; three turns are one that is answered,
one of somebody else - under the same key, which changes the pick, or under another,
which pushes the only entry out - and one that goes on, and a tick ends an entry. In `serving`, nine messages are long
enough for a cut in front of, inside and behind a group of calls and results; four
frames let two calls interleave in two pieces each; five lines and a rotation at
two give rotations inside rotations, two of them in one second. In `gateway`,
three pairs allow a rotation after a rotation and a login in between; caps of two
and three are met one by one and together; two refreshes of two providers each overlap in every order, with a provider that
fails in one of them and answers in the other;
two batteries, of a sweep or of an operator, write over each other. Gated
requests in `serving` are interchangeable, and TLC is told so.

Deadlock is checked except where parts may rest: in `pool` every call may have
been released, in `capacity` the one restart be used up while nothing is due, and
in `doors`, `serving` and `gateway` a part may have come to its end, as a finished
hand-over, a settled call or an ended process has.

### 3.1 Disagreements shown by a run

Five runs show behaviour of the code that a comment of the repository excludes.
Each checks one property that says what that text says.

* `claim_gated` / `ClaimIsProbed` - the comment at router.mjs:1975-1979 promises
  a gated owner the same half-open recovery as any other. `candidatesFor` takes
  the lease at 1957 and asks for it again at 1980, where it is out; the request
  is refused, and so is every later one. The claim is never probed by traffic.
* `capacity_long_stop` / `ExhaustedIsProbed` - `"pending" therefore always means
  "probe due soon"` (capacity_store.mjs:63): a record observed more than 48 hours
  ago is neither admitted nor probed, and stays throttled.
* `door_unanswered` / `AnsweredUnlessGone` - `The socket is already gone`
  (index.mjs:2886-2889) is said of every 499 of `routeAndSend()`, but the loop
  also returns a 499 that a backend answered itself (router.mjs:4914); the client
  is there, and gets no answer.
* `measurement_takes_others` / `OtherRecordsKept` - a measurement `must not
  disturb any other record` (model_catalog_store.mjs:249-251), and is written from
  a cached copy that a discovery cycle may have overtaken; the verdicts of that
  cycle are lost.
* `quarantine_sprays` / `QuarantineDoesNotSpray` - `A quarantined claim must not
  turn into an unmatched-model spray` (router.mjs:1950-1952): it does when the
  other declarer is down or not allowed for the agent. The comment at 2094-2096
  says the opposite: quarantined declarers keep the fall-through, since the
  quarantine needs real attempts.

### 3.2 Disagreements met while modelling

These have no run of their own. They were found while a definition was translated
or while a stronger property than the listed one failed; the models follow the
code, and the listed properties are worded so that they are true of it. A line is
a line of the file named before it.

Routing and admission
* router.mjs:1230 `a single probe is admitted`: nothing marks a probe as under
  way, so all requests pass until the first outcome. RUNBOOK.md:353 and
  ARCHITECTURE.md:258 have a successful re-probe promote a down backend, but the
  window is rated as a whole (1480) and may leave it down.
* router.mjs:4489 `One request, one response`: a candidate whose later candidates
  all share its domain emits a terminal 503, and the loop goes on to them.
* router.mjs:5398-5401: `the request can never fit` is also answered when a door
  that could hold the prompt was only cooling down.
* bucket-affinity.mjs:2 `keep one agent session on one bucket member`: for two hours
  since its last turn, while fewer than 5000 other keys come in between, and together
  with every conversation of the same opening (`SessionKeepsItsPick` says when).
* router.mjs on tickets: a remembered member is asked before the provider whose
  ticket it is, so the weights are those of the ticket order (`WeightedShare`).
* index.mjs:2719-2724: `@match` does not see `x-sk-require`.
* router.mjs: the epoch of a cached pick is the larger of two mtimes, so an edit
  with an older mtime is missed; a SIGHUP that excludes a model leaves picks in
  place; the timeout a failover sets stays on the shared backend.
* sensitivity.mjs:60 calls the policy overridable; `loadRegistry()` never keeps
  `sensitivity_policy`.
* router.mjs, about 3859-3871: the fallback of a local model may serve another
  model than the row says.

Upstream and the standalone proxy
* upstream.mjs:137-139: a network failure resolves with a status; a connection
  that fails after the head may only be noticed by the idle timer or the deadline.
* core.mjs:35 and 1139-1141: one tool call at a time. An answer may reach the
  client with several, or with a tool that is not offered, on the text-only
  attempt and after a reduction (1105-1135). The tool rounds are counted per
  model, so conversations share them (276-284). An error body is appended to a
  begun event stream without `[DONE]` (1164-1172). An upstream call that rejects
  takes the process down.
* stream.mjs: `[DONE]` may be sent twice; a client that closes leaves the promise
  pending.

Catalog and measurements
* index.mjs:311-316 `the advertised catalog and the routable set cannot disagree`:
  an unattributed verdict takes a locally declared model out of the list of its
  backend while it is shown. Of two overlapping refreshes the older may finish
  last. Status during an operator's refresh (about 891) is a readback of records
  that are being written; `/admin/models/status` (about 2035) starts a refresh
  when the catalog is empty.
* capability-assessment.mjs, probe.mjs: a sweep writes the store as it read it,
  so `a measured fact must never be silently erased` fails for what was written
  meanwhile; a model that is down locally is measured by its fallback; models that
  keep failing their liveness probe keep the head of the queue; any 4xx counts
  against the model, a 401 too.

Requests, answers and records
* response-contract.mjs:319: a buffered completion whose text contains `data:` is
  taken for a stream and refused. Some completions pass in one form and are
  refused in the other: a call recovered from markup keeps the finish reason
  `stop`; content together with calls; ids used again in another choice; text that
  is only thinking. `choices[0]` is taken whatever its index. A buffered answer whose
  content is an array of texts is accepted (115-120) and re-emitted empty
  (stream.mjs:241); `ReemissionSaysTheSame` is about completions with text as a string,
  and choices and calls in the order of their positions.
* codex-adapter.mjs: an answer whose stream failed, or had no end, reaches the
  client as finished.
* anthropic-frontend.mjs: text around calls is moved in front of them, thinking is
  dropped; a turn that does not begin with its results breaks the order the other
  format asks for.
* authz clients: the timer of a call covers the head only, so a stalled body
  stalls the request; an allow that is read late is kept although a newer call was
  denied.
* index.mjs:2610-2615 on energy: not every attempt's energy is booked; a row that
  says it was alone may have shared its window (`OverlapIsSeen` says which
  may not).
* collector.mjs: a failed batch loses the rows of its requests, and their usage
  stays; `energy_log` is never purged; two maps never shrink (825-830).
* session.mjs: a session id may be continued by any agent, and usage goes to
  whoever holds the id at the end.
* syslog.mjs, file.mjs: a close may leave pending frames unwritten; an archive of
  the same second is replaced.
* events.mjs:435 `only when ALL output adapters are saturated`: there is one counter
  for all outputs. An event is counted once and given back once per output, so with two
  outputs the backlog may pass its limit, and `DropsOnlyWhenBehind` says only that some
  output, not all of them, is that far behind when an event is dropped; the warning says that the oldest event is
  dropped (521), and it is the newest.
* index.mjs:3085-3086: the snapshot keeps a section that the reloaded file no longer
  names. CONFIGURATION.md:117 lists ports, metrics settings and SIEM outputs as
  reloaded, and they are read at start only; its line 355 has `retention_days: 0`
  disable purging, which config.mjs:1121 refuses.

### 3.3 Fairness

Liveness rests on weak fairness of what Node or the code itself sees to, and on
nothing else, except where noted.

* `pool`: a due queue timer fires. Not even the return of a slot is assumed.
* `capacity`: the interval and deadline timers fire, `retry_at` passes, and a
  request ends, which its attempt timeout and the pool's queue timeout bound.
* `route`: the loop goes on after a wait, timers fire, an attempt ends at its
  timeout at the latest.
* `doors`, health: the cooldowns pass. Nothing is assumed of the traffic; a
  request that is sent to an unavailable backend may keep it out, and `ComesBack`
  says so.
* `claim_gated`: cooldowns and leases pass, routed requests move on, and requests
  keep coming of which not every one is thrown away. The last is an assumption
  about traffic: strong fairness of `Route`, since claims are probed by nothing
  else.
* `doors`, local machine: time passes, a probe ends within its timeout, and a
  completion answers or times out. No traffic is assumed: `RoutesBack` says what a
  fresh verdict may be, not that there is one.
* `doors`, catalog: the refresh timer fires with sweeps enabled, and each pass of
  a cycle ends, since its fetches and probes have timeouts. After the world has
  settled there is no other event.
* `doors`, upstream call: the deadline fires, and the event that follows a
  destroyed request is delivered. `BoundedCallSettles` speaks of calls that were
  given a timeout; the others may wait for ever.
* `doors`, retry engine: every send of an execution is answered or fails, and its
  delays pass (`Settles`).

Nothing is assumed of the other parts; their properties are about safety.

## 4. What is proved

TLC explores one instance; the theorems hold for every value of the constants
that satisfies the module's named assumption (`PoolAssumption`,
`RouteAssumption`, `CapacityAssumption`, and so on, one or two per module). An
assumption says that counts are natural numbers and limits positive, that names
are apart, that a function of the constants has the domain it is used on, and
that a set is finite where the code keeps count of it or walks through it
(`IsFiniteSet`: the calls of the pool, the visits of the front door, the
outputs, the doors, the models of a battery). How many calls, backends,
requests, sessions or lines there are is nobody's assumption. The proofs use no
other hypothesis, and TLC evaluates each assumption
in the runs of its module.

All safety proofs have the same shape: an inductive invariant, one lemma per
action (or per group of actions that change the same half of the state), and a
temporal step at the end. Most of the listed properties are not inductive; the
last column names what they need beside themselves.

| module | theorem | for every ... | strengthening |
|---|---|---|---|
| `ConnectionPool` | `TypeCorrect`, `SlotsAreExact`, `NoSlotIdles`, `NoWaiterIsLost` | calls, ids, domains, limits | `PoolInv`, the four properties together |
| | `PoolImplementsSlotDoor` | the same | step by step from `PoolInv` |
| `CapacityProbe` | `TypeCorrect`, `OneProbe` | models, exact targets, ticks, requests | `ProbeInv`: a request in flight asks for a model |
| `RouteLoop` | `RouteTypeCorrect`, `SlotsFollow`, `ResponseReports` | requests, routes of any length, doors, domains | `LoopInv`: nobody stands twice in a line; events are told once |
| | `DoorsAreTried` | the same | `Counted`: a candidate that was passed over left a mark, or counts as throttled |
| `BackendHealth` | `HealthTypeCorrect`, `CounterIsExact`, `StatusIsEarned`, `QuarantineIsEarned` | window, rates, threshold, requests | `HealthInv`: the run of failures is the newest samples of the ring |
| `ModelClaim` | `ClaimTypeCorrect`, `ClaimQuarantineIsEarned`, `NoTrafficReachesQuarantine` | backends, gated ones, requests, threshold | `ClaimInv`: a routed request is at a backend |
| `KimiAuth` | `TypeCorrect`, `RefreshIsShared`, `LoginIsKept` | backends, calls, token pairs | `LoginInv`: what a refresh carries is valid |
| | `HeadersAreInTime` | the same | `AgeInv`: a pair nobody has yet has not aged |
| `ClaudeAuth` | `ClaudeLoginIsKept` | backends, calls, token pairs | `ClaudeInv`: no pair is from the future, and what was bought is on its way to the file |
| `ModelRouting` | `OwnersOrNobody`, `DeadStaysUntried` | doors, priorities, gates, changes | `RoutingInv`: the two with the types |
| `BucketChain` | `WeightIsShared`, `PicksAreKept` | catalogs, policies, buckets, conversations, keys, size and lifetime of the memory, wishes | `ChainInv`: an entry is what is known of its key, and whoever stands behind a key in the memory had a turn since that was continued |
| `Dispatch` | `DecisionsStayCurrent` | registries, catalogs, requests | `DispatchInv`: a kept decision is not from the future and was made from what was read under its epoch |
| `ProxyCore` | `LoopsAreCut` | conversations, models, limits | `CoreInv`: the counter stays below its limit and has counted every round of a conversation alone at its model |
| `EnergyMeter` | `OverlapsShow` | attempts, doors, meters | `EnergyInv`: the counter of a meter is the number of attempts under way at it |
| `CapabilityBattery` | `RecordsAreTrue` | models, batteries, assertions | `BatteryInv`: every copy of the store is honest, and so is what each battery carries |
| `Sessions` | `MapsAgree` | agents, headers, ids, caps | `SessionsInv`: one session per id, and the index per agent is what the map says |
| `ServedCatalog` | `AliasesRestOnAnswers` | doors, models, providers and their order, refreshes | `CatalogInv`: what a refresh without a failure has is what its providers listed, and the catalog in force is that of one refresh |
| `Authorization` | `NoAllowUntold` | identities, requests, lifetimes, cache sizes | `GateInv`: what an entry has left and the age of its answer are at most `CacheTtl` together |
| `FrontDoor` | `GaugeIsExact` | requests, batches, faults | `DoorInv` |
| `ConfigReload` | `BoundariesStand` | sections and settings | an action property of every step |
| `EventBus` | `CounterIsBehind` | outputs, limits | `BusInv` |
| `SiemOutputs` | `TrailsAreInOrder` | buffers, batches, files, seconds | `FramesInv`, `TrailInv`: the parts of each output rise and come one after the other |
| `HistoryTrim` | `TrimKeepsPairsWhole` | histories, budgets, what is kept of the end | `HistoryInv`: a history is turns, and a turn's results follow its calls |
| `ResponseContract` | `AcceptedStreamsAreComplete` | frames in any order, ids, calls | `StreamInv`: what the accumulator knows of a choice is what its client has heard |
| | `ReemissionIsFaithful` | the same, completions with any number of calls | `EmissionInv`: how many frames are left says what has been told of each choice |
| `AnthropicBridge` | `AgentHearsItAll` | conversations, replies of any number of blocks | `BridgeInv`: what was heard and what is still to come make up the answer |
| | `WireStaysPaired` | the same | `WireInv`: the conversation is open at its end only, and its ids are old |
| `AtomicActivation` | `NeverOverlap` | active requests | `ActivationInv`: how far the hand-over is says what is stopped, idle and not yet bound |

**ConnectionPool.** None of the properties is inductive alone. That a hand-off
keeps the counter exact needs that the promoted waiter was pending, in the queue
of this very domain, and there once (`NoLostWaiter`); that `ReleaseIdle` may drop
a queue needs that it holds only settled waiters; that an admission past the
queue is fair needs `NoFreeSlotWhileWaiting`, which in turn needs the exact
counter to know that a slot is free only when no release handed it on. Their
conjunction with the types is inductive. The cardinality arguments use the
library's theorems about finite sets, and splicing a waiter out of the queue is
covered by `RemoveAtFacts`. The refinement maps the guests inside a door to the
calls that hold a slot of the domain and the line to its queue; each action is a
step of `SlotDoor` or leaves it as it is.

**CapacityProbe.** The token, the transaction and the tick's cursor are three
variables that agree (`SingleFlight`). An admission starts from no token, so by
agreement nobody is probing; an end gives back what it holds, because by
agreement it holds it - the code's own checks `token = owner` are never false in
a run without a restart in between.

**RouteLoop.** The invariant is about one request at a time: its stage and the
domain of its candidate say where it is in `SlotDoor`, which the actions change
together. `DoorsAreTried` is about the locals of the loop. The code chooses the
error it synthesizes from what these say, and not from how far it came; that a
kind of error is only chosen at the end follows from `Counted`, which every
`Advance` keeps: a candidate is left behind as throttled, and then the count of
throttled ones is as long as the way so far, or it has left a result, or a mark
of the body or of the context that did not fit.

**BackendHealth.** `CounterIsExact` compares a counter with the cardinality of a
set of positions. A sample that is appended adds at most one (`AppendCounted`), one
that is overwritten takes its own away first (`OverwriteCounted`), and after a purge
the counter is counted anew (`PurgedFacts`). `QuarantineIsEarned` relates two
machines that share no variable. Its invariant `RunExact` says of the ring read
backwards from its head (`Back`) that its newest `failures` samples are failures and
the one before them, if it is still there, is a success. `PushedFacts` has what a new
sample does to that reading, full ring or not: it is the newest, and everything else
is one further back. A purge disturbs the order only in front of the success that it
precedes, and with that success the run is empty.

**ModelClaim.** The state falls into the claims and the requests (`ClaimsOK`,
`RequestsOK`), and no action needs more of the other half than that a routed
request is at a backend. `NoTrafficReachesQuarantine` is an action property:
only `Route` brings a request from idle to resolving, and what it matches is in
rotation or leased in the same step.

**KimiAuth.** `LoginIsKept` needs to know of the answer under way that the
refresh token it carries, or the one it was bought with, is good (`FlightSound`);
this survives the next answer only because there is no next answer
(`RefreshIsShared`). `HeadersAreInTime` needs an argument about time: a token may
age between the moment a refresh settles and the moment a call uses it only if
the call waits in between, and it does not; and a pair that is still with its
refresh is newer than any in the file or a cache, so it has not aged.

**ClaudeAuth.** Here refreshes overlap, so the argument is about each call that
asks: what a granted call is about to write is accepted, and where the server
rotates nobody else has read or bought it (`OnItsWay`), so no other call can use
it up. That holds through further grants because no pair is known before it is
issued (`NoneFromTheFuture`).

**ModelRouting, Dispatch.** `OwnersOrNobody` and `DeadStaysUntried` follow the
passes of `candidatesFor()` one by one, each with a lemma about what its list
contains (`Matched`, `OwnedMatch`, `Unmatched` and the order of the replicas only
filter and reorder). `DecisionsStayCurrent` is about two clocks: the stamp of the
file and the stamp of the copy that was read. A decision is found only under the
epoch of now, and `RoleSound` and `PickSound` say that one kept under that epoch
was made from this copy; an edit moves the file's stamp past all of them, and a
file that cannot be read leaves the copy, and with it the epoch.

**BucketChain.** Both theorems rest on what the orders of `BucketPolicy` contain: a
rotation, an order by cost or by class and a preference keep the members
(`RotateFacts`, `ByCostFacts`, `ForClassFacts`, `WishFacts`), the order by weight
those that take part at a provider with weight (`ByWeightFacts`). For
`WeightIsShared` the tickets of the providers are intervals that follow each
other (`TicketFacts`, `TicketsRise`); the provider that comes first is the one
whose interval has the ticket (`HolderFacts`), and a provider's interval is as
long as its weight, none if it takes no part. For `PicksAreKept` two things are
needed. The remembered member has to be in the order, not just in the bucket: only
what the policy admits is ever remembered, the policy of a setup does not change, and
a provider with a member that takes part has weight (`OrderedFacts`). And the entry
has to be there. The memory is a line in which whoever stands behind a key had a turn
since that was continued (`Standing`): to be continued is to go to its end, while a
turn that only writes leaves a key in its place, and this is why the property counts
from the last continued turn. When the oldest goes for want of room, there are as
many keys behind it as the memory has entries (`StandsAfter`), so it was not due any
more; and an entry's time runs with the age of what it says. That there is one entry
per id, so that id and family name the same member turn after turn, is an assumption
on the catalog.

**EnergyMeter, CapabilityBattery.** Two attempts that met at a meter saw each
other: the one that leaves first reads the counter while the other is still under
way, and the counter is the number of attempts under way (`EnergyInv`), so it
does not record itself as alone (`Met`). For
the batteries, every copy of the store - the file, the cached one, the one a
sweep carries - says nothing wrong of a model, and a whole-file write takes one
such copy for another; that is why writers that erase each other never make a
record lie.

**Sessions, ServedCatalog.** Eviction takes the oldest of a map in order of
insertion. `MapsAgree` needs that this map holds each id once, so that a position
taken out is an id taken out, and counts by a bijection between ids and
positions. `AliasesRestOnAnswers` is about refreshes that overlap and share the cached
lists. As long as nobody failed in it, a refresh has nothing but what its own providers
listed, and everything that they listed (`Gathered`); one in which somebody failed may
have anything, but the catalog that it leaves is marked as stale, and no row of a stale
catalog counts for an alias. So the catalog in force is that of one refresh
(`CatalogInv`), whichever finished last.

**Authorization, FrontDoor.** `NoAllowUntold` compares two clocks that tick
together: the life an entry has left and the age of the answer it was kept from.
An entry is added when an answer is read, so the sum never passes `CacheTtl`; a
lookup that hits takes an entry with life left. `GaugeIsExact` is a count of a set
that each way to end a request leaves exactly once.

**SiemOutputs.** The parts of an output - archives by their second, the active
file, the buffer - are kept as lines that rise and stand one after the other
(`InTurn`). Each action moves a part's tail to the next part, drops one, or
appends the newest event to the last; the tasks and how rotations are nested do
not matter, which is why the proof covers any nesting. That a sequence of such
lines, flattened, rises is `FlattenInTurn`.

**HistoryTrim.** A result is kept only after the message that called for it
(`Rooted`), and a message's calls are open only while nothing but results stand
after it (`OpenAtEnd`). Each pass of the trim is a choice of positions: the
lemmas say which choices keep a history rooted, and that the repair at the end
takes out exactly the results whose message is gone and the messages whose
results are. So the pairs are whole whatever the cuts before it were.

**ResponseContract.** `AcceptedStreamsAreComplete` relates two readers of one
stream, the accumulator and the client: choice by choice they know the same
(`Alike`), so what the validator asks of its own record is true of what the client
has. `ReemissionIsFaithful` follows the frames of an emission one by one. Each
choice has four kinds of frames, in this order, and the invariant says for the
*n*-th choice and the *j*-th of them what has been told of it, that the choices
before it are told and those after it are untouched (`Inside`); then come the
frames at the end (`AtEnd`), and when they are taken the accumulated choices are
those of the completion (`Over`). There both checks ask the same of a choice. No
frame is refused on the way, because a regular completion gives each call an id
of its own, and the table of ids holds only ids of this completion (`Mine`).

**AnthropicBridge.** `AgentHearsItAll` splits at the event the agent has come to:
what it has put together is a beginning of the message that was to be sent, and
the events that are left are those of the rest, from within a block (`Hearing`).
The message itself has the texts and calls of the answer because each translation
keeps the calls in order and joins the texts (`CompletionTells`).
`WireStaysPaired` is about what three translations make of the whole talk. The
invariant, `WireInv`, says that the talk so far is paired in each format but for
the calls that are open (`TalkPairs`); open are those of the last answer, and only
while the next question is composed. Its ids are below a bound which an answer's
new ones are not, and what the agent has heard so far is a beginning of such an
answer. Each translation is a recursive function over what it reads, block by block
and message by message, so what it makes of one message more is what it made before
and what the last step adds; an answer opens its calls and the next question closes
them. For OpenAI they are closed by one result message each; for Anthropic by the
one message that follows, whatever is joined to it or left out; for Codex, where
calls and results are counted, by one result each, and none counts twice because no
id is taken twice.

**Lines.** `LineLemmas` has what these proofs keep needing: taking an element
out, a filter as the positions that are picked (`Picked`), what flattening and
joining contain, least and greatest positions. Where such a fact takes an
induction, it is done through a set: `NatSetInduction` says that a set of numbers
with 0 in it that contains the successor of each of its elements contains all,
and follows from the library's theorem that the order of the numbers is
well-founded.

**Only model-checked.**

* Every liveness property (`WaiterSettles`, `TokenComesFree`, `ThrottledIsProbed`,
  `RequestEnds`, `ComesBack`, `RoutesBack`, `DeadLeavesRouting`, `AliveComesBack`,
  `BoundedCallSettles`, `ExecuteEnds`): fairness and `ENABLED` are outside of what
  the prover does.
* The properties that the runs of 3.1 refute.

The properties named in the table above that no run lists (`HealthTypeOK`,
`SlotsExact`, `NoFreeSlotWhileWaiting`, `NoLostWaiter`, `ErrorsExact`,
`StatusEarned`, `QuarantineEarned`, `OneRefresh` and the other type invariants) are
proved for every instance, so no instance is run for them.

## 5. What is not modelled, and why

* **Semantic cache.** Optional, off by default, and in front of the loop; a hit
  returns what an earlier loop returned. Planned.
* **Classifiers and ranking, model sizes, sensitivity, purity, addresses.** Scores
  and readings of one name or one text, without state. Where a result decides
  something (a zone, a class, a role) it is an input of `BucketPolicy` or
  `Dispatch`, over all its values.
* **Media routes and the shaping of requests.** Translations of one body. Their
  limits are the sizes of `RouteLoop`.
* **Client keys, signatures.** Comparisons and cryptography; their results are
  inputs of `FrontDoor`, `Authorization` and `Sessions`.
* **Usage and delivery reports, dashboard, operator, integrations.** Views of state
  that others keep; no modelled decision reads them.
* **The Python proxy and the scripts.** Outside the process.

Within the modelled parts: lengths of time other than the ones named in section 2,
latencies, costs, wording and headers are left out. The registering of routes at a
start, the administrative views, the parsing of a provider's list, the judging of
an answer's text and the reading of a meter are inputs. A failed write of the
capacity store leaves the file as it was or truncated (`Saved`); two processes that
share a store are not modelled, except for the credentials files, which the
providers' own command-line tools write.

## 6. Plan

What is left, the most important first.

1. **`RouteLoop` over `UpstreamCall`** instead of over its abstract attempt, with
   the refinement as a property.
2. **Abstract specifications** of what several parts share: the half-open breaker
   (health, claims, capacity) and the single-flight refresh, which `KimiAuth`
   implements and `ClaudeAuth` does not.
3. **Registering of routes** at a start and after a reload, with the boundary
   between a configuration and the backends that were built from it.
4. **Semantic cache** with its shadow comparison.
