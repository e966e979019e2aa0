# event-driven-platform: TLA+ verification project

The repository is a set of TypeScript packages for idempotent, event-driven
applications. It is a library of *protocols*: the databases, brokers and
handlers are supplied by the application, and the packages fix in which order
ports are called and what is believed about their answers. That is what is
modelled here, with two parts that are no protocols but are as hard to test: the
renderers of event schemas, and the scripts by which the repository watches its
own CI. Paths below are relative to `src/`.

## 1. Inventory

### Write side

| Component | State | Operations | Hard behaviours |
|---|---|---|---|
| **Runner** (`packages/runner`) | per call: lease, handler attempt number, held result and error | `execute`, `executeDetailed`: claim, guards, rate limit, resolve, handler attempt under a timeout, complete, append to the Outbox, commit, record failure, retry | leases expire while a handler runs; a commit whose answer is lost; a failure that is not recorded; retries racing other Runners; crashes at any await |
| **Execution Log store** (`packages/execution-log-store`, `execution-log`) | one entry per execution id: status, Operation snapshot, lease owner and version, result | `claim`, `complete`, `fail`, each atomic | fencing by owner *and* version; reclaim after expiry; one owner id per process, shared by all its calls |
| **Execution transaction, Outbox** (`scoped-execution-transaction`, `transaction-adapter`, `transaction-scope-node`, `outbox-store`) | staged domain changes, completion and Outbox records | run, commit, roll back by signal | three awaits that must be one; roll-back followed by a second transaction |
| **UseCaseExecutor** (`packages/use-case-executor`) | per call: lease, result | `execute`: claim, use case, complete or release | fixed lease that is never renewed; best-effort release; lost answers of `complete` |
| **Use case execution store** (`packages/use-case-execution-store`) | one record per execution id | `claim`, `complete`, `release` | fencing, reclaim |
| **Identity** (`intent`, `event`, `execution`) | none | `IntentFactory.create`, `derive`, event ids, execution ids | identity must depend on what the business means and on nothing else |
| **Event envelopes, Outbox records** (`operation-event-envelope-factory`, `outbox`) | none | `createMany` | pure |

### Read side

| Component | State | Operations | Hard behaviours |
|---|---|---|---|
| **Reader** (`packages/reader`: `default-reader`, `control`, `source`, `retry`) | per call: deadline, cancellation, attempt | `execute` | caller timeouts and cancellation against shared work |
| **Local flight** (`inflight/local-read-in-flight.ts`) | map of running promises per key | `run` | coalescing; removal when a flight fails |
| **Distributed flight** (`inflight/distributed-read-flight.ts`) | per attempt: ownership, renewal timer, observed lease state | `run`, wait, renew, synchronise, publish, release | lease lost between the check and the publication; renewal racing the source |
| **Redis coordinator** (`read-execution-coordinator-redis`) | key, generation counter, channel | `claim`, `wait`, `renew`, `release` scripts | subscribe racing the release; expiry publishes nothing |
| **Cache levels** (`reader/src/lib/cache`) | none of their own | traversal, populate, backfill | partial failure of levels |
| **In-memory cache** (`read-cache-in-memory`) | a Map in insertion order, of values and expiry times | `read`, `write`, `size` | capacity; expiry compares with a clock that may be set back |
| **Redis cache** (`read-cache-redis`) | keys with a time to live | `read`, `write`, TTL policy, key encoders | one key space for all tenants and processes; jitter; errors of Redis and of the codec |

### Event schemas

| Component | State | Operations | Hard behaviours |
|---|---|---|---|
| **Avro renderer** (`event-schema-avro`) | names in use, while it renders | `renderEventContractAvroSchema` | a schema that means something else than the payload is no error anywhere; generated names that collide |
| **Protobuf renderer** (`event-schema-protobuf`) | names in use and nested messages, while it renders | `renderEventContractProtobufSchema` | the same; presence of absent fields; numbers and JSON names; the output must not follow the order of declaration |

### Tooling

| Component | State | Operations | Hard behaviours |
|---|---|---|---|
| **CI monitor** (`.agents/skills/monitor-ci`, and a copy in `.opencode`) | carried from call to call by the orchestrator: last statuses, what a new attempt is told by, poll and no-progress counts, budgets | `ci-poll-decide` (`categorizeTasks`, `classify`), `ci-state-update` (`gate`, `postAction`, `cycleCheck`) | attempts appear at any time, by others' pushes too; a new attempt taken for the old one, or the reverse; budgets that no path escapes |

### Pure parts

Retry delays, the keys of rate-limit buckets, and the domain contracts (`operation`,
`command`, `read`, `actor`, ...), which are types and one-line factories.

### How they interact

A *use case* is run by UseCaseExecutor under a durable claim; it derives a child
intent per slot and sends commands to the *Runner*; the Runner claims the
execution of that intent, calls the handler in a transaction, and stores
completion and events with the domain changes; a broker delivers the events at
least once; a consumer derives the downstream intent from the envelope and
invokes the next use case. Use cases also send queries to the *Reader*, which
looks through cache levels, joins a local flight, then a distributed one, and
only then runs the source. Event contracts are declared with their payloads and
rendered as schemas at build time. The CI monitor interacts with none of this: an
agent runs its two scripts in a loop, acts on what they decide, and the CI answers
with a new attempt.

## 2. What makes each component correct

- *Runner*: domain changes, completion and events are one fact from one attempt;
  everybody gets the stored result of their own Operation snapshot; a stale
  attempt changes nothing; a retry never runs beside an attempt that could still
  complete; capacity is consumed once; started calls end; abandoned attempts
  become claimable.
- *UseCaseExecutor*: only durable results are returned; one execution at most can
  settle an invocation; a lost invocation becomes reclaimable.
- *Write side as a whole*: the children of a use case take effect once, however
  often it is retried, run concurrently with itself, or triggered by the same
  event; overlapping executions are told the same.
- *Reader in one process*: one flight per key, and none that has ended; work
  behind the local levels is begun again only for a reason; what the source
  answered never lands on something newer; a caller that gives up takes nobody
  with it; calls end.
- *Reader across processes*: the source is executed again only for a reason; at
  most one live owner; nothing but the owner prolongs or ends a lease; a release
  is not slept through; runs settle.
- *Caches*: an answer is not older than one life in each cache; no tenant is given
  what another one cached; capacity holds, and no live entry goes while an expired
  one stays.
- *Event schemas*: a schema accepts exactly what the payload accepts, or there is
  none; a Protobuf schema does not depend on the order of declaration.
- *Identity*: a key is that of one intent, one event or one attempt; a rate-limit
  bucket is shared by those its scope names and nobody else.
- *CI monitor*: it ends; it acts once on each attempt; every attempt it causes is
  counted, and there are no more of them than allowed; it does not watch a CI that
  stands still.

## 3. Modules

```
ExecutionLog <- Runner <- RunnerRefinement <- RunnerInvariant <- MCRunner
                                 |                   ^
                           OperationOnce       RunnerProofs
                                 ^
UseCaseExecutor <- UseCaseExecutorRefinement <- UseCaseExecutorProofs, MCUseCaseExecutor
      ^                  |                             ^
      |            InvocationOnce                      |  (INSTANCE)
      UseCaseFlow <----------------------------- UseCaseFlowProofs
           (INSTANCE UseCaseExecutor, INSTANCE OperationOnce), MCUseCaseFlow

ReadCoordinator <- DistributedRead <- DistributedReadInvariant <- DistributedReadProofs,
                                                                  MCDistributedRead
CachedRead <- CachedReadInvariant <- CachedReadProofs, MCCachedRead
KeyText <- ReadCaches <- ReadCachesInvariant <- MCReadCaches (extends IdentityKeys too)
   ^                                 ^
   IdentityKeys <- KeyProofs <- ReadCachesProofs

EventSchema <- AvroRenderer, ProtobufRenderer
     ^
     EventSchemas (INSTANCE AvroRenderer, INSTANCE ProtobufRenderer) <- MCEventSchemas

CiMonitor <- CiMonitorProofs, MCCiMonitor
```

An arrow points from a module to those that extend it. In the modules that model
code, a definition marked "Mutation" is what the definition after it would be with
a plausible bug; no specification uses it.

**ExecutionLog** is the contract of the port: the entry and what `claim`,
`complete` and `fail` do to it. The package ships types and comments, the
adapter is the application's. Attempt number, attempt id and lease version are
assigned together, one of each per claim, so `version` stands for all three.
`HoldsLease` compares owner and version as the contract does, not the clock: an
expired lease nobody took over still completes.

**Runner** is `DefaultRunner`, `ScopedExecutionTransaction` and
`DefaultExecutionTimeout`. `pc` is the await a call is at:

| `pc` | in `default-runner.ts` |
|---|---|
| `ready` | before `claimExecution` |
| `guards`, `resolve` | `evaluateGuards`, `enforceRateLimit`, handler resolution |
| `handler` | `executeHandlerWithTimeout` |
| `complete`, `append`, `commit` | the rest of the transaction callback and its commit |
| `rollback` | `completeRolledBackResult` in its own transaction |
| `committed` | the commit took effect, its answer is under way |
| `fail` | `recordExecutionFailure` |
| `backoff` | the retry delay, then the claim of the next attempt |

A store call may throw before or after it took effect. `rowLock` is the database
row an open transaction has written: other writers of the entry wait for it, and
a crash releases it. Guards, limits, handlers and adapters throw `transient`
(retryable) or `permanent` errors; other errors are those the code raises.

**OperationOnce** is the abstract specification: each intent is decided once,
with its changes and events, and answers repeat the decision.
**RunnerRefinement** gives the refinement mapping, **RunnerInvariant** the
inductive invariant.

**UseCaseExecutor** is `DefaultUseCaseExecutor` with the store port. The port
leaves it to the adapter when an unreleased claim is "reclaimable"; the model
allows it any time after the lease expired (the fixture store in
`tools/package-verification/fixture-execution/src/use-case.ts` never does, which
is one of these choices).

**InvocationOnce** is its abstract specification, with no lease, owner, expiry or
release in it: an execution id serves the intent that claimed it first, one result at
most is stored, by a call that worked for it, and every answer is the stored result.
In **UseCaseExecutorRefinement** `bound` is the intent of the record, `working` the calls
that were granted a claim and have not ended, stale or not, and `stored` and `answer` what
is durable and what was returned. A failure, a release, a refused completion and a crash
map to `Abandon`, a lost answer to `Claim` or `Store` with nobody told, an expiry and
the use case itself to a stutter.

**UseCaseFlow** composes the write side. The executor is the module above, by INSTANCE,
so that its theorems hold of the flow as they stand; the Runner is `OperationOnce`, which `Runner` is shown to implement, and
`RunnerSuffices` says that the flow's use of it is an `OperationOnce`
behaviour. Identities are *paths* of derivations: UUIDs of different keys are
taken to differ; that different identities have different keys is what KeyProofs
proves.

**ReadCoordinator** is `RedisReadExecutionCoordinator`: the three Lua scripts as
atomic operators on the lease key, the generation counter, and the release
channel with its subscribers. A lease expires by itself and nobody hears of it.
Time is counted in half leases, because the owner renews after half of one
(`distributed-read-flight.ts:89`; a lease has at least 2 ms): `ttl` goes 2, 1, gone.
A lease has two texts, which `Granted` and `Matches` keep apart. The claim stores what
`cjson.encode` writes of owner and version, a renewal or release sends what
`JSON.stringify` does, and the two differ for the ids in `Escaped`: those with a slash,
DEL or an unpaired surrogate in them. The lease of such an id is granted like any other
and matches no renewal or release. For all other ids, the default UUIDs among
them, the texts are equal while generations stay below 1e14, which the model takes
for granted.

**DistributedRead** is `DistributedReadFlight.run`, one per process:

| `pc` | in `distributed-read-flight.ts` |
|---|---|
| `claim` | `claim` of the next attempt |
| `exists`, `subscribing`, `rechecking`, `waiting` | inside `waitForRelease` of the coordinator: the first look, SUBSCRIBE, the second look, the timer or a message |
| `reread` | `readShared` after a wait |
| `check` | `readShared` after the claim was granted |
| `source` | `executeSource` |
| `beforePublish`, `publish`, `afterPublish` | `synchronizeRenewal` and the assertion, `publishSourceResult`, both again |
| `drain...`, `release...` | the finally block: the renewal under way, then `release` |

`renewal` is the timer and its promise (`off`, `armed`, `due`, `sent`), and
`leaseState` what the last renewal reported: the code asserts the second, and
whether the lease is really held is `Holds` (the key has this run's owner and version,
whatever its text). Commands of Redis may throw before
or after they took effect. Messages may be late or lost. `Disrupt` counts what
entitles the system to another source execution, and bounds it.

**CachedRead** is `DefaultReader` with a cache plan in one process:

| `pc` | in `cached-read-executor.ts` |
|---|---|
| `local`, `promote` | `execute`: `findHit` of the local levels, `populate` of those before the hit |
| `joined` | a promise of somebody else in `LocalReadInFlight` |
| `leaderLocal`, `leaderPromote` | `executeLocalLeader`: the same again, in the flight |
| `shared` | `findSharedCacheResult` |
| `source`, `backfill` | `executeSourceAndBackfill` |

`pc` is where the *work* is and `outcome` what the caller was told:
`ReadExecutionControl` races the two, and its timer or signal ends the call
alone. Cached values carry the version of the data they were read from. The
levels of the plan without coordination are modelled to the end; with
coordination, DistributedRead goes on where `shared` missed.

**ReadCaches** is `InMemoryReadCache` in front of the Redis cache, with one read of
the process going through them and the rest of the world as steps: other reads of
the process promote, other processes write Redis, somebody asks for the size, time
passes, the clock of the process is set back. `entries` is the Map as a sequence.
Time is relative: an entry has some life left and a value an age, so that no date is
needed. Keys are texts, character by character (**KeyText**), because that is what
`TenantsApart` depends on, and the encoder of the application may map all logical
keys to one. The time to live is computed as in `resolveTtlMs`, rounding included.
CachedRead takes a level for a value that may vanish; here is why it may.

**KeyText** is how every package writes a key: `encodeURIComponent` of each part, and
`Array.join`. `Plain` is what the function leaves alone and `EscapeOf` what it writes
for each other character; the assumptions are that the separators are escaped, that
an escape begins with "%", and that none begins another one, as no UTF-8 form
does. A text is well formed: for an unpaired surrogate the function throws and there
is no key. **IdentityKeys** has the keys themselves: of intents (`build-intent-key.ts`,
root and derived), events, execution attempts and rate-limit buckets, over every
descriptor the zod schemas admit. The words of a key are texts that differ
(`Letters`); components are listed as `localeCompare` orders them (section 7).

**EventSchema** is what the renderers read, the JSON Schema of a payload, and what it
says of a value (`Accepts`). **AvroRenderer** and **ProtobufRenderer** are the two
renderers: the same cases in the same order, throwing is `Failure`, and the context
they mutate is threaded through. An `enum` that is absent is `None`, an empty one is
`<<>>`, which both reject. **EventSchemas** declares a contract, renders it,
declares it with its properties in another order and renders it again. What a
rendered schema says of a value (`AvroAccepts`, `MessageAccepts`) is the rule of the
two formats, no code of this repository.

**CiMonitor** is the loop of `SKILL.md` around the two scripts. `Looks` is one call of
`ci-poll-decide.mjs` and what the orchestrator keeps of its output, `Acts` the
cycle check, the gate, the action and `postAction` of `ci-state-update.mjs`, `Stops`
an end. `LooksGarbled` is the way of an answer that is no JSON: the decision `error`, the
statuses of the last look forgotten, the cycle check, which may stop the monitor, and a
minute later the next look in the same mode. `classify` is a decision list there and here
(`WaitRules`, `CiRules`, `FixRules`). A failure class is a kind and whether it is written
in lower case: the script puts the present one in lower case and compares it with
the last one as it came (`LowerCase`, `StateChanged`). Attempts appear whenever they want. Four history variables (`seen`,
`acted`, `unchanged`, `actions`) say what happened; no decision reads them but
through `tracked`, which the code sets from the last look.

## 4. Runs

| Run | Instance | Shows |
|---|---|---|
| `runner` | three calls on one intent, two of them with one owner id, one with another snapshot; guards, a rate limit, three attempts under a timeout; fair | atomic outcome, agreement under intent reuse, one holder, safe retries, admission once, lease fence, refinement of `OperationOnce`; calls settle, abandoned attempts become claimable |
| `runner_timeout` | the same three calls, timers fair, adapters not | the documented scope of the timeout does not hold (section 7) |
| `use_case` | four calls, two processes, two intents with one execution id; fair | one owner, fence, refinement of `InvocationOnce`; lost invocations become reclaimable |
| `flow_delivery` | one use case, its event delivered to two consumers | effects once across redelivery |
| `flow_retry` | two executions of a use case with two children | agreement, results made of decisions, the Runner's promise suffices |
| `distributed_read` | two runs under one owner id; any timing, two disruptions; fair | executions owed, no lost wake-up, one holder, lease fence; runs settle |
| `distributed_prompt` | three runs, two with one owner id, one with an escaped id; renewals in time, the data changes | healthy owners that can renew keep the lease; the cache goes back only after a run that cannot has outlived its lease |
| `distributed_stale` | two runs of two processes, any timing | publication under the lease does not hold (section 7) |
| `cached_read` | three calls, one timed and one with a signal; two local levels and a shared one; two attempts; fair | one flight, work owed, private giving up, fresh backfills; calls end |
| `read_caches` | two tenants, three keys, two entries of room, a jittered time to live, a clock set back once; as assumptions of the run, identity keys of texts with separators in them | staleness, tenants, capacity and order of eviction; that no two keys are one text |
| `ci_monitor` | three attempts, eleven states of one, two cycles, one local fix, ten minutes; fair | acting once, counting, the breaker until the first action; the monitor ends |
| `event_schemas` | 4728 contracts of one or two fields | schemas mean the payload, whatever the order of declaration |

*Bounds.* On the write side no counter is bounded artificially: every call claims at most
`maxAttempts` times, so versions, attempts and result sets are finite by
themselves. Three calls are enough for the worst hazard of the Runner: a stale
attempt, its successor, and a second call that shares the owner id of either.
Two snapshots give intent reuse, two snapshots in `UseCaseFlow` give reads that
changed between two executions. Two slots tell an identity with a slot from one
without; two consumers give concurrent redelivery.

On the read side `MaxVersion` bounds the versions of the data and
`MaxDisruptions` the values that vanish and the calls that fail. Two versions
tell old from new. Two disruptions beside expiries, which are bounded by the
claims, send two runs through every path of the distributed flight; in one process
two let a local flight fail once at each of its attempts, or fail and lose a value.
`distributed_read` has two runs because liveness is checked on it, and lets them
share an owner id because that is the harder case for the lease; a stale owner, its
successor and one that waits are together in `distributed_prompt`, and the safety
properties of `distributed_read` are proved for any number of runs and any `Escaped`,
which is empty there; in `distributed_prompt` it holds the id of the third run. Two
local levels and a shared one are the smallest plan with a promotion inside the
local levels and one across the border.

`read_caches`: `Capacity` 2 with three keys evicts and still keeps an order; the local
life of 2 units and the Redis life of 1, jittered by 3/4, make the rounded times
to live 1 and 2 (`Randoms` = 8 covers both sides of the rounding); `MaxSkew` 1 sets
the clock back once, and twice or further would only add to `skew`, which the bound
on staleness names.

`Texts` and `Labels` in `MCReadCaches` are parts that would end early and begin the next
one unescaped, and the escape of a separator; five texts in every place of a key make 3000
descriptors, and 6250 pairs of a limit and an operation.

`ci_monitor`: `Breaker` is 3 where the script has 13, `Timeout` is ten minutes and
the wait for an attempt ends after two polls, so that each limit is reached within
reach of the others; `MaxAttempts` 3 gives an attempt to each of the two cycles and
one to somebody else. Counters that nothing reads above a limit stop at it
(`StaleCap`, `elapsed` at `Timeout`). `MCInfos` has one state per kind of outcome the
flows act on, and a flaky task in lower case and in capitals, which is polled; the invariants are proved for every set of states and every option.

`event_schemas`: `Int32Max` is 1, so that integers beyond it are values; the largest
field number is 6 and the number 4 is reserved. `OfTypes` is one field of every node the
renderers tell apart, nested where nesting matters, and `OfNames` is two fields
whose names, types and numbers may collide, in every numbering that is right or
wrong in one way. `Samples` are values that are right and wrong at each position.

`Quiescent` steps stutter when everything has ended, so that deadlock checking
stays on. It does not show that no call waits for ever for a row lock, since a store
call of the model may throw at any time; that is `LockWaitsAreShort`, a theorem.

*Fairness.* `Runner!Fairness` is weak fairness of every step of a call except
an untimed handler, and of lease expiry: Node's event loop runs ready
continuations, store calls answer or throw, timers fire, clocks advance.
Nothing is assumed of handlers of timed calls. `TimerFairness` keeps the timers
and drops the adapters. `UseCaseExecutor!Fairness` assumes that the store
answers and clocks advance, but not that a use case ever settles, since the
executor has no timeout. `DistributedRead!Fairness` assumes that Redis and the
cache answer or throw, timers fire, time passes and the source settles (issue
#187 of the repository is that it need not, and then nobody gets past it);
release messages need not arrive. `PromptSpec` is not fair: it restricts time to
states in which no renewal is outstanding, an event loop and a Redis faster than
half a lease, which is what `HealthyOwnersHold` and `CacheNeverRegresses` rest
on, for owners whose lease can be renewed. `CachedRead!Fairness` is that caches answer, promise callbacks run and timers
fire; the source need not settle, and `CallsEnd` says who then waits.
`CiMonitor!Fairness` is that the orchestrator goes on with its loop and handles what was
decided. Its answers are not garbled for ever: an answer that is no JSON is the
decision `error`, which is never held against `--timeout` (its cycle check ends the
monitor for `--max-cycles` only), so strong fairness of
`Answered` is what `MonitorEnds` needs. Attempts need not appear.

## 5. Proofs

Checked by tlapm for every value of the constants; the instances above show
only small ones.

*Runner* (`RunnerProofs`). `OutcomeIsAtomic` is not
inductive: that an attempt which commits is still the active one follows from
`Locks` (between `complete` and the commit the entry is locked by its active
attempt) and from `Ownership` and `UniqueLeases` (lease versions of live calls
are distinct and not from the future), which need `HeldResults` and `Backoffs`.
`IInv` is their conjunction; `Inductive` proves it, with one lemma per group of
actions. `TypeCorrect`, `OutcomeAtomic`, `CallersAlwaysAgree`, `OneHolderAlways`
and `RetryIsSafe` follow. `AdmissionHolds` uses a second invariant
(`AdmissionInv`) that concerns single calls. `FenceHolds` proves the action
property and `Refinement` that every step maps to an `OperationOnce` step or
a stutter. The only assumptions are on the constants: `Command` is a function
into `Commands`, and `None` is none of the values.

Two more theorems are what a proof can give of `CallsSettle`. `CallsAreBounded`: `Distance`
ranks a call by its attempts left, its guards left and its place in the attempt; each
step of its own takes some away, and no step of others, no expiry and no crash adds any,
so a call takes at most `10 * maxAttempts + guards + 12` steps, its distance at the
start. The invariant behind it is `AdmissionInv`. `LockWaitsAreShort`: a
call that waits for a row lock waits for one that is between `complete` and its commit,
where nothing waits, so that waiting never forms a cycle. What the run adds is that
enabled steps are taken.

*UseCaseExecutor* (`UseCaseExecutorProofs`). `IInv` adds `Claimants` (a live call
has claimed a generation of a record of its own intent) and `UniqueClaims` to the
types and `ReturnsAreDurable`; the other theorems follow from it. `ExecutorRefines` maps
every step to a step of `InvocationOnce` or a stutter, with one lemma per group of
actions (`ClaimMaps`, `UseCaseMaps`, `StoreMaps`, `WorldMaps`), and needs `Held` besides: a
record nobody has claimed serves no intent, and what is stored or about to be is
a result of a use case.

*DistributedRead* (`DistributedReadProofs`). `SourceExecutionsAreOwed` is proved by
a ledger: an execution that was paid for but not begun is held by an owner that
can no longer publish and is about to look at the shared cache (`StaleChecks`), or
by a key that nothing covers, neither a cached value nor an execution that can
still publish (`Covered`). `Ledger` says that executions begun plus those held
never exceed one more than the disruptions; each step either keeps the sum or is
a disruption. It needs `Generations` (versions of leases are distinct, and the
lease has the newest) and `Stages`. `Wakeups` is inductive by itself once a waiting
run is known to be subscribed. The assumptions are on the constants: `Flights` is
finite, `OwnerOf` a function, `None` no lease and no version. `OneLeasePerRun` counts: the
generation never exceeds the number of runs that have left contention (`Decided`), nor the
executions those that have looked at the cache as owners (`Checked`), and no run goes
back over either line. It is why expiries need no bound of their own in the
model. A run may wait any number of times, as long as others hold the lease; that
it settles is `RunsSettle`, model-checked.

Under `PromptSpec` the same invariant holds, and with it `PromptInv`: `Healthy` (an owner
that can renew its lease holds it with the timer on, and all of the time of the lease is
left until the renewal is due) is `HealthyOwnersHold` made inductive, `PublishedByHolder`
follows from it, and `Newer` (what the holder is about to publish is no older than what
is cached, as long as no run has outlived a lease it could not renew) gives
`CacheNeverRegresses`, since a lease once outlived stays so.

*CachedRead* (`CachedReadProofs`). The same idea on a smaller scale: `Ledger` charges
each descent behind the local levels to the first miss or to a disruption, and
`Provided` is what a leader finds: a level that is still before it, or a flight
that has a local level left to write. `Ages` (nothing is newer than a value being
backfilled) gives `BackfillNeverRegresses`, and depends on `FlightRuns`, since
there is one leader. `Followed` (what a call has, it has from a flight that waits
for no other) gives `GivingUpIsPrivate`. The cache plan may have any levels, all of
them local or all shared. `WorkIsBounded` ranks the work of a call by the levels and
attempts it has left (`Remaining`), which only its own steps change, and they
lessen it; `FollowersWaitForWork` follows from `Followed`, and says that waiting for a flight
never forms a chain. With the fairness of section 4 this is why `CallsEnd` holds.

*UseCaseFlow* (`UseCaseFlowProofs`). The invariant joins three parties: `DecidedOnce`
(a decision of the Runner is of one child, and the only one of its intent),
`SeenBacked` (what an execution has seen is, slot by slot, what was decided), and
`ResultsBacked` (so is what it sends to the store and what the store holds).
Everything rests on identity: `IntentNamesCause` (invocations of one intent have one
cause, directly or downstream), `ChildNamesEffect` and `EffectNamesChild` (a child
intent is of one slot of one invocation, and the reverse). `ExecutorIsUsed` proves that the
flow, seen at the executor's variables, is a behaviour of `UseCaseExecutor`; so
`FlowCompletesOnce` and the durability of what calls return are the theorems of
UseCaseExecutorProofs, taken by INSTANCE, and `ResultsAreAlwaysDecided` joins the second with
`ResultsBacked`. The assumption that does
the work is `SlotsAssumption`: the slots of a use case are distinct, as
`docs/architecture/README.md:146` asks of the application. That each path has its own
UUID is the model's abstraction (section 3). `RunnerIsEnough` adds `Published` (an event
is durable exactly when its success is) and proves `RunnerSuffices`: what the flow takes
from the Runner is an `OperationOnce` behaviour. `Refinement` proves that the Runner
gives one, so the two modules meet at one specification.

*CiMonitor* (`CiMonitorProofs`). `ActsOncePerAttempt` needs `Newer`: an attempt is polled
or taken for a new one only when it is newer than the one acted on last, since urls
are not reused and no attempt runs on an older commit than the newest when it began.
`CyclesAreCounted` is inductive with the types: an action either waits to be counted
(`agentTriggered`) or has been. `Watched` bounds the polls that saw nothing new by the
count of the script until the first action, if the failure class they saw is in lower
case (`InLowerCase`), since the script sees no change then either, and `LimitsDecide` shows that then the
breaker answers before any rule of the CI does. `TimeoutBoundsTheLoop` ranks the loop by the
time left until `--timeout` and the steps between two delays (`Left`): once the option
is set, the looks answered and the actions left are bounded whatever the CI does, and
none are left exactly when the monitor has stopped. Answers that are no JSON, for ever,
are left to the fairness of `MonitorEnds`. The decision lists are reasoned about
with `FirstThatApplies`.

*ReadCaches* (`ReadCachesProofs`). `Lives` adds age and time left: their sum never exceeds
one life in Redis there, and stays below that and one life in the process and the
skew here, since a promotion happens with some of the first life left. `Stages` says
that what a read writes back to Redis is fresh. `Tenants` says whose each value is, and
rests on `RedisKeyTellsTenant`. `ExpiryFollowsInsertion` is inductive with the types, by
what removal, rewriting and eviction leave of an order (`Remains`). That the jittered
time to live lies in `1 .. LongestTtl` for all options is non-linear: it is proved from
`DivIsRemainderless` and `ProductsGrow`. The assumptions are what the constructors accept.

*Keys* (`KeyProofs`). Escapes are a prefix code, and so are parts ended by a separator that
none of them has in it; what is written in the pieces of a prefix code reads back
(`PrefixCodesDecode`). The first gives `EncodingInjective`, the second `JoinSeparates`, and
each key is these two, once or, for an intent, nested three deep; a derived key is no
root key because no namespace begins with "@". Induction over the pieces does without
an operator parameter: `NatSetInduction` is about a set of numbers, from the least
number outside of it (`WFMin`).

*Only model-checked.* Liveness (fairness and ENABLED are out of the prover's
reach): `CallsSettle`, `AbandonedIsReclaimable`, `LostInvocationsReclaimable`,
`RunsSettle`, `CallsEnd`, `MonitorEnds`. For `CallsSettle`, for `CallsEnd`, and for `MonitorEnds`
when `--timeout` is set, the bounds above are proved, and what is left is that the steps
they count are taken, as long as there are any.

What the schema renderers mean (`AvroMeansThePayload`, `ProtobufMeansThePayload`): the
renderers are recursive over the schema, as is what a schema says of a value. The prover
loses its arithmetic backend in a module with RECURSIVE operators, and a proof for every
schema would be by induction over schemas.

## 6. Not modelled

- Observations: `SafeObserver` swallows all errors of an observer.
- The ambient transaction scope (AsyncLocalStorage): that an orphaned handler
  cannot write through a closed scope is the adapter's to guarantee.
- Values of clocks. A lease expires at any time; `expiresAt` is never compared
  by the code modelled here.
- The text of a `.proto` file, and which error a renderer throws where: a failure is
  a failure. `event-schema-json` hands on what `z.toJSONSchema` returns. What zod makes
  of a schema is taken as it is; a contract starts as its JSON Schema.
- UUIDs: those of different keys are taken to differ, and the namespaces of intents,
  executions, attempts and events to be apart.
- Retry delays: `calculateRetryDelay` yields some milliseconds, and a retry may come at
  any time after its failure. What is counted in a rate-limit bucket is up to the
  limiter that the application supplies.
- What an agent does inside a fix flow of the CI monitor, and the wording of messages.
- Build and release scripts, domain contract types.
- A read without a cache plan, the validation of the cache plan, and the
  cancellation signal of the coordinator's `wait`, which the flight never passes.
- A promotion that writes an older value over a newer one: it can happen, since
  promotions run outside the flight or after a level that failed, and nothing in
  the repository claims that it cannot.
- Inside CachedRead a level is a value that may vanish; entries, capacity and expiry
  are in ReadCaches, and the two are not composed.

## 7. Findings

`runner_timeout`: `docs/execution-release-readiness.md:91` describes a per-attempt
timeout of "the handler/transaction work". `executeHandlerWithTimeout`
(`default-runner.ts:371`) races the timer against the handler alone; envelope
creation, `complete`, `append` and the commit are outside, so an adapter that
does not answer holds the attempt, timed or not.

`distributed_stale`: a comment says that after ownership is lost "the result is never
returned or published" (`packages/reader/src/lib/retry/execute-read-with-retry.ts:30`,
and `docs/architecture/README.md:442`). `synchronizeRenewal`
(`distributed-read-flight.ts:129`) waits for a renewal that was sent and asserts what
it reported. A lease that ran out before the renewal was sent, or while the
result is being written, is not noticed: the result is published, possibly over
the newer one of the next owner. `HealthyOwnersHold` shows that this needs
renewals that are more than half a lease late, or an owner id whose lease cannot be renewed (below).

Observations that no document of the repository contradicts outright, or whose
evidence is not a run:

- `buildRootIntentKey` sorts components with `localeCompare` and no locale
  (`packages/intent/src/lib/build-intent-key.ts:14`), so their order is that of the
  default locale of the process: names that begin with z and t change places under an
  Estonian one. Two processes with different locales then give one descriptor two
  intents, where `packages/intent/README.md:3` promises a deterministic identity. No two
  descriptors share a key for it (`IntentKeysSeparate` holds of any order).
- A lease cannot be renewed or released when `cjson.encode` and `JSON.stringify` write its
  owner id differently (`read-execution-coordinator-redis.ts:21` and `:215`; lua-cjson
  escapes "/" and DEL, `JSON.stringify` unpaired surrogates), which ids of the
  application's `readExecutionOwnerIdFactory` may have, such as `host/1`; the default
  UUIDs do not. The first renewal is answered `lost` although the lease is held, the read
  fails, and its release changes nothing, so that the key stays taken until the lease
  expires. When that renewal is sent while the result is being written, the lease expires
  under the write, another run publishes newer data, and the first write lands over it:
  prompt as every renewal is. `docs/read-release-readiness.md:73` has "Healthy ownership
  is renewed while owner work remains active". TLC shows it when `Renewable` is dropped
  from `HealthyOwnersHold`, or `Outlived` from `CacheNeverRegresses`, or
  `PublishesUnderLease` is asked of `PromptSpec`, in the instance of `distributed_prompt`.
- A failure class in capitals keeps the circuit breaker from ever tripping, before the
  first action too: the present class is put in lower case (`ci-poll-decide.mjs:96`) and
  compared (`:127`) with the last one as the orchestrator kept it (`SKILL.md:207`), so that
  every poll is progress, where `SKILL.md:276` has "progress = any change in cipeStatus,
  ... or failureClassification". The messages of the script write the classes in capitals
  themselves (`:312`, `:320`). `StopsWithoutProgressAtFirst` is therefore about classes in
  lower case; without that TLC refutes it by polling a `FLAKY_TASK` that never ends.
- The circuit breaker of the CI monitor works until the first action only. After
  it `last_cipe_url` or `expected_commit_sha` stays set and is passed at every poll
  (`SKILL.md:180`), so `isNewCipe()` stays true for the attempt it found and
  `noProgressCount` stays 0; `--timeout`, when it is set, is then the only limit. This is
  why the property is `StopsWithoutProgressAtFirst`; `StopsWithoutProgress`, which is
  what the message at `ci-poll-decide.mjs:302` says, TLC refutes. `SKILL.md:276` speaks of
  5 polls, the script of 13.
- `environment_rerun_cap` is out of reach: two reruns are two new attempts, and a new
  attempt resets the count.
- An answer that is no JSON is `error`, which neither `--timeout` nor the breaker ends;
  its cycle check stops at `--max-cycles`, resets the count of environment reruns and
  counts the last action before its attempt has been seen.
- A status that was absent and then has a value is no progress to the breaker.
- `THROTTLED` and environment failures are decided before the CI is asked whether it
  still runs.
- A Protobuf or Avro renderer rejects much that JSON Schema allows; nothing found is
  rendered with another meaning.

## 8. Plan

Done, in this order: the Runner over its port, its refinement and proofs; the
UseCaseExecutor and its proofs; their composition; the coordinator and the
distributed flight; the cached read in one process; the caches; the renderers of
event schemas; the CI monitor and its proofs; the proofs of the composed write side;
those of prompt renewals, of the caches and of the keys; the refinement of
UseCaseExecutor, its use in the composition, and the bounds on what calls, reads, runs
and the monitor do.

Not done:

1. **Read side composed**: the leaders of several CachedRead processes are the runs
   of DistributedRead, so that publication fills the local levels of one process
   and the others promote. Abstract specification: a key is read by one source
   execution per reason, for all callers of all processes.
2. **TransactionScope**: nesting of the ambient scope, and work that outlives it.
3. That DistributedRead implements an abstract specification. Its promise is stated
   over its own variables (`SourceExecutionsAreOwed`, `OneHolder`, `NoLostWakeup`); one that
   mentions neither leases nor disruptions comes with the first item.
