# Breakwater in TLA+

Breakwater is an LLM gateway: HTTP requests pass a chain of governance stages
(identity, model authorization, concurrency, rate limit, quota, cache) and are
relayed to one of several upstreams behind circuit breakers. This directory
specifies the parts whose correctness depends on concurrency, failure and time,
model-checks them with TLC and proves the main safety properties with TLAPS.

Run a check with `tlc -config X.cfg M`, a proof with `tlapm M.tla`;
`PROJECT.json` lists the runs, the source lines behind every definition, the
mutants that show each property can fail, the hazards and the theorems.

## 1. Inventory

| Component | State | Operations | Hard because | Correct when |
|---|---|---|---|---|
| Quota ledger, Redis (`quota/redis.go`, `*.lua`) | balance, debited, refunded, consumed, epoch per tenant; lease hash; sweep zset | SetBalance, EnsureBalance, Reserve, Settle, Cancel, SweepOnce | scripts are atomic, operations are not; many gateways; lost replies; records expire | no overdraft, one refund per lease, every lease converges, counters pair with the balance |
| Quota ledger, in process (`quota/memory.go`) | balances, leases under one mutex | the same | bounded walk under the lock | the same contract, records drain |
| Quota stage (`quota/middleware.go`) | one lease per request | reserve before, settle or cancel after | panics, disconnects, failed settlement | every exit path settles or leaves the lease to the sweeper |
| Sweeper (`quota/sweeper.go`) | none | one pass per tick | races late settles; aborted passes | never reclaims a running request |
| Reconciler (`quota/reconcile.go`, `pgsnapshot.go`) | snapshot table in PostgreSQL | snapshot, diff | reads a moving ledger; several processes | reports what went missing and nothing else |
| Circuit machine (`circuit/machine.go`) | position, openedAt, probe slot | allow, observe, enter, reclaim | permissions outlive positions | one probe per cooldown, only fresh evidence closes |
| Consecutive breaker (`circuit/breaker.go`) | failure count | Allow, Report, StateOf, Reset | late, lost and double reports | closed implies below the threshold |
| Slow-call breaker (`circuit/slow.go`) | ring of buckets | the same | lazy rolling ring | opens on the last window, on fresh evidence |
| Ratio breaker (`circuit/ratio.go`) | ring, lastPass | Allow, Report, Reset | denials feed the ratio that denies | denies on recent events, does not starve |
| Cache stage, singleflight (`cache/middleware.go`, `singleflight.go`) | one call per key | hit, miss, fetch, join, store | shared fetch outlives its starter; panics | one fetch at a time, complete replies only, no stuck waiter |
| Cache store, admission (`cache/memory.go`, `admission.go`) | entries, sketch | Get, Set, sweep, admit | capacity, expiry | bounded, expired entries never served |
| Relay and retry (`relay/`, `retry/`) | fallback plan, excluded credentials, stashed replies, timers; bulkhead and budget counters | attempt, exchange, stash, finish | timers race replies and the client; commit point; failover; panics | slots and permits come back, one response, the right failure is shown, the right party is blamed |
| Rate limiter (`limiter/memory.go`, `redis.go`, `*.lua`) | two token buckets per tenant | Allow, Refund, sweep | two backends; lazy refill; dropped buckets; lost replies | both are the same bucket, a waited-out Retry-After is honoured |
| Concurrency gate (`limiter/concurrency.go`) | in-flight count per tenant | Acquire, release | every exit path | exact |
| Router, switch (`router/`) | manual and automatic disables | SetUpstream, AutoDisable, AutoEnable, Candidates | operator, fatal hook and recovery interleave | no dead ring in rotation, manual disable wins |
| Recovery loop (`cmd/breakwater/recovery.go`) | passes, backoff ladder | probe, re-enable | stale counts, stretched waits | a healthy upstream returns |
| Credential ring (`upstream/credential.go`) | dead flags, cursor | pick, retire, alive, revive | lock-free, flag by flag | no dead credential served |
| Identity (`auth/`, `pipeline/auth*stage.go`) | keys, override documents, LRU of resolutions | Resolve, CreateKey, SetKeyStatus, limits | resolve outside the lock; concurrent issuance | bounded staleness, ceilings, layers only tighten |
| Logger (`obs/logger.go`) | drop-oldest ring | Record, drain, Flush, Close | sink failures | not modelled (section 8) |
| Protocols, insights, metrics, config, assembly, affinity, mock upstream | – | translation, SQL, formatting, wiring, hints | – | not modelled (section 8) |

Calls go down the chain; the gate wraps the rate limit, which wraps the quota
stage, the cache stage and the relay; the relay asks a breaker before every
exchange and reports after it, and tells the fatal hook which credential was
rejected. The sweeper, the reconciler and the recovery loop are timer
goroutines, one per gateway process; all processes share Redis and PostgreSQL.

## 2. Modules

| Module | Models | Kind |
|---|---|---|
| `QuotaContract` | the Ledger port: every operation one atomic step | abstract specification |
| `QuotaRedis` | Redis ledger + quota stage + sweepers | implements `QuotaContract` |
| `QuotaMemory` | in-process ledger + quota stage + sweeper | implements `QuotaContract` |
| `QuotaReconcile` | reconcilers and snapshot table on top of `QuotaRedis` | composition |
| `BreakerMachine` | the three positions, the probe slot, the callers | shared part |
| `Breaker` | consecutive-failure strategy on `BreakerMachine` | |
| `RollingWindow` | the bucket ring, next to a wall-clock reference | shared part |
| `SlowBreaker` | slow-call strategy on `BreakerMachine` and `RollingWindow` | composition |
| `RatioBreaker` | ratio strategy on `RollingWindow` | composition |
| `CacheStage` | cache stage, flight group and in-process store around one key | composition |
| `Relay` | relay executor, stream lease, attempt loop, retry budget, bulkhead, credentials | composition |
| `RoutingControl` | switch, rings, fatal hook, enable callback, recovery loop | composition |
| `TokenBuckets` | the Limiter port: buckets that are never dropped and refill all the time | abstract specification |
| `RateLimiter` | estimate, concurrency gate, rate-limit stage, both backends | implements `TokenBuckets` |
| `Identity` | identity database, its administration, key cache, the two stages that read it | composition |
| `MC*` | values and symmetry sets for TLC | |
| `QuotaRedisProofs` | theorems about `QuotaRedis` and `QuotaReconcile` | proofs |
| `BreakerProofs` | theorems about `BreakerMachine`, `Breaker`, `RollingWindow`, `SlowBreaker` and `RatioBreaker` | proofs |
| `QuotaMemoryProofs`, `CacheStageProofs`, `RelayProofs`, `RoutingControlProofs`, `RateLimiterProofs`, `IdentityProofs` | theorems about the module they are named after | proofs |

A definition whose comment begins with "Mutant" is a plausible bug of the
definition below it. It is used by no specification; it is there to show that
the property it belongs to can fail.

### How state and actions correspond to the code

*Quota, Redis.* `balance`, `debited`, `refunded`, `consumed`, `epoch` are the
tenant keys, `state`/`tenant`/`amount` the lease hash, `sweep` the zset and
`age` the distance to its score. `ReserveScript`, `SettleScript` and
`ReleaseScript` are the Lua files. A settlement is `Finish` (the deferred
function decides), `LookupLease` (HGET) and `Settle`/`Cancel`/`CancelGhost` (the
second round trip); a reclaim is `SweepScan`, `SweepLookup` and
`SweepRelease`/`SweepGhost`. `ReserveReplyLost` and `SweepReplyLost` are scripts
that ran and were not heard of; `Vanish` and `SweepFails` are commands that
never ran, or the death of the process. `PurgeRecord` is the PEXPIRE of the
audit window, which may strike at any time after the terminal transition.
`Unbounded` are the requests of gateways whose overall deadline or stream timeout
is zero: `requestBudget` then reports no bound, `loadQuota` accepts any positive
horizon, and nothing ends the request but its client and its upstream. The others
are over within `Ceiling`, which the horizon exceeds.
`credit` is a history variable: what was ever paid back for a lease.

*Quota, in process.* One action per method; `SweepOnce` is `SweepBegin`, one
`SweepVisit` per map entry in any order and `SweepEnd`, with the mutex held
(`locked`) in between. `bounded` is the configuration of the one process: with a
request budget, and then a horizon above it, or without.

*Reconciler.* Each GET of the pipeline is a step; `latest` is the newest row;
`AppendUnheard` is an INSERT that committed and whose reply was lost.
`torn` and `lost` are history variables that say whether the ledger moved under
the reads and how much really went missing (`LoseTokens`, an environment
action).

*Breakers.* A member of `Calls` is a Permission with the probe grant it may pin.
It reports at any later time, or never (`Abandon`). `Causes` are the ways an
exchange ends, `OutcomeOf` what the relay and the prober report for them. Times
are ages, saturated where no comparison tells them apart. `fresh`, `sinceProbe`,
`closedBy` and `heard` are history variables. The operations of the slow-call
breaker are named `SlowAllow`, `SlowReport` and so on, those of the ratio
breaker `RatioReport`, `RatioReset` and so on, so that one module can reason
about all three strategies.

*Rolling window.* `lag` is now - lastWrite. `recent` is a reference window kept
by the clock without a ring; `TrueCount` reads it, `Count` reads the ring. Both
are the sum of a counter over some buckets, written as the number of pairs of a
bucket and the number of a completion in it (`Tally`).

*Cache.* `flight` is the registered call, `joined` the call a waiter holds,
`closed` the closed done channels. `Publish` and `Release` are two steps: the
key is free before the channel closes, and `Store` comes after both. The store
is the key's entry (`stored`, which may be `stale` and still resident) and the
number of entries of other keys (`rivals`); `Set` sweeps, updates, takes free
room or meets the admission gate, whose estimate is a choice.

*Relay.* A request is one `requestRun`. `BeginAttempt` is the top of the attempt
loop with the budget and `target`/`advance` (`cands`, `start`, `reached`,
`tried` are the plan); `TakeSlot`, `Granted`, `Forward` and the replies are the
exchange; `Report` is the tail of `attempt` with the lookahead that keeps or
strips a Retry-After; `LoopEnds`, `Backoff`, `SleepEnds` and `BudgetExhausted`
are the loop; `Finish` is the precedence of the final answer. The timers of the
stream lease are flags (`fired`) that `TimerFires` sets while the read they
cancel is still running, so that reply, timer and client race. Which upstreams
read as open at a routing decision is a choice, as is what the breaker says to
`Allow`. `terminal` and `failed` hold the number of the attempt that was
stashed; `cause`, `written` and `result` are history variables.

*Routing control.* `manual` and `auto` are the two disable channels of the
switch, `dead` the flags of the rings. The hook is `Fatal` (one atomic swap),
`Count` per flag and `AutoDisable`; the enable callback is `Revive` per flag,
after the lock of the switch is gone. The recovery loop is `Tick`, then `Skip`
or `BeginProbe`, the probe's end, `AutoEnable` and `RecoveryRevives`; `book` is
its probeBook with the wait in intervals, `rung` being the last wait it
scheduled (doubled by every failure up to the cap). A wait ends within the interval that
follows it or the one before: the clock of the tick decides. `raced` is a
history variable.

*Rate limiter.* A bucket is its units when last touched and the time since
(`age`). One token is `Minute` units and a bucket of capacity c gains c units a
tick, so there are no fractions. `Level` is the lazy refill, `Swept` the sweep
that Memory runs inside Allow, expiry in Redis is part of `Tick`. `Unreachable`
and `RefundLost` are calls whose reply, or which themselves, are lost. `calm` is
a history variable: nobody else spent since the refusal. The abstract buckets
keep the set of reservations that are still to be settled (`owed`), which the
requests being served are mapped to (`Reserved`).

*Identity.* One user with all his keys. `CreateKey` is a transaction of two
steps under the row lock; `Miss`, `Query` and `Store` are a resolution outside
the cache lock; `left` is the time an entry stays fresh; `order` is the LRU
list. `settled` is a history variable: the time since the record of a key
changed.

## 3. What the runs check

| Run | Question | Result |
|---|---|---|
| `quota_redis` | money, leases, convergence and the contract, with a request that has a time budget and one that has none, a sweeper, a correction, lost replies, deaths, expiring records | holds |
| `quota_memory` | the same contract for the in-process ledger, with and without a request budget; every record drains although each pass leaves records unvisited | holds |
| `quota_reconcile` | two reconcilers on one table report exactly the loss when no read was torn | holds |
| `breaker` | threshold, fresh-probe recovery, probe spacing, slot never leaks | holds |
| `slow_breaker` | opens exactly on the last window, on fresh evidence; the ring never counts stale completions | holds |
| `ratio_breaker` | denies on recent events; no starvation once a saturated guard has admitted a call | holds |
| `cache_stage` | one fetch per key at a time, complete replays, bounded store, waiters released | holds |
| `relay` | bulkhead and budget exact on every exit, permits reported, one response, fresh passthrough, neutral cuts, waits stay with the upstream that asked | holds |
| `control` | no dead ring stays in rotation, concurrent fatal reports convict only a dead ring, a healthy upstream returns | holds |
| `limiter` | gate exact and within its ceiling, Retry-After honoured, both backends are buckets that are never dropped | holds |
| `limiter_wait` | a request that fits its tier is told the wait after which the buckets afford it | violated |
| `identity` | changes surface within the cache time and one resolution, issuance respects the ceiling, layers only tighten, the list and the map of the key cache stay in step | holds |

### The disagreement with a run

`tokenbucket.lua:60` and `:63` divide by the capacity per millisecond and then
multiply by 1000: the quotient already is milliseconds. A client that Redis
refuses is told to wait a thousand times too long. Nobody is served too early
(`RetryHonoured` holds), and the in-process bucket computes the real wait. In the
run an empty bucket refuses a request its tier can pay for: two ticks refill it,
and the client is told the longest wait of the model (`MaxWait`).

### Seen while modelling, without a run

* *The unbounded request* (`config/env.go:344`): `loadQuota` compares the reclaim
  horizon with the request budget only when there is one. When the overall
  deadline or the stream timeout is zero, any positive horizon is accepted, and
  the default of 24 hours bounds the horizon, not the request. The sweeper then
  refunds a lease whose request is still consuming, and the settle that follows is
  a no-op, so the tokens are given away. `env.go:340` says that "a lease may only be
  reclaimed once the request holding it can no longer spend tokens" and
  `config.go:318` that Load rejects what does not cover the longest request, while
  `quota.go:79` expects such streams. `quota_redis` reaches this state. What holds is
  `NoLiveExpiry`: a request that has a budget keeps its lease, next to requests that
  have none. The money, index and contract properties hold for both kinds.
* *Torn snapshots* (`quota/redis.go:259`): five GETs in a plain pipeline. A reserve
  between two of them makes a healthy ledger read as drifted, against
  `reconcile.go:12-15`. Between snapshots that were not torn the reconciler is
  exact (`DriftExact`).
* *A disconnect closes the breaker* (`exchange.go:341`, `:214`, `prober.go:48`):
  a client that leaves before the upstream answered is a client fault, which
  half-open takes for a healthy answer, against `circuit.go:72`.
* *The ring falls behind* (`ratio.go:259`, `slow.go:187`): after an idle time
  longer than the window the cursor moves one window only, and so does
  `lastWrite`. Until it has caught up, every record wipes the previous ones,
  against `ratio.go:249-252`. This is why `OpensOnTheWindow` is stated for
  windows without such an overrun; `NeverStale` and `FreshEvidence` hold
  regardless.
* *Empty successes* (`cache/middleware.go:173`) are stored for the full time,
  because the positive case comes first, against the comment above it.
* *A second fetch*: a request that missed before the entry was stored and asks
  for the flight after the key was released fetches again (`docs/TESTING.md:42`
  expects one fetch).
* *Forced pass*: it does not apply while no call was ever stamped
  (`ratio.go:157`), which is why `NoStarvation` speaks of guards that have
  admitted a call.
* *Retry-After and credentials* (`executor.go:496`): the prediction compares
  numbers of credentials before other requests retire or revive any, so a wait
  may reach another credential of the same upstream. It never reaches another
  upstream (`HintStaysWithUpstream`).
* *Backoff*: `loop.go:48-51` says only a zero BackoffMax makes the delay zero;
  `backoffCeiling` calls zero uncapped.
* *An enable can be undone*: a hook that counted the ring before an operator
  revived it disables the upstream afterwards. The recovery loop brings it back
  if it has a probe. `OnlyTheLastDeathDisables` therefore exempts hooks that a
  revival overlapped.
* *Stale passes* (`recovery.go:152`): passes counted before an operator toggled
  an upstream still count in the next disable episode.
* *Cursor* (`credential.go:81`): two concurrent picks can get one credential. It
  only spreads load; the model lets a pick choose any living credential.
* *Raised limits*: a bucket that Memory created while the limit was zero starts
  empty when the limit becomes positive (`limiter/memory.go:147`), and a refund computed
  under a smaller tier lowers a bucket (`limiter/memory.go:15` says refunds only raise).
  The model fixes the tier of a tenant.
* *Key ceiling*: SetKeyStatus re-enables keys without asking for the ceiling
  (`auth/admin.go:30`); `IssuanceBounded` counts issued keys only.
* *Key cache*: a slow positive resolution overwrites a newer refusal, so a
  revocation surfaces after the cache time plus one resolution, not after the
  cache time.
* *Admission sketch*: the doorkeeper masks with `10 * width - 1`, which is not
  all ones (`admission.go:79`, `:233`).

## 4. Bounds

* `quota_redis`: one tenant, two leases, balance 4 or 0 and amount 2, so that two
  leases fit, or one, or none; use 1 or 3, below and above the amount; one
  request with a budget and one without; horizon 2 > ceiling 1, so that the
  unbounded request is reclaimed while it is served; batch 1 < 2 due leases; one correction (`MaxEpoch`). All races
  of this ledger involve one lease and two actors, or two leases and one
  balance. Tenants share no key. The proofs do not depend on these numbers.
* `quota_memory`: the same numbers, both configurations. A pass examines one record
  (`ScanBatch`), so with two records each pass leaves one unvisited. The limit on
  reclaims is then never the smaller one; a third lease, which would tell the two
  limits apart, exceeds the time of a run. The theorems hold for every batch size.
* `quota_reconcile`: one lease, two reconcilers, one correction, one lost token
  (`MaxLoss`); no sweeper, since a reclaim moves the same keys as a cancel.
  Reconcilers are symmetric.
* `breaker`: three calls, one more than a probe and a stale report need;
  threshold 2, cooldown 2, probe timeout 1.
* `slow_breaker`, `ratio_breaker`: two buckets of one tick, two completions of a
  kind per bucket (`MaxCount`), idle time up to more than two windows
  (`MaxLag`).
* `cache_stage`: three requests: holder, waiter and a third that arrives in the
  gap. One key and up to two resident entries, so that the store is full with
  and without the key.
* `relay`: one buffered and one streaming request, each up to three attempts: a
  retry on the same upstream, a rotation to its other credential and a failover
  fit. The primary model has one upstream with two credentials, the chain names
  the primary again (skipped) and a fallback. Bulkhead 1 and budget 1 make the
  two requests collide on both. The two credentials are symmetric.
* `control`: two workers (a hook that overlaps another), a probed upstream with
  two credentials and one with neither ring nor probe, two passes, a ladder of
  one and two intervals. Book and waits saturate, nothing is cut.
* `limiter`: two requests; one tenant with every ceiling, one with tokens only
  and no gate; a minute of two ticks; an ask that overflows the integer
  (`WideMax` 7 stands for the largest int64). Waits saturate at `MaxWait`, by
  when every bucket is full.
* `identity`: two keys, two requests, two issuances, a cache of one entry (so
  that it evicts), ceiling 1, cache times 2 and 1, a resolution of one tick.

`MaxEpoch`, `MaxLoss`, `MaxLag` and `MaxCount` are the only bounds that cut
behaviours; they appear as guards. No run turns deadlock checking off; in
`Relay`, whose requests are not reused, all being done is a stuttering step.

## 5. Fairness

* `QuotaRedis!FairSpec`: time passes; a deadline ends every request that has one
  (`requestBudget`), and nothing is assumed of the others; the sweeper's ticker keeps firing and, since its commands
  may fail any number of times but Redis comes back, each command succeeds in the
  end (strong fairness). Nothing is assumed of requests that are over, of
  settlements or of provisioning.
* `QuotaMemory!FairSpec`: the same, and strong fairness of visiting an entry,
  which stands for Go's random map iteration order (`quota/memory.go:184-190` calls
  the coverage probabilistic).
* `Breaker!FairSpec`: time passes and somebody keeps reading the machine: the
  router reads it for every request, the recovery loop on a timer. No report is
  assumed.
* `CacheStage!FairSpec`: the fetch budget ends every fetch; goroutines go on.
  Nothing is assumed of the waiter's own timeout.
* `RoutingControl!Spec`: the recovery loop's ticker keeps firing and a probe ends
  with its timeout; a running hook and a running callback go on. Requests, the
  operator and the health of upstreams owe nothing.

`Relay`, `RateLimiter` and `Identity` are checked for safety only.

## 6. What is proved

For every value of the constants that satisfies the named assumptions
(`QuotaAssumption`, `HorizonAssumption`, `ReconcileAssumption`,
`MemoryAssumption`, `MachineAssumption`, `ThresholdAssumption`,
`WindowAssumption`, `SlowAssumption`, `RatioAssumption`, `CacheAssumption`, `RelayAssumption`,
`ControlAssumption`, `LimiterAssumption`, `IdentityAssumption`): any number of
requests, workers, tenants and gateways, any ceilings and any times. TLC evaluates
the assumptions in the runs, so each of them is satisfiable.

*Redis ledger* (`QuotaRedisProofs`). The inductive invariant `IInv` is the type
invariant, the safety invariants (`NoOverdraft`, `RefundedOnce`,
`SweepIndexExact`, `CreditsProvisioned`, `NoLiveExpiry`) and two auxiliary
parts. `RequestInv` ties a request's phase to its lease: a request that is idle
or refused owns nothing, one that serves and has a budget holds a live lease within its ceiling,
one that settles has decided its consumption. It is needed because `RefundedOnce`
speaks of `used`, which the stage writes long before the script reads it.
`SweeperInv` says that everything in a sweeper's page was due when it was
scanned: the sweeper acts on a page it read earlier, and `NoLiveExpiry` only
survives because age never falls and the horizon exceeds the ceiling of every
request that has one. From
`IInv` follow the invariants, the action properties (`TerminalForGood`,
`BalanceIdentity`) and the refinement: each script maps to one contract step,
every other action to a stutter.

*Reconcilers* (`QuotaRedisProofs`, theorem `DriftIsExact`). A diff compares two
snapshots that different processes took at different times, so `DriftExact` says
nothing inductive by itself. `RInv` adds to `IInv` what every snapshot anywhere
(in the table, fetched or half read) is worth: an undisturbed one has the total
the ledger still has if its epoch is current (`FilesTrue`), two undisturbed ones
of one epoch agree whatever happened since (`FilesAgree`), what an undisturbed
reader has read so far is still there (`PartsTrue`), and the table has one newest
row per tenant (`OneRow`). `PairedMoves`, the lemma behind `BalanceIdentity`,
carries it over every step of the ledger.

*In-process ledger* (`QuotaMemoryProofs`). `MemoryInv` is types, `Live` (a request
that is idle owns no record; with a request budget, one that is served has a live
record within the ceiling) and `Walk` (a pass only visits records that exist). With
a budget, a served request's lease is not reclaimed because the TTL then outlasts
the ceiling; with or without one, every step maps to
one step of the same contract or to none: the deferred settlement of a lease the
sweep closed first is a stutter.

*Breakers* (`BreakerProofs`). The machine's invariant (`SlotHasHolder` and
`ProbeInv`: the outstanding probe is fresh and younger than the time since the
last probe) is proved once for the shared actions; each strategy then shows that
its own Next consists of those actions. From it follow recovery by a fresh probe,
for both strategies, and probe spacing.

*The ring* (`BreakerProofs`). A read may never count a completion that has left
the window, in spite of a ring that only rolls when written, and then by at most
its own size. `RingInv` is types, `Dominated` and `Aligned`. `Dominated` says
that for every age a the ring holds no more completions of age up to a than the
clock does. Agreement bucket by bucket would be simpler and is not invariant:
after an idle time longer than the window the ring's clock stays behind and takes
the completions it records for older than they are. `Aligned` is that agreement,
for as long as no such idle time was met; it makes `Count` equal to `TrueCount`.
The lemmas say what a quotient is and when it grows (`Quotient`, `QuotientNext`),
that going round the ring meets every slot once (`Around`), that a roll keeps the
age of what it does not reset (`RollAges`), and that a read covers exactly the
buckets younger than the window (`LiveIsYoung`). `FreshEvidence` needs `HeardOf`
in addition: below MinSamples the ring holds no more than was reported since the
machine last closed. Sums are cardinalities of `Tally` sets, so that the library's
theorems about injections and subsets take the place of an induction.

*Ratio breaker* (`BreakerProofs`). `DeniesOnRecentEvents` follows from `Dominated`
and from the weight of an accept never being negative (`WeightIsNat`: no more
failing buckets than the window has). `NoStarvation` needs `Starving`: while calls
are denied, the time since the first denial is at most the time since the last
stamped admission.

*Cache stage* (`CacheStageProofs`). `FlightIsTheFetch` and `ReplaysComplete`
need `FlightInv`: a result is set before it is published and before the channel
closes, only what may be shared is on its way into the store, and only a waiter
has joined a flight. Without it a waiter could be released into a flight that
has nothing to show.

*Relay* (`RelayProofs`). Most of what a step of one request can break concerns
that request alone. `Local(r)` collects it: permits are in the hands of an attempt
that will report (`Reported`), what was written fits the phase (`Answered`), the
stashed reply is the last attempt's (`LastReply`), a cut after good headers has a
neutral outcome (`Neutral`), and a wait that an upstream asked for outlives the
lookahead only if nothing can move the next attempt to another one (`Hinted`,
`Foreseen`; lemma `AdvanceKeeps` says that the later rotation then computes the
candidate the lookahead saw). The `...Frame` lemmas show that
a step leaves every other request alone, the `...Local` ones that it keeps its own.
`ResourcesExact` relates shared counters to all requests: the sets of requests in
flight and of retries gain or lose one element exactly when the counter moves.

*Routing control* (`RoutingControlProofs`). `NoDeadRotation` depends on where
three kinds of process are in the middle of their work: what a hook has counted is
still dead unless a revival raced it (`Working`), a revival goes over the flags in
order (`Reviving`), and passes reach the threshold only while the recovery loop is
about to lift the disable (`Recovering`). `Rotation` is the property itself: a
dead ring in rotation has somebody who is about to take it out or revive it.

*Rate limiter and gate* (`RateLimiterProofs`). `IInv` is types, `GateInv` (the
counter is the cardinality of the holders and within the ceiling) and `Promised`: for a client that
waits, the level plus what the rest of the wait refills covers its price, unless
somebody else spent meanwhile. The lemmas say that a bucket idle for the horizon is
full, so that the sweep and the expiry change no level, that one tick of the clock
is one refill, and that a wait rounded up covers the deficit in seconds and in the
script's milliseconds. With them each step is shown to be one step of
`TokenBuckets` or none.

*Identity* (`IdentityProofs`). `LayersOnlyTighten` holds of every document.
`CeilingInv` says what the row lock is for: while an issuance is between its
count and its insert there is no other, and there is room. `CacheInv` is types,
`CacheInStep` (list and map hold the same fresh keys) and `StaleIsYoung`: an answer
that differs from the record was resolved before the record changed, be it in
the cache or still with a worker, and has no more than the rest of its time.

Only model-checked: liveness (`LeasesConverge`, `RecordsDrain`, `SlotFreed`,
`WaitersReleased`, `HealthyReturns`), which needs fairness, out of the prover's
reach.

## 7. Assumptions about the outside

Redis runs a script, or a MULTI block, atomically and does not lose
acknowledged writes; the client sends every command once (`MaxRetries` -1,
`governance.go:143`); lease identifiers are unique; gateway clocks agree to
within the headroom of the horizon (one clock in the model) and never run
backwards; no request outlives the `requestBudget` it has; PostgreSQL returns the newest
row and serializes holders of a row lock.

## 8. Not modelled, and why

* Wire protocols, insights, metrics, configuration parsing and assembly:
  stateless translation, formatting, SQL or wiring. The mock upstream is a test
  double, the no-op breaker keeps no state.
* The latency tracker and the order it gives candidates, and session affinity:
  heuristics that reorder a list. The relay is correct for any order.
* The estimates of the admission sketch and the cache key digest: a choice and
  one key in `CacheStage`.
* The logger: a drop-oldest ring off the request path.
* Server shutdown, user creation and the static key store, which is read once.
* How long a backoff lasts, the truncation of waits to nanoseconds and the
  saturation of very long durations. Numbers beyond 2^53 in Lua are outside the
  small integers of the models.
* A tenant whose tier changes while his buckets live (see section 3).

## 9. Plan

Done: contract, both ledgers, reconciler, circuit machine and its three
strategies, cache stage with its store, relay and retry, routing control, both
limiters against their abstract bucket, identity; proofs of every safety invariant
and action property of these, and of the three refinements.

Next, in this order:

1. Tiers that change under live buckets.
2. The logger and server shutdown.
