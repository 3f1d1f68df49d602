---------------------------- MODULE RateLimiter ----------------------------
(***************************************************************************)
(* The concurrency gate and the rate-limit stage of one gateway with either*)
(* bucket backend behind it: internal/limiter, the estimate of             *)
(* internal/pipeline/estimate.go and the settlement of                     *)
(* internal/server/inference.go.                                           *)
(*                                                                         *)
(* The clock is relative: a bucket knows its age (seconds since it was last*)
(* touched, up to Horizon), the sweep how far away it is. Units and ticks  *)
(* are those of TokenBuckets, which both backends are shown to implement.  *)
(* A tenant's tier is fixed; a request that was told to come back keeps its*)
(* reservation size and may return once its Retry-After has passed.        *)
(***************************************************************************)
EXTENDS Integers, FiniteSets, FiniteSetsExt

CONSTANTS Requests,      \* request slots, reused
          Tenants,
          Tier,          \* [Tenants -> [rpm, tpm, concurrency, maxTokens]]
          Minute,        \* ticks per minute
          Prompts,       \* prompt sizes a request may have
          Asks,          \* declared max_tokens, zero when absent
          DefaultReserve,
          WideMax        \* the largest int64

ASSUME LimiterAssumption ==
    /\ IsFiniteSet(Requests) /\ Tenants # {}
    /\ Minute \in Nat \ {0} /\ WideMax \in Nat
    /\ \A t \in Tenants :
        /\ {Tier[t].rpm, Tier[t].tpm, Tier[t].concurrency} \subseteq 0 .. WideMax
        /\ Tier[t].maxTokens \in Int
    /\ DefaultReserve \in 0 .. WideMax
    /\ Prompts \subseteq 1 .. WideMax
    /\ Asks \subseteq 0 .. WideMax

VARIABLES backend,   \* "memory" or "redis", fixed when the process starts
          bucket,    \* tenant -> dimension -> stored bucket or Absent
          sweepIn,   \* ticks until Memory may sweep again, zero: due
          inFlight,  \* slots taken per tenant
          req        \* what each request is doing

vars == <<backend, bucket, sweepIn, inFlight, req>>

Dims == {"rpm", "tpm"}
Absent == [tokens |-> -1, age |-> 0]
Capacity == [t \in Tenants |-> [d \in Dims |-> Tier[t][d]]]
Full(t, d) == Capacity[t][d] * Minute

(* Mutant: a horizon shorter than a refill.                                *)
ShortHorizon == Minute - 1

(* bucketIdleTTL: twice the time an empty bucket needs to fill.            *)
Horizon == 2 * Minute
Millis == 1000

(* A client that was told to wait longer than this comes back after it: by *)
(* then every bucket is full again.                                        *)
MaxWait == Horizon + 1

Idle == [pc |-> "idle", tenant |-> CHOOSE t \in Tenants : TRUE,
         prompt |-> 0, tokens |-> 0, consumed |-> 0, wait |-> 0, calm |-> FALSE]

TypeOK ==
    /\ backend \in {"memory", "redis"}
    /\ bucket \in [Tenants -> [Dims -> [tokens : -1 .. WideMax * Minute,
                                        age : 0 .. Horizon]]]
    /\ sweepIn \in 0 .. Horizon
    /\ inFlight \in [Tenants -> 0 .. Cardinality(Requests)]
    /\ \A r \in Requests :
         /\ req[r].pc \in {"idle", "gate", "allow", "serving", "refund",
                           "release", "refused", "waiting"}
         /\ req[r].tenant \in Tenants
         /\ req[r].tokens \in 0 .. WideMax
         /\ req[r].wait \in 0 .. MaxWait

Init ==
    /\ backend \in {"memory", "redis"}
    /\ bucket = [t \in Tenants |-> [d \in Dims |-> Absent]]
    /\ sweepIn = 0
    /\ inFlight = [t \in Tenants |-> 0]
    /\ req = [r \in Requests |-> Idle]

----------------------------------------------------------------------------
(* The estimate: prompt plus the declared or default completion, clamped   *)
(* by the tier, saturating at the width of the integer.                    *)

CompletionEstimate(ask, maxRequestTokens) ==
    LET completion == IF ask > 0 THEN ask ELSE DefaultReserve
    IN  IF maxRequestTokens >= 1 /\ completion > maxRequestTokens
        THEN maxRequestTokens ELSE completion

AddSaturating(a, b) == IF a + b > WideMax THEN WideMax ELSE a + b

ReserveTokens(prompt, ask, maxRequestTokens) ==
    AddSaturating(prompt, CompletionEstimate(ask, maxRequestTokens))

(* The consumption the handler may leave on the carrier: nothing when the  *)
(* exchange failed, the request was refused further down, a cache answered *)
(* or a stage panicked; the reported usage; the prompt and the streamed    *)
(* bytes; or the reservation itself.                                       *)
Consumptions(r) ==
    {0} \cup Asks \cup {req[r].prompt, req[r].prompt + 1} \cup {req[r].tokens}

----------------------------------------------------------------------------
(* The buckets.                                                            *)

(* What a bucket holds once it is refilled to now; a missing one is full.  *)
Level(t, d) ==
    LET b == bucket[t][d]
    IN  IF b = Absent THEN Full(t, d)
        ELSE IF Capacity[t][d] > 0
             THEN Min({Full(t, d), b.tokens + b.age * Capacity[t][d]})
             ELSE b.tokens

(* refillOne and the script's refill: the tenant's buckets brought to now. *)
(* Memory keeps a bucket for a dimension without a ceiling, Redis does not.*)
Refilled(t, dims) ==
    [d \in Dims |->
        IF d \in dims /\ (backend = "memory" \/ Capacity[t][d] > 0)
        THEN [tokens |-> Level(t, d), age |-> 0]
        ELSE bucket[t][d]]

(* Memory's sweep, run by Allow at most once per horizon.                  *)
IdleOut(b) == b # Absent /\ b.age >= Horizon

Swept ==
    IF backend = "memory" /\ sweepIn = 0
    THEN [t \in Tenants |-> [d \in Dims |->
             IF IdleOut(bucket[t][d]) THEN Absent ELSE bucket[t][d]]]
    ELSE bucket

SweepArmed == IF backend = "memory" /\ sweepIn = 0 THEN Horizon ELSE sweepIn

Price(n) == [rpm |-> Minute, tpm |-> n * Minute]
Short(t, n) == {d \in Dims : Capacity[t][d] > 0 /\ Level(t, d) < Price(n)[d]}
Affords(t, n) == Short(t, n) = {}

(* The buckets after Allow: the sweep, the refill, and the price of an     *)
(* admitted request taken out of every limited dimension.                  *)
Touched(t) == [Swept EXCEPT ![t] = Refilled(t, Dims)]
Paid(t, n) ==
    [d \in Dims |->
        IF Capacity[t][d] > 0 THEN [tokens |-> Level(t, d) - Price(n)[d], age |-> 0]
        ELSE Touched(t)[t][d]]
Deducted(t, n) == [Touched(t) EXCEPT ![t] = Paid(t, n)]

(* The buckets after Refund. Memory refills the pair, Redis only the       *)
(* bucket it pays into.                                                    *)
Refunded(t, n) ==
    LET now == Refilled(t, IF backend = "memory" THEN Dims ELSE {"tpm"})
    IN  [bucket EXCEPT ![t] = [now EXCEPT !.tpm.tokens =
            Min({Full(t, "tpm"), @ + n * Minute})]]

----------------------------------------------------------------------------
(* The advertised wait.                                                    *)

CeilDiv(a, b) == (a + b - 1) \div b

(* Mutant: the wait truncated to whole seconds.                            *)
TruncatedSeconds(num, den) == Max({1, num \div den})

(* Whole seconds, rounded up, of a wait given in fractions of a second.    *)
RetryAfterSeconds(num, den) == Max({1, CeilDiv(num, den)})

(* deficitWait: deficit / (capacity / 60) seconds.                         *)
MemoryWait(deficit, cap) == RetryAfterSeconds(deficit, cap)

(* The script: deficit / (capacity / 60000) * 1000, rounded up and read as *)
(* milliseconds by the caller.                                             *)
ScriptMillis(deficit, cap) == CeilDiv(deficit * Millis * Millis, cap)
RedisWait(deficit, cap) == RetryAfterSeconds(ScriptMillis(deficit, cap), Millis)

(* What a dimension that is short asks for, and the longest of them.       *)
WaitFor(t, n, d) ==
    LET deficit == Price(n)[d] - Level(t, d)
    IN  IF backend = "memory" THEN MemoryWait(deficit, Capacity[t][d])
        ELSE RedisWait(deficit, Capacity[t][d])

Advertised(t, n) == Max({WaitFor(t, n, d) : d \in Short(t, n)})

(* The full buckets of the tenant pay for n tokens. A larger request never *)
(* fits, however long it waits.                                            *)
Fits(t, n) == \A d \in Dims : Capacity[t][d] > 0 => Price(n)[d] <= Full(t, d)

(* The seconds after which the most deficient bucket affords a request     *)
(* that fits.                                                              *)
RealWait(t, n) ==
    Max({ CeilDiv(Price(n)[d] - Level(t, d), Capacity[t][d]) : d \in Short(t, n) })

----------------------------------------------------------------------------
(* The stages.                                                             *)

Step(r, pc) == req' = [req EXCEPT ![r].pc = pc]

(* A request arrives authenticated, or a refused one returns.              *)
Arrive(r) ==
    /\ req[r].pc = "idle"
    /\ \E t \in Tenants, p \in Prompts, a \in Asks :
         req' = [req EXCEPT ![r] = [Idle EXCEPT
                    !.pc = "gate", !.tenant = t, !.prompt = p,
                    !.tokens = ReserveTokens(p, a, Tier[t].maxTokens)]]
    /\ UNCHANGED <<backend, bucket, sweepIn, inFlight>>

Return(r) ==
    /\ req[r].pc = "waiting"
    /\ req[r].wait = 0
    /\ Step(r, "gate")
    /\ UNCHANGED <<backend, bucket, sweepIn, inFlight>>

GiveUp(r) ==
    /\ req[r].pc = "waiting"
    /\ req' = [req EXCEPT ![r] = Idle]
    /\ UNCHANGED <<backend, bucket, sweepIn, inFlight>>

(* Concurrency.Acquire: a ceiling of zero admits without counting.         *)
Counted(t) == Tier[t].concurrency > 0

Acquire(r) ==
    LET t == req[r].tenant
    IN  /\ req[r].pc = "gate"
        /\ Counted(t) => inFlight[t] < Tier[t].concurrency
        /\ inFlight' = IF Counted(t) THEN [inFlight EXCEPT ![t] = @ + 1] ELSE inFlight
        /\ Step(r, "allow")
        /\ UNCHANGED <<backend, bucket, sweepIn>>

(* 429 concurrency_limit_exceeded: nothing was taken.                      *)
GateFull(r) ==
    LET t == req[r].tenant
    IN  /\ req[r].pc = "gate"
        /\ Counted(t)
        /\ inFlight[t] >= Tier[t].concurrency
        /\ req' = [req EXCEPT ![r] = Idle]
        /\ UNCHANGED <<backend, bucket, sweepIn, inFlight>>

(* Spending from a tenant's buckets breaks what its waiting clients were   *)
(* told.                                                                   *)
Spent(r, next) ==
    [q \in Requests |->
        IF q = r THEN next
        ELSE IF req[q].tenant = req[r].tenant THEN [req[q] EXCEPT !.calm = FALSE]
        ELSE req[q]]

(* Allow admits: both buckets pay.                                         *)
Allowed(r) ==
    LET t == req[r].tenant
        n == req[r].tokens
    IN  /\ req[r].pc = "allow"
        /\ Affords(t, n)
        /\ bucket' = Deducted(t, n)
        /\ sweepIn' = SweepArmed
        /\ req' = Spent(r, [req[r] EXCEPT !.pc = "serving", !.calm = FALSE])
        /\ UNCHANGED <<backend, inFlight>>

(* Allow rejects: the refill stays, nothing is paid, and the client learns *)
(* when to return.                                                         *)
Rejected(r) ==
    LET t == req[r].tenant
        n == req[r].tokens
    IN  /\ req[r].pc = "allow"
        /\ ~Affords(t, n)
        /\ bucket' = Touched(t)
        /\ sweepIn' = SweepArmed
        /\ req' = [req EXCEPT ![r].pc = "refused", ![r].calm = TRUE,
                              ![r].wait = Min({MaxWait, Advertised(t, n)})]
        /\ UNCHANGED <<backend, inFlight>>

(* The backend is out of reach: 503, fail closed. The script may have run. *)
Unreachable(r) ==
    LET t == req[r].tenant
        n == req[r].tokens
    IN  /\ req[r].pc = "allow"
        /\ backend = "redis"
        /\ bucket' \in {bucket, IF Affords(t, n) THEN Deducted(t, n) ELSE Touched(t)}
        /\ req' = IF bucket' = bucket
                  THEN [req EXCEPT ![r].pc = "release"]
                  ELSE Spent(r, [req[r] EXCEPT !.pc = "release"])
        /\ UNCHANGED <<backend, sweepIn, inFlight>>

(* The rest of the chain returns or panics; the deferred calls follow.     *)
Serve(r) ==
    /\ req[r].pc = "serving"
    /\ \E c \in Consumptions(r) :
         req' = [req EXCEPT ![r].pc = "refund", ![r].consumed = c]
    /\ UNCHANGED <<backend, bucket, sweepIn, inFlight>>

(* The deferred correction: only what was reserved and not consumed.       *)
Unconsumed(r) == req[r].tokens - req[r].consumed

Refund(r) ==
    LET t == req[r].tenant
    IN  /\ req[r].pc = "refund"
        /\ bucket' = IF Unconsumed(r) > 0 /\ Capacity[t]["tpm"] > 0
                     THEN Refunded(t, Unconsumed(r)) ELSE bucket
        /\ Step(r, "release")
        /\ UNCHANGED <<backend, sweepIn, inFlight>>

(* A client already gone cancelled the context, or Redis did not answer:   *)
(* the refund is lost. Memory takes no context.                            *)
RefundLost(r) ==
    /\ req[r].pc = "refund"
    /\ backend = "redis"
    /\ Step(r, "release")
    /\ UNCHANGED <<backend, bucket, sweepIn, inFlight>>

(* The deferred release of the gate, run on every way out.                 *)
Freed(t) == IF Counted(t) THEN [inFlight EXCEPT ![t] = @ - 1] ELSE inFlight

Release(r) ==
    /\ req[r].pc = "release"
    /\ inFlight' = Freed(req[r].tenant)
    /\ req' = [req EXCEPT ![r] = Idle]
    /\ UNCHANGED <<backend, bucket, sweepIn>>

(* Mutant: only a request that was let through returns its slot.           *)
RefusedKeepsSlot(r) ==
    /\ req[r].pc = "refused"
    /\ Step(r, "waiting")
    /\ UNCHANGED <<backend, bucket, sweepIn, inFlight>>

ReleaseRefused(r) ==
    /\ req[r].pc = "refused"
    /\ inFlight' = Freed(req[r].tenant)
    /\ Step(r, "waiting")
    /\ UNCHANGED <<backend, bucket, sweepIn>>

(* A second passes. Redis drops a key the moment its horizon is over.      *)
Aged(b) == IF b = Absent THEN b ELSE [b EXCEPT !.age = Min({Horizon, @ + 1})]

Tick ==
    /\ bucket' = [t \in Tenants |-> [d \in Dims |->
                    LET b == Aged(bucket[t][d])
                    IN  IF backend = "redis" /\ IdleOut(b) THEN Absent ELSE b]]
    /\ sweepIn' = Max({0, sweepIn - 1})
    /\ req' = [r \in Requests |-> [req[r] EXCEPT !.wait = Max({0, @ - 1})]]
    /\ UNCHANGED <<backend, inFlight>>

Next ==
    \/ Tick
    \/ \E r \in Requests :
         \/ Arrive(r) \/ Return(r) \/ GiveUp(r)
         \/ Acquire(r) \/ GateFull(r)
         \/ Allowed(r) \/ Rejected(r) \/ Unreachable(r)
         \/ Serve(r) \/ Refund(r) \/ RefundLost(r)
         \/ Release(r) \/ ReleaseRefused(r)

Spec == Init /\ [][Next]_vars

----------------------------------------------------------------------------
(* Properties.                                                             *)

Holders(t) == {r \in Requests :
    /\ req[r].tenant = t
    /\ req[r].pc \in {"allow", "serving", "refund", "release", "refused"}}

(* The gate counts exactly the requests past it that have not returned,    *)
(* whichever way they leave (concurrency.go:40-62,                         *)
(* concurrencymiddleware.go:60-61): a leaked slot would shut a tenant out  *)
(* for good, a slot returned twice would lift its ceiling. So never more   *)
(* requests of a tenant are past the gate than its tier allows             *)
(* (concurrency.go:42-44). Every variable keeps its type.                  *)
GateExact ==
    /\ TypeOK
    /\ \A t \in Tenants :
        /\ inFlight[t] = IF Counted(t) THEN Cardinality(Holders(t)) ELSE 0
        /\ Counted(t) => Cardinality(Holders(t)) <= Tier[t].concurrency

(* A client that waits out its Retry-After and returns with the same       *)
(* request finds the buckets able to pay, unless another request of its    *)
(* tenant spent from them meanwhile or the request exceeds the tier        *)
(* (middleware.go:60-72: truncating the wait "sends a well-behaved client  *)
(* straight into a second 429"). Refunds, sweeps and expiries in between   *)
(* must not change that.                                                   *)
RetryHonoured ==
    \A r \in Requests :
        LET t == req[r].tenant
            n == req[r].tokens
        IN  (/\ req[r].pc = "waiting"
             /\ req[r].wait = 0
             /\ req[r].calm
             /\ Fits(t, n))
            => Affords(t, n)

(* The reservations that have not settled.                                 *)
Reserved == {<<r, req[r].tenant, req[r].tokens>> :
                r \in {q \in Requests : req[q].pc \in {"serving", "refund"}}}

Buckets == INSTANCE TokenBuckets WITH
    Callers <- Requests,
    Sizes <- 0 .. WideMax,
    level <- [t \in Tenants |-> [d \in Dims |->
                IF Capacity[t][d] > 0 THEN Level(t, d) ELSE 0]],
    owed <- Reserved

(* Both backends behave as buckets that are never dropped and refill all   *)
(* the time: the lazy refill, Memory's sweep and Redis's key expiry cannot *)
(* be told from keeping every bucket forever (memory.go:49-65, "provably   *)
(* indistinguishable"), no request is paid from what is not there, and a   *)
(* reservation returns at most once and never for more than it took.       *)
ImplementsBuckets == Buckets!Spec

(* A request that fits its tier is told the wait after which the buckets   *)
(* afford it, no longer (memory.go:107, "the wait until the most deficient *)
(* bucket can afford the request"; tokenbucket.lua:7, "retry_after_ms").   *)
WaitIsReal ==
    [][\A r \in Requests :
          LET t == req[r].tenant
              n == req[r].tokens
          IN  req[r].pc = "allow" /\ req'[r].pc = "refused" /\ Fits(t, n)
              => req'[r].wait <= Max({1, RealWait(t, n)})]_vars

============================================================================
