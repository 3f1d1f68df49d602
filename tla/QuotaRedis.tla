----------------------------- MODULE QuotaRedis -----------------------------
(***************************************************************************)
(* The Redis quota ledger (internal/quota/redis.go with reserve.lua,       *)
(* settle.lua and release.lua), the quota stage that drives it             *)
(* (middleware.go) and the sweeper that reclaims abandoned leases          *)
(* (sweeper.go).                                                           *)
(*                                                                         *)
(* A Lua script is one atomic step, but Settle, Cancel and every reclaim   *)
(* are two round trips: an HGET of the lease's tenant, then the script.    *)
(* Everything may happen in between: other gateways, the sweepers, the     *)
(* expiry of a terminal record, the death of the calling process, an error *)
(* instead of a reply although the script ran.                             *)
(*                                                                         *)
(* One lease identifier stands for one client request, the one that        *)
(* generated it.  Time is the age of a live lease, counted in ticks and    *)
(* saturated at LeaseTTL, where the lease's zset score is in the past.     *)
(***************************************************************************)
EXTENDS Integers, FiniteSets

CONSTANTS
    Tenants,
    Leases,
    NoLease,    \* a sweeper between two leases
    Sweepers,   \* one reclaim loop per gateway process
    Amounts,    \* token amounts a request may reserve
    Uses,       \* positive token counts a served request may report
    Balances,   \* balances the seeder or the admin surface may set
    Unbounded,  \* the requests of gateways configured without a request budget
    Ceiling,    \* the longest any other request runs (requestBudget), in ticks
    LeaseTTL,   \* the reclaim horizon, in ticks
    SweepBatch, \* leases one pass fetches
    MaxEpoch    \* bound: corrections per tenant

ASSUME QuotaAssumption ==
    /\ Tenants # {}
    /\ NoLease \notin Leases
    /\ Amounts \subseteq Nat
    /\ Uses \subseteq Nat \ {0}
    /\ Balances \subseteq Nat
    /\ SweepBatch \in Nat \ {0}
    /\ MaxEpoch \in Nat

\* loadQuota refuses a horizon that does not exceed the request budget, if
\* there is one: a zero OverallDeadline or StreamTimeout leaves requests without
\* a bound, and any positive horizon is accepted.
ASSUME HorizonAssumption ==
    /\ Unbounded \subseteq Leases
    /\ Ceiling \in Nat /\ LeaseTTL \in Nat \ {0}
    /\ Unbounded # Leases => LeaseTTL > Ceiling

VARIABLES
    \* Redis: per tenant
    provisioned, balance, debited, refunded, consumed, epoch,
    \* Redis: per lease hash, and the sweep zset
    state, tenant, amount, age, sweep,
    \* history: what was credited back for each lease, over all calls
    credit,
    \* gateway: where each request is, and what it consumed
    req, used,
    \* sweepers: leases still to reclaim in this pass, and the current call
    page, cur, call

ledgerVars == <<provisioned, balance, debited, refunded, consumed, epoch,
                state, tenant, amount, sweep, credit>>
requestVars == <<req, used>>
sweeperVars == <<page, cur, call>>
vars == <<ledgerVars, age, requestVars, sweeperVars>>

Terminal == {"SETTLED", "EXPIRED", "CANCELLED"}

\* The lease hash exists.
Recorded == {"RESERVED"} \cup Terminal

\* A request waits in "lookup" or "script" for the two round trips of its
\* settlement, in "zrem" for the clean-up of a vanished record.
ReqPhase == {"idle", "refused", "serving", "lookup", "script", "zrem", "over"}

Init ==
    /\ provisioned = {}
    /\ balance = [t \in Tenants |-> 0]
    /\ debited = [t \in Tenants |-> 0]
    /\ refunded = [t \in Tenants |-> 0]
    /\ consumed = [t \in Tenants |-> 0]
    /\ epoch = [t \in Tenants |-> 0]
    /\ state = [l \in Leases |-> "unused"]
    /\ tenant = [l \in Leases |-> CHOOSE t \in Tenants : TRUE]
    /\ amount = [l \in Leases |-> 0]
    /\ age = [l \in Leases |-> 0]
    /\ sweep = {}
    /\ credit = [l \in Leases |-> 0]
    /\ req = [l \in Leases |-> "idle"]
    /\ used = [l \in Leases |-> 0]
    /\ page = [s \in Sweepers |-> {}]
    /\ cur = [s \in Sweepers |-> NoLease]
    /\ call = [s \in Sweepers |-> "none"]

-----------------------------------------------------------------------------
(* Provisioning *)

\* MULTI SET balance, INCR epoch EXEC (admin top-up or correction).
SetBalance(t, b) ==
    /\ epoch[t] < MaxEpoch
    /\ provisioned' = provisioned \cup {t}
    /\ balance' = [balance EXCEPT ![t] = b]
    /\ epoch' = [epoch EXCEPT ![t] = @ + 1]
    /\ UNCHANGED <<debited, refunded, consumed, state, tenant, amount, sweep,
                   credit, age, requestVars, sweeperVars>>

\* SETNX: only a tenant without a balance is provisioned, the epoch stays.
EnsureBalance(t, b) ==
    /\ t \notin provisioned
    /\ provisioned' = provisioned \cup {t}
    /\ balance' = [balance EXCEPT ![t] = b]
    /\ UNCHANGED <<debited, refunded, consumed, epoch, state, tenant, amount,
                   sweep, credit, age, requestVars, sweeperVars>>

-----------------------------------------------------------------------------
(* The three scripts *)

\* Mutant: no balance check.
CanReserveUnchecked(t, a) == t \in provisioned

CanReserve(t, a) == t \in provisioned /\ balance[t] >= a

\* Mutant: no ZADD.
ReserveUnindexed(l, t, a) ==
    /\ CanReserve(t, a)
    /\ balance' = [balance EXCEPT ![t] = @ - a]
    /\ debited' = [debited EXCEPT ![t] = @ + a]
    /\ state' = [state EXCEPT ![l] = "RESERVED"]
    /\ tenant' = [tenant EXCEPT ![l] = t]
    /\ amount' = [amount EXCEPT ![l] = a]
    /\ age' = [age EXCEPT ![l] = 0]
    /\ UNCHANGED <<provisioned, refunded, consumed, epoch, sweep, credit>>

ReserveScript(l, t, a) ==
    /\ CanReserve(t, a)
    /\ balance' = [balance EXCEPT ![t] = @ - a]
    /\ debited' = [debited EXCEPT ![t] = @ + a]
    /\ state' = [state EXCEPT ![l] = "RESERVED"]
    /\ tenant' = [tenant EXCEPT ![l] = t]
    /\ amount' = [amount EXCEPT ![l] = a]
    /\ age' = [age EXCEPT ![l] = 0]
    /\ sweep' = sweep \cup {l}
    /\ UNCHANGED <<provisioned, refunded, consumed, epoch, credit>>

\* Mutant: the balance moves without its counter.
CreditUncounted(l, tokens) ==
    /\ balance' = [balance EXCEPT ![tenant[l]] = @ + tokens]
    /\ credit' = [credit EXCEPT ![l] = @ + tokens]
    /\ UNCHANGED refunded

\* INCRBY of the balance and of the refunded counter; credit records it.
Credit(l, tokens) ==
    /\ balance' = [balance EXCEPT ![tenant[l]] = @ + tokens]
    /\ refunded' = [refunded EXCEPT ![tenant[l]] = @ + tokens]
    /\ credit' = [credit EXCEPT ![l] = @ + tokens]

\* A negative count must not mint balance.
Spent(usedTokens) == IF usedTokens > 0 THEN usedTokens ELSE 0

\* Mutant: overage is surcharged.
RefundSurcharging(reserved, usedTokens) == reserved - Spent(usedTokens)

Refund(reserved, usedTokens) ==
    IF reserved > Spent(usedTokens) THEN reserved - Spent(usedTokens) ELSE 0

\* Mutant: no ZREM.
SettleStaysIndexed(l, u) ==
    IF state[l] = "RESERVED"
    THEN /\ Credit(l, Refund(amount[l], u))
         /\ consumed' = [consumed EXCEPT ![tenant[l]] = @ + Spent(u)]
         /\ state' = [state EXCEPT ![l] = "SETTLED"]
         /\ UNCHANGED <<provisioned, debited, epoch, tenant, amount, sweep>>
    ELSE UNCHANGED ledgerVars

SettleScript(l, u) ==
    IF state[l] = "RESERVED"
    THEN /\ Credit(l, Refund(amount[l], u))
         /\ consumed' = [consumed EXCEPT ![tenant[l]] = @ + Spent(u)]
         /\ state' = [state EXCEPT ![l] = "SETTLED"]
         /\ sweep' = sweep \ {l}
         /\ UNCHANGED <<provisioned, debited, epoch, tenant, amount>>
    ELSE UNCHANGED ledgerVars

\* Mutant: no state check.
ReleaseAnyState(l, target) ==
    /\ sweep' = sweep \ {l}
    /\ Credit(l, amount[l])
    /\ state' = [state EXCEPT ![l] = target]
    /\ UNCHANGED <<provisioned, debited, consumed, epoch, tenant, amount>>

\* The zset entry goes first, whatever state the record is in.
ReleaseScript(l, target) ==
    /\ sweep' = sweep \ {l}
    /\ IF state[l] = "RESERVED"
       THEN /\ Credit(l, amount[l])
            /\ state' = [state EXCEPT ![l] = target]
       ELSE UNCHANGED <<balance, refunded, credit, state>>
    /\ UNCHANGED <<provisioned, debited, consumed, epoch, tenant, amount>>

\* Mutant: the record's expiry is set at the reservation.
PurgeLiveRecord(l) ==
    /\ state[l] \in Recorded
    /\ state' = [state EXCEPT ![l] = "purged"]
    /\ UNCHANGED <<provisioned, balance, debited, refunded, consumed, epoch,
                   tenant, amount, sweep, credit, age, requestVars, sweeperVars>>

\* PEXPIRE on the terminal transitions: Redis drops the hash some time later.
PurgeRecord(l) ==
    /\ state[l] \in Terminal
    /\ state' = [state EXCEPT ![l] = "purged"]
    /\ UNCHANGED <<provisioned, balance, debited, refunded, consumed, epoch,
                   tenant, amount, sweep, credit, age, requestVars, sweeperVars>>

-----------------------------------------------------------------------------
(* The quota stage: one client request *)

Move(l, phase) == req' = [req EXCEPT ![l] = phase]

\* The reply arrived: the request goes on to the cache and the relay.
Reserve(l, t, a) ==
    /\ req[l] = "idle"
    /\ ReserveScript(l, t, a)
    /\ Move(l, "serving")
    /\ UNCHANGED <<used, sweeperVars>>

\* The script ran and its reply was lost (timeout, client gone): the stage
\* answers 503 and nobody knows the lease identifier any more.
ReserveReplyLost(l, t, a) ==
    /\ req[l] = "idle"
    /\ ReserveScript(l, t, a)
    /\ Move(l, "over")
    /\ UNCHANGED <<used, sweeperVars>>

\* 402, or 503 for a tenant without a ledger: nothing is written.  (A reserve
\* that fails before Redis sees it leaves no trace and is not a step.)
ReserveRefused(l, t, a) ==
    /\ req[l] = "idle"
    /\ ~CanReserve(t, a)
    /\ Move(l, "refused")
    /\ UNCHANGED <<ledgerVars, age, used, sweeperVars>>

\* The handler returned or panicked: zero consumption cancels, anything else
\* settles, detached from the request's cancellation.
Finish(l, u) ==
    /\ req[l] = "serving"
    /\ used' = [used EXCEPT ![l] = u]
    /\ Move(l, "lookup")
    /\ UNCHANGED <<ledgerVars, age, sweeperVars>>

\* HGET tenant.  A vanished record ends a settle; a cancel still removes the
\* zset entry.
LookupLease(l) ==
    /\ req[l] = "lookup"
    /\ Move(l, IF state[l] \in Recorded THEN "script"
               ELSE IF used[l] > 0 THEN "over" ELSE "zrem")
    /\ UNCHANGED <<ledgerVars, age, used, sweeperVars>>

\* A reply that does not arrive is only logged: the same step.
Settle(l) ==
    /\ req[l] = "script"
    /\ used[l] > 0
    /\ SettleScript(l, used[l])
    /\ Move(l, "over")
    /\ UNCHANGED <<age, used, sweeperVars>>

Cancel(l) ==
    /\ req[l] = "script"
    /\ used[l] <= 0
    /\ ReleaseScript(l, "CANCELLED")
    /\ Move(l, "over")
    /\ UNCHANGED <<age, used, sweeperVars>>

DropGhost(l) ==
    /\ sweep' = sweep \ {l}
    /\ UNCHANGED <<provisioned, balance, debited, refunded, consumed, epoch,
                   state, tenant, amount, credit, age>>

CancelGhost(l) ==
    /\ req[l] = "zrem"
    /\ DropGhost(l)
    /\ Move(l, "over")
    /\ UNCHANGED <<used, sweeperVars>>

\* The process dies, or a command of the settlement fails before it reaches
\* Redis: only logged, the sweeper is the one that converges the lease.
Vanish(l) ==
    /\ req[l] \in {"serving", "lookup", "script", "zrem"}
    /\ Move(l, "over")
    /\ UNCHANGED <<ledgerVars, age, used, sweeperVars>>

-----------------------------------------------------------------------------
(* The sweeper *)

\* Mutant: one tick early.
DueEarly == {l \in sweep : age[l] >= LeaseTTL - 1}

Due == {l \in sweep : age[l] >= LeaseTTL}

\* ZRANGE BYSCORE -inf now LIMIT SweepBatch.
SweepScan(s) ==
    /\ page[s] = {}
    /\ \E ids \in SUBSET Due :
        /\ Cardinality(ids) = (IF Cardinality(Due) < SweepBatch
                               THEN Cardinality(Due) ELSE SweepBatch)
        /\ page' = [page EXCEPT ![s] = ids]
    /\ UNCHANGED <<ledgerVars, age, requestVars, cur, call>>

\* release, first round trip.
SweepLookup(s, l) ==
    /\ l \in page[s]
    /\ cur[s] = NoLease
    /\ cur' = [cur EXCEPT ![s] = l]
    /\ call' = [call EXCEPT ![s] = IF state[l] \in Recorded THEN "script" ELSE "zrem"]
    /\ UNCHANGED <<ledgerVars, age, requestVars, page>>

\* The loop goes on to the next identifier.
NextInPage(s) ==
    /\ page' = [page EXCEPT ![s] = @ \ {cur[s]}]
    /\ call' = [call EXCEPT ![s] = "none"]
    /\ cur' = [cur EXCEPT ![s] = NoLease]

\* An error ends the pass; the remaining identifiers wait for the next tick.
AbortPass(s) ==
    /\ page' = [page EXCEPT ![s] = {}]
    /\ call' = [call EXCEPT ![s] = "none"]
    /\ cur' = [cur EXCEPT ![s] = NoLease]

SweepRelease(s) ==
    /\ call[s] = "script"
    /\ ReleaseScript(cur[s], "EXPIRED")
    /\ NextInPage(s)
    /\ UNCHANGED <<age, requestVars>>

\* The script ran, its reply did not arrive.
SweepReplyLost(s) ==
    /\ call[s] = "script"
    /\ ReleaseScript(cur[s], "EXPIRED")
    /\ AbortPass(s)
    /\ UNCHANGED <<age, requestVars>>

SweepGhost(s) ==
    /\ call[s] = "zrem"
    /\ DropGhost(cur[s])
    /\ NextInPage(s)
    /\ UNCHANGED requestVars

\* A command that never reached Redis, or the death of the sweeper's process.
SweepFails(s) ==
    /\ page[s] # {}
    /\ AbortPass(s)
    /\ UNCHANGED <<ledgerVars, age, requestVars>>

-----------------------------------------------------------------------------
(* Time: no request outlives the budget it has *)

Tick ==
    /\ \A l \in Leases \ Unbounded : req[l] = "serving" => age[l] < Ceiling
    /\ \E l \in sweep : age[l] < LeaseTTL
    /\ age' = [l \in Leases |->
                 IF state[l] = "RESERVED" /\ age[l] < LeaseTTL
                 THEN age[l] + 1 ELSE age[l]]
    /\ UNCHANGED <<ledgerVars, requestVars, sweeperVars>>

Provisioning == \E t \in Tenants, b \in Balances :
                    SetBalance(t, b) \/ EnsureBalance(t, b)

Request(l) ==
    \/ \E t \in Tenants, a \in Amounts :
         Reserve(l, t, a) \/ ReserveReplyLost(l, t, a) \/ ReserveRefused(l, t, a)
    \/ \E u \in Uses \cup {0} : Finish(l, u)
    \/ LookupLease(l) \/ Settle(l) \/ Cancel(l) \/ CancelGhost(l)
    \/ Vanish(l)

Sweeper(s) ==
    \/ SweepScan(s)
    \/ \E l \in Leases : SweepLookup(s, l)
    \/ SweepRelease(s) \/ SweepReplyLost(s) \/ SweepGhost(s) \/ SweepFails(s)

Next ==
    \/ Provisioning
    \/ \E l \in Leases : Request(l) \/ PurgeRecord(l)
    \/ \E s \in Sweepers : Sweeper(s)
    \/ Tick

Spec == Init /\ [][Next]_vars

\* The commands a loop keeps issuing get through in the end (Redis comes
\* back), the ticker keeps ticking and the deadlines end every request that has
\* one.
Fairness ==
    /\ WF_vars(Tick)
    /\ \A l \in Leases \ Unbounded : WF_vars(\E u \in Uses \cup {0} : Finish(l, u))
    /\ \A s \in Sweepers :
        /\ WF_vars(SweepScan(s))
        /\ SF_vars(\E l \in Leases : SweepLookup(s, l))
        /\ SF_vars(SweepRelease(s))
        /\ SF_vars(SweepGhost(s))

FairSpec == Spec /\ Fairness

-----------------------------------------------------------------------------
(* Properties *)

\* Every variable keeps its type; the INCRBY counters only ever count up
\* from zero.
TypeOK ==
    /\ provisioned \subseteq Tenants
    /\ balance \in [Tenants -> Int]
    /\ debited \in [Tenants -> Nat]
    /\ refunded \in [Tenants -> Nat]
    /\ consumed \in [Tenants -> Nat]
    /\ epoch \in [Tenants -> Nat]
    /\ state \in [Leases -> Recorded \cup {"unused", "purged"}]
    /\ tenant \in [Leases -> Tenants]
    /\ amount \in [Leases -> Nat]
    /\ age \in [Leases -> 0..LeaseTTL]
    /\ sweep \subseteq Leases
    /\ credit \in [Leases -> Nat]
    /\ req \in [Leases -> ReqPhase]
    /\ used \in [Leases -> Nat]
    /\ page \in [Sweepers -> SUBSET Leases]
    /\ cur \in [Sweepers -> Leases \cup {NoLease}]
    /\ call \in [Sweepers -> {"none", "script", "zrem"}]

\* "Guarantee no over-draft under concurrency" (redis.go): no interleaving of
\* reservations, refunds and corrections drives a balance below zero.  It is
\* also what makes the -1 reserve.lua returns for a missing balance
\* unambiguous.
NoOverdraft == \A t \in Tenants : balance[t] >= 0

\* "A sweeper and a late settle can never both refund the same lease"
\* (release.lua): over all calls that ever reached a lease, it is credited
\* nothing while it is live, its full amount if it was cancelled or expired,
\* and only what its request left unused if it was settled.
RefundedOnce ==
    \A l \in Leases :
        /\ state[l] \in {"unused", "RESERVED"} => credit[l] = 0
        /\ state[l] \in {"CANCELLED", "EXPIRED"} => credit[l] = amount[l]
        /\ state[l] = "SETTLED" => credit[l] = Refund(amount[l], used[l])
        /\ credit[l] <= amount[l]

\* The sweep zset is exactly the set of live leases: no RESERVED lease is
\* ever out of the sweeper's reach and no ghost entry is left behind.
SweepIndexExact == sweep = {l \in Leases : state[l] = "RESERVED"}

\* A script credits the balance key of the lease's tenant with INCRBY, which
\* would create a missing key: no credit ever provisions a tenant.
CreditsProvisioned ==
    \A l \in Leases : state[l] # "unused" => tenant[l] \in provisioned

\* The sweeper never refunds the lease of a request that is still running and
\* has a budget, for which loadQuota validated the horizon (env.go:340-347):
\* not even from a page fetched before, and whatever becomes of the requests
\* without a budget, whose leases it does reclaim under them.
NoLiveExpiry ==
    \A l \in Leases \ Unbounded : req[l] = "serving" => state[l] = "RESERVED"

\* A lease leaves RESERVED once: afterwards its record is only dropped.
TerminalForGood ==
    [][\A l \in Leases :
         state[l] \in Terminal \cup {"purged"} =>
             state'[l] \in {state[l], "purged"}]_vars

\* The identity the reconciler diffs snapshots against: outside of a
\* provisioning step, balance + debited - refunded does not change.
BalanceIdentity ==
    [][\A t \in Tenants :
         t \in provisioned /\ epoch'[t] = epoch[t] =>
             balance'[t] + debited'[t] - refunded'[t]
               = balance[t] + debited[t] - refunded[t]]_vars

\* Every reservation converges (quota.go): whoever held it, whatever was
\* lost, a lease does not stay RESERVED.
LeasesConverge == \A l \in Leases : state[l] = "RESERVED" ~> state[l] # "RESERVED"

\* The ledger implements the port's contract: each script is one atomic
\* operation of the contract, every other step changes nothing it can see.
Contract == INSTANCE QuotaContract
ImplementsContract == Contract!Spec
=============================================================================
