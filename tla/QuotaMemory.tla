---------------------------- MODULE QuotaMemory ----------------------------
(***************************************************************************)
(* The in-process quota ledger (internal/quota/memory.go) under the quota  *)
(* stage and the sweeper.  One mutex guards every operation, so each       *)
(* operation is one step; only SweepOnce, which walks many leases under    *)
(* the lock, is a sequence of steps during which nobody else moves.        *)
(*                                                                         *)
(* age counts the ticks since a lease was created or, once it is terminal, *)
(* since it became terminal, saturated where no cutoff tells it apart.     *)
(***************************************************************************)
EXTENDS Integers, FiniteSets

CONSTANTS
    Tenants,
    Leases,
    Amounts,    \* token amounts a request may reserve
    Uses,       \* positive token counts a served request may report
    Balances,   \* balances the seeder or the admin surface may set
    Ceiling,    \* the request budget if both deadlines are set, in ticks
    LeaseTTL,   \* leaseTTL, in ticks
    AuditTTL,   \* leaseAuditTTL, in ticks
    ScanBatch,  \* leases one pass examines
    SweepBatch  \* leases one pass reclaims

ASSUME MemoryAssumption ==
    /\ Tenants # {}
    /\ Amounts \subseteq Nat /\ Uses \subseteq Nat \ {0} /\ Balances \subseteq Nat
    /\ Ceiling \in Nat /\ LeaseTTL \in Nat \ {0}
    /\ AuditTTL \in Nat
    /\ ScanBatch \in Nat \ {0} /\ SweepBatch \in Nat \ {0}

VARIABLES
    bounded,                        \* configuration, read once: requests have a budget
    provisioned, balance,           \* Memory.balances
    state, tenant, amount, age,     \* Memory.leases
    req, used,                      \* the quota stage, per request
    locked,                         \* a sweep pass holds Memory.mu
    todo, scanned, expired          \* the walk: entries not visited, counts

leaseVars == <<provisioned, balance, state, tenant, amount>>
requestVars == <<req, used>>
walkVars == <<locked, todo, scanned, expired>>
vars == <<bounded, leaseVars, age, requestVars, walkVars>>

Terminal == {"SETTLED", "EXPIRED", "CANCELLED"}
Recorded == {"RESERVED"} \cup Terminal

\* loadQuota refuses a horizon that does not exceed the budget, if there is one.
Legal(bound) == bound => LeaseTTL > Ceiling

Init ==
    /\ bounded \in {b \in BOOLEAN : Legal(b)}
    /\ provisioned = {}
    /\ balance = [t \in Tenants |-> 0]
    /\ state = [l \in Leases |-> "unused"]
    /\ tenant = [l \in Leases |-> CHOOSE t \in Tenants : TRUE]
    /\ amount = [l \in Leases |-> 0]
    /\ age = [l \in Leases |-> 0]
    /\ req = [l \in Leases |-> "idle"]
    /\ used = [l \in Leases |-> 0]
    /\ locked = FALSE /\ todo = {} /\ scanned = 0 /\ expired = 0

-----------------------------------------------------------------------------
SetBalance(t, b) ==
    /\ ~locked
    /\ provisioned' = provisioned \cup {t}
    /\ balance' = [balance EXCEPT ![t] = b]
    /\ UNCHANGED <<state, tenant, amount, age, requestVars, walkVars, bounded>>

EnsureBalance(t, b) == t \notin provisioned /\ SetBalance(t, b)

CanReserve(t, a) == t \in provisioned /\ balance[t] >= a

Reserve(l, t, a) ==
    /\ ~locked
    /\ req[l] = "idle"
    /\ CanReserve(t, a)
    /\ balance' = [balance EXCEPT ![t] = @ - a]
    /\ state' = [state EXCEPT ![l] = "RESERVED"]
    /\ tenant' = [tenant EXCEPT ![l] = t]
    /\ amount' = [amount EXCEPT ![l] = a]
    /\ age' = [age EXCEPT ![l] = 0]
    /\ req' = [req EXCEPT ![l] = "serving"]
    /\ UNCHANGED <<provisioned, used, walkVars, bounded>>

ReserveRefused(l, t, a) ==
    /\ ~locked
    /\ req[l] = "idle"
    /\ ~CanReserve(t, a)
    /\ req' = [req EXCEPT ![l] = "over"]
    /\ UNCHANGED <<leaseVars, age, used, walkVars, bounded>>

\* The handler returned or panicked; the deferred settlement is next.
Finish(l, u) ==
    /\ req[l] = "serving"
    /\ used' = [used EXCEPT ![l] = u]
    /\ req' = [req EXCEPT ![l] = "closing"]
    /\ UNCHANGED <<leaseVars, age, walkVars, bounded>>

\* Mutant: the full amount, whatever was used.
RefundAll(l) == amount[l]

\* max(usedTokens, 0) below the reserved amount; all of it on a cancel.
RefundOf(l) == IF amount[l] > used[l] THEN amount[l] - used[l] ELSE 0

\* Leaving RESERVED: credit the tenant, stamp terminalAt.
Close(l, target, refund) ==
    /\ balance' = [balance EXCEPT ![tenant[l]] = @ + refund]
    /\ state' = [state EXCEPT ![l] = target]
    /\ age' = [age EXCEPT ![l] = 0]
    /\ UNCHANGED <<provisioned, tenant, amount>>

\* Settle for positive consumption, else Cancel; a terminal lease is a logged
\* no-op and a purged one a logged error.
SettleOrCancel(l) ==
    /\ ~locked
    /\ req[l] = "closing"
    /\ IF state[l] = "RESERVED"
       THEN Close(l, IF used[l] > 0 THEN "SETTLED" ELSE "CANCELLED", RefundOf(l))
       ELSE UNCHANGED <<leaseVars, age>>
    /\ req' = [req EXCEPT ![l] = "over"]
    /\ UNCHANGED <<used, walkVars, bounded>>

-----------------------------------------------------------------------------
(* SweepOnce *)

SweepBegin ==
    /\ ~locked
    /\ locked' = TRUE
    /\ todo' = {l \in Leases : state[l] \in Recorded}
    /\ scanned' = 0
    /\ expired' = 0
    /\ UNCHANGED <<leaseVars, age, requestVars, bounded>>

\* Past the cutoff (strictly) and within the pass's limit.
Reclaimable(l) == age[l] > LeaseTTL /\ expired < SweepBatch

\* One iteration of the walk: drop an old terminal record, reclaim an old
\* live one, or skip.
SweepVisit(l) ==
    /\ locked /\ l \in todo /\ scanned < ScanBatch
    /\ todo' = todo \ {l}
    /\ scanned' = scanned + 1
    /\ \/ /\ state[l] \in Terminal /\ age[l] > AuditTTL
          /\ state' = [state EXCEPT ![l] = "purged"]
          /\ UNCHANGED <<provisioned, balance, tenant, amount, age, expired>>
       \/ /\ state[l] = "RESERVED" /\ Reclaimable(l)
          /\ Close(l, "EXPIRED", amount[l])
          /\ expired' = expired + 1
       \/ /\ ~(state[l] \in Terminal /\ age[l] > AuditTTL)
          /\ ~(state[l] = "RESERVED" /\ Reclaimable(l))
          /\ UNCHANGED <<leaseVars, age, expired>>
    /\ UNCHANGED <<requestVars, locked, bounded>>

\* Mutant: the pass that hits the scan bound returns with the mutex held.
SweepEndHolding ==
    /\ locked
    /\ todo = {} \/ scanned >= ScanBatch
    /\ locked' = (scanned >= ScanBatch)
    /\ UNCHANGED <<leaseVars, age, requestVars, todo, scanned, expired, bounded>>

SweepEnd ==
    /\ locked
    /\ todo = {} \/ scanned >= ScanBatch
    /\ locked' = FALSE
    /\ todo' = {} /\ scanned' = 0 /\ expired' = 0
    /\ UNCHANGED <<leaseVars, age, requestVars, bounded>>

\* Where the age of a lease stops mattering.
AgeCap(l) == IF state[l] = "RESERVED" THEN LeaseTTL + 1 ELSE AuditTTL + 1

Tick ==
    /\ bounded => \A l \in Leases : req[l] = "serving" => age[l] < Ceiling
    /\ \E l \in Leases : state[l] \in Recorded /\ age[l] < AgeCap(l)
    /\ age' = [l \in Leases |->
                 IF state[l] \in Recorded /\ age[l] < AgeCap(l)
                 THEN age[l] + 1 ELSE age[l]]
    /\ UNCHANGED <<leaseVars, requestVars, walkVars, bounded>>

Next ==
    \/ \E t \in Tenants, b \in Balances : SetBalance(t, b) \/ EnsureBalance(t, b)
    \/ \E l \in Leases :
        \/ \E t \in Tenants, a \in Amounts :
             Reserve(l, t, a) \/ ReserveRefused(l, t, a)
        \/ \E u \in Uses \cup {0} : Finish(l, u)
        \/ SettleOrCancel(l)
        \/ SweepVisit(l)
    \/ SweepBegin \/ SweepEnd
    \/ Tick

Spec == Init /\ [][Next]_vars

\* Deadlines, where configured, end requests, deferred settlements get the
\* mutex, and the map's random iteration order reaches every entry again and
\* again (strong fairness of a visit stands for its probability).
Fairness ==
    /\ WF_vars(Tick) /\ WF_vars(SweepBegin) /\ WF_vars(SweepEnd)
    /\ \A l \in Leases :
        /\ WF_vars(bounded /\ \E u \in Uses \cup {0} : Finish(l, u))
        /\ SF_vars(SettleOrCancel(l))
        /\ SF_vars(SweepVisit(l))

FairSpec == Spec /\ Fairness

-----------------------------------------------------------------------------
\* Every record goes away in the end: a lease is settled, cancelled or
\* reclaimed, even if its request never ends, and its terminal record is
\* dropped after the audit window even though a pass examines only ScanBatch
\* records and leaves the others unvisited ("the bound delays a reclaim, never
\* skips it").
RecordsDrain == \A l \in Leases : state[l] = "RESERVED" ~> state[l] = "purged"

\* The in-process ledger implements the port's contract.
Contract == INSTANCE QuotaContract
ImplementsContract == Contract!Spec
=============================================================================
