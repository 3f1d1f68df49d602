--------------------------- MODULE QuotaReconcile ---------------------------
(***************************************************************************)
(* The quota reconciler (internal/quota/reconcile.go) reading the Redis    *)
(* ledger while it moves, and the snapshot table in PostgreSQL             *)
(* (pgsnapshot.go) that every gateway process appends to.                  *)
(*                                                                         *)
(* TenantSnapshot is a plain pipeline of GETs: Redis may run another       *)
(* client's script between two of them, so each GET is a step of its own.  *)
(* The lifetime usage total is read too, but it is not part of the         *)
(* identity and is left out.                                               *)
(***************************************************************************)
EXTENDS QuotaRedis

CONSTANTS
    Reconcilers,    \* one reconcile loop per gateway process
    MaxLoss         \* bound: tokens that go missing behind the scripts' back

ASSUME ReconcileAssumption == MaxLoss \in Nat

VARIABLES
    lost,       \* history: tokens gone without a counter movement
    step,       \* where each reconciler is in its round
    about,      \* the tenant it is reading
    snap,       \* the snapshot it is putting together
    prev,       \* the stored snapshot it will compare with
    latest,     \* the newest row per tenant: a set of at most one snapshot
    verdict     \* what the last compared interval of each reconciler showed

reconVars == <<step, about, snap, prev, latest, verdict>>
allVars == <<vars, lost, reconVars>>

\* torn and lost are history: whether the ledger moved under the reads, and
\* the tokens missing when they began.
Snapshot == [balance : Int, refunded : Nat, debited : Nat, epoch : Nat,
             torn : BOOLEAN, lost : Nat]

NoSnapshot == [balance |-> 0, refunded |-> 0, debited |-> 0, epoch |-> 0,
               torn |-> FALSE, lost |-> 0]

NoVerdict == [drift |-> 0, loss |-> 0, torn |-> FALSE]

ReconcileInit ==
    /\ Init
    /\ lost = [t \in Tenants |-> 0]
    /\ step = [r \in Reconcilers |-> "idle"]
    /\ about = [r \in Reconcilers |-> CHOOSE t \in Tenants : TRUE]
    /\ snap = [r \in Reconcilers |-> NoSnapshot]
    /\ prev = [r \in Reconcilers |-> {}]
    /\ latest = [t \in Tenants |-> {}]
    /\ verdict = [r \in Reconcilers |-> NoVerdict]

-----------------------------------------------------------------------------
(* The ledger moves under the reads *)

Reading(r) == step[r] \in {"refunded", "debited", "epoch"}

Moved(t) ==
    <<balance'[t], refunded'[t], debited'[t], epoch'[t]>>
      # <<balance[t], refunded[t], debited[t], epoch[t]>>

MarkTorn ==
    snap' = [r \in Reconcilers |->
               IF Reading(r) /\ Moved(about[r])
               THEN [snap[r] EXCEPT !.torn = TRUE] ELSE snap[r]]

LedgerStep ==
    /\ Next
    /\ MarkTorn
    /\ UNCHANGED <<lost, step, about, prev, latest, verdict>>

\* A balance falls without its counter: the fault the reconciler is for.
LoseTokens(t) ==
    /\ t \in provisioned
    /\ balance[t] > 0
    /\ lost[t] < MaxLoss
    /\ balance' = [balance EXCEPT ![t] = @ - 1]
    /\ lost' = [lost EXCEPT ![t] = @ + 1]
    /\ UNCHANGED <<provisioned, debited, refunded, consumed, epoch, state, tenant,
                   amount, sweep, credit, age, requestVars, sweeperVars>>
    /\ MarkTorn
    /\ UNCHANGED <<step, about, prev, latest, verdict>>

-----------------------------------------------------------------------------
(* ReconcileOnce, per tenant *)

Goto(r, s) == step' = [step EXCEPT ![r] = s]

\* GET balance; a tenant without one is skipped.
ReadBalance(r, t) ==
    /\ step[r] = "idle"
    /\ t \in provisioned
    /\ about' = [about EXCEPT ![r] = t]
    /\ snap' = [snap EXCEPT ![r] =
                  [NoSnapshot EXCEPT !.balance = balance[t], !.lost = lost[t]]]
    /\ verdict' = [verdict EXCEPT ![r] = NoVerdict]
    /\ Goto(r, "refunded")
    /\ UNCHANGED <<vars, lost, prev, latest>>

ReadRefunded(r) ==
    /\ step[r] = "refunded"
    /\ snap' = [snap EXCEPT ![r].refunded = refunded[about[r]]]
    /\ Goto(r, "debited")
    /\ UNCHANGED <<vars, lost, about, prev, latest, verdict>>

ReadDebited(r) ==
    /\ step[r] = "debited"
    /\ snap' = [snap EXCEPT ![r].debited = debited[about[r]]]
    /\ Goto(r, "epoch")
    /\ UNCHANGED <<vars, lost, about, prev, latest, verdict>>

ReadEpoch(r) ==
    /\ step[r] = "epoch"
    /\ snap' = [snap EXCEPT ![r].epoch = epoch[about[r]]]
    /\ Goto(r, "latest")
    /\ UNCHANGED <<vars, lost, about, prev, latest, verdict>>

\* SELECT the newest row.
FetchLatest(r) ==
    /\ step[r] = "latest"
    /\ prev' = [prev EXCEPT ![r] = latest[about[r]]]
    /\ Goto(r, "append")
    /\ UNCHANGED <<vars, lost, about, snap, latest, verdict>>

\* Mutant: the balance falls by debits, refunds are forgotten.
DriftIgnoringRefunds(p, s) == (s.debited - p.debited) - (p.balance - s.balance)

\* debitedDelta - refundedDelta - balanceDrop.
Drift(p, s) ==
    (s.debited - p.debited) - (s.refunded - p.refunded) - (p.balance - s.balance)

Comparable(p, s) == p.epoch = s.epoch

\* INSERT, then the diff; first sight and a correction are skipped.
AppendAndDiff(r) ==
    /\ step[r] = "append"
    /\ latest' = [latest EXCEPT ![about[r]] = {snap[r]}]
    /\ verdict' = [verdict EXCEPT ![r] =
         IF \E p \in prev[r] : Comparable(p, snap[r])
         THEN LET p == CHOOSE p \in prev[r] : TRUE
              IN  [drift |-> Drift(p, snap[r]),
                   loss |-> snap[r].lost - p.lost,
                   torn |-> p.torn \/ snap[r].torn]
         ELSE NoVerdict]
    /\ prev' = [prev EXCEPT ![r] = {}]
    /\ snap' = [snap EXCEPT ![r] = NoSnapshot]
    /\ Goto(r, "idle")
    /\ UNCHANGED <<vars, lost, about>>

\* The INSERT committed and its reply was lost: the row is there for the next
\* round to compare with, this one reports an error instead of a verdict.
AppendUnheard(r) ==
    /\ step[r] = "append"
    /\ latest' = [latest EXCEPT ![about[r]] = {snap[r]}]
    /\ prev' = [prev EXCEPT ![r] = {}]
    /\ snap' = [snap EXCEPT ![r] = NoSnapshot]
    /\ Goto(r, "idle")
    /\ UNCHANGED <<vars, lost, about, verdict>>

\* A read or insert that failed, or the round's deadline: this tenant is skipped.
SkipTenant(r) ==
    /\ step[r] # "idle"
    /\ prev' = [prev EXCEPT ![r] = {}]
    /\ snap' = [snap EXCEPT ![r] = NoSnapshot]
    /\ Goto(r, "idle")
    /\ UNCHANGED <<vars, lost, about, latest, verdict>>

ReconcileNext ==
    \/ LedgerStep
    \/ \E t \in Tenants : LoseTokens(t)
    \/ \E r \in Reconcilers :
        \/ \E t \in Tenants : ReadBalance(r, t)
        \/ ReadRefunded(r) \/ ReadDebited(r) \/ ReadEpoch(r)
        \/ FetchLatest(r) \/ AppendAndDiff(r) \/ AppendUnheard(r) \/ SkipTenant(r)

ReconcileSpec == ReconcileInit /\ [][ReconcileNext]_allVars

-----------------------------------------------------------------------------
\* Every variable keeps its type.
ReconcileTypeOK ==
    /\ TypeOK
    /\ lost \in [Tenants -> Nat]
    /\ step \in [Reconcilers -> {"idle", "refunded", "debited", "epoch", "latest", "append"}]
    /\ about \in [Reconcilers -> Tenants]
    /\ snap \in [Reconcilers -> Snapshot]
    /\ \A r \in Reconcilers : prev[r] \subseteq Snapshot
    /\ \A t \in Tenants : latest[t] \subseteq Snapshot
    /\ verdict \in [Reconcilers -> [drift : Int, loss : Int, torn : BOOLEAN]]

\* Between two snapshots the ledger did not move under, the reported drift is
\* exactly what went missing without a counter movement: nothing is missed
\* and nothing is made up, whatever was in flight, whichever processes took
\* the two snapshots and in whatever order they stored them.  Every variable
\* keeps its type.
DriftExact ==
    /\ ReconcileTypeOK
    /\ \A r \in Reconcilers : ~verdict[r].torn => verdict[r].drift + verdict[r].loss = 0
=============================================================================
