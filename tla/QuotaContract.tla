--------------------------- MODULE QuotaContract ---------------------------
(***************************************************************************)
(* What the quota port promises (internal/quota/quota.go): the Ledger      *)
(* interface, its lease life cycle and its balance rules, with every       *)
(* operation one atomic step.  The Redis ledger (QuotaRedis) and the       *)
(* in-process ledger (QuotaMemory) are both shown to implement it.         *)
(***************************************************************************)
EXTENDS Integers

CONSTANTS
    Tenants,    \* tenant identifiers
    Leases,     \* lease identifiers; newLeaseID never returns one twice
    Amounts,    \* token amounts a request may reserve
    Uses,       \* token counts a served request may report as consumed
    Balances    \* balances the seeder or the admin surface may set

VARIABLES
    provisioned,    \* tenants that have a balance record
    balance,        \* the tenant balance (0 while not provisioned)
    state,          \* where each lease is in its life cycle
    tenant,         \* whose balance a lease was taken from
    amount          \* tokens a lease holds

contractVars == <<provisioned, balance, state, tenant, amount>>

Terminal == {"SETTLED", "EXPIRED", "CANCELLED"}
LeaseState == {"RESERVED"} \cup Terminal

\* "unused": the identifier was not generated yet; "purged": the record was
\* dropped after its audit window.
LifeCycle == LeaseState \cup {"unused", "purged"}

\* The refund a settlement owes: reserved minus used when positive, never a
\* surcharge, and a negative count never mints balance.
SettleRefund(reserved, usedTokens) ==
    LET spent == IF usedTokens > 0 THEN usedTokens ELSE 0
    IN  IF reserved > spent THEN reserved - spent ELSE 0

Init ==
    /\ provisioned = {}
    /\ balance = [t \in Tenants |-> 0]
    /\ state = [l \in Leases |-> "unused"]
    /\ tenant = [l \in Leases |-> CHOOSE t \in Tenants : TRUE]
    /\ amount = [l \in Leases |-> 0]

\* SetBalance, and EnsureBalance when the tenant has no record.
Provision(t, b) ==
    /\ provisioned' = provisioned \cup {t}
    /\ balance' = [balance EXCEPT ![t] = b]
    /\ UNCHANGED <<state, tenant, amount>>

\* Reserve: deduct and record in one step, only from a sufficient balance.
Reserve(l, t, a) ==
    /\ state[l] = "unused"
    /\ t \in provisioned
    /\ balance[t] >= a
    /\ balance' = [balance EXCEPT ![t] = @ - a]
    /\ state' = [state EXCEPT ![l] = "RESERVED"]
    /\ tenant' = [tenant EXCEPT ![l] = t]
    /\ amount' = [amount EXCEPT ![l] = a]
    /\ UNCHANGED provisioned

\* Leaving RESERVED happens once and credits the tenant once.
Close(l, target, refund) ==
    /\ state[l] = "RESERVED"
    /\ state' = [state EXCEPT ![l] = target]
    /\ balance' = [balance EXCEPT ![tenant[l]] = @ + refund]
    /\ UNCHANGED <<provisioned, tenant, amount>>

Settle(l, u) == Close(l, "SETTLED", SettleRefund(amount[l], u))
Cancel(l) == Close(l, "CANCELLED", amount[l])
Expire(l) == Close(l, "EXPIRED", amount[l])

\* A terminal record is kept for the audit window and then dropped.
Purge(l) ==
    /\ state[l] \in Terminal
    /\ state' = [state EXCEPT ![l] = "purged"]
    /\ UNCHANGED <<provisioned, balance, tenant, amount>>

Next ==
    \/ \E t \in Tenants, b \in Balances : Provision(t, b)
    \/ \E l \in Leases, t \in Tenants, a \in Amounts : Reserve(l, t, a)
    \/ \E l \in Leases, u \in Uses : Settle(l, u)
    \/ \E l \in Leases : Cancel(l) \/ Expire(l) \/ Purge(l)

Spec == Init /\ [][Next]_contractVars
=============================================================================
