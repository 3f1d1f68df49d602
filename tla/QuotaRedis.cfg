CONSTANTS
    Tenants = {t1}
    Leases = {l1, l2}
    NoLease = NoLease
    Sweepers = {s1}
    Amounts = {2}
    Uses = {1, 3}
    Balances = {0, 4}
    Unbounded = {l2}
    Ceiling = 1
    LeaseTTL = 2
    SweepBatch = 1
    MaxEpoch = 1
SPECIFICATION FairSpec
INVARIANTS
    TypeOK
    NoOverdraft
    RefundedOnce
    SweepIndexExact
    NoLiveExpiry
PROPERTIES
    BalanceIdentity
    ImplementsContract
    LeasesConverge
