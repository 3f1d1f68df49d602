CONSTANTS
    Tenants = {t1}
    Leases = {l1}
    NoLease = NoLease
    Sweepers = {}
    Amounts = {2}
    Uses = {3}
    Balances = {3}
    Unbounded = {l1}
    Ceiling = 0
    LeaseTTL = 1
    SweepBatch = 1
    MaxEpoch = 1
    Reconcilers = {r1, r2}
    MaxLoss = 1
SPECIFICATION ReconcileSpec
SYMMETRY Symmetry
INVARIANTS
    DriftExact
