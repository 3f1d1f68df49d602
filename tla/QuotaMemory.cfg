CONSTANTS
    Tenants = {t1}
    Leases = {l1, l2}
    Amounts = {2}
    Uses = {1, 3}
    Balances = {0, 4}
    Ceiling = 1
    LeaseTTL = 2
    AuditTTL = 1
    ScanBatch = 1
    SweepBatch = 1
SPECIFICATION FairSpec
PROPERTIES
    ImplementsContract
    RecordsDrain
