CONSTANTS
    Calls = {c1, c2, c3}
    NoCall = NoCall
    Cooldown = 2
    ProbeTimeout = 1
    FailThreshold = 2
SPECIFICATION FairSpec
INVARIANTS
    TypeOK
    ClosedBelowThreshold
PROPERTIES
    RecoveryByFreshProbe
    ProbesSpaced
    SlotFreed
