CONSTANTS
    Calls = {c1, c2}
    NoCall = NoCall
    Cooldown = 1
    ProbeTimeout = 1
    Kinds = {"fast", "slow"}
    Buckets = 2
    Span = 1
    MaxLag = 5
    MaxCount = 2
    MinSamples = 3
    RatioNum = 1
    RatioDen = 2
SPECIFICATION SlowSpec
SYMMETRY CallSymmetry
INVARIANTS
    NeverStale
PROPERTIES
    FreshEvidence
    OpensOnTheWindow
