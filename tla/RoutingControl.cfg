CONSTANTS
    u1 = u1  u2 = u2
    Upstreams = {u1, u2}
    RingSize <- MCRingSize
    Probed = {u1}
    Workers = {w1, w2}
    Passes = 2
    Backoff = 2
    Nobody = Nobody
SPECIFICATION Spec
INVARIANT NoDeadRotation
PROPERTIES OnlyTheLastDeathDisables HealthyReturns
