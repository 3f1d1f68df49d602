CONSTANTS
    u1 = u1  u2 = u2
    Requests = {r1, r2}
    Streaming = {r1}
    Upstreams = {u1, u2}
    Ring <- MCRing
    c1 = c1  c2 = c2  c3 = c3
    Model = "primary"
    Chain <- MCChain
    Serves <- MCServes
    MaxAttempts = 3
    BulkheadMax = 1
    Percent = 50
    MinInFlight = 1
    Nobody = Nobody
SPECIFICATION Spec
SYMMETRY CredentialSymmetry
INVARIANTS
    ResourcesExact
    PermitsReported
    OneResponse
    PassthroughIsFresh
    CutsAreNeutral
PROPERTY HintStaysWithUpstream
