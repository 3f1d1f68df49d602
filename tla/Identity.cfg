SPECIFICATION Spec
CONSTANTS
    m1 = m1
    m2 = m2
    Keys = {k1, k2}
    Workers = {w1, w2}
    Admins = {a1, a2}
    Models = {m1, m2}
    Wild = Wild
    Inherit = Inherit
    Unauthorized = Unauthorized
    Base <- MCBase
    Documents <- MCDocuments
    PosTTL = 2
    NegTTL = 1
    ResolveMax = 1
    CacheCapacity = 1
    MaxKeysPerUser = 1
SYMMETRY Symmetry
INVARIANTS LayersOnlyTighten IssuanceBounded ChangesSurface CacheInStep
