SPECIFICATION Spec
CONSTANTS
    t1 = t1
    t2 = t2
    Requests = {r1, r2}
    Tenants = {t1, t2}
    Tier <- MCTier
    Minute = 2
    Prompts = {1}
    Asks = {0, 1, 7}
    DefaultReserve = 2
    WideMax = 7
SYMMETRY RequestSymmetry
PROPERTY WaitIsReal
