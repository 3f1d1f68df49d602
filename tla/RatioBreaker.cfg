CONSTANTS
    Kinds = {"success", "failure", "drop"}
    Buckets = 2
    Span = 1
    MaxLag = 3
    MaxCount = 2
    Permissions = {c1, c2}
    Protection = 1
    KTenths = 15
    MinKTenths = 11
    ForcePass = 2
SPECIFICATION RatioSpec
SYMMETRY PermissionSymmetry
PROPERTIES
    DeniesOnRecentEvents
    NoStarvation
