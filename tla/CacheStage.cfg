CONSTANTS
    Requests = {r1, r2, r3}
    NoRequest = NoRequest
    MaxEntries = 2
SPECIFICATION FairSpec
INVARIANTS
    FlightIsTheFetch
    ReplaysComplete
PROPERTY WaitersReleased
