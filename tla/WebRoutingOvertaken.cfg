SPECIFICATION Spec
CONSTANTS
    Sites = {a}
    Requests = {r1, r2}
    Boot = Boot
    Attempts = 1
    MaxStops = 0
    MaxCrashes = 0
    None = None
INVARIANT NoLostUpdate
CHECK_DEADLOCK FALSE
