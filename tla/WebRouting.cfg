SPECIFICATION Spec
CONSTANTS
    Sites = {a}
    Requests = {r1, r2}
    Boot = Boot
    Attempts = 2
    MaxStops = 1
    MaxCrashes = 1
    None = None
INVARIANTS Follows KeysGone
PROPERTIES AloneTaken Starts
\* Every request of the bound was answered.
CHECK_DEADLOCK FALSE
