\* An old site with a process and an old static one, two of each in all.
SPECIFICATION Spec
CONSTANTS
    Sites        = {a, b, c}
    Old          = {c}
    Static       = {c}
    AppPorts     = {1, 2, 3}
    PreviewPorts = {7, 8}
    MaxCrashes   = 1
    None = None
INVARIANTS RecordedIsOwned AllOrNothing Repaired
PROPERTY NoneBurned
\* Every site of the bound was made and removed.
CHECK_DEADLOCK FALSE
