SPECIFICATION Spec
CONSTANTS
    Sites = {a, b}
    Old = {a}
    LastName = 2
    MaxCrashes = 1
    Boot = Boot
    None = None
INVARIANTS FilesKept NothingPutBack NotForgotten
\* Every site of the bound was made and removed.
CHECK_DEADLOCK FALSE
