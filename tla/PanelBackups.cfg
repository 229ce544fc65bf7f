SPECIFICATION Spec
CONSTANTS
    Lengths <- DayAndWeek
    Limit = 2
    MaxJobs = 3
    MaxTime = 3
    MaxCrashes = 1
    None = None
INVARIANTS OnePerPeriod FailuresLimited Spaced OldGone SlotHeld
\* The jobs of the bound are made.
CHECK_DEADLOCK FALSE
