\* Machines on which different steps fail, and every kind of build.
SPECIFICATION Spec
CONSTANTS
    MaxDeploys = 3
    Kinds      = {"good", "bad", "static", "no entry"}
    Scenarios  = {{"stop", "uninstall", "remove", "rename", "runtime", "claim", "install", "start", "health", "route", "user"},
                  {"uninstall", "health", "route"},
                  {"uninstall", "claim", "install", "start", "health", "route", "discard", "user"},
                  {"uninstall", "claim", "install", "start", "health", "route", "discard", "crash"}}
    Absent = Absent
    Empty  = Empty
    Rubble = Rubble
    None   = None
INVARIANTS NewestSurvives PreviousIsNewest NoStopLeftBehind ToldNoPrevious
PROPERTY ReplacedOrKept
\* The last deploy of the bound has been made.
CHECK_DEADLOCK FALSE
