SPECIFICATION FairSpec
CONSTANTS
    backup = backup
    restore = restore
    deploy = deploy
    NoJob = NoJob
    Jobs <- MCJobs
    MaxAttempts <- MCMaxAttempts
    Backups <- MCBackups
    Restores <- MCRestores
    Unhandled = {deploy}
    MaxEnds = 2
INVARIANTS
    NoGhost
    OwnerRuns
PROPERTIES
    CancelSticks
    NoSuccessAfterCancel
    ImplementsSerialExecutor
    PendingMoves
    RunningEnds
\* The rows of the bound may all be gone.
CHECK_DEADLOCK FALSE
