------------------------------- MODULE JobQueue -------------------------------
(***************************************************************************)
(* The SQLite-backed job queue (apps/agent/src/jobs/queue.ts) together     *)
(* with the life of the process that drives it: start-up reconciliation    *)
(* (app-context.ts), graceful shutdown (index.ts), a crash, and the        *)
(* detached restore script a panel restore leaves behind                   *)
(* (backups/service.ts), which is the only user of ctx.defer.              *)
(*                                                                         *)
(* The jobs table is status, attempts, cancelRequested and order: it       *)
(* survives a crash, but not a restore, which puts the table of an archive *)
(* in its place.  owner is the in-memory #running flag with the job it is  *)
(* set for: it does not survive.  Everything the queue does between two awaits  *)
(* is one action, because Node runs it without interruption; the handler   *)
(* awaits, so a cancellation, an enqueue, a shutdown or a crash may come   *)
(* between the start of a job and its end.                                 *)
(***************************************************************************)
EXTENDS Naturals, Sequences

CONSTANTS Jobs,         \* the rows that may ever be inserted
          MaxAttempts,  \* the maxAttempts column of each row
          Backups,      \* the panel backups: their handler packs the table
          Restores,     \* the panel restores: their handler defers
          Unhandled,    \* rows of a kind nothing registered a handler for
          MaxEnds,      \* bound: shutdowns, ends and killed scripts
          NoJob

ASSUME JobQueueAssumption ==
    /\ NoJob \notin Jobs
    /\ MaxAttempts \in [Jobs -> Nat \ {0}]
    /\ Backups \subseteq Jobs
    /\ Restores \subseteq Jobs \ Backups
    /\ \A j \in Restores : MaxAttempts[j] = 1
    /\ Unhandled \subseteq Jobs
    /\ MaxEnds \in Nat

VARIABLES status,           \* jobs.status, "absent" before the insert
                            \* and "gone" when a restore has put back a table without it
          attempts,         \* jobs.attempts
          cancelRequested,  \* jobs.cancel_requested
          order,            \* the rows by created_at
          owner,            \* the job whose #run is on the stack, if any
          proc,             \* the panel process
          hand,             \* the table in the work folder of the handler, if any
          archives,         \* the tables that are in an archive somewhere
          script,           \* the detached restore script of each restore
          staged,           \* the table in the folder that the script copies from
          ends              \* how many shutdowns, ends and kills so far

table == <<status, attempts, cancelRequested, order>>
disk  == <<archives, script, staged>>
vars  == <<table, owner, proc, hand, disk, ends>>

Finished  == {"succeeded", "failed", "cancelled"}
Missing   == {"absent", "gone"}
Statuses  == Missing \cup {"pending", "running"} \cup Finished

(***************************************************************************)
(* Where the last restore script of a job is: "none" before it is spawned, *)
(* "staged" until it asks for the panel to stop, "waiting" until it sees   *)
(* it stopped, "applying" while it replaces folders and the database, then *)
(* the result marker it left on disk; "lost" if it died without one.       *)
(***************************************************************************)
Markers   == {"succeeded", "failed"}
Alive     == {"staged", "waiting", "applying"}
Stages    == {"none", "lost"} \cup Alive \cup Markers

Running(j) == status[j] = "running"

\* The table of jobs as a value, which is what an archive has of it, and the
\* table of a database that start-up has to create.
Rows  == [status |-> status, attempts |-> attempts,
          cancelRequested |-> cancelRequested, order |-> order]
Blank == [status |-> [j \in Jobs |-> "absent"], attempts |-> [j \in Jobs |-> 0],
          cancelRequested |-> [j \in Jobs |-> FALSE], order |-> <<>>]

\* There may be an archive of before the first of these jobs.
Init == /\ status = Blank.status
        /\ attempts = Blank.attempts
        /\ cancelRequested = Blank.cancelRequested
        /\ order = Blank.order
        /\ owner = NoJob
        /\ proc = "up"
        /\ hand = {}
        /\ archives = {Blank}
        /\ script = [j \in Jobs |-> "none"]
        /\ staged = [j \in Jobs |-> Blank]
        /\ ends = 0

-------------------------------------------------------------------------------
(***************************************************************************)
(* The callers of the queue.                                               *)
(***************************************************************************)

\* enqueue: from a request or the scheduler, or from the running handler
\* (WordPress publishes itself), which still runs while shutdown waits for it.
\* The id is a new one: a row that is gone is not inserted again.
Enqueue(j) ==
    /\ proc = "up" \/ owner # NoJob
    /\ status[j] = "absent"
    /\ status' = [status EXCEPT ![j] = "pending"]
    /\ order' = Append(order, j)
    /\ UNCHANGED <<attempts, cancelRequested, owner, proc, hand, disk, ends>>

\* Bug: only the flag is written, so a pending job stays pending.
Bug_CancelFlagOnly(j) ==
    /\ proc = "up" /\ status[j] \notin Missing
    /\ cancelRequested' = [cancelRequested EXCEPT ![j] = TRUE]
    /\ UNCHANGED <<status, attempts, order, owner, proc, hand, disk, ends>>

\* Bug: the second update of requestCancel loses its condition on the status.
Bug_CancelAnyStatus(j) ==
    /\ proc = "up" /\ status[j] \notin Missing
    /\ cancelRequested' = [cancelRequested EXCEPT ![j] = TRUE]
    /\ status' = [status EXCEPT ![j] = "cancelled"]
    /\ UNCHANGED <<attempts, order, owner, proc, hand, disk, ends>>

\* requestCancel: the flag is written whatever the row's status, and a job
\* that has not started is cancelled outright.
RequestCancel(j) ==
    /\ proc = "up"
    /\ status[j] \notin Missing
    /\ cancelRequested' = [cancelRequested EXCEPT ![j] = TRUE]
    /\ status' = [status EXCEPT ![j] = IF @ = "pending" THEN "cancelled" ELSE @]
    /\ UNCHANGED <<attempts, order, owner, proc, hand, disk, ends>>

-------------------------------------------------------------------------------
(***************************************************************************)
(* The poll tick and the run of one job.                                   *)
(***************************************************************************)

\* The pending row with the smallest created_at.
Oldest(j) == \E i \in 1..Len(order) :
               /\ order[i] = j
               /\ status[j] = "pending"
               /\ \A h \in 1..(i - 1) : status[order[h]] # "pending"

\* Bug: the tick only looks at its own #running flag, not at the table.
Bug_IdleIgnoresTable == proc = "up" /\ owner = NoJob

\* #tick gives way to a job of this process and to any row still running: a
\* deferred job owns the machine until it is reconciled.
Idle == /\ proc = "up"
        /\ owner = NoJob
        /\ \A k \in Jobs : ~Running(k)

Start(j) ==
    /\ Idle
    /\ Oldest(j)
    /\ j \notin Unhandled
    /\ status' = [status EXCEPT ![j] = "running"]
    /\ attempts' = [attempts EXCEPT ![j] = @ + 1]
    /\ owner' = j
    /\ UNCHANGED <<cancelRequested, order, proc, hand, disk, ends>>

\* A kind without a handler fails at once: the row never becomes running.
StartUnhandled(j) ==
    /\ Idle
    /\ Oldest(j)
    /\ j \in Unhandled
    /\ status' = [status EXCEPT ![j] = "failed"]
    /\ UNCHANGED <<attempts, cancelRequested, order, owner, proc, hand, disk, ends>>

\* createPanelArchive copies the database, its own running row included, while
\* the panel keeps writing to it.
Snapshot(j) ==
    /\ owner = j
    /\ j \in Backups
    /\ hand = {}
    /\ hand' = {Rows}
    /\ UNCHANGED <<table, owner, proc, disk, ends>>

\* restorePanelArchive spawns its script, from an archive that was there before
\* the restore was asked for, and then defers; an await (discardStagedUpload)
\* is in between, and may throw.
SpawnScript(j) ==
    /\ owner = j
    /\ j \in Restores
    /\ hand = {}
    /\ \E t \in archives :
          /\ t.status[j] = "absent"
          /\ hand' = {t}
          /\ staged' = [staged EXCEPT ![j] = t]
    /\ script' = [script EXCEPT ![j] = "staged"]
    /\ UNCHANGED <<table, owner, proc, archives, ends>>

\* Bug: a handler that resolves is a success, cancelled or not.
Bug_ReturnIgnoresCancel(j) ==
    /\ owner = j /\ j \in Backups \cup Restores => hand # {}
    /\ owner' = NoJob /\ hand' = {}
    /\ status' = IF j \in Restores THEN status ELSE [status EXCEPT ![j] = "succeeded"]
    /\ archives' = IF j \in Backups THEN archives \cup hand ELSE archives
    /\ UNCHANGED <<attempts, cancelRequested, order, proc, script, staged, ends>>

\* The handler resolves.  That of a restore has spawned its script and called
\* ctx.defer, so its row is left running; any other is finished.  Archives can
\* be had of the backups that succeeded.
HandlerReturns(j) ==
    /\ owner = j
    /\ j \in Backups \cup Restores => hand # {}
    /\ owner' = NoJob
    /\ hand' = {}
    /\ status' = IF j \in Restores THEN status
                 ELSE [status EXCEPT ![j] = IF cancelRequested[j] THEN "cancelled"
                                            ELSE "succeeded"]
    /\ archives' = IF j \in Backups /\ ~cancelRequested[j] THEN archives \cup hand
                   ELSE archives
    /\ UNCHANGED <<attempts, cancelRequested, order, proc, script, staged, ends>>

\* The status an attempt that threw leaves behind.
AfterThrow(j) == IF cancelRequested[j] THEN "cancelled"
                 ELSE IF attempts[j] < MaxAttempts[j] THEN "pending"
                 ELSE "failed"

\* The handler rejects, wherever it was.
HandlerThrows(j) ==
    /\ owner = j
    /\ owner' = NoJob
    /\ hand' = {}
    /\ status' = [status EXCEPT ![j] = AfterThrow(j)]
    /\ UNCHANGED <<attempts, cancelRequested, order, proc, disk, ends>>

-------------------------------------------------------------------------------
(***************************************************************************)
(* The detached script (restoreScript): stop the service, wait for it to   *)
(* be stopped, replace the folders and then the database, leave a marker,  *)
(* start the service.  Nobody reads the table while it is replaced.        *)
(***************************************************************************)

\* An older table takes the place of the current one: a row that it does not
\* have is gone, and an earlier state of one that it has is back.
PutBack(t) ==
    /\ status' = [j \in Jobs |-> IF t.status[j] = "absent" /\ status[j] # "absent"
                                 THEN "gone" ELSE t.status[j]]
    /\ attempts' = t.attempts
    /\ cancelRequested' = t.cancelRequested
    /\ order' = t.order

\* The database lies in one of the folders, which the archive has as well: a
\* script that stops halfway leaves it as it was, removed or replaced.
Halfway(j) == UNCHANGED table \/ PutBack(Blank) \/ PutBack(staged[j])

ScriptStopsPanel(j) ==
    /\ script[j] = "staged"
    /\ script' = [script EXCEPT ![j] = "waiting"]
    /\ proc' = IF proc = "up" THEN "stopping" ELSE proc
    /\ UNCHANGED <<table, owner, hand, archives, staged, ends>>

ScriptApplies(j) ==
    /\ script[j] = "waiting"
    /\ proc = "down"
    /\ script' = [script EXCEPT ![j] = "applying"]
    /\ UNCHANGED <<table, owner, proc, hand, archives, staged, ends>>

\* Ninety seconds without seeing the service stopped: the script gives up.
ScriptTimesOut(j) ==
    /\ script[j] = "waiting"
    /\ proc # "down"
    /\ script' = [script EXCEPT ![j] = "failed"]
    /\ UNCHANGED <<table, owner, proc, hand, archives, staged, ends>>

ScriptEnds(j) ==
    /\ script[j] = "applying"
    /\ \/ script' = [script EXCEPT ![j] = "succeeded"] /\ PutBack(staged[j])
       \/ script' = [script EXCEPT ![j] = "failed"] /\ Halfway(j)
    /\ UNCHANGED <<owner, proc, hand, archives, staged, ends>>

\* Killed, or never started: runDetached does not hear of it.
ScriptDies(j) ==
    /\ script[j] \in Alive
    /\ ends < MaxEnds
    /\ script' = [script EXCEPT ![j] = "lost"]
    /\ IF script[j] = "applying" THEN Halfway(j) ELSE UNCHANGED table
    /\ ends' = ends + 1
    /\ UNCHANGED <<owner, proc, hand, archives, staged>>

-------------------------------------------------------------------------------
(***************************************************************************)
(* The process.                                                            *)
(***************************************************************************)

\* SIGTERM: no request is accepted any more and the poll timer is cleared.
Shutdown ==
    /\ proc = "up"
    /\ ends < MaxEnds
    /\ proc' = "stopping"
    /\ ends' = ends + 1
    /\ UNCHANGED <<table, owner, hand, disk>>

\* JobQueue.stop returns once the job in flight has ended; then exit.
Exit ==
    /\ proc = "stopping"
    /\ owner = NoJob
    /\ proc' = "down"
    /\ UNCHANGED <<table, owner, hand, disk, ends>>

\* The process dies: what was in memory is gone, the table is not.
Crash ==
    /\ proc # "down"
    /\ ends < MaxEnds
    /\ proc' = "down"
    /\ owner' = NoJob
    /\ hand' = {}
    /\ ends' = ends + 1
    /\ UNCHANGED <<table, disk>>

\* The machine restarts: a restore script dies with it, without a marker.
PowerLoss ==
    /\ ends < MaxEnds
    /\ proc' = "down"
    /\ owner' = NoJob
    /\ hand' = {}
    /\ ends' = ends + 1
    /\ script' = [j \in Jobs |-> IF script[j] \in Alive THEN "lost" ELSE script[j]]
    /\ UNCHANGED table \/ \E j \in Jobs : script[j] = "applying" /\ Halfway(j)
    /\ UNCHANGED <<archives, staged>>

\* Bug: start-up applies the markers but forgets the other orphans.
Bug_OrphansKept(j) == IF Running(j) /\ script[j] \in Markers THEN script[j] ELSE status[j]

\* What createAppContext makes of a row: reconcilePanelRestoreResults applies
\* the marker of a restore that is still running, then reconcileOrphans fails
\* every other row that is.
Reconciled(j) == IF ~Running(j) THEN status[j]
                 ELSE IF script[j] \in Markers THEN script[j]
                 ELSE "failed"

\* Start-up.  While the script replaces folders the service stays stopped:
\* only the script, or the machine booting, starts it again.
Boot ==
    /\ proc = "down"
    /\ \A j \in Jobs : script[j] # "applying"
    /\ proc' = "up"
    /\ status' = [j \in Jobs |-> Reconciled(j)]
    /\ script' = [j \in Jobs |-> IF script[j] \in Alive THEN script[j] ELSE "none"]
    /\ UNCHANGED <<attempts, cancelRequested, order, owner, hand, archives, staged, ends>>

-------------------------------------------------------------------------------
ScriptStep(j) == \/ ScriptStopsPanel(j)
                 \/ ScriptApplies(j)
                 \/ ScriptTimesOut(j)
                 \/ ScriptEnds(j)

Tick(j)        == Start(j) \/ StartUnhandled(j)
HandlerEnds(j) == HandlerReturns(j) \/ HandlerThrows(j)

Next == \/ \E j \in Jobs : \/ Enqueue(j)
                           \/ RequestCancel(j)
                           \/ Tick(j)
                           \/ Snapshot(j) \/ SpawnScript(j)
                           \/ HandlerEnds(j)
                           \/ ScriptStep(j)
                           \/ ScriptDies(j)
        \/ Shutdown
        \/ Exit
        \/ Crash
        \/ PowerLoss
        \/ Boot

Spec == Init /\ [][Next]_vars

(***************************************************************************)
(* The poll timer keeps firing, a handler ends, the script goes on, and a  *)
(* stopped service is started again.  Nobody has to enqueue or cancel, and *)
(* nothing has to crash.                                                   *)
(***************************************************************************)
Fairness == /\ \A j \in Jobs : /\ WF_vars(Tick(j))
                              /\ WF_vars(HandlerEnds(j))
                              /\ WF_vars(ScriptStep(j))
            /\ WF_vars(Exit)
            /\ WF_vars(Boot)

FairSpec == Spec /\ Fairness

-------------------------------------------------------------------------------
(***************************************************************************)
(* Properties.                                                             *)
(***************************************************************************)

Tables == [status : [Jobs -> Statuses], attempts : [Jobs -> Nat],
           cancelRequested : [Jobs -> BOOLEAN], order : Seq(Jobs)]

\* Types; no attempt beyond the row's maxAttempts is ever made (queue.ts:256).
TypeOK == /\ status \in [Jobs -> Statuses]
          /\ attempts \in [Jobs -> Nat]
          /\ \A j \in Jobs : attempts[j] <= MaxAttempts[j]
          /\ cancelRequested \in [Jobs -> BOOLEAN]
          /\ order \in Seq(Jobs)
          /\ owner \in Jobs \cup {NoJob}
          /\ proc \in {"up", "stopping", "down"}
          /\ hand \subseteq Tables /\ archives \subseteq Tables
          /\ script \in [Jobs -> Stages]
          /\ staged \in [Jobs -> archives]
          /\ ends \in Nat

\* Jobs mutate the file system, Caddy and Windows services, so two must never
\* be under way at once (queue.ts:17-19), deferred ones included, whatever
\* crashes, retries and restarts came before.
OneRunning == \A j, k \in Jobs : Running(j) /\ Running(k) => j = k

\* While the panel is up, a row that says running is being worked on, by this
\* process or by a script it left behind: no ghost survives a restart
\* (queue.ts:305-308).
NoGhost == \A j \in Jobs :
              proc = "up" /\ Running(j) => owner = j \/ script[j] \in {"staged", "lost"}

\* The handler on the stack and the row agree: what runs is what the table
\* says is running, and nothing runs in a process that is down.
OwnerRuns == owner # NoJob => Running(owner) /\ proc # "down"

\* A job that the table says was to be cancelled is never handed to a handler:
\* not when it was pending, not by a retry (queue.ts:117-129, 246-266).  A restore
\* brings the table of before the request back; then it does not say so.
CancelSticks == [][\A j \in Jobs : cancelRequested[j] /\ owner' = j => owner = j]_vars

\* The table is not the one it was: a script has come to its end.
Replaced == \E j \in Jobs : script[j] = "applying" /\ script'[j] # "applying"

\* A job cancelled while it runs is never reported as a success by the queue;
\* only the marker of a restore script can still say so.
NoSuccessAfterCancel == [][~Replaced => \A j \in Jobs :
                             cancelRequested[j] /\ Running(j) /\ status'[j] = "succeeded"
                               => script[j] = "succeeded"]_vars

\* The outcome of a job is written once: no later cancel, tick, retry or restart
\* rewrites a finished row, and only a script that puts an archive back undoes it.
FinishedIsFinal == [][~Replaced => \A j \in Jobs :
                        status[j] \in Finished => status'[j] = status[j]]_vars

\* A restore deferred to a script that died holds the queue until a restart.
HeldByLostScript == \E k \in Jobs : Running(k) /\ owner # k /\ script[k] = "lost"

\* Every job waiting in the queue is started, or finished without starting,
\* unless a restore script died: nothing else can hold the queue for ever.
PendingMoves == \A j \in Jobs :
                   status[j] = "pending" ~> (status[j] # "pending" \/ HeldByLostScript)

\* Every job under way comes to an end or back to the queue, or its script died.
RunningEnds == \A j \in Jobs :
                  Running(j) ~> (~Running(j) \/ HeldByLostScript)

(***************************************************************************)
(* The queue implements the serial executor.                               *)
(***************************************************************************)
In(t, S) == {j \in Jobs : t.status[j] \in S}

AsState(t) == [waiting   |-> In(t, {"pending"}),
               executing |-> In(t, {"running"}),
               finished  |-> In(t, Finished)]

Serial == INSTANCE SerialExecutor WITH waiting   <- In(Rows, {"pending"}),
                                       executing <- In(Rows, {"running"}),
                                       finished  <- In(Rows, Finished),
                                       kept      <- {AsState(t) : t \in archives \cup hand}

\* Jobs are taken one at a time, sent back at most to wait, and finished for
\* good, unless a restore puts back all of the queue as a backup kept it: rows,
\* timer, crashes and restarts do not show.
ImplementsSerialExecutor == Serial!Spec
===============================================================================
