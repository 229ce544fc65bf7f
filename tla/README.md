# WinPanel, specified

TLA+ modules of the parts of WinPanel (`src/apps/agent`) whose correctness depends on the order
in which things happen: the job queue, deploys, the outage monitor, the service watchdog, the
ports and the removal of websites, the routing of the web server, the schedule of the panel's
own backups, and the traffic figures. Each module is checked by TLC on small instances; every
safety property is proved with TLAPS for every value of the constants, and the liveness
properties are model-checked only.

Paths below are relative to `src/apps/agent/src/` unless they start with `apps/`, `packages/` or
`docs/`.

## 1. Inventory

WinPanel is one privileged Node process, the *agent* (`apps/agent`), that runs as a Windows
service next to the things it manages: websites (one WinSW service and one port each), the Caddy
web server, the Stalwart mail server, three database servers and game servers. The panel in the
browser (`apps/panel`) talks to it over tRPC. State that must outlive the agent is in SQLite,
read and written synchronously: a statement is atomic, and *every `await` is a place where
something else may happen*. That, and the agent or the machine ending at any of them, is what
the modules are about.

| Component | State it keeps | Operations | Talks to | What is hard |
| --- | --- | --- | --- | --- |
| Job queue `jobs/queue.ts` | `jobs`, `job_logs`; `#running`, `#controller`, `#draining` | enqueue, requestCancel, tick/run, defer, stop, reconcileOrphans | every handler; the markers of detached scripts | retries, cancellation against an outcome, deferral to a script that outlives the process, crashes |
| Panel restore `backups/service.ts` 1749-1988, 263-307 | marker files, the queue's row | spawn the script, reconcile at start | job queue, Windows services | a script that stops the panel it was spawned by |
| Deploy `sites/deploy-handler.ts`, `sites/deploy-pipeline.ts` | `release`, `.staging`, `.previous`; `deployments`; the service's registration | fetch, build, promote, start, check, repoint, roll back | service manager, Caddy, job queue, the owner's Start and Stop | failure at every step, a rollback that fails, what the next deploy makes of the remains |
| Outage monitor `mail/site-outage-monitor.ts` | `site_outage_states`; `#initialSweep`, `#sweeping` | sweep, record, notify | probes, mailer, stop intents, running deploys | the state changes while a sweep awaits probes and mails; restarts |
| Service watchdog `windows/service-watchdog.ts` | `#silentLastSweep`, `#lastState` | sweep, recover, revive | service manager, netstat, taskkill | races with owners and deploys over one service |
| Service manager `windows/service-manager.ts` | stop intents | install, uninstall, start, stop, restart | WinSW, `sc.exe`, stray processes | concurrent callers; a wrapper and its program that do not live and die together |
| Port allocator `sites/port-allocator.ts`, `sites/site-service.ts` | `port_allocations`; the ports on the rows of `sites` | allocatePair, allocatePreviewPort, reclaimStalePorts, release; ensurePreviewPorts at start | creation, removal and start-up of sites | what is in use is read before the machine is asked, with awaits, what is free |
| Caddy routing `caddy/*.ts`, `tls/custom-certificates.ts` | certificate files; Caddy's running and saved configuration | apply, tryApply, applyWhenReady, start with a quarantine of what was saved | everybody who changes a site or a certificate; Caddy's admin API | applies that meet, overtake one another or fail; a web server that stops and starts |
| Site removal `sites/site-removal.ts`, `api/routers/sites.ts` | pending folder removals | remove, retry and removal of orphaned services at start | queue, services, ports, routing | names that are free, and taken, again; deploys and creations of a site being removed |
| Panel backups `backups/service.ts` 1990-2343 | the `jobs` rows of a schedule; archives, and the table in each | check, pack, prune, delete, restore | job queue | periods, limits, cancelled attempts, an older table that comes back |
| Sign-in `services/auth-service.ts`, `security/throttle.ts` | sessions, attempts, bans | signIn, reset, second factor | - | check before an await, record after it |
| Traffic `traffic/collector.ts`, `traffic/failures.ts` | `traffic_cursors`, `site_traffic` | sweep; scans of the traffic page | Caddy's access logs | a log that is rolled while it is read, restarts |
| Job activity `apps/panel/src/lib/job-log.ts` | the viewer's last line number | poll | job logs | a second attempt |
| Everything else | see `components` in `PROJECT.json` | | | external calls, file handling, rendering |

`PROJECT.json` lists every component with what is modelled of it, and the hazards found, each at
its line, with the properties that would notice it going wrong.

## 2. Modules

| Module | Models | Checked by | Proofs |
| --- | --- | --- | --- |
| `SerialExecutor` | what the queue promises: one job at a time, outcomes undone only by a restore of all there was | as a property of `JobQueue` | refinement in `JobQueueProofs` |
| `JobQueue` (`MCJobQueue`) | the queue, the panel that hosts it, the restore script | `job_queue` | `JobQueueProofs` |
| `SiteVersion` | what a deploy means to visitors: replaced, or as it was | as a property of `Deploy` | refinement in `DeployProofs` |
| `Deploy` | one site over several deploys | `deploy` | `DeployProofs` |
| `OutageMonitor` | the sweep over all sites, and the sites under it | `outage_monitor` | `SweepProofs` |
| `ServiceWatchdog` | one service, the manager's calls, the watchdog | `service_watchdog`, `service_watchdog_restarts` | `ServiceWatchdogProofs` |
| `SitePorts` | the port table, creations, removals, start-up repairs | `site_ports` | `SitePortsProofs` |
| `SiteRemoval` | names, folders and services of sites that come and go | `site_removal` | `SiteRemovalProofs` |
| `WebRouting` | applies, certificates, the web server and what it saved | `web_routing`, `web_routing_overtaken` | `WebRoutingProofs` |
| `PanelBackups` (`MCPanelBackups`) | the schedule of snapshots, archives, restores | `panel_backups` | `PanelBackupsProofs` |
| `Traffic` | the access log of a site, its collector and its readers | `traffic`, `traffic_rolled` | `SweepProofs` |

A definition whose name begins with `Bug_` is the code with a plausible mistake in it: put in
place of the definition that follows it, it makes the property it is listed with in
`PROJECT.json` fail. They are not part of any specification.

### JobQueue

`table` is the `jobs` table, one row per job; `owner` is what `#run` holds in memory; `script`
is the detached PowerShell script of a panel restore, which lives outside the panel; `Markers`
are the files it leaves. `Tick` is `#tick` with the start of `#run`, `HandlerEnds` the outcome
of the handler with the retry, cancel and defer branches (lines 241-293). The panel ends by
`Shutdown`/`Exit` (a service stop, which waits for the job some seconds), `Crash`, `PowerLoss`
(which also ends the script) and by the script itself; `Boot` is `createAppContext`: markers
first, then orphans.

The table is itself in the backups. `Snapshot` is the copy a backup makes of it while it runs
(its own row among the others), which is in an archive once the backup has succeeded
(`archives`); `SpawnScript` unpacks one of them (`staged`), and `ScriptEnds` puts it in the
place of the current one (`PutBack`): rows that had finished are then pending, running or
`gone`, cancellations are undone, and the marker of the restore usually meets no row. A script
that stops halfway leaves the table as it was, removed, or replaced (`Halfway`).

Jobs are of three kinds: `backup` (retried, cancellable), `restore` (defers) and a kind without
a handler. What else a handler does is in the module of its component. Taken to be so: the file
`panel.db` that the archive also has among the panel's folders, which tar read while the panel
wrote, is no other table than the copy beside it. Left out: archives of the first format, which
have no such copy; of the scripts of one job all but the last; and the restore in process, which
is that of systems other than Windows.

### Deploy

`folders` holds what is in `release`, `.staging` and `.previous`; a version is the number of the
deploy that built it, with a kind: `good` comes up, `bad` does not, `no entry` has nothing to
start, `static` needs no process. The actions are the steps of `handleDeploy` in its order,
`Throw` is what a throw leads to at that point (a plain failure, or the rollback: `StopNew`,
`Restore`, `Restart`). `faults` names the steps that may fail, with `user` for the owner's Start
and Stop and `crash` for a panel that dies. Which may fail is chosen once, at the beginning, and
a property that needs some of them not to says so (`Undisturbed`, `Ordinary`, `Movable`). Health
checks retry, which is why a deploy may be cancelled there.

### OutageMonitor

`failures` and `notified` are the columns of `site_outage_states`; a missing row is a row with
no failures and nothing notified. `todo`, `skipped`, `allow`, `at` and `step` are the locals of
`sweep` and `record`. Sites go down and come back, are deployed, stopped, started and removed at
any step. A deploy stops its service as the owner does (`DeployStops`; `deploy-handler.ts` 744,
`service-manager.ts` 790-799), so that its stop is on record until it starts the service again
(`DeployStarts`), or for good when its folders cannot be moved. `open` and `unrecorded` are
history: what mail was sent, and whether the panel died before it was recorded; a site stays
`unrecorded` until its outage is over. `SeenStopped` is the step of a sweep at a site with a
stop on record that it had not found deploying: that sweep forgets the row, and
`RecoveryAnnounced` is claimed where there is none.

### ServiceWatchdog

`state` is what `sc.exe` says of the wrapper, `starting` and `holder` are the program and the
port: the program bound to it, an orphan of an earlier wrapper, or a stranger. `pc` and `plan`
place the two callers of the service manager: the watchdog, and the user, who is either the
owner or a deploy (`deploying` is the running job that `isBusy` looks for). `listed` follows the
processes found on the port to the step that ends them: it turns false when that process is gone
and stays true when its wrapper dies under it. One service is modelled; visits to the others are
time between two of its steps.

The owner's requests come one at a time, and not during a deploy (`Asks`), although `setRunning`
does not look for either: what an owner does to a deploy that is running is in `Deploy`. Assumed:
`taskkill` of a process that exists succeeds; a wrapper that runs, told to start, does nothing; a
start that Windows accepted shows as running until its program ends.

### SitePorts

`live`, `pair` and `preview` are the rows of `sites` with their ports, `owner` is the table
`port_allocations`, whose primary key is the port. `making` places each creation between its
awaits: after its row (`Insert`, which also reclaims), after the pair it is handed, while it
looks for a preview port, before its files. `found` is a port somebody has seen free and not yet
taken: between the two another creation, or start-up, may take it. `BootReclaim`, `EnsureRead`
and the steps after them are the start-up repairs, which run while requests are answered. An old
site may have been made by a version that gave no preview port. What the machine says of a port
is a choice.

### SiteRemoval

A site has a name (`slug`), free again once its row is gone; folders and services go by that
name, so `folder` and `service` say whose files are in it and whose deploy installed it. `make`,
`drop` and `job` place its creation, its removal and its deploy; `wiping` a process that is
deleting a folder, a removal or start-up, which first tries, then looks whether anything is
left, and remembers it (`pending`). Start-up lists services, uninstalls orphans and visits the
remembered names; it read once which names are in use (`inUse`). `raced` and `late` are history:
the sites created during a deletion of their name, and those worked on after their removal had
looked for work.

### WebRouting

An apply is `Write` (a certificate file at a time), `List`, `Sweep`, then `Send` and `Load`: the
configuration is built and sent in one step, and the web server takes what was sent in another, in
any order among callers. `database` is which sites are on, which have a stored certificate
(`cert`), and of which of these the private key can be read (`keys`): a key that is not there or
cannot be decrypted has its certificate skipped by `Write`, while the configuration names it from
its row. That is so of all stored keys when the panel starts with another master key (`Crash`).
`DiskFails` is an apply that ends in an error of the file system, while it writes or sweeps. Left
out: a file that is written in part, a folder that cannot be listed. `Change`, `Upload` and
`Remove` are requests that write it and apply; an upload whose apply fails is taken back (`Undo`).
`Boot` is whoever calls `applyWhenReady`, which tries several times. `Stop`, `Start` and
`Quarantine` are the web server's ends, its start from what it saved, and the panel's putting that
aside when it cannot be loaded. `crowded` is history: who was not alone since he read the rows.
`newest` and `behind` tell which configuration was built last and whether it is the one the web
server got last; a call that failed counts as behind, too, until the next one is through.

### PanelBackups

`now` counts the scheduler's checks; `Lengths` are the intervals of the frequencies in it, and a
period is `now` divided by one. `row` is the schedule's part of the `jobs` table, `archives`
what is on disk and `snap` the table inside an archive. `Check` enqueues; `Begin`, `Copy`,
`Pack`, `Prune`, `Delete` and `Finish` are the run, in which the table is copied several awaits
after the beginning, with what was enqueued or cancelled meanwhile; `PackFails` is its failure,
which may leave an archive beside the row of a failed job (`MayStay`). `Restore` replaces the
table by the one in an archive, in which the job that made it still runs, and so counts as
interrupted. The queue is first in, first out. A period is of a fixed length; those of the code
are of the calendar, a month among them.

### Traffic

A request is a number, in the order of the log. `file`, `before` and `kept` are the web
server's: the file it writes, where each begins, and the rolled copies on disk; `Roll` and
`Drop` are Caddy's `roll_size_mb` and `roll_keep`. The collector's `SweepLogs`, `Open`, `Read`
and `Save` are separated by its awaits; a file that was opened stays open when it is renamed.
`cursor` belongs to a name, as in `traffic_cursors`. `counted` is what `site_traffic` holds of a
request, by whether it was read from the live file or from a copy. `scan` is one look at the
traffic page, which lists the files, then reads them from the newest end. `cut` is history: the
lines counted by a panel that ended before it saved the cursor.

## 3. Runs and bounds

| Run | States | Bounds | Shows |
| --- | --- | --- | --- |
| `job_queue` | 107 000 | a backup of 2 attempts, a restore, an unhandled job; the panel ends twice | the queue's properties, its refinement under restores of an older table, and that jobs move |
| `deploy` | 400 000 | 3 deploys of every kind of build, on 4 machines: every failure but of the clean-up, with the owner; the ordinary failures; all that leave folders movable, with the owner; the same with crashes in his place | the 5 properties of a deploy, the refinement of `SiteVersion` among them |
| `outage_monitor` | 182 000 | 2 sites; the panel ends once | all properties of the monitor, liveness included |
| `service_watchdog` | 53 000 | 1 service; the panel ends once | all properties of the watchdog, liveness included |
| `site_ports` | 968 000 | 3 sites, one of them old and static; 3 app ports, 2 preview ports; the panel ends once | no port with two owners, whole creations, nothing burned, repairs |
| `site_removal` | 978 000 | 2 sites, 2 names; the panel ends once | files kept, nothing put back, nothing forgotten |
| `web_routing` | 717 000 | 2 requests and start-up on a site; the web server and the panel end once each, the panel with its keys or without | the web server follows, what an apply that was alone meets and leaves, and that the web server comes up |
| `panel_backups` | 1 340 000 | 3 jobs of two schedules, 3 checks, 2 failures; one end or restore | the schedule, its limits, and what is pruned |
| `traffic` | 365 000 | 3 requests, 2 rolls, 1 copy kept, a request a pass; the panel ends, or a file fails, once | what is counted, what a scan claims |

The bounds count only what the code does not bound itself, or divide a size by what fits in a
small instance (megabytes of log to lines). Two ends of the panel reach a restart that
interrupts what an earlier restart left; three deploys are needed because a stale `.previous` is
left by one, survives a second and is restored by a third; two sites of the monitor because the
sweep's memory of one must survive its awaits on the other. Ports are fewer than the sites need,
so creations meet over the last one and fail. Two sites that would like one name make every race
over it; the second name is the one a creation falls back on. Two requests and start-up are
three callers of apply, enough for one to overtake, to sweep and to refuse another. Three jobs
reach a snapshot that is superseded after the table that knows of it came back. Two rolls put a
line into a copy and out of it again.

A run that may stop because its bound is used up says so in its configuration (`CHECK_DEADLOCK
FALSE`); in the others TLC also shows that nothing gets stuck.

Three runs expect a violation; each checks one sentence of the code's own comments or docs,
quoted under `findings`:

- `service_watchdog_restarts`: a service that could not be started when it was first found
  stopped is never tried again.
- `web_routing_overtaken`: two applies load their configurations in another order than they
  built them in, and the older one stays.
- `traffic_rolled`: what was read from a log before it was rolled is counted again from the
  rolled copy, which has a name, and so a cursor, of its own.

## 4. Fairness

Only the program's own progress is assumed. In `JobQueue`: the poll timer fires, a handler that
was started ends, a script that lives goes on, a panel asked to stop exits, and a panel that is
down is started again (the service is automatic). Nothing is assumed of the users, of crashes or
of scripts that are killed. In `OutageMonitor`: the timer fires, a probe has a timeout and a
mail ends. In `ServiceWatchdog`: the timer fires and the calls of `sc.exe`, `netstat` and the
wrapper, all with timeouts, come back; Windows carries out the failure action that the service
was installed with (`service-manager.ts` 186-189). In `WebRouting`: somebody starts a web server
that is down, and a start that fails on its saved configuration leads to the quarantine of it
(`caddy/service.ts`). In `Traffic`: the collector's timer fires and the file system answers,
with an error a bounded number of times. The other modules state no liveness: that a job ends is
the queue's `RunningEnds`.

## 5. Proofs

Every theorem has the same shape: an inductive invariant `IInv`, that `Init` implies it, that
every step keeps it, with a case per action, and the property from it. The type invariants
(`TypeOK`) are conjuncts of it and are proved as `TypeCorrect`, not listed in the runs. What
makes each invariant inductive:

- **JobQueueProofs**, for any set of jobs, kinds, attempt limits, archives and number of ends.
  What is true of the table has to be true of every table that a restore may put in its place
  (`OthersSound`): one row runs at most, a row that waits has an attempt left and was not
  cancelled. That no row is a ghost needs to know where its work is: on the stack of a panel
  that is up (`HandOwned`), or with the script that the row's handler spawned (`OwnerScript`);
  and that nobody is up when the table is replaced (`PanelAway`), so that start-up closes the
  rows that come back running. From the same invariant: `QueueIsSerialExecutor`, the refinement
  of an executor whose state as a whole may come back as it was kept; `OneAtATime`, which no
  restore breaks; and `OutcomesAreFinal`, that nothing but a restore undoes an outcome.
- **DeployProofs**, for any number of deploys, kinds and faults, in four parts. `NewestKept`,
  with `PreviousIsNewest`, needs, for each step of the handler, where the newest working version
  is: what may be in staging before it is promoted (`Staged`), that the live folder is the new
  version after it (`Promoted`), and that it has not been called a success before it was proven
  (`Unproven`); `Undisturbed` names the three conditions without which it is false: no crash, a
  clean-up that works, builds with something to start. `NoStopLeftBehind` follows from the steps
  between which a deploy's stop may be on record, and that nothing runs while it is (`OwnStop`).
  `ToldNoPrevious` needs that nothing holds the folder that is to be moved back (`Said`).
  `ReplacedOrKept`, the refinement of `SiteVersion`, holds where only what a deploy is there to
  survive goes wrong (`Ordinary`). Its mapping forgets the folders, the service and the steps: it
  keeps the version that answers, the deploy, what answered when that began, and how it ended. It
  needs that what runs is what is live, and nothing stays moved aside between deploys (`Tidy`);
  where the version is that ran at the beginning: running, live, moved aside, live again
  (`Returns`); that the new version and the one before it are never in the same place (`Apart`);
  and what runs when a deploy ends well (`Settles`) or not (`Left`). That a failed deploy leaves
  running what ran before (`FailedDeployHarmless`) is what a reader would ask of it first.
- **SweepProofs**, of the two sweeps that read while others write. For the outage monitor, with
  any set of sites: a row alone does not tell what was said; `Mailing` says what is true between a
  mail and its row, `RowsHonest` that a row never knows of an outage nobody was told of. For
  `Traffic`, with any number of requests, rolls and copies: how far the log has been counted under
  each name is not what the cursor says, but `LiveReach` and `CopyReach`, with what is in hand
  between the row and the cursor (`InHand`); no line beyond has been counted more often than
  panels ended before their cursor was saved (`CountedOnce`), and no cursor is past the end of a
  copy (`CursorsFit`). `CountedTwiceAtMost` follows: the finding of `traffic_rolled` doubles a
  request, and only ends of the panel do more. For the scan, `Seen`: what it has not seen is older
  than all it read, unless it was in copies that are gone, and the oldest of those go first.
- **ServiceWatchdogProofs**, for any number of ends of the panel. `Held` says that a stop that
  was not raced is on record and that the watchdog is not past the point of looking; `Serves`
  that a visit does not get past its probe while the program it met holds the port.
- **SitePortsProofs**, for any number of sites and any two ranges. A creation records ports it
  was handed several awaits before: `HandedOver` says that the table has kept them for it,
  because the reclaim compares with the site's pair, and a site has none until then (`Staged`).
  For the repairs, `Listed` says that what start-up has not yet visited is all that there is to
  repair.
- **SiteRemovalProofs**, for any number of sites, names and ends. What is deleted is decided by
  name and meant for a site: `Unused` says that whoever deletes a folder has seen its name unused,
  so that a site that has it now was created since; `HadOwners` that a remembered folder was of a
  site that is gone; `RowGoes` and `Watched` that a deploy at work for a site without a row began
  after the removal had looked.
- **WebRoutingProofs**, for any number of sites and requests. An apply is right about the rows it
  read only while it is alone: `Exact` follows one that is, from step to step, and says which
  files are there, which are those of the certificates whose keys can be read (`Usable`). From
  that `AloneIsTaken`: whoever was alone is refused only if some stored certificate is not among
  them; `Newest` says, once everybody has sent what he came for, that the newest configuration is
  what the database says, on its way or at the web server.
- **PanelBackupsProofs**, for any frequencies, any number of jobs and restores. A restore may
  bring back any table that is in an archive, so what holds of the table of jobs is carried for
  those too (`AllSound`); that what an older table takes for superseded is gone needs that a
  table in the archive of a success knows of no success that the current one does not
  (`History`), that the table is sound when it is copied (`CopyKeeps`), and that the queue
  begins nothing that was made before one that has begun (`InOrder`). The limit on failures is
  an argument about cardinalities (`Limited`), of the table there is: `RetriesAreLimited` says,
  too, that only a restore takes failures off it.

The only assumptions are those on the constants, stated in the modules. Only model-checked:
liveness (`PendingMoves`, `RunningEnds`, `OutageAnnounced`, `RecoveryAnnounced`, `Recovers`,
`Starts`, `CopiesCounted`), which the prover does not do under fairness.

## 6. Where the code and its comments part

Found while modelling, besides the findings above; none of these has a run of its own.

*Queue.* A restore whose handler throws after it spawned its script, at the await before it defers
(`backups/service.ts` 1931), has failed while its script is at work, and no longer owns the
machine (`jobs/queue.ts` 164). A panel restore replaces `panel.db` by a snapshot
(`backups/service.ts` 1827-1833) in which its own job is unknown and the backup job that made the
snapshot is running: the marker is not applied, the snapshot's job counts as interrupted, jobs
that have ended since are unknown or run once more, also those that were cancelled. `runDetached`
has no `error` listener, so a script that cannot be spawned leaves a deferred row until the next
start. The update of the panel (`components/panel-update.ts` 234) does not defer: the next job
starts before it ends the panel, and is interrupted. A second attempt's log starts at 0 again,
below the line the viewer asks for.

*Deploy.* A clean-up that failed (`discardPrevious`, `deploy-pipeline.ts` 594) leaves an older
version in `.previous`, where the next deploy looks for the newest version that worked (the
comment at 544): that one is then dropped, and a rollback restores the older. Whether a version
is serving is read off the registration of its service (`isServing`, `deploy-handler.ts` 310;
"whether a previous version is serving right now, and would be lost", 305). A deploy whose port
was taken has removed that registration; if the next build has nothing to start, it counts as a
first deploy and the version that worked is discarded (695-697). A live folder that cannot be
moved (`promoteStaging`, line 747) ends the deploy with the site stopped and that stop on record
as deliberate, which the comment at 983 warns of: `NoStopLeftBehind` is claimed only of folders
that can be moved. A runtime that cannot be resolved after the swap (756) throws outside of the
part that rolls back. A port that is taken (769) is noticed after the service was removed (767),
so the rollback has nothing to restart (comment 956). The message at 911 says that the previous
version has been put back also when it has not. `docs/architecture.md` 118-121 describes a
blue/green deploy that leaves the live site untouched; line 744 stops it first.

*Outage monitor.* Which sites are deploying is read once per sweep (`site-outage-monitor.ts` 142,
154): a deploy that begins while its site waits to be probed is mailed as an outage. If its stop
is on record (`deploy-handler.ts` 744) when the sweep comes to the site, the sweep takes it for
the owner's (169-172) and forgets the row: an outage that was announced never gets its recovery
mail, or is announced again, although "a site that was already down before the deploy still gets
its recovery message" (157-159; the test "says nothing while deployed, and forgets nothing either"
has the deploy begin before the sweep). A panel that ends between an outage mail and its row mails
the outage again (class comment, line 82: "neither forgets an active outage nor announces it
again"); `OneMailPerOutage` states what does hold. A site stopped on purpose while it is being
probed may be mailed as down.

*Watchdog.* Whether a deploy is running is asked at the beginning of a visit (428), not
"immediately before acting"; a deploy that begins during the visit's awaits has its service
started or its program ended. The stop intent is read before the strays are ended, so an owner's
Stop in that window is undone (`StopHeld` excuses that visit). A service started between the
query that found it stopped and the listing of its port has its healthy program ended, although
"whatever of ours is on the port is the previous incarnation". The silence of a program that
died is held against the one that was started after it. A restart cut off between its stop and
its start leaves the stop on record (`IntentHonest` names the case).

*Ports.* A creation cut off by the end of the panel before its ports were recorded leaves a pair
that is allocated to it and configured nowhere, and a site that cannot be deployed ("Remove and
re-create it"). When start-up gives a site that is just being created the preview port that the
creation was about to take, the creation records none; the next start records it. `assignManual`
has no caller.

*Removal.* A site created under a name while the folder of that name is being deleted loses the
files it began with; `FilesKept` names those. Start-up reads the names in use once, before it
visits the first folder. What start-up forgets after a folder is gone may be a newer entry of
the same name. A deploy that was queued when the removal looked may begin afterwards and install
the service of a site that is gone, which goes at the next start. A creation that fails after
somebody else's apply picked up its row leaves its route until the next apply.

*Routing.* Replacing a certificate by one whose apply then fails takes the earlier one away, too
(`api/routers/ssl.ts` 353-403). Applies that meet may sweep each other's certificate files, and
the web server then refuses the whole configuration. An apply that was alone is refused, too, when
a stored certificate has a key that is missing or cannot be decrypted, for which `readSecret`
gives null (`security/secret-store.ts` 21-28), as after the loss of the master key: its files are
skipped and swept, the configuration names them from the row (`reconciler.ts` 171-177), and every
apply, of whatever site, fails until the certificate is removed or supplied again. The comments
say that "Skipping leaves the site on automation" (`custom-certificates.ts` 298-299) and that the
files are written first because a missing one "would take every website down" (`reconciler.ts`
258-261). `AloneTaken` says that these are the only ways.

*Panel backups.* A run that is cancelled, cut off, or fails on a later archive after it has
removed the snapshot it replaces (`backups/service.ts` 2282) leaves its schedule without one that
can be restored, though "the snapshot this slot holds" is one "which the next successful run
replaces" (2171); `SlotHeld` excuses those runs. Two snapshots may end closer together than the
minimum interval when one is still waiting or running as the next period begins. A cancelled
attempt neither settles its period nor counts as a failure: the scheduler enqueues another at its
next check. The failures before a restore are forgotten with the table that knew of them, so a
period may have more than three attempts in all. A run that fails may leave its archive behind (a
removal that Windows refuses, 540, or a working folder that it keeps, 1741), which the panel does
not list; the next run that succeeds removes it. A success that ends after midnight can let a
period pass without a snapshot. After a restore the job that made the archive counts as
interrupted, and archives of jobs the older table does not know are never pruned.

*Traffic.* A live file that has grown past the offset at which the one before it was left, when
it is next read, is taken for the same file: its first lines are counted when it is rolled. A
scan whose log is rolled under it may call itself complete without having seen the newest lines
of its window. That Caddy does not compress the copies is taken from the collector's pattern for
their names.

## 7. Not modelled

External calls, file handling, parsing, rendering and validation, as listed with reasons under
`components`; most of the repository's lines are of this kind (the pages of the browser, the
routers, the clients of the mail server, of DNS and of the database engines). Of the modelled
parts: job logs and progress; what a build command does; `publishManagedSite` (deploy-handler.ts
1033-1161), which removes a service before it claims the port and has no rollback; a stop intent
that cannot be saved; Windows' passing service states; a program that is slow to bind its port;
the databases of a site that is removed; the backups of single sites; the certificates that
Caddy obtains itself; the hours and status classes of a request, lines that are written in part,
a log that is cut short by hand (`traffic/collector.ts` 77-82) and one with bytes that are not
UTF-8, by which the offset of the next read would be off (93-102: it is the length of a text
that was decoded and encoded again; `Read` takes it for what was read), the cap on the entries
of a scan, and the pruning of rows after 400 days and of cursors after 7.

## 8. Next

1. `ManagedSite`: the publication of a site without releases, over the service of
   `ServiceWatchdog`; a site that was up and whose publication fails.
2. `JobActivity`: log lines, attempts and the viewer, for what `afterSeq` hides of a second
   attempt.
3. `SignIn`: the throttle and the set-up of a second factor, with requests that meet.
