-------------------------------- MODULE Deploy --------------------------------
(***************************************************************************)
(* One website that is deployed from Git again and again:                  *)
(* createDeployHandler and rollBack (sites/deploy-handler.ts) over the     *)
(* three folders of sites/deploy-pipeline.ts, and the Windows service that *)
(* runs the site (windows/service-manager.ts).                             *)
(*                                                                         *)
(* A deploy is a job, so two never overlap; but it awaits at every step,   *)
(* and in between the owner may press Start or Stop, or the panel may die. *)
(* Every step of the machine that can fail has a name in AllFaults; what   *)
(* may fail on this machine is decided once, in faults, and the properties *)
(* that depend on it say so.                                               *)
(***************************************************************************)
EXTENDS Naturals

CONSTANTS MaxDeploys,  \* bound: deploys of the site
          Kinds,       \* what a build may turn out to be, see AllKinds
          Scenarios,   \* the sets of steps that may fail, see AllFaults
          Absent, Empty, Rubble, None

Versions  == 1..MaxDeploys

\* A build serves files only; or has nothing to start; or comes up; or does not.
AllKinds  == {"static", "no entry", "good", "bad"}

AllFaults == {"stop", "uninstall", "remove", "rename", "runtime", "claim", "install",
              "start", "health", "route", "discard", "user", "crash"}

ASSUME DeployAssumption ==
    /\ MaxDeploys \in Nat
    /\ Kinds \subseteq AllKinds
    /\ Scenarios \subseteq SUBSET AllFaults
    /\ {Absent, Empty, Rubble, None} \cap (0..MaxDeploys) = {}
    /\ Absent \notin {Empty, Rubble} /\ Empty # Rubble

VARIABLES kind,        \* what each version is: decided by whoever wrote it
          faults,      \* the steps that may fail on this machine
          release,     \* the live folder
          staging,     \* where the next version is assembled
          previous,    \* the outgoing version, until the new one is proven
          installed,   \* whether the Windows service is registered
          running,     \* the version its process has loaded, if it runs
          stopIntent,  \* the stop on record, and whose doing it was
          row,         \* deployments.status of each deploy
          now,         \* the deploy under way, or the last one
          pc,          \* where its handler is
          liveIsPrevious,
          told,        \* the last line of its log
          before,      \* history: live folder and process when it began
          proven       \* history: the versions that were put into service

folders == <<release, staging, previous>>
service == <<installed, running, stopIntent>>
ledger  == <<kind, faults, now, before>>
vars    == <<folders, service, ledger, row, pc, liveIsPrevious, told, proven>>

Contents   == Versions \cup {Absent, Empty, Rubble}
Programs   == Versions \cup {None}
InProgress == {"preparing", "building", "switching", "healthchecking"}
RowStatus  == {"none", "succeeded", "needs-setup", "failed"} \cup InProgress
Steps      == {"idle", "fetch", "build", "decide", "aside", "movein", "resolve", "uninstall",
               "install", "start", "health", "retry", "route", "finish", "roll back",
               "restore", "restart"}

Init == /\ kind \in [Versions -> Kinds] /\ faults \in Scenarios
        /\ release = Empty /\ staging = Absent /\ previous = Absent
        /\ installed = FALSE /\ running = None /\ stopIntent = "none"
        /\ row = [v \in Versions |-> "none"]
        /\ now = 0 /\ pc = "idle" /\ liveIsPrevious = TRUE /\ told = "nothing"
        /\ before = [code |-> Empty, up |-> FALSE] /\ proven = {}

-------------------------------------------------------------------------------
(***************************************************************************)
(* What the steps are made of.                                             *)
(***************************************************************************)
May(fault)        == fault \in faults
HasContent(c)     == c \notin {Absent, Empty}
ComesUp(c)        == c \in Versions /\ kind[c] = "good"

\* The process keeps the live folder open, and Windows neither renames nor
\* removes a folder out from under it.
Held              == running # None

\* On to the next step, the row untouched or in another status.
Goto(step)        == pc' = step /\ UNCHANGED <<row, liveIsPrevious, told>>
GotoAs(step, st)  == /\ pc' = step
                     /\ row' = [row EXCEPT ![now] = st]
                     /\ UNCHANGED <<liveIsPrevious, told>>

\* The outer catch: the row is failed, and the log says what became of the site.
Throw(live)       == /\ pc' = "idle"
                     /\ row' = [row EXCEPT ![now] = "failed"]
                     /\ told' = IF live THEN "left running" ELSE "not running"
                     /\ liveIsPrevious' = live

\* services.stop, its failure included: the intent goes on record first, for a
\* service that is registered, and may outlive a stop that did not work.
Marked(who)       == IF stopIntent = "none" THEN who ELSE stopIntent

ServiceStop(who)  == IF installed
                     THEN /\ stopIntent' = Marked(who)
                          /\ running' \in {None} \cup (IF May("stop") THEN {running} ELSE {})
                          /\ UNCHANGED installed
                     ELSE UNCHANGED service

\* services.start of what is in the live folder: the intent is cleared before
\* anything is tried.  A build that does not answer may run all the same.
ServiceStart      == /\ stopIntent' = "none"
                     /\ running' \in
                          IF ~installed \/ Held THEN {running}
                          ELSE IF ComesUp(release)
                            THEN {release} \cup (IF May("start") THEN {None} ELSE {})
                          ELSE IF release \in Versions /\ kind[release] = "bad"
                            THEN {release, None}
                          ELSE {None}
                     /\ UNCHANGED installed

\* services.uninstall clears the intent last; one that failed may have stopped
\* the process.
ServiceGone       == installed' = FALSE /\ running' = None /\ stopIntent' = "none"
UninstallFailed   == /\ May("uninstall") /\ installed
                     /\ running' \in {running, None}
                     /\ UNCHANGED <<installed, stopIntent>>

-------------------------------------------------------------------------------
(***************************************************************************)
(* Assembling the next version, beside the live one.                       *)
(***************************************************************************)
Begin ==
    /\ pc = "idle"
    /\ now < MaxDeploys
    /\ now' = now + 1
    /\ before' = [code |-> release, up |-> Held]
    /\ row' = [row EXCEPT ![now + 1] = "preparing"]
    /\ pc' = "fetch" /\ liveIsPrevious' = TRUE /\ told' = "nothing"
    /\ UNCHANGED <<kind, faults, folders, service, proven>>

\* prepareStaging and the clone, or the upload moved into place.
Fetch ==
    /\ pc = "fetch"
    /\ \/ staging' = now /\ GotoAs("build", "building")
       \/ staging' \in {staging, Absent, Rubble} /\ Throw(TRUE)
    /\ UNCHANGED <<release, previous, service, ledger, proven>>

\* The build steps, the pruning and the two tests for a cancellation.
Build ==
    /\ pc = "build"
    /\ \/ staging' = staging /\ Goto("decide")
       \/ staging' \in {staging, Rubble} /\ Throw(TRUE)
    /\ UNCHANGED <<release, previous, service, ledger, proven>>

\* isServing: whether a version is serving that publishing would lose.
IsServing == installed /\ HasContent(release)

\* A static site needs no service any more; a build with nothing to start is
\* only published where nothing serves; any other stops the running version.
Decide ==
    /\ pc = "decide"
    /\ CASE kind[now] = "static" ->
              GotoAs("aside", "switching") /\ (ServiceGone \/ UninstallFailed)
         [] kind[now] = "no entry" ->
              /\ IF IsServing THEN Throw(TRUE) ELSE GotoAs("aside", "switching")
              /\ UNCHANGED service
         [] OTHER -> GotoAs("aside", "switching") /\ ServiceStop("deploy")
    /\ UNCHANGED <<folders, ledger, proven>>

-------------------------------------------------------------------------------
(***************************************************************************)
(* promoteStaging: two renames.                                            *)
(***************************************************************************)

\* Bug: a leftover .previous is replaced by the build that never started.
Bug_AsideReplacesPrevious ==
    /\ pc = "aside"
    /\ Goto("movein")
    /\ release' = Absent
    /\ previous' = IF HasContent(release) THEN release ELSE previous
    /\ UNCHANGED <<staging, service, ledger, proven>>

\* An outgoing version that never served is removed when .previous still holds
\* one that did, and so is the empty folder a site is created with.
MoveAside ==
    /\ pc = "aside"
    /\ LET drop == HasContent(previous) \/ ~HasContent(release)
       IN \/ release = Absent /\ Goto("movein") /\ UNCHANGED folders
          \/ /\ release # Absent /\ ~Held
             /\ Goto("movein")
             /\ release' = Absent
             /\ previous' = IF drop THEN previous ELSE release
             /\ UNCHANGED staging
          \/ /\ release # Absent
             /\ Held \/ May(IF drop THEN "remove" ELSE "rename")
             /\ Throw(liveIsPrevious)
             /\ release' \in IF drop THEN {release, Rubble} ELSE {release}
             /\ UNCHANGED <<staging, previous>>
    /\ UNCHANGED <<service, ledger, proven>>

\* The staged version becomes the live one.  Only a site that runs a process
\* takes note of it in liveIsPrevious.  A rename that fails puts the outgoing
\* version back, which may fail like it.
MoveIn ==
    /\ pc = "movein"
    /\ \/ /\ release' = staging /\ staging' = Absent /\ UNCHANGED previous
          /\ IF kind[now] = "static" THEN Goto("route")
             ELSE /\ pc' = IF kind[now] = "no entry" THEN "finish" ELSE "resolve"
                  /\ liveIsPrevious' = FALSE
                  /\ UNCHANGED <<row, told>>
       \/ /\ May("rename") /\ Throw(TRUE) /\ UNCHANGED staging
          /\ \/ release' = previous /\ previous' = Absent
             \/ UNCHANGED <<release, previous>>
    /\ UNCHANGED <<service, ledger, proven>>

-------------------------------------------------------------------------------
(***************************************************************************)
(* Starting what was promoted, and proving that it works.                  *)
(***************************************************************************)

\* resolveRuntimeExecutable is outside of the part that rolls back.
Resolve ==
    /\ pc = "resolve"
    /\ Goto("uninstall") \/ (May("runtime") /\ Throw(liveIsPrevious))
    /\ UNCHANGED <<folders, service, ledger, proven>>

Uninstall ==
    /\ pc = "uninstall"
    /\ \/ ServiceGone /\ Goto("install")
       \/ UninstallFailed /\ Goto("retry")
    /\ UNCHANGED <<folders, ledger, proven>>

\* claimPort refuses a port a foreign program holds; install may fail before
\* or after the service is registered.
Install ==
    /\ pc = "install"
    /\ \/ installed' = TRUE /\ Goto("start")
       \/ May("claim") /\ Goto("retry") /\ UNCHANGED installed
       \/ May("install") /\ Goto("retry") /\ installed' \in BOOLEAN
    /\ UNCHANGED <<folders, running, stopIntent, ledger, proven>>

\* Bug: "Starting used to sit outside this" (deploy-handler.ts:761): no rollback.
Bug_StartOutside ==
    /\ pc = "start"
    /\ ServiceStart
    /\ \/ running' # None /\ GotoAs("health", "healthchecking")
       \/ running' = None /\ Throw(liveIsPrevious)
    /\ UNCHANGED <<folders, ledger, proven>>

\* A service the owner has started meanwhile may refuse to be started again.
StartNew ==
    /\ pc = "start"
    /\ ServiceStart
    /\ \/ running' # None /\ GotoAs("health", "healthchecking")
       \/ (running' = None \/ Held) /\ Goto("retry")
    /\ UNCHANGED <<folders, ledger, proven>>

Healthy == running = now /\ ComesUp(now)

\* A deploy that is cancelled while it waits fails its health check, too.
Health ==
    /\ pc = "health"
    /\ \/ Healthy /\ GotoAs("route", "switching")
       \/ (~Healthy \/ May("health")) /\ Goto("retry")
    /\ UNCHANGED <<folders, service, ledger, proven>>

\* One restart, then the health check again: a stop that worked, or threw and
\* left its intent on record, and the start after it.
Retry ==
    /\ pc = "retry"
    /\ \/ /\ installed /\ ComesUp(release)
          /\ running' = release /\ stopIntent' = "none"
          /\ GotoAs("route", "switching")
       \/ /\ \/ ~installed
             \/ ~ComesUp(release)
             \/ faults \cap {"start", "health", "stop"} # {}
          /\ IF ~installed THEN running' = running /\ stopIntent' = "none"
             ELSE \/ /\ stopIntent' = "none"
                     /\ running' \in {None} \cup {v \in Versions : v = release}
                  \/ /\ May("stop") /\ stopIntent' = Marked("deploy")
                     /\ running' = running
          /\ Goto("roll back")
    /\ UNCHANGED <<folders, installed, ledger, proven>>

\* switchUpstream, or routing.apply when that fails; both failing rolls back.  A
\* static site has only routing.apply, and nothing to roll back to.
Route ==
    /\ pc = "route"
    /\ \/ Goto("finish") /\ proven' = proven \cup {now}
       \/ /\ May("route")
          /\ IF kind[now] = "static" THEN Throw(liveIsPrevious) ELSE Goto("roll back")
          /\ UNCHANGED proven
    /\ UNCHANGED <<folders, service, ledger>>

\* Bug: the outgoing version is not discarded.
Bug_FinishKeepsPrevious ==
    /\ pc = "finish"
    /\ GotoAs("idle", "succeeded")
    /\ UNCHANGED <<folders, service, ledger, proven>>

\* discardPrevious, whose failure is swallowed, and the last status.
Finish ==
    /\ pc = "finish"
    /\ previous' \in {Absent} \cup (IF May("discard") /\ previous # Absent
                                    THEN {previous, Rubble} ELSE {})
    /\ \/ kind[now] # "no entry" /\ GotoAs("idle", "succeeded")
       \/ kind[now] \in {"static", "no entry"} /\ GotoAs("idle", "needs-setup")
    /\ UNCHANGED <<release, staging, service, ledger, proven>>

-------------------------------------------------------------------------------
(***************************************************************************)
(* rollBack.                                                               *)
(***************************************************************************)
StopNew ==
    /\ pc = "roll back"
    /\ ServiceStop("deploy")
    /\ Goto("restore")
    /\ UNCHANGED <<folders, ledger, proven>>

\* Bug: the stop of a rollback that found nothing to restore stays on record.
Bug_NotRestored == Throw(liveIsPrevious) /\ UNCHANGED service

\* Not restored: the stop is taken off the record, and the deploy fails.
NotRestored == stopIntent' = "none" /\ Throw(liveIsPrevious) /\ UNCHANGED <<installed, running>>

\* restorePrevious: the failed build goes to staging if it can be moved, and
\* the outgoing version back to the live folder if that is then free.
Restore ==
    /\ pc = "restore"
    /\ \/ /\ ~HasContent(previous)
          /\ previous' = Absent /\ NotRestored
          /\ UNCHANGED <<release, staging>>
       \/ /\ HasContent(previous) /\ May("remove")
          /\ staging' \in {staging, Rubble} /\ NotRestored
          /\ UNCHANGED <<release, previous>>
       \/ /\ HasContent(previous) /\ ~Held
          /\ release' = previous /\ previous' = Absent /\ staging' = release
          /\ Goto("restart") /\ UNCHANGED service
       \/ /\ HasContent(previous) /\ (Held \/ May("rename"))
          /\ \/ staging' = Absent /\ UNCHANGED release
             \/ ~Held /\ staging' = release /\ release' = Absent
          /\ NotRestored /\ UNCHANGED previous
    /\ UNCHANGED <<ledger, proven>>

\* Bug: the version put back is not started.
Bug_NotRestarted ==
    /\ pc = "restart"
    /\ Throw(TRUE)
    /\ UNCHANGED <<folders, service, ledger, proven>>

\* The start of the old version, its failure swallowed.
Restart ==
    /\ pc = "restart"
    /\ ServiceStart
    /\ Throw(TRUE)
    /\ UNCHANGED <<folders, ledger, proven>>

-------------------------------------------------------------------------------
(***************************************************************************)
(* Others.                                                                 *)
(***************************************************************************)

\* The owner's Start and Stop buttons do not ask whether a deploy is at work.
UserStart ==
    /\ May("user") /\ installed /\ ~Held
    /\ ServiceStart
    /\ UNCHANGED <<folders, ledger, row, pc, liveIsPrevious, told, proven>>

UserStop ==
    /\ May("user") /\ installed
    /\ stopIntent' = "user"
    /\ running' \in {None} \cup (IF May("stop") THEN {running} ELSE {})
    /\ UNCHANGED <<folders, installed, ledger, row, pc, liveIsPrevious, told, proven>>

\* The panel dies in the middle of a deploy.  Nothing picks the deploy up: its
\* row stays as it is, and so does what it did so far.
Crash ==
    /\ May("crash")
    /\ pc # "idle"
    /\ pc' = "idle"
    /\ UNCHANGED <<folders, service, ledger, row, liveIsPrevious, told, proven>>

Step == \/ Begin \/ Fetch \/ Build \/ Decide
        \/ MoveAside \/ MoveIn \/ Resolve \/ Uninstall \/ Install
        \/ StartNew \/ Health \/ Retry \/ Route \/ Finish
        \/ StopNew \/ Restore \/ Restart

Next == \/ Step
        \/ UserStart
        \/ UserStop
        \/ Crash

Spec == Init /\ [][Next]_vars

-------------------------------------------------------------------------------
(***************************************************************************)
(* Properties.                                                             *)
(***************************************************************************)

FoldersOK == release \in Contents /\ staging \in Contents /\ previous \in Contents
ServiceOK == /\ installed \in BOOLEAN
             /\ running \in Programs
             /\ stopIntent \in {"none", "deploy", "user"}
LedgerOK  == /\ kind \in [Versions -> Kinds]
             /\ faults \in Scenarios
             /\ now \in 0..MaxDeploys
             /\ before \in [code : Contents, up : BOOLEAN]
             /\ proven \in SUBSET Versions
HandlerOK == /\ pc \in Steps
             /\ liveIsPrevious \in BOOLEAN
             /\ told \in {"nothing", "left running", "not running"}
RowOK     == /\ row \in [Versions -> RowStatus]
             /\ pc # "idle" => row[now] \in InProgress

\* Types; the row of a deploy under way is not closed before its last step.
TypeOK == FoldersOK /\ ServiceOK /\ LedgerOK /\ HandlerOK /\ RowOK

Newest(v) == v \in proven /\ \A w \in proven : w <= v

\* The newest version known to work is on disk at every moment, whatever is
\* being swapped, put back or cleared: live, or moved aside.  "Until the new one
\* has answered a health check it is still the only version known to work"
\* (deploy-pipeline.ts:539-540).
NewestKept == \A v \in Versions : Newest(v) => v \in {release, previous}

\* What that takes: the panel stays up, the clean-up after a success works, and
\* no build has nothing to start.
Undisturbed == /\ faults \cap {"discard", "crash"} = {}
               /\ \A v \in Versions : kind[v] # "no entry"

\* So it is on a machine where any other step may fail, at any time, and the
\* owner may press Start and Stop.
NewestSurvives == Undisturbed => NewestKept

\* "A .previous that is still here belongs to a deploy that failed after this
\* point, which makes it the newest version known to have served traffic"
\* (deploy-pipeline.ts:544-547): what promoteStaging finds moved aside is that
\* version, if any ever served.
PreviousIsNewest == Undisturbed /\ pc \in {"idle", "aside"} /\ HasContent(previous) /\ proven # {}
                      => previous \in Versions /\ Newest(previous)

NoStatic   == \A v \in Versions : kind[v] # "static"
WasServing == before.up /\ ComesUp(before.code)

\* Only what a deploy is there to survive goes wrong: a build, a health check,
\* the removal of the service, the web server; and no site gives up its process.
Ordinary == /\ faults \subseteq {"uninstall", "health", "route"}
            /\ NoStatic

\* "The service definition is unchanged [...] so starting it again is all it
\* takes to have the old version serving" (deploy-handler.ts:956-958): after a
\* deploy that failed, a site that was up runs what it ran before.
FailedRunsBefore == Ordinary /\ pc = "idle" /\ now > 0 /\ row[now] = "failed" /\ WasServing
                      => running = before.code

\* Windows lets the folders be moved, and the service be stopped.
Movable == faults \cap {"stop", "remove", "rename", "runtime"} = {}

\* "The stop above was the deploy's doing, not the user's" (deploy-handler.ts:
\* 983-987): no deploy leaves its own stop on record, where it would keep the
\* watchdog away from a site that is down.
NoStopLeftBehind == Movable /\ ~May("crash") /\ pc = "idle" => stopIntent # "deploy"

\* "There was no previous version to go back to" (deploy-handler.ts:944-945) is
\* said of a site that is down only when none is left, a panel that died in an
\* earlier deploy included.
ToldNoPrevious == Movable /\ ~May("user") /\ NoStatic /\ told = "not running"
                    => ~HasContent(previous)

\* A build that does not come up, or has nothing to start, is never recorded as
\* a success: the health check is passed by the version that was promoted.
OnlyWorkingSucceeds == \A v \in Versions :
                          row[v] = "succeeded" => kind[v] \in {"static", "good"}

(***************************************************************************)
(* Seen from outside, a deploy replaces the version that answers, or does  *)
(* nothing.                                                                *)
(***************************************************************************)
Answering == IF ComesUp(running) THEN running ELSE None
Answered  == IF WasServing THEN before.code ELSE None
Outcome   == IF pc # "idle" THEN "pending"
             ELSE IF now = 0 THEN "none"
             ELSE IF row[now] = "succeeded" THEN "replaced" ELSE "kept"

Site == INSTANCE SiteVersion WITH serves <- Answering, version <- now,
                                  was <- Answered, outcome <- Outcome

\* "The old version serving" again after a failure, the new one after a success
\* (deploy-handler.ts:956-958): folders, stops, rollbacks and retries do not show
\* but while a deploy is at work.
ReplacedOrKept == /\ Ordinary => Site!Init
                  /\ [][Ordinary => Site!Next \/ UNCHANGED Site!vars]_vars
===============================================================================
