---------------------------- MODULE ServiceWatchdog ----------------------------
(***************************************************************************)
(* One supervised website: its Windows service, the program under it and   *)
(* the port, the ServiceManager calls (windows/service-manager.ts) that    *)
(* start, stop and restart it, and the ServiceWatchdog                     *)
(* (windows/service-watchdog.ts) that comes by on every sweep.             *)
(*                                                                         *)
(* The watchdog and a request or a deploy call the manager concurrently:   *)
(* every await of sc.exe, netstat, taskkill or the wrapper is a step.      *)
(* The sweep's other services are time that passes between two visits.     *)
(* Windows' passing states are left out: a service that is starting counts *)
(* as running, and it is stopping within the step of the stop.             *)
(***************************************************************************)
EXTENDS Naturals

CONSTANT MaxEnds     \* bound: how often the panel ends

ASSUME WatchdogAssumption == MaxEnds \in Nat

VARIABLES state,     \* of the wrapper: "running", "stopped", or "failed" when it ended on its own
          starting,  \* its program runs and has not bound the port
          holder,    \* of the port: "none", "app", "orphan" of an earlier wrapper, "foreign"
          intent,    \* the recorded stop intent (persisted)
          deploying, \* whether a deploy of the site is running: sitesMidDeploy
          pc,        \* where each caller of the manager is
          plan,      \* what it does after what it does: "done", "start", "restart"
          silent,    \* #silentLastSweep
          last,      \* #lastState: "unseen", "running" or "stopped"
          listed,    \* the holder of the port is the process the watchdog is to end
          asked,     \* history: what the user asked for last, "up" or "down"
          raced,     \* history: the user asked to stop after the watchdog had looked
          serving,   \* history: the program on the port when the visit began is still there
          cut,       \* history: a stop was cut off from the start it was to be followed by
          ends

service == <<state, starting, holder>>
caller  == <<pc, plan>>
memory  == <<silent, last>>
history == <<asked, raced, serving, cut>>
vars    == <<service, intent, deploying, caller, memory, listed, history, ends>>

Callers == {"watchdog", "user"}

\* A first start by the panel.
Init == /\ state = "stopped" /\ starting = FALSE /\ holder = "none"
        /\ intent = FALSE /\ deploying = FALSE
        /\ pc = [c \in Callers |-> "idle"] /\ plan = [c \in Callers |-> "done"]
        /\ silent = FALSE /\ last = "unseen" /\ listed = FALSE
        /\ asked = "up" /\ raced = FALSE /\ serving = FALSE /\ cut = FALSE
        /\ ends = 0

Goto(c, where)       == pc' = [pc EXCEPT ![c] = where]
GotoFor(c, where, p) == Goto(c, where) /\ plan' = [plan EXCEPT ![c] = p]

\* Who holds the port from now on.  A program whose wrapper is gone is still itself.
Holds(h) == /\ holder' = h
            /\ listed' = (listed /\ (h = holder \/ (holder = "app" /\ h = "orphan")))
            /\ serving' = (serving /\ h = "app")

\* taskkill of what holds the port; its wrapper notices, or goes on over nothing.
EndsHolder == /\ Holds("none")
              /\ state' \in IF holder = "app" THEN {state, "failed"} ELSE {state}

Ours == holder \in {"app", "orphan"}

-------------------------------------------------------------------------------
(***************************************************************************)
(* ServiceManager.stop, start and restart, on behalf of c.                 *)
(***************************************************************************)

\* The watchdog has made up its mind to start the service.
Decided == \/ pc["watchdog"] \in {"probe", "list dead", "stop", "stopping", "start"}
           \/ pc["watchdog"] \in {"kill", "unblock"} /\ plan["watchdog"] # "done"

\* The intent goes on record before anything is stopped.
StopMarks(c) ==
    /\ pc[c] = "stop"
    /\ intent' = TRUE
    /\ Goto(c, IF state = "running" THEN "stopping" ELSE "unblock")
    /\ IF c = "user"
       THEN LET down == plan[c] = "done"
            IN asked' = (IF down THEN "down" ELSE "up") /\ raced' = (down /\ Decided)
       ELSE UNCHANGED <<asked, raced>>
    /\ UNCHANGED <<service, deploying, plan, memory, listed, serving, cut, ends>>

\* The wrapper stops, with its program or without it.
StopsWrapper(c) ==
    /\ pc[c] = "stopping"
    /\ state' = IF state = "running" THEN "stopped" ELSE state
    /\ starting' = FALSE
    /\ \E h \in IF holder = "app" THEN {"none", "orphan"} ELSE {holder} : Holds(h)
    /\ Goto(c, "unblock")
    /\ UNCHANGED <<intent, deploying, plan, memory, asked, raced, cut, ends>>

\* It will not: its port is cleared, and the call throws.
StopThrows(c) ==
    /\ pc[c] = "stopping" /\ state = "running"
    /\ IF Ours THEN Holds("none") ELSE UNCHANGED <<holder, listed, serving>>
    /\ cut' = (cut \/ plan[c] = "start")
    /\ GotoFor(c, "idle", "done")
    /\ UNCHANGED <<state, starting, intent, deploying, memory, asked, raced, ends>>

\* What is left of the service on its port is ended (unblockService).
Unblocks(c) ==
    /\ pc[c] = "unblock"
    /\ IF Ours THEN EndsHolder ELSE UNCHANGED <<state, holder, listed, serving>>
    /\ IF plan[c] = "start" THEN Goto(c, "start") /\ UNCHANGED plan ELSE GotoFor(c, "idle", "done")
    /\ UNCHANGED <<starting, intent, deploying, memory, asked, raced, cut, ends>>

\* Bug: a start leaves the stop on record.
Bug_StartKeepsIntent(c) ==
    /\ pc[c] = "start"
    /\ cut' = FALSE
    /\ Goto(c, "launch")
    /\ IF c = "user" THEN asked' = "up" /\ raced' = FALSE ELSE UNCHANGED <<asked, raced>>
    /\ UNCHANGED <<service, intent, deploying, plan, memory, listed, serving, ends>>

StartMarks(c) ==
    /\ pc[c] = "start"
    /\ intent' = FALSE /\ cut' = FALSE
    /\ Goto(c, "launch")
    /\ IF c = "user" THEN asked' = "up" /\ raced' = FALSE ELSE UNCHANGED <<asked, raced>>
    /\ UNCHANGED <<service, deploying, plan, memory, listed, serving, ends>>

\* The wrapper is told to start; one that runs is not started twice.
Launches(c) ==
    /\ pc[c] \in {"launch", "relaunch"}
    /\ IF state = "running" THEN UNCHANGED <<state, starting>>
                            ELSE state' = "running" /\ starting' = TRUE
    /\ Goto(c, IF pc[c] = "launch" THEN "settle" ELSE "resettle")
    /\ UNCHANGED <<holder, intent, deploying, plan, memory, listed, history, ends>>

\* It is asked a moment later whether it lived; if not, once more on a cleared port.
Settles(c) ==
    /\ pc[c] \in {"settle", "resettle"}
    /\ IF pc[c] = "settle" /\ state # "running" /\ Ours
       THEN Holds("none") /\ Goto(c, "relaunch") /\ UNCHANGED plan
       ELSE UNCHANGED <<holder, listed, serving>> /\ GotoFor(c, "idle", "done")
    /\ UNCHANGED <<state, starting, intent, deploying, memory, asked, raced, cut, ends>>

Manager(c) == \/ StopMarks(c) \/ StopsWrapper(c) \/ StopThrows(c) \/ Unblocks(c)
              \/ StartMarks(c) \/ Launches(c) \/ Settles(c)

-------------------------------------------------------------------------------
(***************************************************************************)
(* The watchdog's visit.                                                   *)
(***************************************************************************)

\* A site that is being deployed is passed by, and forgotten.
Passes ==
    /\ pc["watchdog"] = "idle" /\ deploying
    /\ silent' = FALSE /\ last' = "unseen"
    /\ UNCHANGED <<service, intent, deploying, caller, listed, history, ends>>

Visits ==
    /\ pc["watchdog"] = "idle" /\ ~deploying
    /\ Goto("watchdog", "query")
    /\ serving' = (holder = "app") /\ raced' = (raced /\ ~intent)
    /\ UNCHANGED <<service, intent, deploying, plan, memory, listed, asked, cut, ends>>

\* Bug: a running service is probed whether it was to be stopped or not.
Bug_IntentUnread ==
    /\ pc["watchdog"] = "query" /\ state = "running"
    /\ last' = "running"
    /\ UNCHANGED silent
    /\ Goto("watchdog", "probe")
    /\ UNCHANGED <<service, intent, deploying, plan, listed, history, ends>>

\* Running: probed, unless it was to be stopped.
FindsRunning ==
    /\ pc["watchdog"] = "query" /\ state = "running"
    /\ last' = "running"
    /\ IF intent THEN silent' = FALSE /\ Goto("watchdog", "idle")
                 ELSE UNCHANGED silent /\ Goto("watchdog", "probe")
    /\ UNCHANGED <<service, intent, deploying, plan, listed, history, ends>>

FindsStopped ==
    /\ pc["watchdog"] = "query" /\ state # "running"
    /\ silent' = FALSE
    /\ Goto("watchdog", "list")
    /\ UNCHANGED <<service, intent, deploying, plan, last, listed, history, ends>>

\* Bug: a port that answers does not end the suspicion.
Bug_SilenceSticks ==
    /\ pc["watchdog"] = "probe"
    /\ silent' = (silent \/ holder = "none")
    /\ Goto("watchdog", IF silent THEN "list dead" ELSE "idle")
    /\ UNCHANGED <<service, intent, deploying, plan, last, listed, history, ends>>

\* Bug: a silence is never remembered.
Bug_SilenceForgotten ==
    /\ pc["watchdog"] = "probe"
    /\ silent' = FALSE
    /\ Goto("watchdog", IF holder = "none" /\ silent THEN "list dead" ELSE "idle")
    /\ UNCHANGED <<service, intent, deploying, plan, last, listed, history, ends>>

\* Dead is what is silent on two visits in a row.
Probes ==
    /\ pc["watchdog"] = "probe"
    /\ silent' = (holder = "none")
    /\ Goto("watchdog", IF holder = "none" /\ silent THEN "list dead" ELSE "idle")
    /\ UNCHANGED <<service, intent, deploying, plan, last, listed, history, ends>>

ListsDead ==
    /\ pc["watchdog"] = "list dead"
    /\ listed' = Ours
    /\ GotoFor("watchdog", "kill", "restart")
    /\ UNCHANGED <<service, intent, deploying, memory, history, ends>>

\* Stopped: to be started if it ran, or was never seen, and nobody stopped it.
\* Its leftovers on the port are ended in any case; a foreign program is not.
ListsStopped ==
    /\ pc["watchdog"] = "list"
    /\ last' = "stopped"
    /\ listed' = Ours
    /\ LET restart == last # "stopped" /\ ~intent
       IN GotoFor("watchdog", IF Ours \/ (restart /\ holder = "none") THEN "kill" ELSE "idle",
                              IF restart /\ holder # "foreign" THEN "start" ELSE "done")
    /\ UNCHANGED <<service, intent, deploying, silent, history, ends>>

Kills ==
    /\ pc["watchdog"] = "kill"
    /\ IF listed THEN EndsHolder ELSE UNCHANGED <<state, holder, listed, serving>>
    /\ CASE plan["watchdog"] = "done"    -> GotoFor("watchdog", "idle", "done")
         [] plan["watchdog"] = "start"   -> GotoFor("watchdog", "start", "start")
         [] plan["watchdog"] = "restart" -> GotoFor("watchdog", "stop", "start")
    /\ UNCHANGED <<starting, intent, deploying, memory, asked, raced, cut, ends>>

Sweep == Visits \/ FindsRunning \/ FindsStopped \/ Probes \/ ListsDead \/ ListsStopped \/ Kills

-------------------------------------------------------------------------------
(***************************************************************************)
(* The user, the queue, Windows and the machine.                           *)
(***************************************************************************)

\* The owner's Start, Stop and Restart.  setRunning does not wait for a deploy, nor
\* for another request: what comes during a deploy is in Deploy, and two of the
\* owner's at once are left out.
Asks(where, p) ==
    /\ pc["user"] = "idle" /\ ~deploying
    /\ GotoFor("user", where, p)
    /\ UNCHANGED <<service, intent, deploying, memory, listed, history, ends>>

\* The deploy stops the service, works on its folder and starts it.
DeployBegins ==
    /\ pc["user"] = "idle" /\ ~deploying
    /\ deploying' = TRUE
    /\ GotoFor("user", "stop", "start")
    /\ UNCHANGED <<service, intent, memory, listed, history, ends>>

DeployEnds ==
    /\ pc["user"] = "idle" /\ deploying
    /\ deploying' = FALSE
    /\ UNCHANGED <<service, intent, caller, memory, listed, history, ends>>

\* The program ends; its wrapper runs on over nothing, fails, or exits with it.
AppEnds ==
    /\ starting \/ holder = "app"
    /\ starting' = FALSE
    /\ state' \in {"running", "failed", "stopped"}
    /\ IF holder = "app" THEN Holds("none") ELSE UNCHANGED <<holder, listed, serving>>
    /\ UNCHANGED <<intent, deploying, caller, memory, asked, raced, cut, ends>>

AppBinds ==
    /\ starting /\ holder = "none"
    /\ starting' = FALSE
    /\ Holds("app")
    /\ UNCHANGED <<state, intent, deploying, caller, memory, asked, raced, cut, ends>>

\* The wrapper dies without its stop path: what it ran keeps the port.
WrapperDies ==
    /\ state = "running"
    /\ state' = "failed" /\ starting' = FALSE
    /\ Holds(IF holder = "app" THEN "orphan" ELSE holder)
    /\ UNCHANGED <<intent, deploying, caller, memory, asked, raced, cut, ends>>

\* The failure action of the service's definition.
WindowsRestarts ==
    /\ state = "failed"
    /\ state' = "running" /\ starting' = TRUE
    /\ UNCHANGED <<holder, intent, deploying, caller, memory, listed, history, ends>>

\* Another program takes the port, or one that held it ends.
PortTaken ==
    /\ holder = "none"
    /\ Holds("foreign")
    /\ UNCHANGED <<state, starting, intent, deploying, caller, memory, asked, raced, cut, ends>>

PortFreed ==
    /\ holder \in {"orphan", "foreign"}
    /\ Holds("none")
    /\ UNCHANGED <<state, starting, intent, deploying, caller, memory, asked, raced, cut, ends>>

PanelRestarts ==
    /\ ends < MaxEnds
    /\ ends' = ends + 1
    /\ pc' = [c \in Callers |-> "idle"] /\ plan' = [c \in Callers |-> "done"]
    /\ deploying' = FALSE
    /\ silent' = FALSE /\ last' = "unseen" /\ listed' = FALSE
    /\ serving' = FALSE /\ cut' = (cut \/ (intent /\ asked = "up"))
    /\ UNCHANGED <<service, intent, asked, raced>>

World == \/ Asks("start", "start") \/ Asks("stop", "done") \/ Asks("stop", "start")
         \/ DeployBegins \/ DeployEnds
         \/ AppEnds \/ AppBinds \/ WrapperDies \/ WindowsRestarts \/ PortTaken \/ PortFreed

Next == \/ Sweep \/ Passes
        \/ \E c \in Callers : Manager(c)
        \/ World \/ PanelRestarts

Spec == Init /\ [][Next]_vars

\* The timer keeps firing and its calls come back; Windows carries out its
\* failure action.  Nothing is assumed of the user, the port and the program.
FairSpec == Spec /\ WF_vars(Sweep) /\ WF_vars(Manager("watchdog")) /\ WF_vars(WindowsRestarts)

-------------------------------------------------------------------------------
(***************************************************************************)
(* Properties.                                                             *)
(***************************************************************************)
ServiceOK == /\ state \in {"running", "stopped", "failed"} /\ starting \in BOOLEAN
             /\ holder \in {"none", "app", "orphan", "foreign"}
             /\ starting => state = "running" /\ holder # "app"
             /\ holder = "app" => state = "running"
CallersOK == /\ pc \in [Callers -> {"idle", "query", "probe", "list", "list dead", "kill", "stop",
                                    "stopping", "unblock", "start", "launch", "settle", "relaunch",
                                    "resettle"}]
             /\ plan \in [Callers -> {"done", "start", "restart"}]
MemoryOK  == /\ intent \in BOOLEAN /\ deploying \in BOOLEAN
             /\ silent \in BOOLEAN /\ last \in {"unseen", "running", "stopped"} /\ listed \in BOOLEAN
HistoryOK == /\ asked \in {"up", "down"} /\ raced \in BOOLEAN
             /\ serving \in BOOLEAN /\ cut \in BOOLEAN /\ ends \in 0..MaxEnds

\* Types; a program runs under a wrapper that runs, and a starting one has no port.
TypeOK == ServiceOK /\ CallersOK /\ MemoryOK /\ HistoryOK

\* "A service stopped deliberately through the panel is left alone": the watchdog
\* does not start what the user stopped last, over any number of sweeps, deploys
\* and restarts of the panel, unless it had looked before the stop.
StopHeld == [][pc["watchdog"] = "start" /\ pc'["watchdog"] = "launch" => (asked = "up" \/ raced)]_vars

\* A stop intent is the user's, or of a restart on its way to its start, or of
\* one that was cut off (stop, start): nothing else makes the watchdog, the health
\* page and the outage mails take a service for one that is down on purpose.
IntentHonest ==
    intent /\ asked = "up" =>
        cut \/ \E c \in Callers : pc[c] \in {"stopping", "unblock", "start"} /\ plan[c] = "start"

\* The watchdog does not end a program that was serving when it came by.
ServingSpared ==
    [][holder = "app" /\ holder' # "app" /\ pc'["watchdog"] # pc["watchdog"] => ~serving]_vars

\* Nobody is at the service, wants it down or has its port.
Calm == pc["user"] = "idle" /\ ~deploying /\ asked = "up" /\ ~cut /\ holder # "foreign"

\* The service is down and was last seen up, or not at all; or its program is gone
\* from under a wrapper that runs.
Lost == \/ state # "running" /\ last # "stopped"
        \/ state = "running" /\ ~starting /\ holder = "none"

\* What is lost is started again (recoverStalledService, reviveDeadService).
Recovers == [](Lost /\ []Calm => <>starting)

\* The same of any service that is down: "An automatic service that is stopped with
\* no recorded stop intent is started by the watchdog".
StoppedIsStarted == [](state # "running" /\ []Calm => <>starting)
===============================================================================
