------------------------------ MODULE SiteRemoval ------------------------------
(***************************************************************************)
(* What a website leaves on the machine, and how it goes: the creation and *)
(* removal of sites (api/routers/sites.ts, sites/site-service.ts), their   *)
(* deploys, and the clean-up at start-up (sites/site-removal.ts).          *)
(*                                                                         *)
(* Folders and Windows services are found by the name of a site, and a     *)
(* name is free again as soon as the row is gone.  Requests, the one       *)
(* deploy at work and the start-up repairs interleave at every await.      *)
(***************************************************************************)
EXTENDS Naturals

CONSTANTS Sites,       \* all sites there will ever be; all would like one name
          Old,         \* those of which one may be there at first
          LastName,    \* bound: the names tried
          MaxCrashes,  \* bound: ends of the panel
          Boot,        \* the start-up repairs, as a process
          None

\* The first name is the preferred one, the others are it with a number.
Names == 1..LastName

ASSUME RemovalAssumption == /\ LastName \in Nat \ {0} /\ MaxCrashes \in Nat
                            /\ Old \subseteq Sites
                            /\ Boot \notin Sites /\ None \notin Sites \cup {Boot}
                            /\ None \notin Names

VARIABLES live,      \* the rows of the table sites
          slug,      \* the name each was given
          folder,    \* whose files are in the folder of a name; {}: there is none
          service,   \* whose deploy registered the service of a name
          pending,   \* the names whose folders are remembered for the next start
          make,      \* where the creation of a site is
          drop,      \* where its removal is
          wipe,      \* whether that removal was asked to delete the files
          job,       \* where its deploy is
          wiping,    \* where a process is that deletes a folder
          boot,      \* where start-up is
          todo,      \* the names it has still to visit
          inUse,     \* those that had a site when it looked
          target,    \* the one it is deleting the folder of
          raced,     \* history: sites made while their name was being cleaned up
          late,      \* history: sites worked on after their removal had looked: a deploy
                     \* that began then, a creation that was not through
          crashes

onDisk   == <<folder, service, pending>>
requests == <<make, drop, wipe, job>>
startup  == <<boot, todo, inUse, target>>
history  == <<raced, late>>
vars     == <<live, slug, onDisk, requests, wiping, startup, history, crashes>>

Workers == Sites \cup {Boot}

Makes == {"none", "files", "done", "failed", "cut"}
Drops == {"none", "asked", "services", "row", "check", "wiping", "done", "cut"}
Jobs  == {"none", "pending", "files", "install", "over"}
Boots == {"list", "orphans", "uninstall", "wipe", "up"}

\* One site may be there already, with its files, and a service if it needs one.
Init == /\ live \in {{}} \cup {{s} : s \in Old}
        /\ slug = [s \in Sites |-> IF s \in live THEN 1 ELSE None]
        /\ folder = [k \in Names |-> IF k = 1 THEN live ELSE {}]
        /\ service \in {[k \in Names |-> IF k = 1 THEN x ELSE None] : x \in live \cup {None}}
        /\ pending = {}
        /\ make = [s \in Sites |-> IF s \in live THEN "done" ELSE "none"]
        /\ drop = [s \in Sites |-> "none"]
        /\ wipe = [s \in Sites |-> FALSE] /\ job = [s \in Sites |-> "none"]
        /\ wiping = [p \in Workers |-> "no"]
        /\ boot = "up" /\ todo = {} /\ inUse = {} /\ target = None
        /\ raced = {} /\ late = {} /\ crashes = 0

-------------------------------------------------------------------------------
Named(k)   == {s \in live : slug[s] = k}
Target(p)  == IF p = Boot THEN target ELSE slug[p]
MidDeploy  == {s \in Sites : job[s] \in {"files", "install"}}

\* Somebody has found the name unused and acts on that.
CleaningUp(k) == \/ \E p \in Workers : wiping[p] # "no" /\ Target(p) = k
                 \/ boot \in {"uninstall", "wipe"} /\ k \in todo \ inUse

Step(pc, p, l) == [pc EXCEPT ![p] = l]

-------------------------------------------------------------------------------
(***************************************************************************)
(* create and the deploy job.                                              *)
(***************************************************************************)

\* The row, under the first name that no site has.
Free(k) == Named(k) = {}

Insert(s) ==
    /\ make[s] = "none" /\ s \notin Old
    /\ \E k \in Names :
         /\ Free(k) /\ \A j \in Names : j < k => ~Free(j)
         /\ slug' = [slug EXCEPT ![s] = k]
         /\ raced' = IF CleaningUp(k) THEN raced \cup {s} ELSE raced
    /\ live' = live \cup {s}
    /\ make' = Step(make, s, "files")
    /\ UNCHANGED <<onDisk, drop, wipe, job, wiping, startup, late, crashes>>

\* The folders, and then a deploy or only a route.  A creation that fails takes
\* back its row and leaves what it made on disk.
Files(s) ==
    /\ make[s] = "files"
    /\ folder' = [folder EXCEPT ![slug[s]] = @ \cup {s}]
    /\ \/ make' = Step(make, s, "done") /\ job' = Step(job, s, "pending") /\ UNCHANGED live
       \/ make' = Step(make, s, "done") /\ UNCHANGED <<job, live>>
       \/ make' = Step(make, s, "failed") /\ live' = live \ {s} /\ UNCHANGED job
    /\ UNCHANGED <<slug, service, pending, drop, wipe, wiping, startup, history, crashes>>

\* The owner asks for a deploy; one of each site is the bound.
Deploy(s) ==
    /\ s \in live /\ make[s] = "done" /\ job[s] = "none"
    /\ job' = Step(job, s, "pending")
    /\ UNCHANGED <<live, slug, onDisk, make, drop, wipe, wiping, startup, history, crashes>>

\* One job at a time; the site must exist when it begins, and is not looked for again.
JobBegins(s) ==
    /\ job[s] = "pending" /\ MidDeploy = {}
    /\ job' = Step(job, s, IF s \in live THEN "files" ELSE "over")
    /\ late' = IF s \in live /\ drop[s] \in {"services", "row"} THEN late \cup {s} ELSE late
    /\ UNCHANGED <<live, slug, onDisk, make, drop, wipe, wiping, startup, raced, crashes>>

JobFiles(s) ==
    /\ job[s] = "files"
    /\ folder' = [folder EXCEPT ![slug[s]] = @ \cup {s}]
    /\ job' = Step(job, s, "install")
    /\ UNCHANGED <<live, slug, service, pending, make, drop, wipe, wiping, startup, history, crashes>>

\* The service of that name is replaced by this site's.
JobInstall(s) ==
    /\ job[s] = "install"
    /\ service' = [service EXCEPT ![slug[s]] = s]
    /\ job' = Step(job, s, "over")
    /\ UNCHANGED <<live, slug, folder, pending, make, drop, wipe, wiping, startup, history, crashes>>

JobFails(s) ==
    /\ job[s] \in {"files", "install"}
    /\ job' = Step(job, s, "over")
    /\ UNCHANGED <<live, slug, onDisk, make, drop, wipe, wiping, startup, history, crashes>>

-------------------------------------------------------------------------------
(***************************************************************************)
(* remove.                                                                 *)
(***************************************************************************)

\* The site is looked up, and then the password is verified.
Ask(s) ==
    /\ s \in live /\ drop[s] = "none"
    /\ drop' = Step(drop, s, "asked")
    /\ \E files \in BOOLEAN : wipe' = [wipe EXCEPT ![s] = files]
    /\ UNCHANGED <<live, slug, onDisk, make, job, wiping, startup, history, crashes>>

\* A wrong password, or a deploy in flight.
Refuse(s) ==
    /\ drop[s] = "asked"
    /\ drop' = Step(drop, s, "none")
    /\ UNCHANGED <<live, slug, onDisk, make, wipe, job, wiping, startup, history, crashes>>

\* Bug: the guard is left out.
Bug_Guard(s) ==
    /\ drop[s] = "asked"
    /\ drop' = Step(drop, s, "services")
    /\ UNCHANGED <<live, slug, onDisk, make, wipe, job, wiping, startup, history, crashes>>

Guard(s) ==
    /\ drop[s] = "asked" /\ s \notin MidDeploy
    /\ drop' = Step(drop, s, "services")
    /\ late' = IF make[s] = "files" THEN late \cup {s} ELSE late
    /\ UNCHANGED <<live, slug, onDisk, make, wipe, job, wiping, startup, raced, crashes>>

\* A service that will not go does not block the removal.
RemoveService(s) ==
    /\ drop[s] = "services"
    /\ service' \in {service, [service EXCEPT ![slug[s]] = None]}
    /\ drop' = Step(drop, s, "row")
    /\ UNCHANGED <<live, slug, folder, pending, make, wipe, job, wiping, startup, history, crashes>>

RemoveRow(s) ==
    /\ drop[s] = "row"
    /\ live' = live \ {s}
    /\ drop' = Step(drop, s, "check")
    /\ UNCHANGED <<slug, onDisk, make, wipe, job, wiping, startup, history, crashes>>

\* Bug: the folder of a name goes, whoever has it by now.
Bug_CheckFolder(s) ==
    /\ drop[s] = "check"
    /\ IF wipe[s] THEN drop' = Step(drop, s, "wiping") /\ wiping' = Step(wiping, s, "rm")
       ELSE drop' = Step(drop, s, "done") /\ UNCHANGED wiping
    /\ UNCHANGED <<live, slug, onDisk, make, wipe, job, startup, history, crashes>>

\* deleteFolder: not if a site has the name again.
CheckFolder(s) ==
    /\ drop[s] = "check"
    /\ IF wipe[s] /\ Named(slug[s]) = {}
       THEN drop' = Step(drop, s, "wiping") /\ wiping' = Step(wiping, s, "rm")
       ELSE drop' = Step(drop, s, "done") /\ UNCHANGED wiping
    /\ UNCHANGED <<live, slug, onDisk, make, wipe, job, startup, history, crashes>>

-------------------------------------------------------------------------------
(***************************************************************************)
(* deleteSiteFolder, of a removal and of start-up.                         *)
(***************************************************************************)

\* Windows may refuse, if something in it is open.
Rm(p) ==
    /\ wiping[p] = "rm"
    /\ folder' \in {folder, [folder EXCEPT ![Target(p)] = {}]}
    /\ wiping' = Step(wiping, p, "probe")
    /\ UNCHANGED <<live, slug, service, pending, requests, startup, history, crashes>>

Wiped(p) == /\ wiping' = Step(wiping, p, "no")
            /\ IF p = Boot THEN target' = None /\ UNCHANGED drop
               ELSE drop' = Step(drop, p, "done") /\ UNCHANGED target

\* Bug: one that will not go is not remembered.
Bug_Remember(k) == pending

Remember(k) == pending \cup {k}

\* It is gone; or it is tried again, or remembered for the next start.
Probe(p) ==
    /\ wiping[p] = "probe"
    /\ \/ /\ folder[Target(p)] = {}
          /\ pending' = pending \ {Target(p)}
          /\ Wiped(p)
       \/ /\ folder[Target(p)] # {}
          /\ wiping' = Step(wiping, p, "rm")
          /\ UNCHANGED <<pending, drop, target>>
       \/ /\ folder[Target(p)] # {}
          /\ pending' = Remember(Target(p))
          /\ Wiped(p)
    /\ UNCHANGED <<live, slug, folder, service, make, wipe, job, boot, todo, inUse, history, crashes>>

-------------------------------------------------------------------------------
(***************************************************************************)
(* Start-up, while requests are served and jobs run.                       *)
(***************************************************************************)

\* The services are listed first and the sites read after.
List ==
    /\ boot = "list"
    /\ todo' = {k \in Names : service[k] # None}
    /\ boot' = "orphans"
    /\ UNCHANGED <<live, slug, onDisk, requests, wiping, inUse, target, history, crashes>>

Orphans ==
    /\ boot = "orphans"
    /\ todo' = {k \in todo : Named(k) = {}}
    /\ boot' = "uninstall"
    /\ UNCHANGED <<live, slug, onDisk, requests, wiping, inUse, target, history, crashes>>

Uninstall ==
    /\ boot = "uninstall"
    /\ \E k \in todo :
         /\ service' \in {service, [service EXCEPT ![k] = None]}
         /\ todo' = todo \ {k}
    /\ UNCHANGED <<live, slug, folder, pending, requests, wiping, boot, inUse, target, history, crashes>>

\* retryPendingFolderRemovals reads the names in use, and the folders, once.
ReadPending ==
    /\ boot = "uninstall" /\ todo = {}
    /\ todo' = pending
    /\ inUse' = {k \in Names : Named(k) # {}}
    /\ boot' = "wipe"
    /\ UNCHANGED <<live, slug, onDisk, requests, wiping, target, history, crashes>>

\* A folder whose name is in use is that site's now, not rubbish.
Visit ==
    /\ boot = "wipe" /\ target = None
    /\ \E k \in todo :
         /\ todo' = todo \ {k}
         /\ IF k \in inUse
            THEN pending' = pending \ {k} /\ UNCHANGED <<wiping, target>>
            ELSE target' = k /\ wiping' = Step(wiping, Boot, "rm") /\ UNCHANGED pending
    /\ UNCHANGED <<live, slug, folder, service, requests, boot, inUse, history, crashes>>

VisitDone ==
    /\ boot = "wipe" /\ todo = {} /\ target = None
    /\ boot' = "up" /\ inUse' = {}
    /\ UNCHANGED <<live, slug, onDisk, requests, wiping, todo, target, history, crashes>>

\* The panel ends in the middle of everything, and is started again; pending
\* jobs stay.
Crash ==
    /\ crashes < MaxCrashes /\ crashes' = crashes + 1
    /\ make' = [s \in Sites |-> IF make[s] = "files" THEN "cut" ELSE make[s]]
    /\ drop' = [s \in Sites |-> CASE drop[s] \in {"none", "done", "cut"} -> drop[s]
                                  [] s \in live -> "none"
                                  [] OTHER -> "cut"]
    /\ job' = [s \in Sites |-> IF s \in MidDeploy THEN "over" ELSE job[s]]
    /\ wiping' = [p \in Workers |-> "no"]
    /\ boot' = "list" /\ todo' = {} /\ inUse' = {} /\ target' = None
    /\ UNCHANGED <<live, slug, onDisk, wipe, history>>

Next == \/ \E s \in Sites :
             \/ Insert(s) \/ Files(s) \/ Deploy(s)
             \/ JobBegins(s) \/ JobFiles(s) \/ JobInstall(s) \/ JobFails(s)
             \/ Ask(s) \/ Refuse(s) \/ Guard(s) \/ RemoveService(s) \/ RemoveRow(s) \/ CheckFolder(s)
        \/ \E p \in Workers : Rm(p) \/ Probe(p)
        \/ List \/ Orphans \/ Uninstall \/ ReadPending \/ Visit \/ VisitDone
        \/ Crash

Spec == Init /\ [][Next]_vars

-------------------------------------------------------------------------------
(***************************************************************************)
(* Properties.                                                             *)
(***************************************************************************)
TypeOK == /\ live \in SUBSET Sites /\ slug \in [Sites -> Names \cup {None}]
          /\ folder \in [Names -> SUBSET Sites]
          /\ service \in [Names -> Sites \cup {None}]
          /\ pending \in SUBSET Names
          /\ make \in [Sites -> Makes] /\ drop \in [Sites -> Drops]
          /\ wipe \in [Sites -> BOOLEAN] /\ job \in [Sites -> Jobs]
          /\ wiping \in [Workers -> {"no", "rm", "probe"}]
          /\ boot \in Boots /\ todo \in SUBSET Names /\ inUse \in SUBSET Names
          /\ target \in Names \cup {None}
          /\ raced \in SUBSET Sites /\ late \in SUBSET Sites
          /\ crashes \in 0..MaxCrashes
          /\ \A k \in Names : \A s, t \in Named(k) : s = t

\* A website that exists keeps its files, unless it was created under a name
\* whose folder was just being deleted: "in which case it is that website's now,
\* not rubbish" (site-removal.ts:141).
FilesKept == \A s \in live \ raced : make[s] = "done" => s \in folder[slug[s]]

\* "A deploy in flight would put back what this is about to take away: it
\* installs the site's service and writes into its folder [...] for a website
\* that by then no longer exists" (sites.ts:1311-1314): a deploy that is at work
\* for a site that is gone is one that began after the removal had looked.
NothingPutBack == \A s \in MidDeploy : s \notin live /\ drop[s] # "none" => s \in late

\* "So both are remembered here and finished off later rather than left for
\* somebody to find" (site-removal.ts:18-19): files that a removal was to delete
\* are gone or remembered, unless its deploy or its creation put them back, or
\* another site was given the name and, with it, the folder.
NotForgotten == \A s \in Sites \ late :
    drop[s] = "done" /\ wipe[s] /\ s \in folder[slug[s]]
      => \/ slug[s] \in pending
         \/ \E t \in Sites \ {s} : slug[t] = slug[s]
===============================================================================
