--------------------------- MODULE SiteRemovalProofs ---------------------------
(***************************************************************************)
(* That removing a site takes no other site's files, leaves no deploy of a *)
(* site that is gone at work, and forgets no folder, for any number of     *)
(* sites and of ends of the panel.                                         *)
(*                                                                         *)
(* A name outlives its site, so what is deleted is decided by name and     *)
(* meant for a site.  The invariant ties the two together: whoever deletes *)
(* the folder of a name has seen it unused, and a folder that is           *)
(* remembered had an owner who is gone for good.                           *)
(***************************************************************************)
EXTENDS SiteRemoval, TLAPS

\* A site has its name from its row on, and a deploy once it was made.
Begun == \A s \in Sites :
    /\ make[s] = "none" => s \notin live /\ slug[s] = None /\ drop[s] = "none"
    /\ make[s] # "none" => slug[s] \in Names
    /\ make[s] # "done" => job[s] = "none"

\* The row goes between two steps of the removal, unless the creation takes it.
RowGoes == \A s \in Sites :
    /\ drop[s] \in {"check", "wiping", "done", "cut"} => s \notin live
    /\ make[s] \in {"files", "done"} /\ s \notin live => drop[s] \notin {"none", "asked", "services", "row"}

\* What is at work for a site whose removal has looked began after that, or was
\* a creation that nobody looks for.
Watched == \A s \in Sites :
    (job[s] \in {"files", "install"} \/ make[s] = "files") /\ drop[s] \notin {"none", "asked"} => s \in late

\* Who deletes a folder knows of which name.
Aimed == /\ \A s \in Sites : wiping[s] # "no" => drop[s] = "wiping"
         /\ wiping[Boot] # "no" => target \in Names

\* The name of a folder that is being deleted, or will be, was unused: who has it
\* now was created since.
Unused == /\ \A p \in Workers : wiping[p] # "no" => Named(Target(p)) \subseteq raced
          /\ boot = "wipe" => \A k \in todo \ inUse : Named(k) \subseteq raced

\* A folder that is remembered, or that start-up has on its list, was of a site
\* that is gone; where the name was in use again it has had two owners.
Departed(k)  == \E t \in Sites : slug[t] = k /\ t \notin live /\ make[t] # "none"
Inherited(k) == \E t, u \in Sites : t # u /\ slug[t] = k /\ slug[u] = k
HadOwners == /\ \A k \in pending : Departed(k)
             /\ target # None => Departed(target)
             /\ boot = "wipe" => \A k \in todo : Departed(k) /\ (k \in inUse => Inherited(k))

IInv == TypeOK /\ Begun /\ RowGoes /\ Watched /\ Aimed /\ Unused /\ FilesKept /\ HadOwners /\ NotForgotten

LEMMA InitHolds == Init => IInv
<1> SUFFICES ASSUME Init PROVE IInv
  OBVIOUS
<1>1. 1 \in Names
  BY RemovalAssumption DEF Names
<1>2. live \subseteq Sites /\ (\A s, t \in live : s = t)
  BY RemovalAssumption DEF Init
<1>3. TypeOK
  <2>1. folder \in [Names -> SUBSET Sites]
    BY <1>2 DEF Init
  <2>2. service \in [Names -> Sites \cup {None}]
    BY <1>2 DEF Init
  <2>3. /\ live \in SUBSET Sites /\ slug \in [Sites -> Names \cup {None}]
        /\ make \in [Sites -> Makes] /\ drop \in [Sites -> Drops] /\ job \in [Sites -> Jobs]
    BY <1>1, <1>2 DEF Init, Makes, Drops, Jobs
  <2>4. \A k \in Names : \A s, t \in Named(k) : s = t
    BY <1>2 DEF Named
  <2> QED BY <2>1, <2>2, <2>3, <2>4, RemovalAssumption DEF Init, TypeOK, Boots
<1>4. Begun
  BY <1>1, <1>2 DEF Init, Begun
<1>5. RowGoes /\ Watched /\ Aimed
  BY <1>2, RemovalAssumption DEF Init, RowGoes, Watched, Aimed, Workers
<1>6. Unused
  BY DEF Init, Unused
<1>7. FilesKept
  BY <1>1, <1>2 DEF Init, FilesKept
<1>8. HadOwners /\ NotForgotten
  BY DEF Init, HadOwners, NotForgotten
<1> QED BY <1>3, <1>4, <1>5, <1>6, <1>7, <1>8 DEF IInv

\* What the end of an attempt to delete a folder may change.
LEMMA ProbeDoes ==
    ASSUME IInv, NEW p \in Workers, Probe(p)
    PROVE  /\ UNCHANGED <<live, slug, folder, make, wipe, job, boot, todo, inUse, history>>
           /\ Target(p) \in Names /\ Departed(Target(p))
           /\ wiping' \in [Workers -> {"no", "rm", "probe"}]
           /\ target' \in {target, None}
           /\ \/ drop' = drop
              \/ /\ p \in Sites /\ drop[p] = "wiping" /\ drop' = [drop EXCEPT ![p] = "done"]
                 /\ folder[slug[p]] = {} \/ slug[p] \in pending'
           /\ pending' \subseteq pending \cup {Target(p)}
           /\ \A k \in pending \ pending' : folder[k] = {}
<1> USE RemovalAssumption DEF IInv, requests, startup, history, onDisk
<1>1. wiping[p] = "probe" /\ UNCHANGED <<live, slug, folder, make, wipe, job, boot, todo, inUse, history>>
  BY DEF Probe
<1>2. Target(p) \in Names /\ Departed(Target(p))
  <2>1. CASE p = Boot
    BY <1>1, <2>1 DEF Target, Aimed, HadOwners
  <2>2. CASE p # Boot
    <3>1. p \in Sites /\ Target(p) = slug[p] /\ drop[p] = "wiping"
      BY <1>1, <2>2 DEF Workers, Target, Aimed
    <3> QED BY <3>1 DEF Begun, RowGoes, Departed
  <2> QED BY <2>1, <2>2
<1>3. wiping' \in [Workers -> {"no", "rm", "probe"}]
  BY DEF Probe, Wiped, Step, TypeOK
<1>4. target' \in {target, None}
  BY DEF Probe, Wiped
<1>5. /\ pending' \subseteq pending \cup {Target(p)}
      /\ \A k \in pending \ pending' : folder[k] = {}
  BY DEF Probe, Remember
<1>6. \/ drop' = drop
      \/ /\ p \in Sites /\ drop[p] = "wiping" /\ drop' = [drop EXCEPT ![p] = "done"]
         /\ folder[slug[p]] = {} \/ slug[p] \in pending'
  <2>1. CASE p = Boot
    BY <2>1 DEF Probe, Wiped
  <2>2. CASE p # Boot
    <3>1. p \in Sites /\ Target(p) = slug[p] /\ drop[p] = "wiping"
      BY <1>1, <2>2 DEF Workers, Target, Aimed
    <3> QED BY <2>2, <3>1 DEF Probe, Wiped, Step, Remember
  <2> QED BY <2>1, <2>2
<1> QED BY <1>1, <1>2, <1>3, <1>4, <1>5, <1>6

LEMMA InsertKeeps ==
    ASSUME IInv, NEW s \in Sites, Insert(s)
    PROVE  IInv'
<1> USE RemovalAssumption DEF IInv, onDisk, requests, startup, history
<1>1. TypeOK'
  BY DEF Insert, Step, CleaningUp, Free, TypeOK, Makes, Drops, Jobs, Boots, Named, Workers
<1>2. Begun'
  BY DEF Insert, Step, CleaningUp, Free, Begun, TypeOK
<1>3. RowGoes'
  BY DEF Insert, Step, CleaningUp, Free, RowGoes, Begun, TypeOK
<1>4. Watched'
  BY DEF Insert, Step, CleaningUp, Free, Watched, Begun, RowGoes, TypeOK
<1>5. Aimed'
  BY DEF Insert, Step, CleaningUp, Free, Aimed, Begun, TypeOK, Workers
<1>6. Unused'
  BY DEF Insert, Step, CleaningUp, Free, Unused, TypeOK, Begun, Aimed, Named, Target, Workers
<1>7. FilesKept'
  BY DEF Insert, Step, CleaningUp, Free, FilesKept, Begun, TypeOK
<1>8. HadOwners'
  BY DEF Insert, Step, CleaningUp, Free, HadOwners, Departed, Inherited, Begun, RowGoes, TypeOK
<1>9. NotForgotten'
  BY DEF Insert, Step, CleaningUp, Free, NotForgotten, Begun, RowGoes, Watched, TypeOK
<1> QED BY <1>1, <1>2, <1>3, <1>4, <1>5, <1>6, <1>7, <1>8, <1>9

LEMMA FilesKeeps ==
    ASSUME IInv, NEW s \in Sites, Files(s)
    PROVE  IInv'
<1> USE RemovalAssumption DEF IInv, onDisk, requests, startup, history
<1>1. TypeOK'
  <2>1. folder' \in [Names -> SUBSET Sites]
    BY DEF Files, TypeOK
  <2>2. /\ make' \in [Sites -> Makes] /\ job' \in [Sites -> Jobs]
        /\ live' \subseteq live /\ slug' = slug
    BY DEF Files, Step, TypeOK, Makes, Jobs
  <2>3. \A k \in Names : \A x, y \in Named(k)' : x = y
    BY <2>2 DEF TypeOK, Named
  <2> QED BY <2>1, <2>2, <2>3 DEF Files, TypeOK
<1>2. Begun'
  BY DEF Files, Step, Begun, TypeOK
<1>3. RowGoes'
  BY DEF Files, Step, RowGoes, Begun, TypeOK
<1>4. Watched'
  BY DEF Files, Step, Watched, Begun, RowGoes, TypeOK
<1>5. Aimed'
  BY DEF Files, Step, Aimed, Begun, TypeOK, Workers
<1>6. Unused'
  BY DEF Files, Step, Unused, TypeOK, Begun, Aimed, Named, Target, Workers
<1>7. FilesKept'
  BY DEF Files, Step, FilesKept, Begun, TypeOK
<1>8. HadOwners'
  BY DEF Files, Step, HadOwners, Departed, Inherited, Begun, RowGoes, TypeOK
<1>9. NotForgotten'
  BY DEF Files, Step, NotForgotten, Begun, RowGoes, Watched, TypeOK
<1> QED BY <1>1, <1>2, <1>3, <1>4, <1>5, <1>6, <1>7, <1>8, <1>9

LEMMA DeployKeeps ==
    ASSUME IInv, NEW s \in Sites, Deploy(s)
    PROVE  IInv'
<1> USE RemovalAssumption DEF IInv, onDisk, requests, startup, history
<1>1. TypeOK'
  BY DEF Deploy, Step, TypeOK, Makes, Drops, Jobs, Boots, Named, Workers
<1>2. Begun'
  BY DEF Deploy, Step, Begun, TypeOK
<1>3. RowGoes'
  BY DEF Deploy, Step, RowGoes, Begun, TypeOK
<1>4. Watched'
  BY DEF Deploy, Step, Watched, Begun, RowGoes, TypeOK
<1>5. Aimed'
  BY DEF Deploy, Step, Aimed, Begun, TypeOK, Workers
<1>6. Unused'
  BY DEF Deploy, Step, Unused, TypeOK, Begun, Aimed, Named, Target, Workers
<1>7. FilesKept'
  BY DEF Deploy, Step, FilesKept, Begun, TypeOK
<1>8. HadOwners'
  BY DEF Deploy, Step, HadOwners, Departed, Inherited, Begun, RowGoes, TypeOK
<1>9. NotForgotten'
  BY DEF Deploy, Step, NotForgotten, Begun, RowGoes, Watched, TypeOK
<1> QED BY <1>1, <1>2, <1>3, <1>4, <1>5, <1>6, <1>7, <1>8, <1>9

LEMMA JobBeginsKeeps ==
    ASSUME IInv, NEW s \in Sites, JobBegins(s)
    PROVE  IInv'
<1> USE RemovalAssumption DEF IInv, onDisk, requests, startup, history
<1>1. TypeOK'
  BY DEF JobBegins, Step, MidDeploy, TypeOK, Makes, Drops, Jobs, Boots, Named, Workers
<1>2. Begun'
  BY DEF JobBegins, Step, MidDeploy, Begun, TypeOK
<1>3. RowGoes'
  BY DEF JobBegins, Step, MidDeploy, RowGoes, Begun, TypeOK
<1>4. Watched'
  <2>1. job[s] = "pending" /\ UNCHANGED <<make, drop>>
    BY DEF JobBegins
  <2>2. make[s] = "done"
    BY <2>1 DEF Begun
  <2>3. CASE s \in live
    <3>1. drop[s] \in {"none", "asked", "services", "row"}
      BY <2>3 DEF RowGoes, TypeOK, Drops
    <3>2. job' = [job EXCEPT ![s] = "files"]
      BY <2>3 DEF JobBegins, Step
    <3>3. late' = IF drop[s] \in {"services", "row"} THEN late \cup {s} ELSE late
      BY <2>3 DEF JobBegins
    <3> QED BY <2>1, <2>2, <3>1, <3>2, <3>3 DEF Watched, TypeOK
  <2>4. CASE s \notin live
    <3>1. job' = [job EXCEPT ![s] = "over"] /\ late' = late
      BY <2>4 DEF JobBegins, Step
    <3> QED BY <2>1, <3>1 DEF Watched, TypeOK
  <2> QED BY <2>3, <2>4
<1>5. Aimed'
  BY DEF JobBegins, Step, MidDeploy, Aimed, Begun, TypeOK, Workers
<1>6. Unused'
  BY DEF JobBegins, Step, MidDeploy, Unused, TypeOK, Begun, Aimed, Named, Target, Workers
<1>7. FilesKept'
  BY DEF JobBegins, Step, MidDeploy, FilesKept, Begun, TypeOK
<1>8. HadOwners'
  BY DEF JobBegins, Step, MidDeploy, HadOwners, Departed, Inherited, Begun, RowGoes, TypeOK
<1>9. NotForgotten'
  BY DEF JobBegins, Step, MidDeploy, NotForgotten, Begun, RowGoes, Watched, TypeOK
<1> QED BY <1>1, <1>2, <1>3, <1>4, <1>5, <1>6, <1>7, <1>8, <1>9

LEMMA JobFilesKeeps ==
    ASSUME IInv, NEW s \in Sites, JobFiles(s)
    PROVE  IInv'
<1> USE RemovalAssumption DEF IInv, onDisk, requests, startup, history
<1>1. TypeOK'
  <2>1. folder' \in [Names -> SUBSET Sites]
    BY DEF JobFiles, TypeOK
  <2>2. /\ make' \in [Sites -> Makes] /\ job' \in [Sites -> Jobs]
        /\ live' \subseteq live /\ slug' = slug
    BY DEF JobFiles, Step, TypeOK, Makes, Jobs
  <2>3. \A k \in Names : \A x, y \in Named(k)' : x = y
    BY <2>2 DEF TypeOK, Named
  <2> QED BY <2>1, <2>2, <2>3 DEF JobFiles, TypeOK
<1>2. Begun'
  BY DEF JobFiles, Step, Begun, TypeOK
<1>3. RowGoes'
  BY DEF JobFiles, Step, RowGoes, Begun, TypeOK
<1>4. Watched'
  BY DEF JobFiles, Step, Watched, Begun, RowGoes, TypeOK
<1>5. Aimed'
  BY DEF JobFiles, Step, Aimed, Begun, TypeOK, Workers
<1>6. Unused'
  BY DEF JobFiles, Step, Unused, TypeOK, Begun, Aimed, Named, Target, Workers
<1>7. FilesKept'
  BY DEF JobFiles, Step, FilesKept, Begun, TypeOK
<1>8. HadOwners'
  BY DEF JobFiles, Step, HadOwners, Departed, Inherited, Begun, RowGoes, TypeOK
<1>9. NotForgotten'
  BY DEF JobFiles, Step, NotForgotten, Begun, RowGoes, Watched, TypeOK
<1> QED BY <1>1, <1>2, <1>3, <1>4, <1>5, <1>6, <1>7, <1>8, <1>9

LEMMA JobInstallKeeps ==
    ASSUME IInv, NEW s \in Sites, JobInstall(s)
    PROVE  IInv'
<1> USE RemovalAssumption DEF IInv, onDisk, requests, startup, history
<1>1. TypeOK'
  BY DEF JobInstall, Step, TypeOK, Makes, Drops, Jobs, Boots, Named, Workers
<1>2. Begun'
  BY DEF JobInstall, Step, Begun, TypeOK
<1>3. RowGoes'
  BY DEF JobInstall, Step, RowGoes, Begun, TypeOK
<1>4. Watched'
  BY DEF JobInstall, Step, Watched, Begun, RowGoes, TypeOK
<1>5. Aimed'
  BY DEF JobInstall, Step, Aimed, Begun, TypeOK, Workers
<1>6. Unused'
  BY DEF JobInstall, Step, Unused, TypeOK, Begun, Aimed, Named, Target, Workers
<1>7. FilesKept'
  BY DEF JobInstall, Step, FilesKept, Begun, TypeOK
<1>8. HadOwners'
  BY DEF JobInstall, Step, HadOwners, Departed, Inherited, Begun, RowGoes, TypeOK
<1>9. NotForgotten'
  BY DEF JobInstall, Step, NotForgotten, Begun, RowGoes, Watched, TypeOK
<1> QED BY <1>1, <1>2, <1>3, <1>4, <1>5, <1>6, <1>7, <1>8, <1>9

LEMMA JobFailsKeeps ==
    ASSUME IInv, NEW s \in Sites, JobFails(s)
    PROVE  IInv'
<1> USE RemovalAssumption DEF IInv, onDisk, requests, startup, history
<1>1. TypeOK'
  BY DEF JobFails, Step, TypeOK, Makes, Drops, Jobs, Boots, Named, Workers
<1>2. Begun'
  BY DEF JobFails, Step, Begun, TypeOK
<1>3. RowGoes'
  BY DEF JobFails, Step, RowGoes, Begun, TypeOK
<1>4. Watched'
  BY DEF JobFails, Step, Watched, Begun, RowGoes, TypeOK
<1>5. Aimed'
  BY DEF JobFails, Step, Aimed, Begun, TypeOK, Workers
<1>6. Unused'
  BY DEF JobFails, Step, Unused, TypeOK, Begun, Aimed, Named, Target, Workers
<1>7. FilesKept'
  BY DEF JobFails, Step, FilesKept, Begun, TypeOK
<1>8. HadOwners'
  BY DEF JobFails, Step, HadOwners, Departed, Inherited, Begun, RowGoes, TypeOK
<1>9. NotForgotten'
  BY DEF JobFails, Step, NotForgotten, Begun, RowGoes, Watched, TypeOK
<1> QED BY <1>1, <1>2, <1>3, <1>4, <1>5, <1>6, <1>7, <1>8, <1>9

LEMMA AskKeeps ==
    ASSUME IInv, NEW s \in Sites, Ask(s)
    PROVE  IInv'
<1> USE RemovalAssumption DEF IInv, onDisk, requests, startup, history
<1>1. TypeOK'
  BY DEF Ask, Step, TypeOK, Makes, Drops, Jobs, Boots, Named, Workers
<1>2. Begun'
  BY DEF Ask, Step, Begun, TypeOK
<1>3. RowGoes'
  BY DEF Ask, Step, RowGoes, Begun, TypeOK
<1>4. Watched'
  BY DEF Ask, Step, Watched, Begun, RowGoes, TypeOK
<1>5. Aimed'
  BY DEF Ask, Step, Aimed, Begun, TypeOK, Workers
<1>6. Unused'
  BY DEF Ask, Step, Unused, TypeOK, Begun, Aimed, Named, Target, Workers
<1>7. FilesKept'
  BY DEF Ask, Step, FilesKept, Begun, TypeOK
<1>8. HadOwners'
  BY DEF Ask, Step, HadOwners, Departed, Inherited, Begun, RowGoes, TypeOK
<1>9. NotForgotten'
  BY DEF Ask, Step, NotForgotten, Begun, RowGoes, Watched, TypeOK
<1> QED BY <1>1, <1>2, <1>3, <1>4, <1>5, <1>6, <1>7, <1>8, <1>9

LEMMA RefuseKeeps ==
    ASSUME IInv, NEW s \in Sites, Refuse(s)
    PROVE  IInv'
<1> USE RemovalAssumption DEF IInv, onDisk, requests, startup, history
<1>1. TypeOK'
  BY DEF Refuse, Step, TypeOK, Makes, Drops, Jobs, Boots, Named, Workers
<1>2. Begun'
  BY DEF Refuse, Step, Begun, TypeOK
<1>3. RowGoes'
  BY DEF Refuse, Step, RowGoes, Begun, TypeOK
<1>4. Watched'
  BY DEF Refuse, Step, Watched, Begun, RowGoes, TypeOK
<1>5. Aimed'
  BY DEF Refuse, Step, Aimed, Begun, TypeOK, Workers
<1>6. Unused'
  BY DEF Refuse, Step, Unused, TypeOK, Begun, Aimed, Named, Target, Workers
<1>7. FilesKept'
  BY DEF Refuse, Step, FilesKept, Begun, TypeOK
<1>8. HadOwners'
  BY DEF Refuse, Step, HadOwners, Departed, Inherited, Begun, RowGoes, TypeOK
<1>9. NotForgotten'
  BY DEF Refuse, Step, NotForgotten, Begun, RowGoes, Watched, TypeOK
<1> QED BY <1>1, <1>2, <1>3, <1>4, <1>5, <1>6, <1>7, <1>8, <1>9

LEMMA GuardKeeps ==
    ASSUME IInv, NEW s \in Sites, Guard(s)
    PROVE  IInv'
<1> USE RemovalAssumption DEF IInv, onDisk, requests, startup, history
<1>1. TypeOK'
  BY DEF Guard, Step, MidDeploy, TypeOK, Makes, Drops, Jobs, Boots, Named, Workers
<1>2. Begun'
  BY DEF Guard, Step, MidDeploy, Begun, TypeOK
<1>3. RowGoes'
  BY DEF Guard, Step, MidDeploy, RowGoes, Begun, TypeOK
<1>4. Watched'
  BY DEF Guard, Step, MidDeploy, Watched, Begun, RowGoes, TypeOK
<1>5. Aimed'
  BY DEF Guard, Step, MidDeploy, Aimed, Begun, TypeOK, Workers
<1>6. Unused'
  BY DEF Guard, Step, MidDeploy, Unused, TypeOK, Begun, Aimed, Named, Target, Workers
<1>7. FilesKept'
  BY DEF Guard, Step, MidDeploy, FilesKept, Begun, TypeOK
<1>8. HadOwners'
  BY DEF Guard, Step, MidDeploy, HadOwners, Departed, Inherited, Begun, RowGoes, TypeOK
<1>9. NotForgotten'
  BY DEF Guard, Step, MidDeploy, NotForgotten, Begun, RowGoes, Watched, TypeOK
<1> QED BY <1>1, <1>2, <1>3, <1>4, <1>5, <1>6, <1>7, <1>8, <1>9

LEMMA RemoveServiceKeeps ==
    ASSUME IInv, NEW s \in Sites, RemoveService(s)
    PROVE  IInv'
<1> USE RemovalAssumption DEF IInv, onDisk, requests, startup, history
<1>1. TypeOK'
  BY DEF RemoveService, Step, TypeOK, Makes, Drops, Jobs, Boots, Named, Workers
<1>2. Begun'
  BY DEF RemoveService, Step, Begun, TypeOK
<1>3. RowGoes'
  BY DEF RemoveService, Step, RowGoes, Begun, TypeOK
<1>4. Watched'
  BY DEF RemoveService, Step, Watched, Begun, RowGoes, TypeOK
<1>5. Aimed'
  BY DEF RemoveService, Step, Aimed, Begun, TypeOK, Workers
<1>6. Unused'
  BY DEF RemoveService, Step, Unused, TypeOK, Begun, Aimed, Named, Target, Workers
<1>7. FilesKept'
  BY DEF RemoveService, Step, FilesKept, Begun, TypeOK
<1>8. HadOwners'
  BY DEF RemoveService, Step, HadOwners, Departed, Inherited, Begun, RowGoes, TypeOK
<1>9. NotForgotten'
  BY DEF RemoveService, Step, NotForgotten, Begun, RowGoes, Watched, TypeOK
<1> QED BY <1>1, <1>2, <1>3, <1>4, <1>5, <1>6, <1>7, <1>8, <1>9

LEMMA RemoveRowKeeps ==
    ASSUME IInv, NEW s \in Sites, RemoveRow(s)
    PROVE  IInv'
<1> USE RemovalAssumption DEF IInv, onDisk, requests, startup, history
<1>1. TypeOK'
  BY DEF RemoveRow, Step, TypeOK, Makes, Drops, Jobs, Boots, Named, Workers
<1>2. Begun'
  BY DEF RemoveRow, Step, Begun, TypeOK
<1>3. RowGoes'
  BY DEF RemoveRow, Step, RowGoes, Begun, TypeOK
<1>4. Watched'
  BY DEF RemoveRow, Step, Watched, Begun, RowGoes, TypeOK
<1>5. Aimed'
  BY DEF RemoveRow, Step, Aimed, Begun, TypeOK, Workers
<1>6. Unused'
  BY DEF RemoveRow, Step, Unused, TypeOK, Begun, Aimed, Named, Target, Workers
<1>7. FilesKept'
  BY DEF RemoveRow, Step, FilesKept, Begun, TypeOK
<1>8. HadOwners'
  BY DEF RemoveRow, Step, HadOwners, Departed, Inherited, Begun, RowGoes, TypeOK
<1>9. NotForgotten'
  BY DEF RemoveRow, Step, NotForgotten, Begun, RowGoes, Watched, TypeOK
<1> QED BY <1>1, <1>2, <1>3, <1>4, <1>5, <1>6, <1>7, <1>8, <1>9

LEMMA CheckFolderKeeps ==
    ASSUME IInv, NEW s \in Sites, CheckFolder(s)
    PROVE  IInv'
<1> USE RemovalAssumption DEF IInv, onDisk, requests, startup, history
<1>1. TypeOK'
  BY DEF CheckFolder, Step, TypeOK, Makes, Drops, Jobs, Boots, Named, Workers
<1>2. Begun'
  BY DEF CheckFolder, Step, Begun, TypeOK
<1>3. RowGoes'
  BY DEF CheckFolder, Step, RowGoes, Begun, TypeOK
<1>4. Watched'
  BY DEF CheckFolder, Step, Watched, Begun, RowGoes, TypeOK
<1>5. Aimed'
  BY DEF CheckFolder, Step, Aimed, Begun, TypeOK, Workers
<1>6. Unused'
  BY DEF CheckFolder, Step, Unused, TypeOK, Begun, Aimed, Named, Target, Workers
<1>7. FilesKept'
  BY DEF CheckFolder, Step, FilesKept, Begun, TypeOK
<1>8. HadOwners'
  BY DEF CheckFolder, Step, HadOwners, Departed, Inherited, Begun, RowGoes, TypeOK
<1>9. NotForgotten'
  <2>1. s \notin live /\ drop[s] = "check" /\ UNCHANGED <<slug, folder, pending, wipe, late>>
    BY DEF CheckFolder, RowGoes
  <2>2. CASE wipe[s] /\ Named(slug[s]) = {}
    <3>1. drop' = [drop EXCEPT ![s] = "wiping"]
      BY <2>2 DEF CheckFolder, Step
    <3> QED BY <2>1, <3>1 DEF NotForgotten, TypeOK
  <2>3. CASE ~(wipe[s] /\ Named(slug[s]) = {})
    <3>1. drop' = [drop EXCEPT ![s] = "done"]
      BY <2>3 DEF CheckFolder, Step
    <3>2. wipe[s] => \E t \in Sites \ {s} : slug[t] = slug[s]
      BY <2>1, <2>3 DEF Named, TypeOK
    <3>3. ASSUME NEW x \in Sites \ late', drop'[x] = "done", wipe'[x], x \in folder'[slug'[x]]
          PROVE  slug'[x] \in pending' \/ \E t \in Sites \ {x} : slug'[t] = slug'[x]
      <4>1. CASE x = s
        BY <2>1, <3>2, <3>3, <4>1
      <4>2. CASE x # s
        BY <2>1, <3>1, <3>3, <4>2 DEF NotForgotten, TypeOK
      <4> QED BY <4>1, <4>2
    <3> QED BY <3>3 DEF NotForgotten
  <2> QED BY <2>2, <2>3
<1> QED BY <1>1, <1>2, <1>3, <1>4, <1>5, <1>6, <1>7, <1>8, <1>9

LEMMA RmKeeps ==
    ASSUME IInv, NEW p \in Workers, Rm(p)
    PROVE  IInv'
<1> USE RemovalAssumption DEF IInv, onDisk, requests, startup, history
<1>1. TypeOK'
  BY DEF Rm, Step, TypeOK, Makes, Drops, Jobs, Boots, Named, Workers
<1>2. Begun'
  BY DEF Rm, Step, Begun, TypeOK
<1>3. RowGoes'
  BY DEF Rm, Step, RowGoes, Begun, TypeOK
<1>4. Watched'
  BY DEF Rm, Step, Watched, Begun, RowGoes, TypeOK
<1>5. Aimed'
  BY DEF Rm, Step, Aimed, Begun, TypeOK, Workers
<1>6. Unused'
  BY DEF Rm, Step, Unused, TypeOK, Begun, Aimed, Named, Target, Workers
<1>7. FilesKept'
  <2>1. wiping[p] # "no" /\ UNCHANGED <<live, slug, make, raced>>
    BY DEF Rm
  <2>2. folder' \in {folder, [folder EXCEPT ![Target(p)] = {}]}
    BY DEF Rm
  <2>3. \A s \in live : slug[s] = Target(p) => s \in raced
    BY <2>1 DEF Unused, Named
  <2>4. \A s \in Sites : slug[s] \in Names /\ slug[s] # Target(p) => folder'[slug[s]] = folder[slug[s]]
    BY <2>2 DEF TypeOK
  <2>5. \A s \in live : slug[s] \in Names
    BY DEF Begun, TypeOK
  <2> QED BY <2>1, <2>3, <2>4, <2>5 DEF FilesKept, TypeOK
<1>8. HadOwners'
  BY DEF Rm, Step, HadOwners, Departed, Inherited, Begun, RowGoes, TypeOK
<1>9. NotForgotten'
  BY DEF Rm, Step, NotForgotten, Begun, RowGoes, Watched, TypeOK
<1> QED BY <1>1, <1>2, <1>3, <1>4, <1>5, <1>6, <1>7, <1>8, <1>9

LEMMA ProbeKeeps ==
    ASSUME IInv, NEW p \in Workers, Probe(p)
    PROVE  IInv'
<1> USE RemovalAssumption DEF IInv, onDisk, requests, startup, history
<1>1. TypeOK'
  <2>1. drop' \in [Sites -> Drops]
    BY ProbeDoes DEF TypeOK, Drops
  <2>2. service' = service /\ crashes' = crashes
    BY DEF Probe
  <2> QED BY <2>1, <2>2, ProbeDoes DEF TypeOK, Named
<1>2. Begun'
  BY ProbeDoes DEF history, Begun, TypeOK, Drops
<1>3. RowGoes'
  BY ProbeDoes DEF history, RowGoes, TypeOK, Drops
<1>4. Watched'
  BY ProbeDoes DEF history, Watched, TypeOK, Drops
<1>5. Aimed'
  BY DEF Probe, Step, Wiped, Remember, Aimed, Begun, TypeOK, Workers
<1>6. Unused'
  BY DEF Probe, Step, Wiped, Remember, Unused, TypeOK, Begun, Aimed, Named, Target, Workers
<1>7. FilesKept'
  BY DEF Probe, Step, Wiped, Remember, FilesKept, Begun, TypeOK
<1>8. HadOwners'
  <2>1. \A k : Departed(k)' <=> Departed(k)
    BY ProbeDoes DEF Departed
  <2>2. \A k : Inherited(k)' <=> Inherited(k)
    BY ProbeDoes DEF Inherited
  <2> QED BY <2>1, <2>2, ProbeDoes DEF HadOwners
<1>9. NotForgotten'
  <2>1. /\ UNCHANGED <<slug, folder, wipe, late>> /\ \A k \in pending \ pending' : folder[k] = {}
    BY ProbeDoes
  <2>2. ASSUME NEW x \in Sites \ late', drop'[x] = "done", wipe'[x], x \in folder'[slug'[x]]
        PROVE  slug'[x] \in pending' \/ \E t \in Sites \ {x} : slug'[t] = slug'[x]
    <3>1. CASE drop[x] = "done"
      BY <2>1, <2>2, <3>1 DEF NotForgotten
    <3>2. CASE drop[x] # "done"
      <4>1. drop'[x] # drop[x] /\ x \in Sites
        BY <2>2, <3>2
      <4>2. /\ p \in Sites /\ drop' = [drop EXCEPT ![p] = "done"]
            /\ folder[slug[p]] = {} \/ slug[p] \in pending'
        BY <4>1, ProbeDoes
      <4>3. x = p
        BY <4>1, <4>2 DEF TypeOK
      <4> QED BY <2>1, <2>2, <4>2, <4>3
    <3> QED BY <3>1, <3>2
  <2> QED BY <2>2 DEF NotForgotten
<1> QED BY <1>1, <1>2, <1>3, <1>4, <1>5, <1>6, <1>7, <1>8, <1>9

LEMMA ListKeeps ==
    ASSUME IInv, List
    PROVE  IInv'
<1> USE RemovalAssumption DEF IInv, onDisk, requests, startup, history
<1>1. TypeOK'
  BY DEF List, Step, TypeOK, Makes, Drops, Jobs, Boots, Named, Workers
<1>2. Begun'
  BY DEF List, Step, Begun, TypeOK
<1>3. RowGoes'
  BY DEF List, Step, RowGoes, Begun, TypeOK
<1>4. Watched'
  BY DEF List, Step, Watched, Begun, RowGoes, TypeOK
<1>5. Aimed'
  BY DEF List, Step, Aimed, Begun, TypeOK, Workers
<1>6. Unused'
  BY DEF List, Step, Unused, TypeOK, Begun, Aimed, Named, Target, Workers
<1>7. FilesKept'
  BY DEF List, Step, FilesKept, Begun, TypeOK
<1>8. HadOwners'
  BY DEF List, Step, HadOwners, Departed, Inherited, Begun, RowGoes, TypeOK
<1>9. NotForgotten'
  BY DEF List, Step, NotForgotten, Begun, RowGoes, Watched, TypeOK
<1> QED BY <1>1, <1>2, <1>3, <1>4, <1>5, <1>6, <1>7, <1>8, <1>9

LEMMA OrphansKeeps ==
    ASSUME IInv, Orphans
    PROVE  IInv'
<1> USE RemovalAssumption DEF IInv, onDisk, requests, startup, history
<1>1. TypeOK'
  BY DEF Orphans, Step, TypeOK, Makes, Drops, Jobs, Boots, Named, Workers
<1>2. Begun'
  BY DEF Orphans, Step, Begun, TypeOK
<1>3. RowGoes'
  BY DEF Orphans, Step, RowGoes, Begun, TypeOK
<1>4. Watched'
  BY DEF Orphans, Step, Watched, Begun, RowGoes, TypeOK
<1>5. Aimed'
  BY DEF Orphans, Step, Aimed, Begun, TypeOK, Workers
<1>6. Unused'
  BY DEF Orphans, Step, Unused, TypeOK, Begun, Aimed, Named, Target, Workers
<1>7. FilesKept'
  BY DEF Orphans, Step, FilesKept, Begun, TypeOK
<1>8. HadOwners'
  BY DEF Orphans, Step, HadOwners, Departed, Inherited, Begun, RowGoes, TypeOK
<1>9. NotForgotten'
  BY DEF Orphans, Step, NotForgotten, Begun, RowGoes, Watched, TypeOK
<1> QED BY <1>1, <1>2, <1>3, <1>4, <1>5, <1>6, <1>7, <1>8, <1>9

LEMMA UninstallKeeps ==
    ASSUME IInv, Uninstall
    PROVE  IInv'
<1> USE RemovalAssumption DEF IInv, onDisk, requests, startup, history
<1>1. TypeOK'
  BY DEF Uninstall, Step, TypeOK, Makes, Drops, Jobs, Boots, Named, Workers
<1>2. Begun'
  BY DEF Uninstall, Step, Begun, TypeOK
<1>3. RowGoes'
  BY DEF Uninstall, Step, RowGoes, Begun, TypeOK
<1>4. Watched'
  BY DEF Uninstall, Step, Watched, Begun, RowGoes, TypeOK
<1>5. Aimed'
  BY DEF Uninstall, Step, Aimed, Begun, TypeOK, Workers
<1>6. Unused'
  BY DEF Uninstall, Step, Unused, TypeOK, Begun, Aimed, Named, Target, Workers
<1>7. FilesKept'
  BY DEF Uninstall, Step, FilesKept, Begun, TypeOK
<1>8. HadOwners'
  BY DEF Uninstall, Step, HadOwners, Departed, Inherited, Begun, RowGoes, TypeOK
<1>9. NotForgotten'
  BY DEF Uninstall, Step, NotForgotten, Begun, RowGoes, Watched, TypeOK
<1> QED BY <1>1, <1>2, <1>3, <1>4, <1>5, <1>6, <1>7, <1>8, <1>9

LEMMA ReadPendingKeeps ==
    ASSUME IInv, ReadPending
    PROVE  IInv'
<1> USE RemovalAssumption DEF IInv, onDisk, requests, startup, history
<1>1. TypeOK'
  BY DEF ReadPending, Step, TypeOK, Makes, Drops, Jobs, Boots, Named, Workers
<1>2. Begun'
  BY DEF ReadPending, Step, Begun, TypeOK
<1>3. RowGoes'
  BY DEF ReadPending, Step, RowGoes, Begun, TypeOK
<1>4. Watched'
  BY DEF ReadPending, Step, Watched, Begun, RowGoes, TypeOK
<1>5. Aimed'
  BY DEF ReadPending, Step, Aimed, Begun, TypeOK, Workers
<1>6. Unused'
  BY DEF ReadPending, Step, Unused, TypeOK, Begun, Aimed, Named, Target, Workers
<1>7. FilesKept'
  BY DEF ReadPending, Step, FilesKept, Begun, TypeOK
<1>8. HadOwners'
  <2>1. /\ UNCHANGED <<slug, live, make, pending, target>>
        /\ todo' = pending /\ inUse' = {k \in Names : Named(k) # {}}
    BY DEF ReadPending
  <2>2. \A k : Departed(k)' <=> Departed(k)
    BY <2>1 DEF Departed
  <2>3. ASSUME NEW k \in pending, k \in inUse' PROVE Inherited(k)'
    <3>1. PICK u \in live : slug[u] = k
      BY <2>1, <2>3 DEF Named
    <3>2. PICK t \in Sites : slug[t] = k /\ t \notin live
      BY DEF HadOwners, Departed
    <3> QED BY <2>1, <3>1, <3>2 DEF Inherited, TypeOK
  <2> QED BY <2>1, <2>2, <2>3 DEF HadOwners
<1>9. NotForgotten'
  BY DEF ReadPending, Step, NotForgotten, Begun, RowGoes, Watched, TypeOK
<1> QED BY <1>1, <1>2, <1>3, <1>4, <1>5, <1>6, <1>7, <1>8, <1>9

LEMMA VisitKeeps ==
    ASSUME IInv, Visit
    PROVE  IInv'
<1> USE RemovalAssumption DEF IInv, onDisk, requests, startup, history
<1>1. TypeOK'
  BY DEF Visit, Step, TypeOK, Makes, Drops, Jobs, Boots, Named, Workers
<1>2. Begun'
  BY DEF Visit, Step, Begun, TypeOK
<1>3. RowGoes'
  BY DEF Visit, Step, RowGoes, Begun, TypeOK
<1>4. Watched'
  BY DEF Visit, Step, Watched, Begun, RowGoes, TypeOK
<1>5. Aimed'
  BY DEF Visit, Step, Aimed, Begun, TypeOK, Workers
<1>6. Unused'
  BY DEF Visit, Step, Unused, TypeOK, Begun, Aimed, Named, Target, Workers
<1>7. FilesKept'
  BY DEF Visit, Step, FilesKept, Begun, TypeOK
<1>8. HadOwners'
  BY DEF Visit, Step, HadOwners, Departed, Inherited, Begun, RowGoes, TypeOK
<1>9. NotForgotten'
  <2>1. boot = "wipe" /\ UNCHANGED <<slug, folder, drop, wipe, late>>
    BY DEF Visit
  <2>2. \A k \in pending \ pending' : k \in todo /\ k \in inUse
    BY DEF Visit
  <2>3. \A k \in pending \ pending' : \A x \in Sites : \E t \in Sites \ {x} : slug[t] = k
    BY <2>1, <2>2 DEF HadOwners, Inherited
  <2> QED BY <2>1, <2>3 DEF NotForgotten
<1> QED BY <1>1, <1>2, <1>3, <1>4, <1>5, <1>6, <1>7, <1>8, <1>9

LEMMA VisitDoneKeeps ==
    ASSUME IInv, VisitDone
    PROVE  IInv'
<1> USE RemovalAssumption DEF IInv, onDisk, requests, startup, history
<1>1. TypeOK'
  BY DEF VisitDone, Step, TypeOK, Makes, Drops, Jobs, Boots, Named, Workers
<1>2. Begun'
  BY DEF VisitDone, Step, Begun, TypeOK
<1>3. RowGoes'
  BY DEF VisitDone, Step, RowGoes, Begun, TypeOK
<1>4. Watched'
  BY DEF VisitDone, Step, Watched, Begun, RowGoes, TypeOK
<1>5. Aimed'
  BY DEF VisitDone, Step, Aimed, Begun, TypeOK, Workers
<1>6. Unused'
  BY DEF VisitDone, Step, Unused, TypeOK, Begun, Aimed, Named, Target, Workers
<1>7. FilesKept'
  BY DEF VisitDone, Step, FilesKept, Begun, TypeOK
<1>8. HadOwners'
  BY DEF VisitDone, Step, HadOwners, Departed, Inherited, Begun, RowGoes, TypeOK
<1>9. NotForgotten'
  BY DEF VisitDone, Step, NotForgotten, Begun, RowGoes, Watched, TypeOK
<1> QED BY <1>1, <1>2, <1>3, <1>4, <1>5, <1>6, <1>7, <1>8, <1>9

LEMMA CrashKeeps ==
    ASSUME IInv, Crash
    PROVE  IInv'
<1> USE RemovalAssumption DEF IInv, onDisk, requests, startup, history
<1>1. TypeOK'
  BY DEF Crash, Step, MidDeploy, TypeOK, Makes, Drops, Jobs, Boots, Named, Workers
<1>2. Begun'
  BY DEF Crash, Step, MidDeploy, Begun, TypeOK
<1>3. RowGoes'
  BY DEF Crash, Step, MidDeploy, RowGoes, Begun, TypeOK
<1>4. Watched'
  BY DEF Crash, Step, MidDeploy, Watched, Begun, RowGoes, TypeOK
<1>5. Aimed'
  BY DEF Crash, Step, MidDeploy, Aimed, Begun, TypeOK, Workers
<1>6. Unused'
  BY DEF Crash, Step, MidDeploy, Unused, TypeOK, Begun, Aimed, Named, Target, Workers
<1>7. FilesKept'
  BY DEF Crash, Step, MidDeploy, FilesKept, Begun, TypeOK
<1>8. HadOwners'
  BY DEF Crash, Step, MidDeploy, HadOwners, Departed, Inherited, Begun, RowGoes, TypeOK
<1>9. NotForgotten'
  BY DEF Crash, Step, MidDeploy, NotForgotten, Begun, RowGoes, Watched, TypeOK
<1> QED BY <1>1, <1>2, <1>3, <1>4, <1>5, <1>6, <1>7, <1>8, <1>9

\* Every step of the requests, the jobs, start-up and the panel keeps the
\* invariant.
LEMMA StepKeeps == IInv /\ [Next]_vars => IInv'
<1>1. ASSUME IInv, Next PROVE IInv'
  <2>1. ASSUME NEW s \in Sites,
               \/ Insert(s) \/ Files(s) \/ Deploy(s)
               \/ JobBegins(s) \/ JobFiles(s) \/ JobInstall(s) \/ JobFails(s)
        PROVE  IInv'
    BY <1>1, <2>1, InsertKeeps, FilesKeeps, DeployKeeps, JobBeginsKeeps, JobFilesKeeps,
       JobInstallKeeps, JobFailsKeeps
  <2>2. ASSUME NEW s \in Sites,
               \/ Ask(s) \/ Refuse(s) \/ Guard(s) \/ RemoveService(s) \/ RemoveRow(s) \/ CheckFolder(s)
        PROVE  IInv'
    BY <1>1, <2>2, AskKeeps, RefuseKeeps, GuardKeeps, RemoveServiceKeeps, RemoveRowKeeps, CheckFolderKeeps
  <2>3. ASSUME NEW p \in Workers, Rm(p) \/ Probe(p) PROVE IInv'
    BY <1>1, <2>3, RmKeeps, ProbeKeeps
  <2>4. CASE List \/ Orphans \/ Uninstall \/ ReadPending \/ Visit \/ VisitDone \/ Crash
    BY <1>1, <2>4, ListKeeps, OrphansKeeps, UninstallKeeps, ReadPendingKeeps, VisitKeeps, VisitDoneKeeps,
       CrashKeeps
  <2> QED BY <1>1, <2>1, <2>2, <2>3, <2>4 DEF Next
<1>2. ASSUME IInv, UNCHANGED vars PROVE IInv'
  BY <1>2 DEF vars, onDisk, requests, startup, history, IInv, TypeOK, Named, Begun, RowGoes, Watched,
     Aimed, Unused, Target, FilesKept, HadOwners, Departed, Inherited, NotForgotten
<1> QED BY <1>1, <1>2

LEMMA Invariance == Spec => []IInv
<1> QED BY InitHolds, StepKeeps, PTL DEF Spec

\* Types, and no two sites of one name, for any number of sites.
THEOREM TypeCorrect == Spec => []TypeOK
<1>1. IInv => TypeOK
  BY DEF IInv
<1> QED BY <1>1, Invariance, PTL

\* No removal and no start-up deletes the files of a website that is there,
\* unless it was created under a name that was just being cleaned up.
THEOREM LiveFilesKept == Spec => []FilesKept
<1>1. IInv => FilesKept
  BY DEF IInv
<1> QED BY <1>1, Invariance, PTL

\* A deploy at work for a site that is gone began after its removal had looked.
THEOREM NoDeployOutlivesItsSite == Spec => []NothingPutBack
<1>1. ASSUME IInv, NEW s \in MidDeploy, s \notin live, drop[s] # "none" PROVE s \in late
  <2>1. s \in Sites /\ job[s] \in {"files", "install"}
    BY DEF MidDeploy
  <2>2. make[s] = "done"
    BY <1>1, <2>1 DEF IInv, Begun
  <2>3. drop[s] \notin {"none", "asked"}
    BY <1>1, <2>1, <2>2 DEF IInv, RowGoes
  <2> QED BY <1>1, <2>1, <2>3 DEF IInv, Watched
<1>2. IInv => NothingPutBack
  BY <1>1 DEF NothingPutBack
<1> QED BY <1>2, Invariance, PTL

\* Files that a removal was to delete are gone, or remembered for the next
\* start, or another site's.
THEOREM NothingForgotten == Spec => []NotForgotten
<1>1. IInv => NotForgotten
  BY DEF IInv
<1> QED BY <1>1, Invariance, PTL
================================================================================
