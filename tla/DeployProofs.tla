----------------------------- MODULE DeployProofs -----------------------------
(***************************************************************************)
(* What holds of every deploy of a site, for any number of deploys:        *)
(* whatever the steps of the machine do, only a version that works is      *)
(* recorded as a success; unless the panel dies or the clean-up fails, the *)
(* newest version that worked is never lost; no deploy leaves its own stop *)
(* on record, or says that nothing is left when something is; and one that *)
(* fails in an ordinary way leaves running what ran before: the deploys    *)
(* implement SiteVersion, the site replaced or as it was.                  *)
(***************************************************************************)
EXTENDS Deploy, TLAPS

(***************************************************************************)
(* The invariant: where in its code the handler is says what the folders   *)
(* hold and what is known of the version it deploys.                       *)
(***************************************************************************)

\* From the clone to the swap the version is in staging; from the swap until
\* it is put back, or kept, it is live.
Staged   == pc \in {"build", "decide", "aside", "movein"} => staging = now
Promoted == pc \in {"resolve", "uninstall", "install", "start", "health", "retry",
                    "route", "finish", "roll back", "restore"} => release = now

\* Only deploys that were begun have a proven version, and the one under way
\* has none before its last step.
Unproven == /\ proven \subseteq 1..now
            /\ pc # "idle" => now \in Versions
            /\ pc \notin {"idle", "finish"} => now \notin proven

\* What the health check, or its absence, says of the version.
Fit == /\ pc = "route" => kind[now] \in {"static", "good"}
       /\ pc = "finish" => kind[now] # "bad"

IInv == TypeOK /\ Staged /\ Promoted /\ Unproven /\ Fit /\ OnlyWorkingSucceeds

\* Names tell versions from folders that hold none.
LEMMA NotVersions == Absent \notin Versions /\ Empty \notin Versions
                     /\ Rubble \notin Versions /\ None \notin Versions
BY DeployAssumption DEF Versions

\* A deploy is among the first deploys up to itself.
LEMMA Reached == \A n \in Versions : n \in 1..n
<1>1. MaxDeploys \in Nat BY DeployAssumption
<1> QED BY <1>1 DEF Versions

\* No deploy yet: nothing is live, staged or recorded.
LEMMA InitIInv == Init => IInv
<1> SUFFICES ASSUME Init PROVE IInv
  OBVIOUS
<1> USE DeployAssumption, NotVersions DEF Init
<1>1. FoldersOK /\ ServiceOK
  BY DEF FoldersOK, ServiceOK, Contents, Programs
<1>2. LedgerOK
  BY DEF LedgerOK, Contents
<1>3. HandlerOK /\ RowOK
  BY DEF HandlerOK, RowOK, Steps, RowStatus
<1>4. Staged /\ Promoted /\ Unproven /\ Fit
  BY DEF Staged, Promoted, Unproven, Fit
<1>5. OnlyWorkingSucceeds
  BY DEF OnlyWorkingSucceeds
<1> QED BY <1>1, <1>2, <1>3, <1>4, <1>5 DEF IInv, TypeOK

-------------------------------------------------------------------------------
(***************************************************************************)
(* One lemma per action.                                                   *)
(***************************************************************************)
\* How a step writes the row of the deploy under way: with a status that
\* closes it only as the handler ends, and as a success only for a version that works.
LEMMA RowStep ==
    ASSUME TypeOK, OnlyWorkingSucceeds, now \in Versions, kind' = kind, now' = now,
           NEW st \in RowStatus, row' = [row EXCEPT ![now] = st],
           pc' # "idle" => st \in InProgress,
           st = "succeeded" => kind[now] \in {"static", "good"}
    PROVE  RowOK' /\ OnlyWorkingSucceeds'
<1> USE DEF TypeOK, RowOK
<1>1. row' \in [Versions -> RowStatus] /\ row'[now] = st
  OBVIOUS
<1>2. \A v \in Versions : v # now => row'[v] = row[v]
  OBVIOUS
<1> QED BY <1>1, <1>2 DEF OnlyWorkingSucceeds

\* And how it leaves it alone.
LEMMA RowSame ==
    ASSUME TypeOK, OnlyWorkingSucceeds, kind' = kind, now' = now, row' = row,
           pc' # "idle" => pc # "idle"
    PROVE  RowOK' /\ OnlyWorkingSucceeds'
BY DEF TypeOK, RowOK, OnlyWorkingSucceeds

\* A deploy opens a row of its own; the last one is closed.
LEMMA BeginIInv == ASSUME IInv, Begin PROVE IInv'
<1> USE DeployAssumption, NotVersions
    DEF IInv, Begin,
        folders, service, ledger
<1>1. FoldersOK'
  BY DEF TypeOK, FoldersOK, Contents, Staged, Unproven
<1>2. ServiceOK'
  BY DEF TypeOK, ServiceOK, FoldersOK, Programs, Contents, Unproven, Promoted
<1>3. LedgerOK'
  <2>1. before' \in [code : Contents, up : BOOLEAN]
    BY DEF TypeOK, FoldersOK, Held
  <2> QED BY <2>1 DEF TypeOK, LedgerOK, Versions
<1>4. HandlerOK'
  BY DEF TypeOK, HandlerOK, Steps
<1>5. RowOK'
  BY DEF TypeOK, RowOK, LedgerOK, RowStatus, InProgress, Unproven, Versions
<1>6. Staged' /\ Promoted'
  BY DEF TypeOK, LedgerOK, Staged, Promoted
<1>7. Unproven'
  BY DEF TypeOK, LedgerOK, Unproven, Versions
<1>8. Fit'
  BY DEF TypeOK, LedgerOK, Fit, Promoted, Unproven, AllKinds
<1>9. OnlyWorkingSucceeds'
  BY DEF TypeOK, LedgerOK, RowOK, Fit, OnlyWorkingSucceeds, Unproven, AllKinds
<1> QED BY <1>1, <1>2, <1>3, <1>4, <1>5, <1>6, <1>7, <1>8, <1>9 DEF TypeOK

\* Staging holds the new version, or what a failed fetch left.
LEMMA FetchIInv == ASSUME IInv, Fetch PROVE IInv'
<1> USE DeployAssumption, NotVersions
    DEF IInv, Fetch, Goto, GotoAs, Throw,
        folders, service, ledger
<1>1. FoldersOK'
  BY DEF TypeOK, FoldersOK, Contents, Staged, Unproven
<1>2. ServiceOK'
  BY DEF TypeOK, ServiceOK, FoldersOK, Programs, Contents, Unproven, Promoted
<1>3. LedgerOK'
  BY DEF TypeOK, LedgerOK, FoldersOK, Unproven, Versions
<1>4. HandlerOK'
  BY DEF TypeOK, HandlerOK, Steps
<1>5. RowOK' /\ OnlyWorkingSucceeds'
  <2>1. now \in Versions /\ kind' = kind /\ now' = now
    BY DEF Unproven
  <2>2. CASE pc' = "build" /\ row' = [row EXCEPT ![now] = "building"]
    BY <2>1, <2>2, RowStep DEF RowStatus, InProgress
  <2>3. CASE pc' = "idle" /\ row' = [row EXCEPT ![now] = "failed"]
    BY <2>1, <2>3, RowStep DEF RowStatus
  <2> QED BY <2>2, <2>3
<1>6. Staged' /\ Promoted'
  BY DEF TypeOK, LedgerOK, Staged, Promoted
<1>7. Unproven'
  BY DEF TypeOK, LedgerOK, Unproven, Versions
<1>8. Fit'
  BY DEF TypeOK, LedgerOK, Fit, Promoted, Unproven, AllKinds
<1> QED BY <1>1, <1>2, <1>3, <1>4, <1>5, <1>6, <1>7, <1>8 DEF TypeOK

\* A failed build may spoil staging, and nothing else.
LEMMA BuildIInv == ASSUME IInv, Build PROVE IInv'
<1> USE DeployAssumption, NotVersions
    DEF IInv, Build, Goto, Throw,
        folders, service, ledger
<1>1. FoldersOK'
  BY DEF TypeOK, FoldersOK, Contents, Staged, Unproven
<1>2. ServiceOK'
  BY DEF TypeOK, ServiceOK, FoldersOK, Programs, Contents, Unproven, Promoted
<1>3. LedgerOK'
  BY DEF TypeOK, LedgerOK, FoldersOK, Unproven, Versions
<1>4. HandlerOK'
  BY DEF TypeOK, HandlerOK, Steps
<1>5. RowOK'
  BY DEF TypeOK, RowOK, LedgerOK, RowStatus, InProgress, Unproven, Versions
<1>6. Staged' /\ Promoted'
  BY DEF TypeOK, LedgerOK, Staged, Promoted
<1>7. Unproven'
  BY DEF TypeOK, LedgerOK, Unproven, Versions
<1>8. Fit'
  BY DEF TypeOK, LedgerOK, Fit, Promoted, Unproven, AllKinds
<1>9. OnlyWorkingSucceeds'
  BY DEF TypeOK, LedgerOK, RowOK, Fit, OnlyWorkingSucceeds, Unproven, AllKinds
<1> QED BY <1>1, <1>2, <1>3, <1>4, <1>5, <1>6, <1>7, <1>8, <1>9 DEF TypeOK

\* At most the service is stopped or removed; no folder moves.
LEMMA DecideIInv == ASSUME IInv, Decide PROVE IInv'
<1> USE DeployAssumption, NotVersions
    DEF IInv, Decide, GotoAs, Throw, ServiceGone, UninstallFailed, ServiceStop, Marked,
        folders, service, ledger
<1>1. FoldersOK'
  BY DEF TypeOK, FoldersOK, Contents, Staged, Unproven
<1>2. ServiceOK'
  BY DEF TypeOK, ServiceOK, FoldersOK, Programs, Contents, Unproven, Promoted
<1>3. LedgerOK'
  BY DEF TypeOK, LedgerOK, FoldersOK, Unproven, Versions
<1>4. HandlerOK'
  BY DEF TypeOK, HandlerOK, Steps
<1>5. RowOK' /\ OnlyWorkingSucceeds'
  <2>1. now \in Versions /\ kind' = kind /\ now' = now
    BY DEF Unproven
  <2>2. CASE pc' = "aside" /\ row' = [row EXCEPT ![now] = "switching"]
    BY <2>1, <2>2, RowStep DEF RowStatus, InProgress
  <2>3. CASE pc' = "idle" /\ row' = [row EXCEPT ![now] = "failed"]
    BY <2>1, <2>3, RowStep DEF RowStatus
  <2> QED BY <2>2, <2>3
<1>6. Staged' /\ Promoted'
  BY DEF TypeOK, LedgerOK, Staged, Promoted
<1>7. Unproven'
  BY DEF TypeOK, LedgerOK, Unproven, Versions
<1>8. Fit'
  BY DEF TypeOK, LedgerOK, Fit, Promoted, Unproven, AllKinds
<1> QED BY <1>1, <1>2, <1>3, <1>4, <1>5, <1>6, <1>7, <1>8 DEF TypeOK

\* Staging still holds the new version while the old one makes room.
LEMMA MoveAsideIInv == ASSUME IInv, MoveAside PROVE IInv'
<1> USE DeployAssumption, NotVersions
    DEF IInv, MoveAside, Goto, Throw, Held,
        folders, service, ledger
<1>1. FoldersOK'
  BY DEF TypeOK, FoldersOK, Contents, Staged, Unproven
<1>2. ServiceOK'
  BY DEF TypeOK, ServiceOK, FoldersOK, Programs, Contents, Unproven, Promoted
<1>3. LedgerOK'
  BY DEF TypeOK, LedgerOK, FoldersOK, Unproven, Versions
<1>4. HandlerOK'
  BY DEF TypeOK, HandlerOK, Steps
<1>5. RowOK'
  BY DEF TypeOK, RowOK, LedgerOK, RowStatus, InProgress, Unproven, Versions
<1>6. Staged' /\ Promoted'
  BY DEF TypeOK, LedgerOK, Staged, Promoted
<1>7. Unproven'
  BY DEF TypeOK, LedgerOK, Unproven, Versions
<1>8. Fit'
  BY DEF TypeOK, LedgerOK, Fit, Promoted, Unproven, AllKinds
<1>9. OnlyWorkingSucceeds'
  BY DEF TypeOK, LedgerOK, RowOK, Fit, OnlyWorkingSucceeds, Unproven, AllKinds
<1> QED BY <1>1, <1>2, <1>3, <1>4, <1>5, <1>6, <1>7, <1>8, <1>9 DEF TypeOK

\* The live folder is the new version from here on (Promoted).
LEMMA MoveInIInv == ASSUME IInv, MoveIn PROVE IInv'
<1> USE DeployAssumption, NotVersions
    DEF IInv, MoveIn, Goto, Throw,
        folders, service, ledger
<1>1. FoldersOK'
  BY DEF TypeOK, FoldersOK, Contents, Staged, Unproven
<1>2. ServiceOK'
  BY DEF TypeOK, ServiceOK, FoldersOK, Programs, Contents, Unproven, Promoted
<1>3. LedgerOK'
  BY DEF TypeOK, LedgerOK, FoldersOK, Unproven, Versions
<1>4. HandlerOK'
  BY DEF TypeOK, HandlerOK, Steps
<1>5. RowOK'
  BY DEF TypeOK, RowOK, LedgerOK, RowStatus, InProgress, Unproven, Versions
<1>6. Staged' /\ Promoted'
  BY DEF TypeOK, LedgerOK, Staged, Promoted
<1>7. Unproven'
  BY DEF TypeOK, LedgerOK, Unproven, Versions
<1>8. Fit'
  BY DEF TypeOK, LedgerOK, Fit, Promoted, Unproven, AllKinds
<1>9. OnlyWorkingSucceeds'
  BY DEF TypeOK, LedgerOK, RowOK, Fit, OnlyWorkingSucceeds, Unproven, AllKinds
<1> QED BY <1>1, <1>2, <1>3, <1>4, <1>5, <1>6, <1>7, <1>8, <1>9 DEF TypeOK

\* No folder moves and no row closes but by a throw.
LEMMA ResolveIInv == ASSUME IInv, Resolve PROVE IInv'
<1> USE DeployAssumption, NotVersions
    DEF IInv, Resolve, Goto, Throw,
        folders, service, ledger
<1>1. FoldersOK'
  BY DEF TypeOK, FoldersOK, Contents, Staged, Unproven
<1>2. ServiceOK'
  BY DEF TypeOK, ServiceOK, FoldersOK, Programs, Contents, Unproven, Promoted
<1>3. LedgerOK'
  BY DEF TypeOK, LedgerOK, FoldersOK, Unproven, Versions
<1>4. HandlerOK'
  BY DEF TypeOK, HandlerOK, Steps
<1>5. RowOK'
  BY DEF TypeOK, RowOK, LedgerOK, RowStatus, InProgress, Unproven, Versions
<1>6. Staged' /\ Promoted'
  BY DEF TypeOK, LedgerOK, Staged, Promoted
<1>7. Unproven'
  BY DEF TypeOK, LedgerOK, Unproven, Versions
<1>8. Fit'
  BY DEF TypeOK, LedgerOK, Fit, Promoted, Unproven, AllKinds
<1>9. OnlyWorkingSucceeds'
  BY DEF TypeOK, LedgerOK, RowOK, Fit, OnlyWorkingSucceeds, Unproven, AllKinds
<1> QED BY <1>1, <1>2, <1>3, <1>4, <1>5, <1>6, <1>7, <1>8, <1>9 DEF TypeOK

\* The service goes, the folders stay.
LEMMA UninstallIInv == ASSUME IInv, Uninstall PROVE IInv'
<1> USE DeployAssumption, NotVersions
    DEF IInv, Uninstall, Goto, ServiceGone, UninstallFailed,
        folders, service, ledger
<1>1. FoldersOK'
  BY DEF TypeOK, FoldersOK, Contents, Staged, Unproven
<1>2. ServiceOK'
  BY DEF TypeOK, ServiceOK, FoldersOK, Programs, Contents, Unproven, Promoted
<1>3. LedgerOK'
  BY DEF TypeOK, LedgerOK, FoldersOK, Unproven, Versions
<1>4. HandlerOK'
  BY DEF TypeOK, HandlerOK, Steps
<1>5. RowOK'
  BY DEF TypeOK, RowOK, LedgerOK, RowStatus, InProgress, Unproven, Versions
<1>6. Staged' /\ Promoted'
  BY DEF TypeOK, LedgerOK, Staged, Promoted
<1>7. Unproven'
  BY DEF TypeOK, LedgerOK, Unproven, Versions
<1>8. Fit'
  BY DEF TypeOK, LedgerOK, Fit, Promoted, Unproven, AllKinds
<1>9. OnlyWorkingSucceeds'
  BY DEF TypeOK, LedgerOK, RowOK, Fit, OnlyWorkingSucceeds, Unproven, AllKinds
<1> QED BY <1>1, <1>2, <1>3, <1>4, <1>5, <1>6, <1>7, <1>8, <1>9 DEF TypeOK

\* The service is registered or the deploy rolls back; the folders stay.
LEMMA InstallIInv == ASSUME IInv, Install PROVE IInv'
<1> USE DeployAssumption, NotVersions
    DEF IInv, Install, Goto,
        folders, service, ledger
<1>1. FoldersOK'
  BY DEF TypeOK, FoldersOK, Contents, Staged, Unproven
<1>2. ServiceOK'
  BY DEF TypeOK, ServiceOK, FoldersOK, Programs, Contents, Unproven, Promoted
<1>3. LedgerOK'
  BY DEF TypeOK, LedgerOK, FoldersOK, Unproven, Versions
<1>4. HandlerOK'
  BY DEF TypeOK, HandlerOK, Steps
<1>5. RowOK'
  BY DEF TypeOK, RowOK, LedgerOK, RowStatus, InProgress, Unproven, Versions
<1>6. Staged' /\ Promoted'
  BY DEF TypeOK, LedgerOK, Staged, Promoted
<1>7. Unproven'
  BY DEF TypeOK, LedgerOK, Unproven, Versions
<1>8. Fit'
  BY DEF TypeOK, LedgerOK, Fit, Promoted, Unproven, AllKinds
<1>9. OnlyWorkingSucceeds'
  BY DEF TypeOK, LedgerOK, RowOK, Fit, OnlyWorkingSucceeds, Unproven, AllKinds
<1> QED BY <1>1, <1>2, <1>3, <1>4, <1>5, <1>6, <1>7, <1>8, <1>9 DEF TypeOK

\* The service runs what the live folder holds.
LEMMA StartNewIInv == ASSUME IInv, StartNew PROVE IInv'
<1> USE DeployAssumption, NotVersions
    DEF IInv, StartNew, Goto, GotoAs, ServiceStart, Held, ComesUp,
        folders, service, ledger
<1>1. FoldersOK'
  BY DEF TypeOK, FoldersOK, Contents, Staged, Unproven
<1>2. ServiceOK'
  BY DEF TypeOK, ServiceOK, FoldersOK, Programs, Contents, Unproven, Promoted
<1>3. LedgerOK'
  BY DEF TypeOK, LedgerOK, FoldersOK, Unproven, Versions
<1>4. HandlerOK'
  BY DEF TypeOK, HandlerOK, Steps
<1>5. RowOK'
  BY DEF TypeOK, RowOK, LedgerOK, RowStatus, InProgress, Unproven, Versions
<1>6. Staged' /\ Promoted'
  BY DEF TypeOK, LedgerOK, Staged, Promoted
<1>7. Unproven'
  BY DEF TypeOK, LedgerOK, Unproven, Versions
<1>8. Fit'
  BY DEF TypeOK, LedgerOK, Fit, Promoted, Unproven, AllKinds
<1>9. OnlyWorkingSucceeds'
  BY DEF TypeOK, LedgerOK, RowOK, Fit, OnlyWorkingSucceeds, Unproven, AllKinds
<1> QED BY <1>1, <1>2, <1>3, <1>4, <1>5, <1>6, <1>7, <1>8, <1>9 DEF TypeOK

\* A health check reads only.
LEMMA HealthIInv == ASSUME IInv, Health PROVE IInv'
<1> USE DeployAssumption, NotVersions
    DEF IInv, Health, Goto, GotoAs, Healthy, ComesUp,
        folders, service, ledger
<1>1. FoldersOK'
  BY DEF TypeOK, FoldersOK, Contents, Staged, Unproven
<1>2. ServiceOK'
  BY DEF TypeOK, ServiceOK, FoldersOK, Programs, Contents, Unproven, Promoted
<1>3. LedgerOK'
  BY DEF TypeOK, LedgerOK, FoldersOK, Unproven, Versions
<1>4. HandlerOK'
  BY DEF TypeOK, HandlerOK, Steps
<1>5. RowOK'
  BY DEF TypeOK, RowOK, LedgerOK, RowStatus, InProgress, Unproven, Versions
<1>6. Staged' /\ Promoted'
  BY DEF TypeOK, LedgerOK, Staged, Promoted
<1>7. Unproven'
  BY DEF TypeOK, LedgerOK, Unproven, Versions
<1>8. Fit'
  BY DEF TypeOK, LedgerOK, Fit, Promoted, Unproven, AllKinds
<1>9. OnlyWorkingSucceeds'
  BY DEF TypeOK, LedgerOK, RowOK, Fit, OnlyWorkingSucceeds, Unproven, AllKinds
<1> QED BY <1>1, <1>2, <1>3, <1>4, <1>5, <1>6, <1>7, <1>8, <1>9 DEF TypeOK

\* The step to the route is taken only by a version that came up.
LEMMA RetryIInv == ASSUME IInv, Retry PROVE IInv'
<1> USE DeployAssumption, NotVersions
    DEF IInv, Retry, Goto, GotoAs, Marked, ComesUp,
        folders, service, ledger
<1>1. FoldersOK'
  BY DEF TypeOK, FoldersOK, Contents, Staged, Unproven
<1>2. ServiceOK'
  BY DEF TypeOK, ServiceOK, FoldersOK, Programs, Contents, Unproven, Promoted
<1>3. LedgerOK'
  BY DEF TypeOK, LedgerOK, FoldersOK, Unproven, Versions
<1>4. HandlerOK'
  BY DEF TypeOK, HandlerOK, Steps
<1>5. RowOK'
  BY DEF TypeOK, RowOK, LedgerOK, RowStatus, InProgress, Unproven, Versions
<1>6. Staged' /\ Promoted'
  BY DEF TypeOK, LedgerOK, Staged, Promoted
<1>7. Unproven'
  BY DEF TypeOK, LedgerOK, Unproven, Versions
<1>8. Fit'
  BY DEF TypeOK, LedgerOK, Fit, Promoted, Unproven, AllKinds
<1>9. OnlyWorkingSucceeds'
  BY DEF TypeOK, LedgerOK, RowOK, Fit, OnlyWorkingSucceeds, Unproven, AllKinds
<1> QED BY <1>1, <1>2, <1>3, <1>4, <1>5, <1>6, <1>7, <1>8, <1>9 DEF TypeOK

\* A version becomes proven here, and it is one that works.
LEMMA RouteIInv == ASSUME IInv, Route PROVE IInv'
<1> USE DeployAssumption, NotVersions
    DEF IInv, Route, Goto, Throw,
        folders, service, ledger
<1>1. FoldersOK'
  BY DEF TypeOK, FoldersOK, Contents, Staged, Unproven
<1>2. ServiceOK'
  BY DEF TypeOK, ServiceOK, FoldersOK, Programs, Contents, Unproven, Promoted
<1>3. LedgerOK'
  BY DEF TypeOK, LedgerOK, FoldersOK, Unproven, Versions
<1>4. HandlerOK'
  BY DEF TypeOK, HandlerOK, Steps
<1>5. RowOK' /\ OnlyWorkingSucceeds'
  <2>1. now \in Versions /\ kind' = kind /\ now' = now
    BY DEF Unproven
  <2>2. CASE row' = row
    BY <2>1, <2>2, RowSame
  <2>3. CASE pc' = "idle" /\ row' = [row EXCEPT ![now] = "failed"]
    BY <2>1, <2>3, RowStep DEF RowStatus
  <2> QED BY <2>2, <2>3
<1>6. Staged' /\ Promoted'
  BY DEF TypeOK, LedgerOK, Staged, Promoted
<1>7. Unproven'
  <2>1. now \in Versions /\ now' = now
    BY DEF Unproven
  <2>2. now \in 1..now
    BY <2>1, Reached
  <2>3. proven' \subseteq proven \cup {now}
    OBVIOUS
  <2>4. pc' \notin {"idle", "finish"} => proven' = proven
    OBVIOUS
  <2> QED BY <2>1, <2>2, <2>3, <2>4 DEF Unproven
<1>8. Fit'
  BY DEF TypeOK, LedgerOK, Fit, Promoted, Unproven, AllKinds
<1> QED BY <1>1, <1>2, <1>3, <1>4, <1>5, <1>6, <1>7, <1>8 DEF TypeOK

\* The row is closed, as a success only for a version that works.
LEMMA FinishIInv == ASSUME IInv, Finish PROVE IInv'
<1> USE DeployAssumption, NotVersions
    DEF IInv, Finish, GotoAs,
        folders, service, ledger
<1>1. FoldersOK'
  BY DEF TypeOK, FoldersOK, Contents, Staged, Unproven
<1>2. ServiceOK'
  BY DEF TypeOK, ServiceOK, FoldersOK, Programs, Contents, Unproven, Promoted
<1>3. LedgerOK'
  BY DEF TypeOK, LedgerOK, FoldersOK, Unproven, Versions
<1>4. HandlerOK'
  BY DEF TypeOK, HandlerOK, Steps
<1>5. RowOK' /\ OnlyWorkingSucceeds'
  <2>1. now \in Versions /\ kind' = kind /\ now' = now
    BY DEF Unproven
  <2>2. CASE pc' = "idle" /\ kind[now] # "no entry" /\ row' = [row EXCEPT ![now] = "succeeded"]
    BY <2>1, <2>2, RowStep DEF RowStatus, Fit, AllKinds, TypeOK, LedgerOK
  <2>3. CASE pc' = "idle" /\ row' = [row EXCEPT ![now] = "needs-setup"]
    BY <2>1, <2>3, RowStep DEF RowStatus
  <2> QED BY <2>2, <2>3
<1>6. Staged' /\ Promoted'
  BY DEF TypeOK, LedgerOK, Staged, Promoted
<1>7. Unproven'
  BY DEF TypeOK, LedgerOK, Unproven, Versions
<1>8. Fit'
  BY DEF TypeOK, LedgerOK, Fit, Promoted, Unproven, AllKinds
<1> QED BY <1>1, <1>2, <1>3, <1>4, <1>5, <1>6, <1>7, <1>8 DEF TypeOK

\* The roll-back begins with a stop; the folders stay.
LEMMA StopNewIInv == ASSUME IInv, StopNew PROVE IInv'
<1> USE DeployAssumption, NotVersions
    DEF IInv, StopNew, Goto, ServiceStop, Marked,
        folders, service, ledger
<1>1. FoldersOK'
  BY DEF TypeOK, FoldersOK, Contents, Staged, Unproven
<1>2. ServiceOK'
  BY DEF TypeOK, ServiceOK, FoldersOK, Programs, Contents, Unproven, Promoted
<1>3. LedgerOK'
  BY DEF TypeOK, LedgerOK, FoldersOK, Unproven, Versions
<1>4. HandlerOK'
  BY DEF TypeOK, HandlerOK, Steps
<1>5. RowOK'
  BY DEF TypeOK, RowOK, LedgerOK, RowStatus, InProgress, Unproven, Versions
<1>6. Staged' /\ Promoted'
  BY DEF TypeOK, LedgerOK, Staged, Promoted
<1>7. Unproven'
  BY DEF TypeOK, LedgerOK, Unproven, Versions
<1>8. Fit'
  BY DEF TypeOK, LedgerOK, Fit, Promoted, Unproven, AllKinds
<1>9. OnlyWorkingSucceeds'
  BY DEF TypeOK, LedgerOK, RowOK, Fit, OnlyWorkingSucceeds, Unproven, AllKinds
<1> QED BY <1>1, <1>2, <1>3, <1>4, <1>5, <1>6, <1>7, <1>8, <1>9 DEF TypeOK

\* The roll-back swaps the folders back; the new version is never proven.
LEMMA RestoreIInv == ASSUME IInv, Restore PROVE IInv'
<1> USE DeployAssumption, NotVersions
    DEF IInv, Restore, Goto, Throw, NotRestored, Held,
        folders, service, ledger
<1>1. FoldersOK'
  BY DEF TypeOK, FoldersOK, Contents, Staged, Unproven
<1>2. ServiceOK'
  BY DEF TypeOK, ServiceOK, FoldersOK, Programs, Contents, Unproven, Promoted
<1>3. LedgerOK'
  BY DEF TypeOK, LedgerOK, FoldersOK, Unproven, Versions
<1>4. HandlerOK'
  BY DEF TypeOK, HandlerOK, Steps
<1>5. RowOK'
  BY DEF TypeOK, RowOK, LedgerOK, RowStatus, InProgress, Unproven, Versions
<1>6. Staged' /\ Promoted'
  BY DEF TypeOK, LedgerOK, Staged, Promoted
<1>7. Unproven'
  BY DEF TypeOK, LedgerOK, Unproven, Versions
<1>8. Fit'
  BY DEF TypeOK, LedgerOK, Fit, Promoted, Unproven, AllKinds
<1>9. OnlyWorkingSucceeds'
  BY DEF TypeOK, LedgerOK, RowOK, Fit, OnlyWorkingSucceeds, Unproven, AllKinds
<1> QED BY <1>1, <1>2, <1>3, <1>4, <1>5, <1>6, <1>7, <1>8, <1>9 DEF TypeOK

\* The version put back is started and the deploy fails.
LEMMA RestartIInv == ASSUME IInv, Restart PROVE IInv'
<1> USE DeployAssumption, NotVersions
    DEF IInv, Restart, Throw, ServiceStart, Held, ComesUp,
        folders, service, ledger
<1>1. FoldersOK'
  BY DEF TypeOK, FoldersOK, Contents, Staged, Unproven
<1>2. ServiceOK'
  BY DEF TypeOK, ServiceOK, FoldersOK, Programs, Contents, Unproven, Promoted
<1>3. LedgerOK'
  BY DEF TypeOK, LedgerOK, FoldersOK, Unproven, Versions
<1>4. HandlerOK'
  BY DEF TypeOK, HandlerOK, Steps
<1>5. RowOK'
  BY DEF TypeOK, RowOK, LedgerOK, RowStatus, InProgress, Unproven, Versions
<1>6. Staged' /\ Promoted'
  BY DEF TypeOK, LedgerOK, Staged, Promoted
<1>7. Unproven'
  BY DEF TypeOK, LedgerOK, Unproven, Versions
<1>8. Fit'
  BY DEF TypeOK, LedgerOK, Fit, Promoted, Unproven, AllKinds
<1>9. OnlyWorkingSucceeds'
  BY DEF TypeOK, LedgerOK, RowOK, Fit, OnlyWorkingSucceeds, Unproven, AllKinds
<1> QED BY <1>1, <1>2, <1>3, <1>4, <1>5, <1>6, <1>7, <1>8, <1>9 DEF TypeOK

\* The owner changes the service only.
LEMMA UserStartIInv == ASSUME IInv, UserStart PROVE IInv'
<1> USE DeployAssumption, NotVersions
    DEF IInv, UserStart, ServiceStart, Held, ComesUp,
        folders, service, ledger
<1>1. FoldersOK'
  BY DEF TypeOK, FoldersOK, Contents, Staged, Unproven
<1>2. ServiceOK'
  BY DEF TypeOK, ServiceOK, FoldersOK, Programs, Contents, Unproven, Promoted
<1>3. LedgerOK'
  BY DEF TypeOK, LedgerOK, FoldersOK, Unproven, Versions
<1>4. HandlerOK'
  BY DEF TypeOK, HandlerOK, Steps
<1>5. RowOK'
  BY DEF TypeOK, RowOK, LedgerOK, RowStatus, InProgress, Unproven, Versions
<1>6. Staged' /\ Promoted'
  BY DEF TypeOK, LedgerOK, Staged, Promoted
<1>7. Unproven'
  BY DEF TypeOK, LedgerOK, Unproven, Versions
<1>8. Fit'
  BY DEF TypeOK, LedgerOK, Fit, Promoted, Unproven, AllKinds
<1>9. OnlyWorkingSucceeds'
  BY DEF TypeOK, LedgerOK, RowOK, Fit, OnlyWorkingSucceeds, Unproven, AllKinds
<1> QED BY <1>1, <1>2, <1>3, <1>4, <1>5, <1>6, <1>7, <1>8, <1>9 DEF TypeOK

\* The owner changes the service only.
LEMMA UserStopIInv == ASSUME IInv, UserStop PROVE IInv'
<1> USE DeployAssumption, NotVersions
    DEF IInv, UserStop,
        folders, service, ledger
<1>1. FoldersOK'
  BY DEF TypeOK, FoldersOK, Contents, Staged, Unproven
<1>2. ServiceOK'
  BY DEF TypeOK, ServiceOK, FoldersOK, Programs, Contents, Unproven, Promoted
<1>3. LedgerOK'
  BY DEF TypeOK, LedgerOK, FoldersOK, Unproven, Versions
<1>4. HandlerOK'
  BY DEF TypeOK, HandlerOK, Steps
<1>5. RowOK'
  BY DEF TypeOK, RowOK, LedgerOK, RowStatus, InProgress, Unproven, Versions
<1>6. Staged' /\ Promoted'
  BY DEF TypeOK, LedgerOK, Staged, Promoted
<1>7. Unproven'
  BY DEF TypeOK, LedgerOK, Unproven, Versions
<1>8. Fit'
  BY DEF TypeOK, LedgerOK, Fit, Promoted, Unproven, AllKinds
<1>9. OnlyWorkingSucceeds'
  BY DEF TypeOK, LedgerOK, RowOK, Fit, OnlyWorkingSucceeds, Unproven, AllKinds
<1> QED BY <1>1, <1>2, <1>3, <1>4, <1>5, <1>6, <1>7, <1>8, <1>9 DEF TypeOK

\* A panel that dies leaves the row open and the folders as they are.
LEMMA CrashIInv == ASSUME IInv, Crash PROVE IInv'
<1> USE DeployAssumption, NotVersions
    DEF IInv, Crash,
        folders, service, ledger
<1>1. FoldersOK'
  BY DEF TypeOK, FoldersOK, Contents, Staged, Unproven
<1>2. ServiceOK'
  BY DEF TypeOK, ServiceOK, FoldersOK, Programs, Contents, Unproven, Promoted
<1>3. LedgerOK'
  BY DEF TypeOK, LedgerOK, FoldersOK, Unproven, Versions
<1>4. HandlerOK'
  BY DEF TypeOK, HandlerOK, Steps
<1>5. RowOK'
  BY DEF TypeOK, RowOK, LedgerOK, RowStatus, InProgress, Unproven, Versions
<1>6. Staged' /\ Promoted'
  BY DEF TypeOK, LedgerOK, Staged, Promoted
<1>7. Unproven'
  BY DEF TypeOK, LedgerOK, Unproven, Versions
<1>8. Fit'
  BY DEF TypeOK, LedgerOK, Fit, Promoted, Unproven, AllKinds
<1>9. OnlyWorkingSucceeds'
  BY DEF TypeOK, LedgerOK, RowOK, Fit, OnlyWorkingSucceeds, Unproven, AllKinds
<1> QED BY <1>1, <1>2, <1>3, <1>4, <1>5, <1>6, <1>7, <1>8, <1>9 DEF TypeOK

\* Every step keeps the invariant.
LEMMA NextIInv == IInv /\ [Next]_vars => IInv'
<1> SUFFICES ASSUME IInv, [Next]_vars PROVE IInv'
  OBVIOUS
<1>1. CASE Begin BY <1>1, BeginIInv
<1>2. CASE Fetch BY <1>2, FetchIInv
<1>3. CASE Build BY <1>3, BuildIInv
<1>4. CASE Decide BY <1>4, DecideIInv
<1>5. CASE MoveAside BY <1>5, MoveAsideIInv
<1>6. CASE MoveIn BY <1>6, MoveInIInv
<1>7. CASE Resolve BY <1>7, ResolveIInv
<1>8. CASE Uninstall BY <1>8, UninstallIInv
<1>9. CASE Install BY <1>9, InstallIInv
<1>10. CASE StartNew BY <1>10, StartNewIInv
<1>11. CASE Health BY <1>11, HealthIInv
<1>12. CASE Retry BY <1>12, RetryIInv
<1>13. CASE Route BY <1>13, RouteIInv
<1>14. CASE Finish BY <1>14, FinishIInv
<1>15. CASE StopNew BY <1>15, StopNewIInv
<1>16. CASE Restore BY <1>16, RestoreIInv
<1>17. CASE Restart BY <1>17, RestartIInv
<1>18. CASE UserStart BY <1>18, UserStartIInv
<1>19. CASE UserStop BY <1>19, UserStopIInv
<1>20. CASE Crash BY <1>20, CrashIInv
<1>21. CASE UNCHANGED vars
  <2> USE <1>21 DEF IInv, vars, folders, service, ledger
  <2>1. FoldersOK' /\ ServiceOK' /\ LedgerOK' /\ HandlerOK'
    BY DEF TypeOK, FoldersOK, ServiceOK, LedgerOK, HandlerOK
  <2>2. RowOK' /\ OnlyWorkingSucceeds'
    BY RowSame
  <2>3. Staged' /\ Promoted' /\ Unproven' /\ Fit'
    BY DEF Staged, Promoted, Unproven, Fit
  <2> QED BY <2>1, <2>2, <2>3 DEF TypeOK
<1> QED BY <1>1, <1>2, <1>3, <1>4, <1>5, <1>6, <1>7, <1>8, <1>9, <1>10, <1>11, <1>12, <1>13, <1>14,
           <1>15, <1>16, <1>17, <1>18, <1>19, <1>20, <1>21 DEF Next, Step

\* The inductive invariant of the deploy steps (deploy-handler.ts:641-1003) holds in
\* every reachable state.
THEOREM Invariance == Spec => []IInv
BY InitIInv, NextIInv, PTL DEF Spec

\* The folders, the service and the ledger keep their types, and the row of a
\* deploy under way is not closed before its last step.
THEOREM TypeCorrect == Spec => []TypeOK
<1>1. IInv => TypeOK BY DEF IInv
<1> QED BY <1>1, Invariance, PTL

\* A build that does not work is never recorded as a success, whatever fails.
THEOREM OnlyWorkingVersionsSucceed == Spec => []OnlyWorkingSucceeds
<1>1. IInv => OnlyWorkingSucceeds BY DEF IInv
<1> QED BY <1>1, Invariance, PTL
-------------------------------------------------------------------------------
(***************************************************************************)
(* The newest version that works is never lost.                            *)
(*                                                                         *)
(* Between two swaps it is what .previous holds, if .previous holds        *)
(* anything, and live otherwise; during a swap it is in .previous; when    *)
(* the new version is the newest to work, .previous may go.                *)
(***************************************************************************)
Resting  == {"idle", "fetch", "build", "decide", "aside", "restart"}
Swapping == {"movein", "resolve", "uninstall", "install", "start", "health", "retry",
             "route", "roll back", "restore"}

IsNewest(c) == proven = {} \/ Newest(c)

Survives == /\ pc \in Resting => IsNewest(IF HasContent(previous) THEN previous ELSE release)
            /\ pc \in Swapping => IsNewest(previous)
            /\ pc = "finish" => Newest(now)

\* Once a version is proven, a folder with the newest is one with content.
LEMMA NewestIsVersion ==
    ASSUME IInv, NEW c, IsNewest(c), proven # {}
    PROVE  c \in Versions /\ HasContent(c)
BY NotVersions DEF IInv, TypeOK, LedgerOK, IsNewest, Newest, HasContent

\* There is one newest version.
LEMMA NewestIsOne ==
    ASSUME IInv, NEW u, NEW v, Newest(u), Newest(v)
    PROVE  u = v
<1>1. u \in Nat /\ v \in Nat
  BY DeployAssumption DEF IInv, TypeOK, LedgerOK, Newest, Versions
<1> QED BY <1>1 DEF Newest

\* Steps that leave both folders alone, and do not enter a swap.
LEMMA SurvivesStill ==
    ASSUME IInv, Survives, UNCHANGED <<release, previous, proven>>,
           pc \in Resting => pc' \in Resting,
           pc \in Resting \cup Swapping, pc' \in Resting \cup Swapping
    PROVE  Survives'
<1>1. IsNewest(previous) /\ proven # {} => HasContent(previous)
  BY NewestIsVersion
<1>2. CASE pc' \in Resting
  BY <1>1, <1>2 DEF Survives, IsNewest, Newest, Resting, Swapping, HasContent
<1>3. CASE pc' \in Swapping
  BY <1>3 DEF Survives, IsNewest, Newest, Resting, Swapping
<1> QED BY <1>2, <1>3

\* What is moved aside, or removed, to make room.
LEMMA MoveAsideSurvives == ASSUME IInv, Survives, MoveAside PROVE Survives'
<1> USE DEF MoveAside, Goto, Throw, folders, ledger
<1>1. proven' = proven /\ pc = "aside"
  OBVIOUS
<1>2. IsNewest(IF HasContent(previous) THEN previous ELSE release)
  BY <1>1 DEF Survives, Resting
<1>3. CASE proven = {}
  BY <1>1, <1>3 DEF Survives, IsNewest, Resting, Swapping
<1>4. CASE proven # {} /\ HasContent(previous)
  <2>1. Newest(previous)
    BY <1>2, <1>4 DEF IsNewest
  <2>2. previous' = previous
    BY <1>4
  <2>3. pc' \in {"movein", "idle"}
    OBVIOUS
  <2> QED BY <1>1, <1>4, <2>1, <2>2, <2>3 DEF Survives, IsNewest, Newest, Resting, Swapping, HasContent
<1>5. CASE proven # {} /\ ~HasContent(previous)
  <2>1. Newest(release) /\ HasContent(release)
    BY <1>2, <1>5, NewestIsVersion DEF IsNewest
  <2>2. release # Absent
    BY <2>1 DEF HasContent
  <2>3. \/ pc' = "movein" /\ previous' = release
        \/ pc' = "idle" /\ previous' = previous /\ release' = release
    BY <1>5, <2>1, <2>2
  <2> QED BY <1>1, <1>5, <2>1, <2>3 DEF Survives, IsNewest, Newest, Resting, Swapping, HasContent
<1> QED BY <1>3, <1>4, <1>5

\* The newest version, if there is one, is in .previous while the new one moves in.
LEMMA MoveInSurvives == ASSUME Undisturbed, IInv, Survives, MoveIn PROVE Survives'
<1> USE DEF MoveIn, Goto, Throw, ledger
<1>1. proven' = proven /\ pc = "movein" /\ IsNewest(previous)
  BY DEF Survives, Swapping
<1>2. kind[now] # "no entry"
  <2>1. now \in Versions
    BY DEF IInv, Unproven
  <2> QED BY <2>1 DEF Undisturbed
<1>3. proven # {} => HasContent(previous)
  BY <1>1, NewestIsVersion
<1>4. \/ pc' \in {"route", "resolve"} /\ previous' = previous
      \/ pc' = "idle" /\ release' = previous /\ previous' = Absent
      \/ pc' = "idle" /\ release' = release /\ previous' = previous
  BY <1>2
<1> QED BY <1>1, <1>3, <1>4 DEF Survives, IsNewest, Newest, Resting, Swapping, HasContent

\* The deploy under way is the latest so far.
LEMMA BelowNow ==
    ASSUME now \in Versions
    PROVE  \A w \in (1..now) \cup {now} : w <= now
<1>1. now \in Nat
  BY DeployAssumption DEF Versions
<1> QED BY <1>1

\* The version that becomes the newest is the live one.
LEMMA RouteSurvives == ASSUME IInv, Survives, Route PROVE Survives'
<1> USE DEF Route, Goto, Throw, folders, ledger
<1>1. CASE pc' = "finish"
  <2>1. proven' = proven \cup {now} /\ now' = now
    BY <1>1
  <2>2. proven \subseteq 1..now /\ now \in Versions
    BY DEF IInv, Unproven
  <2>3. \A w \in proven' : w <= now
    BY <2>1, <2>2, BelowNow
  <2> QED BY <1>1, <2>1, <2>3 DEF Survives, Newest, Resting, Swapping
<1>2. CASE pc' # "finish"
  BY <1>2, SurvivesStill DEF Resting, Swapping
<1> QED BY <1>1, <1>2

\* What is discarded is no longer the newest.
LEMMA FinishSurvives == ASSUME Undisturbed, IInv, Survives, Finish PROVE Survives'
<1> USE DEF Finish, GotoAs, ledger
<1>1. previous' = Absent
  BY DEF Undisturbed, May
<1>2. pc' = "idle" /\ release' = release /\ proven' = proven
  OBVIOUS
<1>3. Newest(release)
  BY DEF Survives, IInv, Promoted
<1> QED BY <1>1, <1>2, <1>3 DEF Survives, IsNewest, Newest, Resting, Swapping, HasContent

\* The newest version moves back, or stays in .previous.
LEMMA RestoreSurvives == ASSUME IInv, Survives, Restore PROVE Survives'
<1> USE DEF Restore, Goto, Throw, NotRestored, ledger, service
<1>1. proven' = proven /\ pc = "restore" /\ IsNewest(previous)
  BY DEF Survives, Swapping
<1>2. proven # {} => HasContent(previous)
  BY <1>1, NewestIsVersion
<1>3. CASE proven = {}
  <2>1. pc' \in Resting
    BY DEF Resting
  <2> QED BY <1>1, <1>3, <2>1 DEF Survives, IsNewest, Resting, Swapping
<1>4. CASE proven # {}
  <2>1. \/ pc' = "restart" /\ release' = previous /\ previous' = Absent
        \/ pc' = "idle" /\ previous' = previous
    BY <1>2, <1>4
  <2> QED BY <1>1, <1>2, <2>1 DEF Survives, IsNewest, Newest, Resting, Swapping, HasContent
<1> QED BY <1>3, <1>4

\* Every step keeps the newest version in one of the two folders.
LEMMA NextSurvives ==
    ASSUME Undisturbed, IInv, Survives, [Next]_vars
    PROVE  Survives'
<1> USE DEF folders, ledger
<1>1. CASE Begin
  BY <1>1, SurvivesStill DEF Begin, Resting, Swapping
<1>2. CASE Fetch
  BY <1>2, SurvivesStill DEF Fetch, Goto, GotoAs, Throw, Resting, Swapping
<1>3. CASE Build
  BY <1>3, SurvivesStill DEF Build, Goto, Throw, Resting, Swapping
<1>4. CASE Decide
  BY <1>4, SurvivesStill DEF Decide, GotoAs, Throw, Resting, Swapping
<1>5. CASE MoveAside
  BY <1>5, MoveAsideSurvives
<1>6. CASE MoveIn
  BY <1>6, MoveInSurvives
<1>7. CASE Resolve
  BY <1>7, SurvivesStill DEF Resolve, Goto, Throw, Resting, Swapping
<1>8. CASE Uninstall
  BY <1>8, SurvivesStill DEF Uninstall, Goto, Resting, Swapping
<1>9. CASE Install
  BY <1>9, SurvivesStill DEF Install, Goto, Resting, Swapping
<1>10. CASE StartNew
  BY <1>10, SurvivesStill DEF StartNew, Goto, GotoAs, Resting, Swapping
<1>11. CASE Health
  BY <1>11, SurvivesStill DEF Health, Goto, GotoAs, Resting, Swapping
<1>12. CASE Retry
  BY <1>12, SurvivesStill DEF Retry, Goto, GotoAs, Resting, Swapping
<1>13. CASE Route
  BY <1>13, RouteSurvives
<1>14. CASE Finish
  BY <1>14, FinishSurvives
<1>15. CASE StopNew
  BY <1>15, SurvivesStill DEF StopNew, Goto, Resting, Swapping
<1>16. CASE Restore
  BY <1>16, RestoreSurvives
<1>17. CASE Restart
  BY <1>17, SurvivesStill DEF Restart, Throw, Resting, Swapping
<1>18. CASE UserStart
  <2>1. UNCHANGED <<release, previous, proven, pc, now>>
    BY <1>18 DEF UserStart
  <2> QED BY <2>1 DEF Survives, IsNewest, Newest, HasContent
<1>19. CASE UserStop
  <2>1. UNCHANGED <<release, previous, proven, pc, now>>
    BY <1>19 DEF UserStop
  <2> QED BY <2>1 DEF Survives, IsNewest, Newest, HasContent
<1>20. CASE Crash
  BY <1>20 DEF Crash, Undisturbed, May
<1>21. CASE UNCHANGED vars
  BY <1>21 DEF vars, Survives, IsNewest, Newest, HasContent
<1> QED BY <1>1, <1>2, <1>3, <1>4, <1>5, <1>6, <1>7, <1>8, <1>9, <1>10, <1>11, <1>12, <1>13, <1>14,
           <1>15, <1>16, <1>17, <1>18, <1>19, <1>20, <1>21 DEF Next, Step

\* Which is what the two properties say.
LEMMA SurvivesKeeps == IInv /\ Survives => NewestKept /\ PreviousIsNewest
<1> SUFFICES ASSUME IInv, Survives PROVE NewestKept /\ PreviousIsNewest
  OBVIOUS
<1>1. pc \in Resting \cup Swapping \cup {"finish"}
  BY DEF IInv, TypeOK, HandlerOK, Steps, Resting, Swapping
<1>2. ASSUME NEW v \in Versions, Newest(v) PROVE v \in {release, previous}
  <2>1. proven # {}
    BY <1>2 DEF Newest
  <2>2. Newest(release) \/ Newest(previous)
    BY <1>1, <2>1 DEF Survives, IsNewest, IInv, Promoted
  <2> QED BY <1>2, <2>2, NewestIsOne
<1>3. PreviousIsNewest
  BY NewestIsVersion DEF PreviousIsNewest, Survives, IsNewest, Resting
<1> QED BY <1>2, <1>3 DEF NewestKept

\* What goes wrong on a machine does not change.
LEMMA UndisturbedStays == [Next]_vars /\ Undisturbed' => Undisturbed
BY DEF Next, Step, vars, folders, service, ledger, Undisturbed, Begin, Fetch, Build, Decide,
       MoveAside, MoveIn, Resolve, Uninstall, Install, StartNew, Health, Retry, Route, Finish,
       StopNew, Restore, Restart, UserStart, UserStop, Crash

\* The two properties at once.
THEOREM Surviving == Spec => [](Undisturbed => Survives)
<1>1. Init => (Undisturbed => Survives)
  BY DEF Init, Survives, IsNewest, Resting, Swapping
<1>2. IInv /\ (Undisturbed => Survives) /\ [Next]_vars => (Undisturbed => Survives)'
  BY NextSurvives, UndisturbedStays
<1> QED BY <1>1, <1>2, Invariance, PTL DEF Spec

\* Whatever else fails, and whatever the owner does meanwhile: as long as the
\* panel stays up and the clean-up after a success works, the newest version
\* that works is live or moved aside (deploy-pipeline.ts:539-540).
THEOREM NewestNeverLost == Spec => []NewestSurvives
<1>1. IInv /\ (Undisturbed => Survives) => NewestSurvives
  BY SurvivesKeeps DEF NewestSurvives
<1> QED BY <1>1, Surviving, Invariance, PTL

\* And a .previous that is left over holds it (deploy-pipeline.ts:544-547).
THEOREM PreviousNeverStale == Spec => []PreviousIsNewest
<1>1. IInv /\ (Undisturbed => Survives) => PreviousIsNewest
  <2> SUFFICES ASSUME IInv, Undisturbed => Survives, Undisturbed PROVE PreviousIsNewest
    BY DEF PreviousIsNewest
  <2> QED BY SurvivesKeeps
<1> QED BY <1>1, Surviving, Invariance, PTL
-------------------------------------------------------------------------------
(***************************************************************************)
(* What a deploy leaves behind: no stop of its own, and nothing untrue.    *)
(***************************************************************************)

\* The scenario, and what each version is, are decided once.
LEMMA DecidedOnce == [Next]_vars => faults' = faults /\ kind' = kind
BY DEF Next, Step, vars, folders, service, ledger, Begin, Fetch, Build, Decide,
       MoveAside, MoveIn, Resolve, Uninstall, Install, StartNew, Health, Retry, Route, Finish,
       StopNew, Restore, Restart, UserStart, UserStop, Crash

Unbroken == Movable /\ ~May("crash")

\* The stop of a deploy is on record only between its own steps, and while it
\* is, nothing runs; a deploy that stops nothing has none.
OwnStop == stopIntent = "deploy" =>
              /\ ~Held
              /\ pc \in {"aside", "movein", "resolve", "uninstall", "retry", "restore", "restart"}
              /\ (pc \in {"aside", "movein"} => kind[now] \notin {"static", "no entry"})

\* Every step that could end with it clears it, or finds that it need not.
LEMMA NextOwnStop == ASSUME Unbroken, TypeOK, OwnStop, [Next]_vars PROVE OwnStop'
<1> USE DEF Unbroken, Movable, OwnStop, Held, TypeOK, ServiceOK, LedgerOK, HandlerOK
<1>1. CASE Begin
  BY <1>1 DEF Begin, folders, service
<1>2. CASE Fetch
  BY <1>2 DEF Fetch, service, ledger, Goto, GotoAs, Throw
<1>3. CASE Build
  BY <1>3 DEF Build, service, ledger, Goto, Throw
<1>4. CASE Decide
  BY <1>4 DEF Decide, folders, ledger, service, GotoAs, Throw, ServiceGone, UninstallFailed,
     ServiceStop, Marked, IsServing, May
<1>5. CASE MoveAside
  BY <1>5 DEF MoveAside, service, ledger, folders, Goto, Throw, May
<1>6. CASE MoveIn
  BY <1>6 DEF MoveIn, service, ledger, Goto, Throw, May
<1>7. CASE Resolve
  BY <1>7 DEF Resolve, folders, service, ledger, Goto, Throw, May
<1>8. CASE Uninstall
  BY <1>8 DEF Uninstall, folders, ledger, Goto, ServiceGone, UninstallFailed, May
<1>9. CASE Install
  BY <1>9 DEF Install, folders, ledger, Goto, May
<1>10. CASE StartNew
  BY <1>10 DEF StartNew, folders, ledger, Goto, GotoAs, ServiceStart, May
<1>11. CASE Health
  BY <1>11 DEF Health, folders, service, ledger, Goto, GotoAs, May
<1>12. CASE Retry
  BY <1>12 DEF Retry, folders, ledger, Goto, GotoAs, Marked, May
<1>13. CASE Route
  BY <1>13 DEF Route, folders, service, ledger, Goto, Throw, May
<1>14. CASE Finish
  BY <1>14 DEF Finish, service, ledger, GotoAs, May
<1>15. CASE StopNew
  BY <1>15 DEF StopNew, folders, ledger, service, Goto, ServiceStop, Marked, May
<1>16. CASE Restore
  BY <1>16 DEF Restore, service, ledger, Goto, Throw, NotRestored, May
<1>17. CASE Restart
  BY <1>17 DEF Restart, folders, ledger, Throw, ServiceStart, May
<1>18. CASE UserStart
  BY <1>18 DEF UserStart, folders, ledger, ServiceStart, May
<1>19. CASE UserStop
  BY <1>19 DEF UserStop, folders, ledger, May
<1>20. CASE Crash
  BY <1>20 DEF Crash, folders, service, ledger, May
<1>21. CASE UNCHANGED vars
  BY <1>21 DEF vars, folders, service, ledger
<1> QED BY <1>1, <1>2, <1>3, <1>4, <1>5, <1>6, <1>7, <1>8, <1>9, <1>10, <1>11, <1>12, <1>13, <1>14,
           <1>15, <1>16, <1>17, <1>18, <1>19, <1>20, <1>21 DEF Next, Step

\* No deploy leaves its own stop on record (deploy-handler.ts:983-987), however
\* many there are, and whatever else fails on the way.
THEOREM StopNeverLeft == Spec => []NoStopLeftBehind
<1>1. Init => (Unbroken => OwnStop)
  BY DEF Init, OwnStop
<1>2. IInv /\ (Unbroken => OwnStop) /\ [Next]_vars => (Unbroken => OwnStop)'
  <2> SUFFICES ASSUME IInv, Unbroken => OwnStop, [Next]_vars, Unbroken' PROVE OwnStop'
    OBVIOUS
  <2>1. Unbroken
    BY DecidedOnce DEF Unbroken, Movable, May
  <2> QED BY <2>1, NextOwnStop DEF IInv
<1>3. (Unbroken => OwnStop) => NoStopLeftBehind
  BY DEF NoStopLeftBehind, Unbroken, OwnStop
<1> QED BY <1>1, <1>2, <1>3, Invariance, PTL DEF Spec
Alone == Movable /\ ~May("user") /\ NoStatic

\* A handler that takes the live version for the previous one has not moved it;
\* a version that is to be moved back is not held open, for nothing runs.
Said == /\ told = "not running" => pc = "idle" /\ ~HasContent(previous)
        /\ pc \in {"fetch", "build", "decide", "aside", "movein"} => liveIsPrevious
        /\ ~installed => ~Held
        /\ pc \in {"install", "restore"} => ~Held

\* A deploy says that nothing is left only where it restored nothing.
LEMMA NextSaid == ASSUME Alone, IInv, Said, [Next]_vars PROVE Said'
<1> USE DeployAssumption, NotVersions
    DEF Alone, Movable, NoStatic, May, Said, Held, HasContent, IInv, TypeOK, ServiceOK, LedgerOK,
    HandlerOK,
        Programs, Unproven
<1>1. CASE Begin
  BY <1>1 DEF Begin, folders, service
<1>2. CASE Fetch
  BY <1>2 DEF Fetch, service, ledger, Goto, GotoAs, Throw
<1>3. CASE Build
  BY <1>3 DEF Build, service, ledger, Goto, Throw
<1>4. CASE Decide
  BY <1>4 DEF Decide, folders, ledger, service, GotoAs, Throw, ServiceGone, UninstallFailed,
     ServiceStop, IsServing
<1>5. CASE MoveAside
  BY <1>5 DEF MoveAside, service, ledger, folders, Goto, Throw
<1>6. CASE MoveIn
  BY <1>6 DEF MoveIn, service, ledger, Goto, Throw
<1>7. CASE Resolve
  BY <1>7 DEF Resolve, folders, service, ledger, Goto, Throw
<1>8. CASE Uninstall
  BY <1>8 DEF Uninstall, folders, ledger, Goto, ServiceGone, UninstallFailed
<1>9. CASE Install
  BY <1>9 DEF Install, folders, ledger, Goto
<1>10. CASE StartNew
  BY <1>10 DEF StartNew, folders, ledger, Goto, GotoAs, ServiceStart
<1>11. CASE Health
  BY <1>11 DEF Health, folders, service, ledger, Goto, GotoAs
<1>12. CASE Retry
  BY <1>12 DEF Retry, folders, ledger, Goto, GotoAs
<1>13. CASE Route
  BY <1>13 DEF Route, folders, service, ledger, Goto, Throw
<1>14. CASE Finish
  BY <1>14 DEF Finish, service, ledger, GotoAs
<1>15. CASE StopNew
  BY <1>15 DEF StopNew, folders, ledger, service, Goto, ServiceStop
<1>16. CASE Restore
  BY <1>16 DEF Restore, service, ledger, Goto, Throw, NotRestored
<1>17. CASE Restart
  BY <1>17 DEF Restart, folders, ledger, Throw, ServiceStart
<1>18. CASE UserStart
  BY <1>18 DEF UserStart, folders, ledger, ServiceStart
<1>19. CASE UserStop
  BY <1>19 DEF UserStop, folders, ledger
<1>20. CASE Crash
  BY <1>20 DEF Crash, folders, service, ledger
<1>21. CASE UNCHANGED vars
  BY <1>21 DEF vars, folders, service, ledger
<1> QED BY <1>1, <1>2, <1>3, <1>4, <1>5, <1>6, <1>7, <1>8, <1>9, <1>10, <1>11, <1>12, <1>13, <1>14,
           <1>15, <1>16, <1>17, <1>18, <1>19, <1>20, <1>21 DEF Next, Step

\* Nobody is told that there was no previous version to go back to
\* (deploy-handler.ts:944-945) while there is one.
THEOREM ToldTruly == Spec => []ToldNoPrevious
<1>1. Init => (Alone => Said)
  BY DEF Init, Said, Held
<1>2. IInv /\ (Alone => Said) /\ [Next]_vars => (Alone => Said)'
  <2> SUFFICES ASSUME IInv, Alone => Said, [Next]_vars, Alone' PROVE Said'
    OBVIOUS
  <2>1. Alone
    BY DecidedOnce DEF Alone, Movable, May, NoStatic
  <2> QED BY <2>1, NextSaid
<1>3. (Alone => Said) => ToldNoPrevious
  BY DEF ToldNoPrevious, Alone, Said
<1> QED BY <1>1, <1>2, <1>3, Invariance, PTL DEF Spec

-------------------------------------------------------------------------------
(***************************************************************************)
(* A deploy that failed leaves running what ran before.                    *)
(***************************************************************************)
Swap == {"movein", "resolve", "uninstall", "install", "start", "health", "retry",
         "route", "roll back", "restore"}

\* What runs is what is live; nothing runs while folders are moved; and nothing
\* is left moved aside from one deploy to the next.
Tidy == /\ Held => running = release /\ installed
        /\ pc \in {"aside", "movein", "restore", "restart"} => ~Held
        /\ pc \in {"idle", "fetch", "build", "decide", "aside", "restart"} => ~HasContent(previous)

\* Where the version is that ran when the deploy began: running, then live, then
\* moved aside, then live again; and its service can be started.
Returns == /\ pc \in {"fetch", "build", "decide"} => running = before.code
           /\ pc \in {"aside", "restart"} => release = before.code
           /\ pc \in Swap => previous = before.code
           /\ pc \notin {"idle", "install", "finish"} => installed
           /\ pc = "idle" /\ now > 0 /\ row[now] = "failed" => running = before.code

LEMMA NextTidy == ASSUME Ordinary, IInv, Tidy, [Next]_vars PROVE Tidy'
<1> USE DeployAssumption, NotVersions
    DEF Ordinary, NoStatic, May, Tidy, Held, HasContent, ComesUp, IInv, TypeOK, FoldersOK, ServiceOK,
        LedgerOK, HandlerOK, Contents, Programs, Unproven, Promoted
<1>1. CASE Begin
  BY <1>1 DEF Begin, folders, service
<1>2. CASE Fetch
  BY <1>2 DEF Fetch, service, ledger, Goto, GotoAs, Throw
<1>3. CASE Build
  BY <1>3 DEF Build, service, ledger, Goto, Throw
<1>4. CASE Decide
  BY <1>4 DEF Decide, folders, ledger, service, GotoAs, Throw, ServiceGone, UninstallFailed,
     ServiceStop, IsServing
<1>5. CASE MoveAside
  BY <1>5 DEF MoveAside, service, ledger, folders, Goto, Throw
<1>6. CASE MoveIn
  BY <1>6 DEF MoveIn, service, ledger, Goto, Throw
<1>7. CASE Resolve
  BY <1>7 DEF Resolve, folders, service, ledger, Goto, Throw
<1>8. CASE Uninstall
  BY <1>8 DEF Uninstall, folders, ledger, Goto, ServiceGone, UninstallFailed
<1>9. CASE Install
  BY <1>9 DEF Install, folders, ledger, Goto
<1>10. CASE StartNew
  BY <1>10 DEF StartNew, folders, ledger, Goto, GotoAs, ServiceStart
<1>11. CASE Health
  BY <1>11 DEF Health, folders, service, ledger, Goto, GotoAs
<1>12. CASE Retry
  BY <1>12 DEF Retry, folders, ledger, Goto, GotoAs
<1>13. CASE Route
  BY <1>13 DEF Route, folders, service, ledger, Goto, Throw
<1>14. CASE Finish
  BY <1>14 DEF Finish, service, ledger, GotoAs
<1>15. CASE StopNew
  BY <1>15 DEF StopNew, folders, ledger, service, Goto, ServiceStop
<1>16. CASE Restore
  BY <1>16 DEF Restore, service, ledger, Goto, Throw, NotRestored
<1>17. CASE Restart
  BY <1>17 DEF Restart, folders, ledger, Throw, ServiceStart
<1>18. CASE UserStart
  BY <1>18 DEF UserStart, folders, ledger, ServiceStart
<1>19. CASE UserStop
  BY <1>19 DEF UserStop, folders, ledger
<1>20. CASE Crash
  BY <1>20 DEF Crash, folders, service, ledger
<1>21. CASE UNCHANGED vars
  BY <1>21 DEF vars, folders, service, ledger
<1> QED BY <1>1, <1>2, <1>3, <1>4, <1>5, <1>6, <1>7, <1>8, <1>9, <1>10, <1>11, <1>12, <1>13, <1>14,
           <1>15, <1>16, <1>17, <1>18, <1>19, <1>20, <1>21 DEF Next, Step

LEMMA NextReturns ==
    ASSUME Ordinary, IInv, Tidy, WasServing => Returns, [Next]_vars
    PROVE  WasServing' => Returns'
<1> USE DeployAssumption, NotVersions
    DEF Ordinary, NoStatic, May, Tidy, Returns, WasServing, Swap, Held, HasContent, ComesUp, IInv,
    TypeOK,
        FoldersOK, ServiceOK, LedgerOK, HandlerOK, RowOK, Contents, Programs, Unproven
<1>1. CASE Begin
  BY <1>1 DEF Begin, folders, service
<1>2. CASE Fetch
  BY <1>2 DEF Fetch, service, ledger, Goto, GotoAs, Throw
<1>3. CASE Build
  BY <1>3 DEF Build, service, ledger, Goto, Throw
<1>4. CASE Decide
  BY <1>4 DEF Decide, folders, ledger, service, GotoAs, Throw, ServiceGone, UninstallFailed,
     ServiceStop, IsServing
<1>5. CASE MoveAside
  BY <1>5 DEF MoveAside, service, ledger, folders, Goto, Throw
<1>6. CASE MoveIn
  BY <1>6 DEF MoveIn, service, ledger, Goto, Throw
<1>7. CASE Resolve
  BY <1>7 DEF Resolve, folders, service, ledger, Goto, Throw
<1>8. CASE Uninstall
  BY <1>8 DEF Uninstall, folders, ledger, Goto, ServiceGone, UninstallFailed
<1>9. CASE Install
  BY <1>9 DEF Install, folders, ledger, Goto
<1>10. CASE StartNew
  BY <1>10 DEF StartNew, folders, ledger, Goto, GotoAs, ServiceStart
<1>11. CASE Health
  BY <1>11 DEF Health, folders, service, ledger, Goto, GotoAs
<1>12. CASE Retry
  BY <1>12 DEF Retry, folders, ledger, Goto, GotoAs
<1>13. CASE Route
  BY <1>13 DEF Route, folders, service, ledger, Goto, Throw
<1>14. CASE Finish
  BY <1>14 DEF Finish, service, ledger, GotoAs
<1>15. CASE StopNew
  BY <1>15 DEF StopNew, folders, ledger, service, Goto, ServiceStop
<1>16. CASE Restore
  BY <1>16 DEF Restore, service, ledger, Goto, Throw, NotRestored
<1>17. CASE Restart
  BY <1>17 DEF Restart, folders, ledger, Throw, ServiceStart
<1>18. CASE UserStart
  BY <1>18 DEF UserStart, folders, ledger, ServiceStart
<1>19. CASE UserStop
  BY <1>19 DEF UserStop, folders, ledger
<1>20. CASE Crash
  BY <1>20 DEF Crash, folders, service, ledger
<1>21. CASE UNCHANGED vars
  BY <1>21 DEF vars, folders, service, ledger
<1> QED BY <1>1, <1>2, <1>3, <1>4, <1>5, <1>6, <1>7, <1>8, <1>9, <1>10, <1>11, <1>12, <1>13, <1>14,
           <1>15, <1>16, <1>17, <1>18, <1>19, <1>20, <1>21 DEF Next, Step

\* After a deploy that failed, a site that was up runs what it ran before
\* (deploy-handler.ts:956-958).
THEOREM FailedDeployHarmless == Spec => []FailedRunsBefore
<1>1. Init => (Ordinary => Tidy /\ (WasServing => Returns))
  BY DEF Init, Tidy, Held, HasContent, WasServing
<1>2. IInv /\ (Ordinary => Tidy /\ (WasServing => Returns)) /\ [Next]_vars
        => (Ordinary => Tidy /\ (WasServing => Returns))'
  <2> SUFFICES ASSUME IInv, Ordinary => Tidy /\ (WasServing => Returns), [Next]_vars, Ordinary'
               PROVE  Tidy' /\ (WasServing => Returns)'
    OBVIOUS
  <2>1. Ordinary
    BY DecidedOnce DEF Ordinary, NoStatic
  <2> QED BY <2>1, NextTidy, NextReturns
<1>3. (Ordinary => Tidy /\ (WasServing => Returns)) => FailedRunsBefore
  BY DEF FailedRunsBefore, Returns
<1> QED BY <1>1, <1>2, <1>3, Invariance, PTL DEF Spec

-------------------------------------------------------------------------------
(***************************************************************************)
(* Seen from outside, a deploy is atomic: it implements SiteVersion.       *)
(***************************************************************************)

\* No folder holds a version that is still to come.
Begun == \A c \in {release, staging, previous, running} : c \in Versions => c \in 1..now

\* Until the swap the new one is in staging only, and after a rollback it is not live.
Apart == /\ pc \in {"fetch", "build", "decide", "aside", "movein"} => now \notin {release, previous}
         /\ pc \in Swap => previous # now
         /\ pc = "restart" => release # now

\* Versions are moved from folder to folder, and only the deploy under way adds one.
LEMMA BegunStill ==
    ASSUME Begun, now \in 0..MaxDeploys, now' \in {now, now + 1},
           {release', staging', previous', running'} \subseteq
             {release, staging, previous, running, Absent, Empty, Rubble, None}
               \cup (IF now' \in Versions THEN {now'} ELSE {})
    PROVE  Begun'
<1>1. SUFFICES ASSUME NEW c \in {release', staging', previous', running'},
                      c \in Versions PROVE c \in 1..now'
  BY DEF Begun
<1>2. MaxDeploys \in Nat /\ c \in Nat /\ c >= 1
  BY <1>1, DeployAssumption DEF Versions
<1>3. CASE c = now'
  BY <1>2, <1>3
<1>4. CASE c \in {release, staging, previous, running}
  <2>1. c \in 1..now
    BY <1>1, <1>4 DEF Begun
  <2> QED BY <1>2, <2>1
<1> QED BY <1>1, <1>3, <1>4, NotVersions

\* Whatever a step moves, it was there, or it is the new version.
LEMMA NextBegun == ASSUME Ordinary, IInv, Begun, [Next]_vars PROVE Begun'
<1>0. /\ now \in 0..MaxDeploys /\ now' \in {now, now + 1}
      /\ {release', staging', previous', running'} \subseteq
             {release, staging, previous, running, Absent, Empty, Rubble, None}
               \cup (IF now' \in Versions THEN {now'} ELSE {})
  <2> USE DEF Ordinary, May, IInv, TypeOK, LedgerOK, Unproven
  <2>1. CASE Begin
    BY <2>1 DEF Begin, folders, service
  <2>2. CASE Fetch
    BY <2>2 DEF Fetch, service, ledger, Goto, GotoAs, Throw
  <2>3. CASE Build
    BY <2>3 DEF Build, service, ledger, Goto, Throw
  <2>4. CASE Decide
    BY <2>4 DEF Decide, folders, ledger, service, GotoAs, Throw, ServiceGone, UninstallFailed,
       ServiceStop
  <2>5. CASE MoveAside
    BY <2>5 DEF MoveAside, service, ledger, folders, Goto, Throw
  <2>6. CASE MoveIn
    BY <2>6 DEF MoveIn, service, ledger, Goto, Throw
  <2>7. CASE Resolve
    BY <2>7 DEF Resolve, folders, service, ledger, Goto, Throw
  <2>8. CASE Uninstall
    BY <2>8 DEF Uninstall, folders, ledger, Goto, ServiceGone, UninstallFailed
  <2>9. CASE Install
    BY <2>9 DEF Install, folders, ledger, Goto
  <2>10. CASE StartNew
    BY <2>10 DEF StartNew, folders, ledger, Goto, GotoAs, ServiceStart
  <2>11. CASE Health
    BY <2>11 DEF Health, folders, service, ledger, Goto, GotoAs
  <2>12. CASE Retry
    BY <2>12 DEF Retry, folders, ledger, Goto, GotoAs
  <2>13. CASE Route
    BY <2>13 DEF Route, folders, service, ledger, Goto, Throw
  <2>14. CASE Finish
    BY <2>14 DEF Finish, service, ledger, GotoAs
  <2>15. CASE StopNew
    BY <2>15 DEF StopNew, folders, ledger, service, Goto, ServiceStop
  <2>16. CASE Restore
    BY <2>16 DEF Restore, service, ledger, Goto, Throw, NotRestored
  <2>17. CASE Restart
    BY <2>17 DEF Restart, folders, ledger, Throw, ServiceStart
  <2>18. CASE UserStart \/ UserStop \/ Crash
    BY <2>18 DEF UserStart, UserStop, Crash
  <2>19. CASE UNCHANGED vars
    BY <2>19 DEF vars, folders, service, ledger
  <2> QED
    BY <2>1, <2>2, <2>3, <2>4, <2>5, <2>6, <2>7, <2>8, <2>9, <2>10, <2>11, <2>12, <2>13, <2>14, <2>15,
       <2>16, <2>17, <2>18, <2>19 DEF Next, Step
<1> QED BY <1>0, BegunStill

\* The new version and the one before it are never in the same place.
LEMMA NextApart == ASSUME Ordinary, IInv, Begun, Apart, [Next]_vars PROVE Apart'
<1> USE DeployAssumption, NotVersions DEF Ordinary, May, Apart, Swap, IInv, TypeOK, LedgerOK, Unproven
<1>1. CASE Begin
  BY <1>1 DEF Begin, Begun, Versions, folders, service
<1>2. CASE Fetch
  BY <1>2 DEF Fetch, service, ledger, Goto, GotoAs, Throw
<1>3. CASE Build
  BY <1>3 DEF Build, service, ledger, Goto, Throw
<1>4. CASE Decide
  BY <1>4 DEF Decide, folders, ledger, service, GotoAs, Throw, ServiceGone, UninstallFailed, ServiceStop
<1>5. CASE MoveAside
  BY <1>5 DEF MoveAside, service, ledger, folders, Goto, Throw
<1>6. CASE MoveIn
  BY <1>6 DEF MoveIn, service, ledger, Goto, Throw
<1>7. CASE Resolve
  BY <1>7 DEF Resolve, folders, service, ledger, Goto, Throw
<1>8. CASE Uninstall
  BY <1>8 DEF Uninstall, folders, ledger, Goto, ServiceGone, UninstallFailed
<1>9. CASE Install
  BY <1>9 DEF Install, folders, ledger, Goto
<1>10. CASE StartNew
  BY <1>10 DEF StartNew, folders, ledger, Goto, GotoAs, ServiceStart
<1>11. CASE Health
  BY <1>11 DEF Health, folders, service, ledger, Goto, GotoAs
<1>12. CASE Retry
  BY <1>12 DEF Retry, folders, ledger, Goto, GotoAs
<1>13. CASE Route
  BY <1>13 DEF Route, folders, service, ledger, Goto, Throw
<1>14. CASE Finish
  BY <1>14 DEF Finish, service, ledger, GotoAs
<1>15. CASE StopNew
  BY <1>15 DEF StopNew, folders, ledger, service, Goto, ServiceStop
<1>16. CASE Restore
  BY <1>16 DEF Restore, service, ledger, Goto, Throw, NotRestored
<1>17. CASE Restart
  BY <1>17 DEF Restart, folders, ledger, Throw, ServiceStart
<1>18. CASE UserStart \/ UserStop \/ Crash
  BY <1>18 DEF UserStart, UserStop, Crash
<1>19. CASE UNCHANGED vars
  BY <1>19 DEF vars, folders, service, ledger
<1> QED
  BY <1>1, <1>2, <1>3, <1>4, <1>5, <1>6, <1>7, <1>8, <1>9, <1>10, <1>11, <1>12, <1>13, <1>14, <1>15,
     <1>16, <1>17, <1>18, <1>19 DEF Next, Step
\* What ends as a success runs, and a build with nothing to start is only
\* published where nothing serves.
Settles == /\ pc \in {"route", "finish"} /\ kind[now] = "good" => running = now
           /\ pc \in {"aside", "movein", "finish"} /\ kind[now] = "no entry" => ~WasServing /\ ~Held

\* What a deploy that was no success leaves running.
Left == pc = "idle" /\ now > 0 /\ row[now] # "succeeded"
          => IF WasServing THEN running = before.code ELSE running # now

\* The last steps of a deploy find its version running, or nothing that could be lost.
LEMMA NextSettles ==
    ASSUME Ordinary, IInv, Tidy, WasServing => Returns, Settles, [Next]_vars
    PROVE  Settles'
<1> USE DeployAssumption, NotVersions DEF Ordinary, NoStatic, May, Settles, Held, WasServing, ComesUp,
    IInv, TypeOK, ServiceOK, LedgerOK,
        Programs, Unproven
<1>1. CASE Begin
  BY <1>1 DEF Begin, folders, service
<1>2. CASE Fetch
  BY <1>2 DEF Fetch, service, ledger, Goto, GotoAs, Throw
<1>3. CASE Build
  BY <1>3 DEF Build, service, ledger, Goto, Throw
<1>4. CASE Decide
  BY <1>4 DEF Decide, IsServing, HasContent, Tidy, Returns, Versions, folders, ledger, service,
     GotoAs, Throw, ServiceGone, UninstallFailed, ServiceStop
<1>5. CASE MoveAside
  BY <1>5 DEF MoveAside, service, ledger, folders, Goto, Throw
<1>6. CASE MoveIn
  BY <1>6 DEF MoveIn, service, ledger, Goto, Throw
<1>7. CASE Resolve
  BY <1>7 DEF Resolve, folders, service, ledger, Goto, Throw
<1>8. CASE Uninstall
  BY <1>8 DEF Uninstall, folders, ledger, Goto, ServiceGone, UninstallFailed
<1>9. CASE Install
  BY <1>9 DEF Install, folders, ledger, Goto
<1>10. CASE StartNew
  BY <1>10 DEF StartNew, folders, ledger, Goto, GotoAs, ServiceStart
<1>11. CASE Health
  BY <1>11 DEF Health, Healthy, folders, service, ledger, Goto, GotoAs
<1>12. CASE Retry
  BY <1>12 DEF Retry, Promoted, folders, ledger, Goto, GotoAs
<1>13. CASE Route
  BY <1>13 DEF Route, Fit, folders, service, ledger, Goto, Throw
<1>14. CASE Finish
  BY <1>14 DEF Finish, service, ledger, GotoAs
<1>15. CASE StopNew
  BY <1>15 DEF StopNew, folders, ledger, service, Goto, ServiceStop
<1>16. CASE Restore
  BY <1>16 DEF Restore, service, ledger, Goto, Throw, NotRestored
<1>17. CASE Restart
  BY <1>17 DEF Restart, folders, ledger, Throw, ServiceStart
<1>18. CASE UserStart \/ UserStop \/ Crash
  BY <1>18 DEF UserStart, UserStop, Crash
<1>19. CASE UNCHANGED vars
  BY <1>19 DEF vars, folders, service, ledger
<1> QED
  BY <1>1, <1>2, <1>3, <1>4, <1>5, <1>6, <1>7, <1>8, <1>9, <1>10, <1>11, <1>12, <1>13, <1>14, <1>15,
     <1>16, <1>17, <1>18, <1>19 DEF Next, Step

\* However a deploy fails, what runs then is not its build.
LEMMA NextLeft ==
    ASSUME Ordinary, IInv, Tidy, WasServing' => Returns', Settles, Apart, Left, [Next]_vars
    PROVE  Left'
<1> USE DeployAssumption, NotVersions DEF Ordinary, NoStatic, May, Left, Held, WasServing, ComesUp,
    IInv, TypeOK, HandlerOK, RowOK,
       LedgerOK, Unproven, Tidy, Apart
<1>1. CASE Begin
  BY <1>1 DEF Begin, folders, service
<1>2. CASE Fetch
  BY <1>2 DEF Fetch, Returns, service, ledger, Goto, GotoAs, Throw
<1>3. CASE Build
  BY <1>3 DEF Build, Returns, service, ledger, Goto, Throw
<1>4. CASE Decide
  BY <1>4 DEF Decide, Returns, folders, ledger, service, GotoAs, Throw, ServiceGone, UninstallFailed,
     ServiceStop
<1>5. CASE MoveAside
  BY <1>5 DEF MoveAside, service, ledger, folders, Goto, Throw
<1>6. CASE MoveIn
  BY <1>6 DEF MoveIn, service, ledger, Goto, Throw
<1>7. CASE Resolve
  BY <1>7 DEF Resolve, folders, service, ledger, Goto, Throw
<1>8. CASE Uninstall
  BY <1>8 DEF Uninstall, folders, ledger, Goto, ServiceGone, UninstallFailed
<1>9. CASE Install
  BY <1>9 DEF Install, folders, ledger, Goto
<1>10. CASE StartNew
  BY <1>10 DEF StartNew, folders, ledger, Goto, GotoAs, ServiceStart
<1>11. CASE Health
  BY <1>11 DEF Health, folders, service, ledger, Goto, GotoAs
<1>12. CASE Retry
  BY <1>12 DEF Retry, folders, ledger, Goto, GotoAs
<1>13. CASE Route
  BY <1>13 DEF Route, folders, service, ledger, Goto, Throw
<1>14. CASE Finish
  BY <1>14 DEF Finish, Settles, Fit, AllKinds, service, ledger, GotoAs
<1>15. CASE StopNew
  BY <1>15 DEF StopNew, folders, ledger, service, Goto, ServiceStop
<1>16. CASE Restore
  BY <1>16 DEF Restore, Returns, service, ledger, Goto, Throw, NotRestored
<1>17. CASE Restart
  BY <1>17 DEF Restart, Returns, folders, ledger, Throw, ServiceStart
<1>18. CASE UserStart \/ UserStop \/ Crash
  BY <1>18 DEF UserStart, UserStop, Crash
<1>19. CASE UNCHANGED vars
  BY <1>19 DEF vars, folders, service, ledger
<1> QED
  BY <1>1, <1>2, <1>3, <1>4, <1>5, <1>6, <1>7, <1>8, <1>9, <1>10, <1>11, <1>12, <1>13, <1>14, <1>15,
     <1>16, <1>17, <1>18, <1>19 DEF Next, Step
-------------------------------------------------------------------------------
\* All that the refinement needs to know, where only ordinary things go wrong.
Whole == Tidy /\ (WasServing => Returns) /\ Begun /\ Apart /\ Settles /\ Left

\* While a deploy is at work the site is down, or serves one of the two.
Wavers == pc # "idle" => Answering \in {None, Answered, now}
                                         \cup (IF Answered = None THEN Versions ELSE {})

\* Whatever runs is live, and live is one of the two or nothing.
LEMMA WholeWavers == IInv /\ Tidy /\ (WasServing => Returns) => Wavers
<1> SUFFICES ASSUME IInv, Tidy, WasServing => Returns, pc # "idle" PROVE Wavers
  BY DEF Wavers
<1> USE NotVersions DEF IInv, TypeOK, HandlerOK, ServiceOK, Programs
<1>1. Answering \in Versions \cup {None} /\ (Answering # None => Answering = running)
  BY DEF Answering, ComesUp
<1>2. CASE ~WasServing
  BY <1>1, <1>2 DEF Answered, Wavers
<1>3. CASE WasServing
  <2>1. Answered = before.code
    BY <1>3 DEF Answered
  <2>2. running \in {None, before.code, now}
    BY <1>3 DEF Tidy, Returns, Promoted, Held, Steps
  <2> QED BY <1>1, <2>1, <2>2 DEF Wavers
<1> QED BY <1>2, <1>3

\* The versions and their deploy are the same until the next one begins.
LEMMA OneDeploy ==
    ASSUME Ordinary, IInv, [Next]_vars
    PROVE  \/ pc = "idle" /\ Begin
           \/ UNCHANGED vars
           \/ /\ pc # "idle" /\ kind' = kind /\ now' = now /\ before' = before
              /\ \/ pc' # "idle"
                 \/ row'[now] # "succeeded"
                 \/ kind[now] = "good" /\ pc = "finish" /\ UNCHANGED service
<1> USE DEF Ordinary, NoStatic, May, IInv, TypeOK, RowOK, LedgerOK, Unproven
<1>1. CASE Begin
  BY <1>1 DEF Begin, folders, service
<1>2. CASE Fetch
  BY <1>2 DEF Fetch, service, ledger, Goto, GotoAs, Throw
<1>3. CASE Build
  BY <1>3 DEF Build, service, ledger, Goto, Throw
<1>4. CASE Decide
  BY <1>4 DEF Decide, folders, ledger, service, GotoAs, Throw, ServiceGone, UninstallFailed, ServiceStop
<1>5. CASE MoveAside
  BY <1>5 DEF MoveAside, service, ledger, folders, Goto, Throw
<1>6. CASE MoveIn
  BY <1>6 DEF MoveIn, service, ledger, Goto, Throw
<1>7. CASE Resolve
  BY <1>7 DEF Resolve, folders, service, ledger, Goto, Throw
<1>8. CASE Uninstall
  BY <1>8 DEF Uninstall, folders, ledger, Goto, ServiceGone, UninstallFailed
<1>9. CASE Install
  BY <1>9 DEF Install, folders, ledger, Goto
<1>10. CASE StartNew
  BY <1>10 DEF StartNew, folders, ledger, Goto, GotoAs, ServiceStart
<1>11. CASE Health
  BY <1>11 DEF Health, folders, service, ledger, Goto, GotoAs
<1>12. CASE Retry
  BY <1>12 DEF Retry, folders, ledger, Goto, GotoAs
<1>13. CASE Route
  BY <1>13 DEF Route, folders, service, ledger, Goto, Throw
<1>14. CASE Finish
  BY <1>14, DeployAssumption DEF Finish, Fit, AllKinds, service, ledger, GotoAs
<1>15. CASE StopNew
  BY <1>15 DEF StopNew, folders, ledger, service, Goto, ServiceStop
<1>16. CASE Restore
  BY <1>16 DEF Restore, service, ledger, Goto, Throw, NotRestored
<1>17. CASE Restart
  BY <1>17 DEF Restart, folders, ledger, Throw, ServiceStart
<1>18. CASE UserStart \/ UserStop \/ Crash
  BY <1>18 DEF UserStart, UserStop, Crash
<1>19. CASE UNCHANGED vars
  BY <1>19 DEF vars, folders, service, ledger
<1> QED
  BY <1>1, <1>2, <1>3, <1>4, <1>5, <1>6, <1>7, <1>8, <1>9, <1>10, <1>11, <1>12, <1>13, <1>14, <1>15,
     <1>16, <1>17, <1>18, <1>19 DEF Next, Step

\* No deploy yet.
LEMMA WholeInit == Init => Whole
  BY NotVersions DEF Init, Whole, Tidy, Held, HasContent, WasServing, Begun, Apart, Swap, Settles, Left

\* Each part is kept, with the help of the others.
LEMMA WholeStep == ASSUME Ordinary, IInv, Whole, [Next]_vars PROVE Whole'
<1>1. Tidy'
  BY NextTidy DEF Whole
<1>2. WasServing' => Returns'
  BY NextReturns DEF Whole
<1>3. Begun' /\ Apart' /\ Settles'
  BY NextBegun, NextApart, NextSettles DEF Whole
<1>4. Left'
  BY <1>2, NextLeft DEF Whole
<1> QED BY <1>1, <1>2, <1>3, <1>4 DEF Whole

\* A new site serves nothing.
LEMMA SiteInit == Init => Site!Init
  BY NotVersions DEF Init, Site!Init, Answering, Answered, Outcome, ComesUp, WasServing

\* Each step of the handler is one of the abstract ones, or does not show.
LEMMA SiteStep ==
    ASSUME Ordinary, IInv, Whole, Whole', Wavers', [Next]_vars
    PROVE  Site!Next \/ UNCHANGED Site!vars
<1> USE NotVersions
<1>1. CASE UNCHANGED vars
  <2>1. UNCHANGED <<Answering, now, Answered, Outcome>>
    BY <1>1 DEF vars, folders, service, ledger, Answering, Answered, Outcome, ComesUp, WasServing
  <2> QED BY <2>1 DEF Site!vars
<1>2. CASE pc = "idle" /\ Begin
  <2>1. kind' = kind /\ running' = running /\ pc' = "fetch" /\ now' = now + 1 /\ now < MaxDeploys
        /\ before' = [code |-> release, up |-> Held]
    BY <1>2 DEF Begin, ledger, service
  <2>2. Answering' = Answering
    BY <2>1 DEF Answering, ComesUp
  <2>3. Answered' = Answering
    BY <2>1 DEF Answered, Answering, WasServing, ComesUp, Whole, Tidy, Held
  <2>4. Outcome # "pending" /\ Outcome' = "pending"
    BY <1>2, <2>1 DEF Outcome
  <2>5. now' \in Versions /\ now' > now
    BY <2>1, DeployAssumption DEF Versions, IInv, TypeOK, LedgerOK
  <2> QED BY <2>2, <2>3, <2>4, <2>5 DEF Site!Next, Site!Begin
<1>3. CASE /\ pc # "idle" /\ kind' = kind /\ now' = now /\ before' = before
           /\ \/ pc' # "idle"
              \/ row'[now] # "succeeded"
              \/ kind[now] = "good" /\ pc = "finish" /\ UNCHANGED service
  <2>1. Answered' = Answered /\ Outcome = "pending" /\ now \in Versions /\ now > 0
    BY <1>3 DEF Answered, WasServing, ComesUp, Outcome, IInv, Unproven, Versions
  <2>2. CASE pc' # "idle"
    <3>1. Outcome' = "pending"
      BY <2>2 DEF Outcome
    <3>2. Answering' \in {None, Answered, now} \cup (IF Answered = None THEN Versions ELSE {})
      BY <1>3, <2>1, <2>2 DEF Wavers
    <3> QED BY <1>3, <2>1, <3>1, <3>2 DEF Site!Next, Site!Waver
  <2>3. CASE pc' = "idle" /\ row'[now] # "succeeded"
    <3>1. Outcome' = "kept"
      BY <1>3, <2>1, <2>3 DEF Outcome
    <3>2. IF WasServing THEN running' = before.code ELSE running' # now
      BY <1>3, <2>1, <2>3 DEF Whole, Left, WasServing, ComesUp
    <3>3. Answering' \in Versions \cup {None} /\ (Answering' # None => Answering' = running')
      BY DEF Answering, ComesUp
    <3>4. CASE WasServing
      <4>1. Answering' = before.code /\ Answered = before.code /\ Answered # None
        BY <1>3, <3>2, <3>4 DEF Answering, Answered, WasServing, ComesUp
      <4> QED BY <1>3, <2>1, <3>1, <4>1 DEF Site!Next, Site!Keep
    <3>5. CASE ~WasServing
      <4>1. Answered = None /\ Answering' \in (Versions \ {now}) \cup {None}
        BY <2>1, <3>2, <3>3, <3>5 DEF Answered
      <4> QED BY <1>3, <2>1, <3>1, <4>1 DEF Site!Next, Site!Keep
    <3> QED BY <3>4, <3>5
  <2>4. CASE pc' = "idle" /\ row'[now] = "succeeded"
    <3>1. Outcome' = "replaced"
      BY <1>3, <2>1, <2>4 DEF Outcome
    <3>2. running = now /\ running' = now /\ kind[now] = "good"
      BY <1>3, <2>4 DEF Whole, Settles, service
    <3>3. Answering = now /\ Answering' = now
      BY <1>3, <2>1, <3>2 DEF Answering, ComesUp
    <3> QED BY <1>3, <2>1, <3>1, <3>3 DEF Site!Next, Site!Replace
  <2> QED BY <2>2, <2>3, <2>4
<1> QED BY <1>1, <1>2, <1>3, OneDeploy

\* Whatever became of it, the same holds of every deploy.
THEOREM WholeAlways == Spec => [](Ordinary => Whole)
<1>1. Init => (Ordinary => Whole)
  BY WholeInit
<1>2. IInv /\ (Ordinary => Whole) /\ [Next]_vars => (Ordinary => Whole)'
  <2> SUFFICES ASSUME IInv, Ordinary => Whole, [Next]_vars, Ordinary' PROVE Whole'
    OBVIOUS
  <2>1. Ordinary
    BY DecidedOnce DEF Ordinary, NoStatic
  <2> QED BY <2>1, WholeStep
<1> QED BY <1>1, <1>2, Invariance, PTL DEF Spec

\* Every step of a deploy is a step of SiteVersion, or does not show
\* (deploy-handler.ts:956-958).
THEOREM DeployIsAtomic == Spec => ReplacedOrKept
<1>1. Init => (Ordinary => Site!Init)
  BY SiteInit
<1>2. IInv /\ (Ordinary => Whole) => (Ordinary => Wavers)
  BY WholeWavers DEF Whole
<1>3. /\ IInv /\ (Ordinary => Whole) /\ (Ordinary => Whole)' /\ (Ordinary => Wavers)' /\ [Next]_vars
      => [Ordinary => Site!Next \/ UNCHANGED Site!vars]_vars
  <2> SUFFICES ASSUME IInv, Ordinary => Whole, (Ordinary => Whole)', (Ordinary => Wavers)',
                      [Next]_vars, Ordinary
               PROVE Site!Next \/ UNCHANGED Site!vars
    OBVIOUS
  <2>1. Ordinary'
    BY DecidedOnce DEF Ordinary, NoStatic
  <2> QED BY <2>1, SiteStep
<1> QED BY <1>1, <1>2, <1>3, Invariance, WholeAlways, PTL DEF Spec, ReplacedOrKept

\* On a machine where only ordinary things go wrong, Deploy implements SiteVersion.
THEOREM DeployIsSiteVersion == Spec /\ []Ordinary => Site!Spec
<1>1. Ordinary /\ [Ordinary => Site!Next \/ UNCHANGED Site!vars]_vars => [Site!Next]_(Site!vars)
  <2> SUFFICES ASSUME Ordinary, UNCHANGED vars PROVE UNCHANGED Site!vars
    OBVIOUS
  <2> QED BY DEF Site!vars, vars, folders, service, ledger, Answering, Answered, Outcome, ComesUp,
             WasServing
<1> QED BY <1>1, DeployIsAtomic, PTL DEF ReplacedOrKept, Site!Spec
===============================================================================
