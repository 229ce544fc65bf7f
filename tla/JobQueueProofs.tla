---------------------------- MODULE JobQueueProofs ----------------------------
(***************************************************************************)
(* Proofs about JobQueue, for any set of jobs and any number of attempts,  *)
(* crashes and restarts: the type invariant, one job at a time, no ghost   *)
(* rows, cancellations that stick, and the refinement of SerialExecutor.   *)
(***************************************************************************)
EXTENDS JobQueue, TLAPS

-------------------------------------------------------------------------------
(***************************************************************************)
(* The inductive invariant.  To the properties it adds what they rest on:  *)
(* a waiting row has an attempt left; a request that was cancelled is not  *)
(* waiting; the same is true of every table that may come back; what a     *)
(* handler has in hand is there while it is on the stack; the script that  *)
(* a restore on the stack has spawned has not asked the panel to stop      *)
(* while the panel is up; and the table is replaced with nobody up.        *)
(***************************************************************************)
AttemptLeft   == \A j \in Jobs :
                   status[j] \in {"absent", "pending"} => attempts[j] < MaxAttempts[j]
CancelledRows == \A j \in Jobs :
                   cancelRequested[j] => status[j] \notin {"absent", "pending"}
HandOwned     == owner = NoJob => hand = {}
OwnerScript   == \A j \in Restores :
                   proc = "up" /\ owner = j /\ hand # {} => script[j] \in {"staged", "lost"}
PanelAway     == \A j \in Jobs : script[j] = "applying" => proc = "down"

\* The same of a table that is not the current one.
Sound(t) == /\ t \in Tables
            /\ \A j, k \in Jobs : t.status[j] = "running" /\ t.status[k] = "running" => j = k
            /\ \A j \in Jobs :
                 /\ t.attempts[j] <= MaxAttempts[j]
                 /\ t.status[j] \in {"absent", "pending"} => t.attempts[j] < MaxAttempts[j]
                 /\ t.cancelRequested[j] => t.status[j] \notin {"absent", "pending"}
OthersSound == \A t \in archives \cup hand : Sound(t)
FreshKept   == Blank \in archives

TableInv == OneRunning /\ AttemptLeft /\ CancelledRows
\* What is true of the rows alone.
RowsOK == /\ status \in [Jobs -> Statuses] /\ attempts \in [Jobs -> Nat]
          /\ cancelRequested \in [Jobs -> BOOLEAN] /\ order \in Seq(Jobs)
          /\ \A j \in Jobs : attempts[j] <= MaxAttempts[j]
          /\ TableInv

StackInv == NoGhost /\ OwnerRuns /\ HandOwned /\ OwnerScript /\ PanelAway
DiskInv  == OthersSound /\ FreshKept

IInv == TypeOK /\ TableInv /\ StackInv /\ DiskInv

USE DEF Statuses, Missing, Finished, Stages, Alive, Markers

\* What a throw leaves behind is never a running row, and sends a job back to
\* the queue only with an attempt left and no cancellation asked for.
LEMMA AfterThrowFacts ==
    ASSUME TypeOK, NEW j \in Jobs
    PROVE  /\ AfterThrow(j) \in {"cancelled", "pending", "failed"}
           /\ AfterThrow(j) = "pending" => ~cancelRequested[j] /\ attempts[j] < MaxAttempts[j]
BY DEF AfterThrow, TypeOK

\* Start-up leaves no running row, and does not touch the others.
LEMMA ReconciledFacts ==
    ASSUME TypeOK, NEW j \in Jobs
    PROVE  /\ Reconciled(j) \in Statuses \ {"running"}
           /\ ~Running(j) => Reconciled(j) = status[j]
           /\ Running(j) => Reconciled(j) \in Finished
BY DEF Reconciled, TypeOK, Running

\* A new database is sound: every row has all its attempts.
LEMMA BlankSound == Sound(Blank)
BY JobQueueAssumption DEF Sound, Blank, Tables

\* And so is the current one, which is what a backup copies.
LEMMA RowsSound ==
    ASSUME TypeOK, TableInv
    PROVE  Sound(Rows)
BY DEF TypeOK, TableInv, OneRunning, AttemptLeft, CancelledRows, Sound, Rows, Tables, Running

\* A sound table that is put back leaves a sound one, whatever there was before.
LEMMA PutBackSound ==
    ASSUME TypeOK, NEW t, Sound(t), PutBack(t)
    PROVE  RowsOK'
<1> USE DEF Sound, PutBack, Tables
<1>1. /\ status' \in [Jobs -> Statuses] /\ attempts' \in [Jobs -> Nat]
      /\ cancelRequested' \in [Jobs -> BOOLEAN] /\ order' \in Seq(Jobs)
  BY DEF TypeOK
<1>2. \A j \in Jobs : status'[j] = t.status[j] \/ status'[j] = "gone"
  OBVIOUS
<1> QED BY <1>1, <1>2 DEF RowsOK, TableInv, OneRunning, AttemptLeft, CancelledRows, Running

\* Whatever a script that stops halfway leaves, it is sound.
LEMMA HalfwaySound ==
    ASSUME IInv, NEW j \in Jobs, Halfway(j)
    PROVE  RowsOK'
<1> USE DEF IInv
<1>1. CASE UNCHANGED table
  BY <1>1 DEF RowsOK, table, TypeOK, TableInv, OneRunning, AttemptLeft, CancelledRows, Running
<1>2. CASE PutBack(Blank)
  BY <1>2, BlankSound, PutBackSound
<1>3. CASE PutBack(staged[j])
  <2>1. Sound(staged[j])
    BY DEF TypeOK, DiskInv, OthersSound
  <2> QED BY <1>3, <2>1, PutBackSound
<1> QED BY <1>1, <1>2, <1>3 DEF Halfway

\* The empty table, with no script about.
LEMMA InitIInv == Init => IInv
<1> SUFFICES ASSUME Init PROVE IInv
  OBVIOUS
<1>1. TypeOK
  BY JobQueueAssumption, BlankSound DEF Init, TypeOK, Sound, Blank
<1>2. TableInv /\ StackInv
  BY JobQueueAssumption DEF Init, Blank, TableInv, StackInv, OneRunning, AttemptLeft, CancelledRows,
     NoGhost, OwnerRuns, HandOwned, OwnerScript, PanelAway, Running
<1>3. DiskInv
  BY BlankSound DEF Init, DiskInv, OthersSound, FreshKept
<1> QED BY <1>1, <1>2, <1>3 DEF IInv

-------------------------------------------------------------------------------
(***************************************************************************)
(* One lemma per action.                                                   *)
(***************************************************************************)
\* A new row is pending with all its attempts left.
LEMMA EnqueueIInv ==
    ASSUME IInv, NEW j \in Jobs, Enqueue(j)
    PROVE  IInv'
<1> USE JobQueueAssumption DEF IInv, Enqueue
<1>1. TypeOK'
  BY DEF TypeOK, disk
<1>2. TableInv'
  BY DEF TypeOK, TableInv, OneRunning, AttemptLeft, CancelledRows, Running, disk
<1>3. StackInv'
  BY DEF TypeOK, StackInv, NoGhost, OwnerRuns, HandOwned, OwnerScript, PanelAway, Running, disk
<1>4. DiskInv'
  BY DEF DiskInv, OthersSound, FreshKept, disk
<1> QED BY <1>1, <1>2, <1>3, <1>4

\* A pending row is cancelled at once, a running one is only marked.
LEMMA RequestCancelIInv ==
    ASSUME IInv, NEW j \in Jobs, RequestCancel(j)
    PROVE  IInv'
<1> USE JobQueueAssumption DEF IInv, RequestCancel
<1>1. TypeOK'
  BY DEF TypeOK, disk
<1>2. TableInv'
  BY DEF TypeOK, TableInv, OneRunning, AttemptLeft, CancelledRows, Running, disk
<1>3. StackInv'
  BY DEF TypeOK, StackInv, NoGhost, OwnerRuns, HandOwned, OwnerScript, PanelAway, Running, disk
<1>4. DiskInv'
  BY DEF DiskInv, OthersSound, FreshKept, disk
<1> QED BY <1>1, <1>2, <1>3, <1>4

\* The only step that makes a row run: nothing else runs, and the row has an
\* attempt left.
LEMMA StartIInv ==
    ASSUME IInv, NEW j \in Jobs, Start(j)
    PROVE  IInv'
<1> USE JobQueueAssumption DEF IInv, Start, Idle
<1>1. status[j] = "pending" /\ attempts[j] < MaxAttempts[j] /\ ~cancelRequested[j]
  BY DEF Oldest, TableInv, AttemptLeft, CancelledRows
<1>2. attempts[j] \in Nat /\ MaxAttempts[j] \in Nat
  BY DEF TypeOK
<1>3. TypeOK'
  BY <1>1, <1>2 DEF TypeOK, disk
<1>4. TableInv'
  BY <1>1 DEF TypeOK, TableInv, OneRunning, AttemptLeft, CancelledRows, Running
<1>5. StackInv'
  BY DEF TypeOK, StackInv, NoGhost, OwnerRuns, HandOwned, OwnerScript, PanelAway, Running, disk
<1>6. DiskInv'
  BY DEF DiskInv, OthersSound, FreshKept, disk
<1> QED BY <1>3, <1>4, <1>5, <1>6

\* A row nobody handles fails without having run.
LEMMA StartUnhandledIInv ==
    ASSUME IInv, NEW j \in Jobs, StartUnhandled(j)
    PROVE  IInv'
<1> USE JobQueueAssumption DEF IInv, StartUnhandled, Idle
<1>1. TypeOK'
  BY DEF TypeOK, disk
<1>2. TableInv'
  BY DEF TypeOK, TableInv, OneRunning, AttemptLeft, CancelledRows, Running, disk
<1>3. StackInv'
  BY DEF TypeOK, StackInv, NoGhost, OwnerRuns, HandOwned, OwnerScript, PanelAway, Running, disk
<1>4. DiskInv'
  BY DEF DiskInv, OthersSound, FreshKept, disk
<1> QED BY <1>1, <1>2, <1>3, <1>4

\* What a backup copies is sound, because what there is is.
LEMMA SnapshotIInv ==
    ASSUME IInv, NEW j \in Jobs, Snapshot(j)
    PROVE  IInv'
<1> USE JobQueueAssumption DEF IInv, Snapshot, table
<1>0. Sound(Rows) /\ Rows \in Tables
  BY RowsSound DEF Sound
<1>1. TypeOK'
  BY <1>0 DEF TypeOK, disk
<1>2. TableInv'
  BY <1>0 DEF TypeOK, TableInv, OneRunning, AttemptLeft, CancelledRows, Running, disk
<1>3. StackInv'
  BY <1>0 DEF TypeOK, StackInv, NoGhost, OwnerRuns, HandOwned, OwnerScript, PanelAway, Running, disk
<1>4. DiskInv'
  BY <1>0 DEF DiskInv, OthersSound, FreshKept, disk
<1> QED BY <1>1, <1>2, <1>3, <1>4

\* The script of a restore is staged while its handler is on the stack.
LEMMA SpawnScriptIInv ==
    ASSUME IInv, NEW j \in Jobs, SpawnScript(j)
    PROVE  IInv'
<1> USE JobQueueAssumption DEF IInv, SpawnScript, table
<1>1. TypeOK'
  BY DEF TypeOK, disk
<1>2. TableInv'
  BY DEF TypeOK, TableInv, OneRunning, AttemptLeft, CancelledRows, Running, disk
<1>3. StackInv'
  BY DEF TypeOK, StackInv, NoGhost, OwnerRuns, HandOwned, OwnerScript, PanelAway, Running, disk
<1>4. DiskInv'
  BY DEF DiskInv, OthersSound, FreshKept, disk
<1> QED BY <1>1, <1>2, <1>3, <1>4

\* A deferred row keeps running; NoGhost then holds by OwnerScript.
LEMMA HandlerReturnsIInv ==
    ASSUME IInv, NEW j \in Jobs, HandlerReturns(j)
    PROVE  IInv'
<1> USE JobQueueAssumption DEF IInv, HandlerReturns
<1>0. archives' \cup hand' \subseteq archives \cup hand /\ archives \subseteq archives'
  OBVIOUS
<1>1. TypeOK'
  BY <1>0 DEF TypeOK
<1>2. TableInv'
  BY DEF TypeOK, TableInv, OneRunning, AttemptLeft, CancelledRows, Running
<1>3. StackInv'
  BY DEF TypeOK, TableInv, StackInv, OneRunning, NoGhost, OwnerRuns, HandOwned, OwnerScript, PanelAway,
  Running
<1>4. DiskInv'
  BY <1>0 DEF DiskInv, OthersSound, FreshKept
<1> QED BY <1>1, <1>2, <1>3, <1>4

\* A throw ends the row or sends it back; AfterThrowFacts says which.
LEMMA HandlerThrowsIInv ==
    ASSUME IInv, NEW j \in Jobs, HandlerThrows(j)
    PROVE  IInv'
<1> USE JobQueueAssumption DEF IInv, HandlerThrows
<1>1. /\ AfterThrow(j) \in {"cancelled", "pending", "failed"}
      /\ AfterThrow(j) = "pending" => ~cancelRequested[j] /\ attempts[j] < MaxAttempts[j]
  BY AfterThrowFacts
<1>2. TypeOK'
  BY <1>1 DEF TypeOK, disk
<1>3. TableInv'
  BY <1>1 DEF TypeOK, TableInv, OneRunning, AttemptLeft, CancelledRows, Running
<1>4. StackInv'
  BY <1>1 DEF TypeOK, TableInv, StackInv, OneRunning, NoGhost, OwnerRuns, HandOwned, OwnerScript,
  PanelAway,
              Running, disk
<1>5. DiskInv'
  BY DEF DiskInv, OthersSound, FreshKept, disk
<1> QED BY <1>2, <1>3, <1>4, <1>5

\* A panel that is told to stop starts nothing more; the table is as it was.
LEMMA ShutdownIInv ==
    ASSUME IInv, Shutdown
    PROVE  IInv'
<1> USE JobQueueAssumption DEF IInv, Shutdown, table
<1>1. TypeOK'
  BY DEF TypeOK, disk
<1>2. TableInv'
  BY DEF TypeOK, TableInv, OneRunning, AttemptLeft, CancelledRows, Running, disk
<1>3. StackInv'
  BY DEF TypeOK, StackInv, NoGhost, OwnerRuns, HandOwned, OwnerScript, PanelAway, Running, disk
<1>4. DiskInv'
  BY DEF DiskInv, OthersSound, FreshKept, disk
<1> QED BY <1>1, <1>2, <1>3, <1>4

\* A clean exit leaves the table to start-up.
LEMMA ExitIInv ==
    ASSUME IInv, Exit
    PROVE  IInv'
<1> USE JobQueueAssumption DEF IInv, Exit, table
<1>1. TypeOK'
  BY DEF TypeOK, disk
<1>2. TableInv'
  BY DEF TypeOK, TableInv, OneRunning, AttemptLeft, CancelledRows, Running, disk
<1>3. StackInv'
  BY DEF TypeOK, StackInv, NoGhost, OwnerRuns, HandOwned, OwnerScript, PanelAway, Running, disk
<1>4. DiskInv'
  BY DEF DiskInv, OthersSound, FreshKept, disk
<1> QED BY <1>1, <1>2, <1>3, <1>4

\* A crash empties the stack; the script lives on.
LEMMA CrashIInv ==
    ASSUME IInv, Crash
    PROVE  IInv'
<1> USE JobQueueAssumption DEF IInv, Crash, table
<1>1. TypeOK'
  BY DEF TypeOK, disk
<1>2. TableInv'
  BY DEF TypeOK, TableInv, OneRunning, AttemptLeft, CancelledRows, Running, disk
<1>3. StackInv'
  BY DEF TypeOK, StackInv, NoGhost, OwnerRuns, HandOwned, OwnerScript, PanelAway, Running, disk
<1>4. DiskInv'
  BY DEF DiskInv, OthersSound, FreshKept, disk
<1> QED BY <1>1, <1>2, <1>3, <1>4

\* A power loss ends the scripts too, and one of them may leave another table.
LEMMA PowerLossIInv ==
    ASSUME IInv, PowerLoss
    PROVE  IInv'
<1> USE JobQueueAssumption DEF IInv, PowerLoss
<1>0. RowsOK'
  <2>1. CASE UNCHANGED table
    BY <2>1 DEF RowsOK, table, TypeOK, TableInv, OneRunning, AttemptLeft, CancelledRows, Running
  <2>2. ASSUME NEW j \in Jobs, Halfway(j)
        PROVE  RowsOK'
    BY <2>2, HalfwaySound
  <2> QED BY <2>1, <2>2
<1>1. TypeOK' /\ TableInv'
  BY <1>0 DEF TypeOK, RowsOK
<1>2. StackInv'
  BY DEF TypeOK, StackInv, NoGhost, OwnerRuns, HandOwned, OwnerScript, PanelAway, Running
<1>3. DiskInv'
  BY DEF DiskInv, OthersSound, FreshKept
<1> QED BY <1>1, <1>2, <1>3

\* Start-up: no row is left running, whatever the process or a restore left behind.
LEMMA BootIInv ==
    ASSUME IInv, Boot
    PROVE  IInv'
<1> USE JobQueueAssumption DEF IInv, Boot
<1>1. \A j \in Jobs : /\ Reconciled(j) \in Statuses \ {"running"}
                      /\ ~Running(j) => Reconciled(j) = status[j]
                      /\ Running(j) => Reconciled(j) \in Finished
  BY ReconciledFacts
<1>2. owner = NoJob
  BY DEF StackInv, OwnerRuns
<1>3. TypeOK'
  BY <1>1 DEF TypeOK
<1>4. \A j \in Jobs : ~Running(j)'
  BY <1>1 DEF Running
<1>5. TableInv'
  BY <1>1, <1>4 DEF TypeOK, TableInv, OneRunning, AttemptLeft, CancelledRows, Running
<1>6. StackInv'
  BY <1>2, <1>4, JobQueueAssumption
  DEF TypeOK, StackInv, NoGhost, OwnerRuns, HandOwned, OwnerScript, PanelAway, Running
<1>7. DiskInv'
  BY DEF DiskInv, OthersSound, FreshKept
<1> QED BY <1>3, <1>5, <1>6, <1>7

\* The script stops the panel that spawned it.
LEMMA ScriptStopsPanelIInv ==
    ASSUME IInv, NEW j \in Jobs, ScriptStopsPanel(j)
    PROVE  IInv'
<1> USE JobQueueAssumption DEF IInv, ScriptStopsPanel, table
<1>1. TypeOK'
  BY DEF TypeOK, disk
<1>2. TableInv'
  BY DEF TypeOK, TableInv, OneRunning, AttemptLeft, CancelledRows, Running, disk
<1>3. StackInv'
  BY DEF TypeOK, StackInv, NoGhost, OwnerRuns, HandOwned, OwnerScript, PanelAway, Running, disk
<1>4. DiskInv'
  BY DEF DiskInv, OthersSound, FreshKept, disk
<1> QED BY <1>1, <1>2, <1>3, <1>4

\* The script begins to replace what there is, with the panel down.
LEMMA ScriptAppliesIInv ==
    ASSUME IInv, NEW j \in Jobs, ScriptApplies(j)
    PROVE  IInv'
<1> USE JobQueueAssumption DEF IInv, ScriptApplies, table
<1>1. TypeOK'
  BY DEF TypeOK, disk
<1>2. TableInv'
  BY DEF TypeOK, TableInv, OneRunning, AttemptLeft, CancelledRows, Running, disk
<1>3. StackInv'
  BY DEF TypeOK, StackInv, NoGhost, OwnerRuns, HandOwned, OwnerScript, PanelAway, Running, disk
<1>4. DiskInv'
  BY DEF DiskInv, OthersSound, FreshKept, disk
<1> QED BY <1>1, <1>2, <1>3, <1>4

\* The script gives up on a panel that does not stop.
LEMMA ScriptTimesOutIInv ==
    ASSUME IInv, NEW j \in Jobs, ScriptTimesOut(j)
    PROVE  IInv'
<1> USE JobQueueAssumption DEF IInv, ScriptTimesOut, table
<1>1. TypeOK'
  BY DEF TypeOK, disk
<1>2. TableInv'
  BY DEF TypeOK, TableInv, OneRunning, AttemptLeft, CancelledRows, Running, disk
<1>3. StackInv'
  BY DEF TypeOK, StackInv, NoGhost, OwnerRuns, HandOwned, OwnerScript, PanelAway, Running, disk
<1>4. DiskInv'
  BY DEF DiskInv, OthersSound, FreshKept, disk
<1> QED BY <1>1, <1>2, <1>3, <1>4

\* The script ends, with a marker that tells how it went and a table of the archive,
\* or whatever it leaves halfway.
LEMMA ScriptEndsIInv ==
    ASSUME IInv, NEW j \in Jobs, ScriptEnds(j)
    PROVE  IInv'
<1> USE JobQueueAssumption DEF IInv, ScriptEnds
<1>0. RowsOK'
  BY HalfwaySound DEF Halfway
<1>1. TypeOK' /\ TableInv'
  BY <1>0 DEF TypeOK, RowsOK
<1>2. StackInv'
  BY DEF TypeOK, StackInv, NoGhost, OwnerRuns, HandOwned, OwnerScript, PanelAway, Running
<1>3. DiskInv'
  BY DEF DiskInv, OthersSound, FreshKept
<1> QED BY <1>1, <1>2, <1>3

\* A script that is killed leaves no marker, and what it had replaced.
LEMMA ScriptDiesIInv ==
    ASSUME IInv, NEW j \in Jobs, ScriptDies(j)
    PROVE  IInv'
<1> USE JobQueueAssumption DEF IInv, ScriptDies
<1>0. RowsOK'
  <2>1. Halfway(j)
    BY DEF Halfway
  <2> QED BY <2>1, HalfwaySound
<1>1. TypeOK' /\ TableInv'
  <2>1. script' \in [Jobs -> Stages] /\ ends' \in Nat
    BY DEF TypeOK
  <2> HIDE DEF ScriptDies
  <2>2. UNCHANGED <<owner, proc, hand, archives, staged>>
    BY DEF ScriptDies
  <2> QED BY <1>0, <2>1, <2>2 DEF TypeOK, RowsOK
<1>2. StackInv'
  <2>1. CASE script[j] = "applying"
    <3>1. proc = "down" /\ proc' = "down" /\ owner' = NoJob /\ owner = NoJob
      BY <2>1 DEF StackInv, PanelAway, OwnerRuns
    <3>2. NoGhost' /\ OwnerRuns' /\ OwnerScript' /\ PanelAway'
      BY <3>1 DEF NoGhost, OwnerRuns, OwnerScript, PanelAway
    <3>3. HandOwned'
      BY DEF StackInv, HandOwned
    <3> QED BY <3>2, <3>3 DEF StackInv
  <2>2. CASE script[j] # "applying"
    BY <2>2 DEF table, TypeOK, StackInv, NoGhost, OwnerRuns, HandOwned, OwnerScript, PanelAway, Running
  <2> QED BY <2>1, <2>2
<1>3. DiskInv'
  BY DEF DiskInv, OthersSound, FreshKept
<1> QED BY <1>1, <1>2, <1>3

\* Every step keeps the invariant.
LEMMA NextIInv == IInv /\ [Next]_vars => IInv'
<1> SUFFICES ASSUME IInv, [Next]_vars
             PROVE  IInv'
  OBVIOUS
<1>1. CASE UNCHANGED vars
  <2>1. TypeOK' /\ TableInv'
    BY <1>1 DEF vars, table, disk, IInv, TypeOK, TableInv, OneRunning, AttemptLeft, CancelledRows,
    Running
  <2>2. StackInv'
    BY <1>1 DEF vars, table, disk, IInv, StackInv, NoGhost, OwnerRuns, HandOwned, OwnerScript,
    PanelAway,
                Running
  <2>3. DiskInv'
    BY <1>1 DEF vars, table, disk, IInv, DiskInv, OthersSound, FreshKept
  <2> QED BY <2>1, <2>2, <2>3 DEF IInv
<1>2. ASSUME NEW j \in Jobs, Enqueue(j) \/ RequestCancel(j)
      PROVE  IInv'
  BY <1>2, EnqueueIInv, RequestCancelIInv
<1>3. ASSUME NEW j \in Jobs, Tick(j)
      PROVE  IInv'
  BY <1>3, StartIInv, StartUnhandledIInv DEF Tick
<1>4. ASSUME NEW j \in Jobs, Snapshot(j) \/ SpawnScript(j) \/ HandlerEnds(j)
      PROVE  IInv'
  BY <1>4, SnapshotIInv, SpawnScriptIInv, HandlerReturnsIInv, HandlerThrowsIInv DEF HandlerEnds
<1>5. ASSUME NEW j \in Jobs, ScriptStep(j) \/ ScriptDies(j)
      PROVE  IInv'
  BY <1>5, ScriptStopsPanelIInv, ScriptAppliesIInv, ScriptTimesOutIInv, ScriptEndsIInv,
     ScriptDiesIInv DEF ScriptStep
<1>6. CASE Shutdown \/ Exit \/ Crash \/ PowerLoss \/ Boot
  BY <1>6, ShutdownIInv, ExitIInv, CrashIInv, PowerLossIInv, BootIInv
<1> QED BY <1>1, <1>2, <1>3, <1>4, <1>5, <1>6 DEF Next

\* The inductive invariant holds in every reachable state of the queue
\* (queue.ts), for every set of jobs, attempt limit and number of crashes.
THEOREM Invariance == Spec => []IInv
<1>1. Init => IInv
  BY InitIInv
<1>2. IInv /\ [Next]_vars => IInv'
  BY NextIInv
<1> QED BY <1>1, <1>2, PTL DEF Spec

-------------------------------------------------------------------------------
\* The columns keep their types and no row is tried more often than its
\* maxAttempts allows (queue.ts:255-268).
THEOREM TypeCorrect == Spec => []TypeOK
<1>1. IInv => TypeOK
  BY DEF IInv
<1> QED BY <1>1, Invariance, PTL

\* Two jobs are never under way at once (queue.ts:161-191), over any number of
\* retries, deferrals, crashes and restarts.
THEOREM OneAtATime == Spec => []OneRunning
<1>1. IInv => OneRunning
  BY DEF IInv, TableInv, StackInv
<1> QED BY <1>1, Invariance, PTL

\* A row that says running is worked on: start-up leaves no ghost
\* (queue.ts:305-324).
THEOREM NoGhostRows == Spec => []NoGhost
<1>1. IInv => NoGhost
  BY DEF IInv, TableInv, StackInv
<1> QED BY <1>1, Invariance, PTL

\* What is on the stack of the panel is what the table says is running
\* (queue.ts:181-191, 241-290).
THEOREM OwnerIsRunning == Spec => []OwnerRuns
<1>1. IInv => OwnerRuns
  BY DEF IInv, TableInv, StackInv
<1> QED BY <1>1, Invariance, PTL

-------------------------------------------------------------------------------
(***************************************************************************)
(* Action properties.                                                      *)
(***************************************************************************)
\* A script replaces the table when it leaves its "applying" stage, and only then.
LEMMA NothingReplaced ==
    ASSUME TypeOK, ~Replaced,
           \/ \E k \in Jobs : ScriptStep(k) \/ ScriptDies(k)
           \/ PowerLoss
    PROVE  status' = status
<1>1. ASSUME NEW k \in Jobs, ScriptStep(k) \/ ScriptDies(k)
      PROVE  status' = status
  BY <1>1 DEF ScriptStep, ScriptStopsPanel, ScriptApplies, ScriptTimesOut, ScriptEnds,
              ScriptDies, table, Replaced, TypeOK
<1>2. CASE PowerLoss
  BY <1>2 DEF PowerLoss, table, Replaced, TypeOK
<1> QED BY <1>1, <1>2

\* One step that does not replace the table, as far as the status of a row is
\* concerned: a finished row keeps it.
LEMMA OutcomeKept ==
    ASSUME IInv, Next, ~Replaced, NEW j \in Jobs, status[j] \in Finished
    PROVE  status'[j] = status[j]
<1> USE JobQueueAssumption DEF IInv
<1>0. status \in [Jobs -> Statuses]
  BY DEF TypeOK
<1>1. ASSUME NEW k \in Jobs, Enqueue(k) \/ RequestCancel(k)
      PROVE  status'[j] = status[j]
  BY <1>0, <1>1 DEF Enqueue, RequestCancel
<1>2. ASSUME NEW k \in Jobs, Tick(k)
      PROVE  status'[j] = status[j]
  BY <1>0, <1>2 DEF Tick, Start, StartUnhandled, Oldest
<1>3. ASSUME NEW k \in Jobs, Snapshot(k) \/ SpawnScript(k) \/ HandlerEnds(k)
      PROVE  status'[j] = status[j]
  <2>1. owner = k => status[k] = "running"
    BY DEF StackInv, OwnerRuns, Running
  <2> QED BY <1>0, <1>3, <2>1
          DEF Snapshot, SpawnScript, HandlerEnds, HandlerReturns, HandlerThrows, table
<1>4. ASSUME NEW k \in Jobs, ScriptStep(k) \/ ScriptDies(k)
      PROVE  status' = status
  BY <1>4, NothingReplaced
<1>5. CASE Shutdown \/ Exit \/ Crash
  BY <1>5 DEF Shutdown, Exit, Crash, table
<1>6. CASE PowerLoss
  BY <1>6, NothingReplaced
<1>7. CASE Boot
  BY <1>7, ReconciledFacts DEF Boot, Running
<1> QED BY <1>1, <1>2, <1>3, <1>4, <1>5, <1>6, <1>7 DEF Next

\* The outcome of a job is written once (queue.ts:284-291), whatever is
\* cancelled, ticked, retried or restarted afterwards; only a restore script that
\* puts another table in place undoes it (backups/service.ts:1827-1833).
THEOREM OutcomesAreFinal == Spec => FinishedIsFinal
<1>1. IInv /\ [Next]_vars =>
        [~Replaced => \A j \in Jobs : status[j] \in Finished => status'[j] = status[j]]_vars
  BY OutcomeKept
<1> QED BY <1>1, Invariance, PTL DEF Spec, FinishedIsFinal

\* A job that the table says was to be cancelled is never handed to a handler
\* (queue.ts:117-129).
THEOREM CancellationSticks == Spec => CancelSticks
<1> DEFINE Kept == \A j \in Jobs : cancelRequested[j] /\ owner' = j => owner = j
<1>1. ASSUME IInv, Next
      PROVE  Kept
  <2> SUFFICES ASSUME NEW j \in Jobs, cancelRequested[j], owner' = j, owner # j
               PROVE  FALSE
    OBVIOUS
  <2> USE <1>1, JobQueueAssumption
  <2>1. ASSUME NEW k \in Jobs, Tick(k)
        PROVE  FALSE
    BY <2>1 DEF Tick, Start, StartUnhandled, Oldest, IInv, TableInv, CancelledRows
  <2>2. ASSUME NEW k \in Jobs, \/ Enqueue(k) \/ RequestCancel(k) \/ Snapshot(k) \/ SpawnScript(k)
                               \/ HandlerEnds(k) \/ ScriptStep(k) \/ ScriptDies(k)
        PROVE  FALSE
    BY <2>2 DEF Enqueue, RequestCancel, Snapshot, SpawnScript, HandlerEnds, HandlerReturns,
                HandlerThrows, ScriptStep, ScriptStopsPanel, ScriptApplies, ScriptTimesOut,
                ScriptEnds, ScriptDies
  <2>3. CASE Shutdown \/ Exit \/ Crash \/ PowerLoss \/ Boot
    BY <2>3 DEF Shutdown, Exit, Crash, PowerLoss, Boot
  <2> QED BY <2>1, <2>2, <2>3 DEF Next
<1>2. IInv /\ [Next]_vars => [Kept]_vars
  BY <1>1
<1> QED BY <1>2, Invariance, PTL DEF Spec, CancelSticks

\* A job cancelled while it ran is a success only if the marker of its restore
\* script says so (queue.ts:244, backups/service.ts:287-299).
THEOREM NoCancelledSuccess == Spec => NoSuccessAfterCancel
<1> DEFINE Honoured == ~Replaced => \A j \in Jobs :
                         cancelRequested[j] /\ Running(j) /\ status'[j] = "succeeded"
                           => script[j] = "succeeded"
<1>1. ASSUME IInv, Next
      PROVE  Honoured
  <2> SUFFICES ASSUME ~Replaced, NEW j \in Jobs, cancelRequested[j], status[j] = "running",
                      status'[j] = "succeeded"
               PROVE  script[j] = "succeeded"
    BY DEF Running
  <2>0. status \in [Jobs -> Statuses]
    BY <1>1 DEF IInv, TypeOK
  <2>1. ASSUME NEW k \in Jobs, Enqueue(k) \/ RequestCancel(k) \/ Snapshot(k) \/ SpawnScript(k)
        PROVE  FALSE
    BY <2>0, <2>1 DEF Enqueue, RequestCancel, Snapshot, SpawnScript, table
  <2>2. ASSUME NEW k \in Jobs, Tick(k)
        PROVE  FALSE
    BY <2>0, <2>2 DEF Tick, Start, StartUnhandled, Idle, Running
  <2>3. ASSUME NEW k \in Jobs, HandlerReturns(k)
        PROVE  FALSE
    BY <2>0, <2>3 DEF HandlerReturns
  <2>4. ASSUME NEW k \in Jobs, HandlerThrows(k)
        PROVE  FALSE
    <3>1. AfterThrow(k) # "succeeded"
      BY <1>1, AfterThrowFacts DEF IInv
    <3> QED BY <2>0, <2>4, <3>1 DEF HandlerThrows
  <2>5. ASSUME NEW k \in Jobs, ScriptStep(k) \/ ScriptDies(k)
        PROVE  FALSE
    BY <1>1, <2>5, NothingReplaced DEF IInv
  <2>6. CASE Shutdown \/ Exit \/ Crash \/ PowerLoss
    BY <1>1, <2>6, NothingReplaced DEF IInv, Shutdown, Exit, Crash, table
  <2>7. CASE Boot
    BY <2>7 DEF Boot, Reconciled, Running
  <2> QED BY <1>1, <2>1, <2>2, <2>3, <2>4, <2>5, <2>6, <2>7 DEF Next, HandlerEnds
<1>2. IInv /\ [Next]_vars => [Honoured]_vars
  BY <1>1
<1> QED BY <1>2, Invariance, PTL DEF Spec, NoSuccessAfterCancel

-------------------------------------------------------------------------------
(***************************************************************************)
(* The refinement.                                                         *)
(***************************************************************************)
\* A row that is submitted, or taken while nothing runs, is so in the abstract
\* specification; the tables that are kept stay.
LEMMA RowEnters ==
    ASSUME TypeOK, NEW j \in Jobs, NEW s, status' = [status EXCEPT ![j] = s],
           UNCHANGED <<archives, hand>>,
           \/ status[j] = "absent" /\ s = "pending"
           \/ status[j] = "pending" /\ s = "running" /\ \A k \in Jobs : ~Running(k)
    PROVE  [Serial!Next]_Serial!vars
<1> USE DEF In, Rows
<1>0. status \in [Jobs -> Statuses]
  BY DEF TypeOK
<1>1. CASE status[j] = "absent" /\ s = "pending"
  <2>1. Serial!Submit(j)
    BY <1>0, <1>1 DEF Serial!Submit, AsState
  <2> QED BY <2>1 DEF Serial!Next
<1>2. CASE status[j] = "pending" /\ s = "running" /\ \A k \in Jobs : ~Running(k)
  <2>1. Serial!Begin(j)
    BY <1>0, <1>2 DEF Serial!Begin, Running, AsState
  <2> QED BY <2>1 DEF Serial!Next
<1> QED BY <1>1, <1>2

\* A row that is sent back, or finished, is so in the abstract specification,
\* whatever its handler had in hand is kept or not.
LEMMA RowLeaves ==
    ASSUME TypeOK, NEW j \in Jobs, NEW s, status' = [status EXCEPT ![j] = s],
           archives' \cup hand' \subseteq archives \cup hand,
           \/ status[j] = "running" /\ s = "pending"
           \/ status[j] \in {"pending", "running"} /\ s \in Finished
    PROVE  [Serial!Next]_Serial!vars
<1>0. status \in [Jobs -> Statuses]
  BY DEF TypeOK
<1>k. {AsState(t) : t \in archives' \cup hand'} \subseteq {AsState(t) : t \in archives \cup hand}
  OBVIOUS
<1> USE DEF In, Rows
<1>1. CASE status[j] = "running" /\ s = "pending"
  <2>1. Serial!Requeue(j)
    BY <1>0, <1>k, <1>1 DEF Serial!Requeue, AsState
  <2> QED BY <2>1 DEF Serial!Next
<1>2. CASE status[j] \in {"pending", "running"} /\ s \in Finished
  <2>1. Serial!Finish(j)
    BY <1>0, <1>k, <1>2 DEF Serial!Finish, AsState
  <2> QED BY <2>1 DEF Serial!Next
<1> QED BY <1>1, <1>2

\* A step that leaves the rows and forgets a kept table, or none, is one as well.
LEMMA RowsStay ==
    ASSUME status' = status, archives' \cup hand' \subseteq archives \cup hand
    PROVE  [Serial!Next]_Serial!vars
<1>1. {AsState(t) : t \in archives' \cup hand'} \subseteq {AsState(t) : t \in archives \cup hand}
  OBVIOUS
<1>2. Serial!Forget
  BY <1>1 DEF Serial!Forget, In, Rows, AsState
<1> QED BY <1>2 DEF Serial!Next

\* A table that is put back is one that was kept, whatever rows it makes go.
LEMMA ComesBack ==
    ASSUME TypeOK, NEW t \in archives, PutBack(t), UNCHANGED <<archives, hand>>
    PROVE  [Serial!Next]_Serial!vars
<1>1. t.status \in [Jobs -> Statuses]
  BY DEF TypeOK, Tables
<1>2. \A S \in {{"pending"}, {"running"}, Finished} : In(Rows, S)' = In(t, S)
  BY <1>1 DEF PutBack, In, Rows
<1>3. Serial!ComeBack
  <2>1. Serial!State' = AsState(t)
    BY <1>2 DEF Serial!State, AsState
  <2> QED BY <2>1 DEF Serial!ComeBack, AsState, In
<1> QED BY <1>3 DEF Serial!Next

\* However far a script came.
LEMMA HalfwayRefines ==
    ASSUME IInv, NEW j \in Jobs, Halfway(j), UNCHANGED <<archives, hand>>
    PROVE  [Serial!Next]_Serial!vars
<1>1. CASE UNCHANGED table
  BY <1>1, RowsStay DEF table
<1>2. CASE PutBack(Blank)
  BY <1>2, ComesBack DEF IInv, DiskInv, FreshKept
<1>3. CASE PutBack(staged[j])
  <2>1. staged[j] \in archives
    BY DEF IInv, TypeOK
  <2> QED BY <1>3, <2>1, ComesBack DEF IInv
<1> QED BY <1>1, <1>2, <1>3 DEF Halfway

\* Every step of the queue is a step of the executor, or none.
LEMMA StepRefines ==
    ASSUME IInv, [Next]_vars
    PROVE  [Serial!Next]_Serial!vars
<1> USE JobQueueAssumption
<1>0. TypeOK /\ OneRunning /\ status \in [Jobs -> Statuses]
  BY DEF IInv, TableInv, TypeOK
<1>1. ASSUME NEW j \in Jobs, Enqueue(j)
      PROVE  [Serial!Next]_Serial!vars
  BY <1>0, <1>1, RowEnters DEF Enqueue, disk
<1>2. ASSUME NEW j \in Jobs, RequestCancel(j)
      PROVE  [Serial!Next]_Serial!vars
  <2>1. CASE status[j] = "pending"
    BY <1>0, <1>2, <2>1, RowLeaves DEF RequestCancel, disk
  <2>2. CASE status[j] # "pending"
    <3>1. status' = status
      BY <1>0, <1>2, <2>2 DEF RequestCancel
    <3> QED BY <1>2, <3>1, RowsStay DEF RequestCancel, disk
  <2> QED BY <2>1, <2>2
<1>3. ASSUME NEW j \in Jobs, Tick(j)
      PROVE  [Serial!Next]_Serial!vars
  <2>1. status[j] = "pending"
    BY <1>3 DEF Tick, Start, StartUnhandled, Oldest
  <2>2. CASE Start(j)
    BY <1>0, <2>1, <2>2, RowEnters DEF Start, Idle, disk
  <2>3. CASE StartUnhandled(j)
    BY <1>0, <2>1, <2>3, RowLeaves DEF StartUnhandled, disk
  <2> QED BY <1>3, <2>2, <2>3 DEF Tick
<1>4. ASSUME NEW j \in Jobs, HandlerReturns(j)
      PROVE  [Serial!Next]_Serial!vars
  <2>1. status[j] = "running" /\ archives' \cup hand' \subseteq archives \cup hand
    BY <1>4 DEF IInv, StackInv, HandlerReturns, OwnerRuns, Running
  <2>2. CASE j \in Restores
    BY <1>4, <2>1, <2>2, RowsStay DEF HandlerReturns
  <2>3. CASE j \notin Restores /\ cancelRequested[j]
    BY <1>0, <1>4, <2>1, <2>3, RowLeaves DEF HandlerReturns
  <2>4. CASE j \notin Restores /\ ~cancelRequested[j]
    BY <1>0, <1>4, <2>1, <2>4, RowLeaves DEF HandlerReturns
  <2> QED BY <2>2, <2>3, <2>4
<1>5. ASSUME NEW j \in Jobs, HandlerThrows(j)
      PROVE  [Serial!Next]_Serial!vars
  <2>1. status[j] = "running" /\ archives' \cup hand' \subseteq archives \cup hand
    BY <1>5 DEF IInv, StackInv, HandlerThrows, OwnerRuns, Running, disk
  <2>2. AfterThrow(j) \in {"cancelled", "pending", "failed"}
    BY <1>0, AfterThrowFacts
  <2>3. status' = [status EXCEPT ![j] = AfterThrow(j)]
    BY <1>5 DEF HandlerThrows
  <2> QED BY <1>0, <2>1, <2>2, <2>3, RowLeaves
<1>6. ASSUME NEW j \in Jobs, Snapshot(j)
      PROVE  [Serial!Next]_Serial!vars
  <2>1. status[j] = "running"
    BY <1>6 DEF IInv, StackInv, Snapshot, OwnerRuns, Running
  <2>2. UNCHANGED <<status, archives>> /\ hand = {} /\ hand' = {Rows}
    BY <1>6 DEF Snapshot, table, disk
  <2>3. {AsState(t) : t \in archives' \cup hand'} = {AsState(t) : t \in archives \cup hand} \cup {AsState(Rows)}
    BY <2>2
  <2>4. Serial!Keep
    BY <2>1, <2>2, <2>3 DEF Serial!Keep, Serial!State, In, Rows, AsState
  <2> QED BY <2>4 DEF Serial!Next
<1>7. ASSUME NEW j \in Jobs, SpawnScript(j)
      PROVE  [Serial!Next]_Serial!vars
  BY <1>7, RowsStay DEF SpawnScript, table
<1>8. ASSUME NEW j \in Jobs, ScriptStep(j) \/ ScriptDies(j)
      PROVE  [Serial!Next]_Serial!vars
  <2>1. UNCHANGED <<archives, hand>>
    BY <1>8 DEF ScriptStep, ScriptStopsPanel, ScriptApplies, ScriptTimesOut, ScriptEnds, ScriptDies
  <2>2. Halfway(j)
    BY <1>8 DEF ScriptStep, ScriptStopsPanel, ScriptApplies, ScriptTimesOut, ScriptEnds, ScriptDies,
    Halfway
  <2> QED BY <2>1, <2>2, HalfwayRefines
<1>9. CASE Shutdown \/ Exit \/ Crash \/ UNCHANGED vars
  <2>1. status' = status /\ archives' \cup hand' \subseteq archives \cup hand
    BY <1>9 DEF Shutdown, Exit, Crash, table, disk, vars
  <2> QED BY <2>1, RowsStay
<1>10. CASE PowerLoss
  <2>1. CASE UNCHANGED table
    BY <1>10, <2>1, RowsStay DEF PowerLoss, table
  <2>2. ASSUME NEW j \in Jobs, script[j] = "applying", Halfway(j)
        PROVE  [Serial!Next]_Serial!vars
    <3>1. hand = {}
      BY <2>2 DEF IInv, StackInv, PanelAway, OwnerRuns, HandOwned
    <3> QED BY <1>10, <2>2, <3>1, HalfwayRefines DEF PowerLoss
  <2> QED BY <1>10, <2>1, <2>2 DEF PowerLoss
<1>11. CASE Boot
  <2>1. /\ status' = [k \in Jobs |-> Reconciled(k)]
        /\ UNCHANGED <<archives, hand>>
        /\ \A k \in Jobs : /\ ~Running(k) => Reconciled(k) = status[k]
                           /\ Running(k) => Reconciled(k) \in Finished
    BY <1>0, <1>11, ReconciledFacts DEF Boot
  <2>2. CASE \A k \in Jobs : ~Running(k)
    <3>1. status' = status
      BY <1>0, <2>1, <2>2
    <3> QED BY <2>1, <3>1, RowsStay
  <2>3. ASSUME NEW j \in Jobs, Running(j)
        PROVE  [Serial!Next]_Serial!vars
    <3>1. \A k \in Jobs : k # j => ~Running(k)
      BY <1>0, <2>3 DEF OneRunning
    <3>2. status' = [status EXCEPT ![j] = Reconciled(j)]
      BY <1>0, <2>1, <3>1
    <3>3. Reconciled(j) \in Finished
      BY <2>1, <2>3
    <3> QED BY <1>0, <2>1, <2>3, <3>2, <3>3, RowLeaves DEF Running
  <2> QED BY <2>2, <2>3
<1> QED BY <1>1, <1>2, <1>3, <1>4, <1>5, <1>6, <1>7, <1>8, <1>9, <1>10, <1>11
        DEF Next, HandlerEnds

\* The queue, with its rows, retries, deferrals, crashes and restarts, implements
\* a serial executor (queue.ts:10-20), whose state a restore may exchange for an
\* earlier one (backups/service.ts:1827-1833).
THEOREM QueueIsSerialExecutor == Spec => ImplementsSerialExecutor
<1>1. ASSUME Init PROVE Serial!Init
  <2>1. \A S : In(Rows, S) = In(Blank, S)
    BY <1>1 DEF Init, In, Rows, Blank
  <2>2. AsState(Blank) = Serial!Empty
    BY DEF AsState, In, Blank, Serial!Empty
  <2>3. {AsState(t) : t \in archives \cup hand} = {Serial!Empty}
    BY <1>1, <2>2 DEF Init
  <2>4. Serial!State = Serial!Empty
    BY <2>1, <2>2 DEF Serial!State, AsState
  <2> QED BY <2>3, <2>4 DEF Serial!Init
<1>2. IInv /\ [Next]_vars => [Serial!Next]_Serial!vars
  BY StepRefines
<1> QED BY <1>1, <1>2, Invariance, PTL DEF Spec, ImplementsSerialExecutor, Serial!Spec
===============================================================================
