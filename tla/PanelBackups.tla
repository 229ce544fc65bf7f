----------------------------- MODULE PanelBackups -----------------------------
(***************************************************************************)
(* The automatic snapshots of the panel (backups/service.ts): the          *)
(* scheduler, which derives what is due from the rows of the jobs, the job *)
(* that packs an archive and removes the ones it supersedes, and the       *)
(* restore that puts an older table of jobs in place of the current one.   *)
(*                                                                         *)
(* The queue runs one job at a time (JobQueue); how long a job waits, and  *)
(* what else runs, is left open.                                           *)
(***************************************************************************)
EXTENDS Integers, FiniteSets

CONSTANTS Lengths,     \* the ticks of a period of each frequency: a sequence
          Limit,       \* SCHEDULE_ATTEMPT_LIMIT
          MaxJobs,     \* bound: the jobs there will ever be
          MaxTime,     \* bound: the clock
          MaxCrashes,  \* bound: ends of the panel
          None

Frequencies == DOMAIN Lengths
Jobs        == 1..MaxJobs      \* in the order of their creation
Times       == 0..MaxTime

Statuses == {"pending", "running", "succeeded", "failed", "cancelled"}
Row      == [f : Frequencies, period : Nat, created : Times, status : Statuses,
             finished : Times, cancel : BOOLEAN]

ASSUME BackupsAssumption == /\ \A f \in Frequencies : Lengths[f] \in Nat \ {0}
                            /\ Frequencies \subseteq Nat /\ IsFiniteSet(Frequencies)
                            /\ Limit \in Nat \ {0}
                            /\ MaxJobs \in Nat /\ MaxTime \in Nat /\ MaxCrashes \in Nat
                            /\ None \notin Jobs \cup Row

VARIABLES now,       \* the clock
          row,       \* the table of jobs
          made,      \* how many were ever made
          archives,  \* the jobs whose archive is on disk
          snap,      \* the table that is in the archive of a job
          at,        \* the job at work
          pc,        \* where it is
          todo,      \* the archives it has still to remove
          had,       \* history: frequencies that have had a snapshot since the excuses below
          cut,       \* history: those of which a run ended early after it had begun to remove
          crashes

vars == <<now, row, made, archives, snap, at, pc, todo, had, cut, crashes>>

Table == [Jobs -> Row \cup {None}]
Empty == [j \in Jobs |-> None]

Init == /\ now = 0
        /\ row = Empty /\ made = 0
        /\ archives = {} /\ snap = [j \in Jobs |-> Empty]
        /\ at = None /\ pc = "idle" /\ todo = {}
        /\ had = {} /\ cut = {} /\ crashes = 0

-------------------------------------------------------------------------------
(***************************************************************************)
(* What the rows say.                                                      *)
(***************************************************************************)
Period(f, t) == t \div Lengths[f]

\* scheduledAttempts
Attempts(f) == {j \in Jobs : row[j] # None /\ row[j].f = f}
In(s, f)    == {j \in Attempts(f) : row[j].status \in s}
Latest(S)   == CHOOSE j \in S : \A i \in S : i <= j

\* Bug: a job that waits in the queue settles nothing.
Bug_Settled(f) ==
    LET here(s) == {j \in In(s, f) : row[j].period = Period(f, now)}
    IN  here({"succeeded"}) # {} \/ Cardinality(here({"failed"})) >= Limit

\* Bug: one attempt more than the limit.
Bug_OneMore(f) ==
    LET here(s) == {j \in In(s, f) : row[j].period = Period(f, now)}
    IN  \/ here({"pending", "running", "succeeded"}) # {}
        \/ Cardinality(here({"failed"})) > Limit

\* periodIsSettled: a failed attempt does not settle a period, the last of them does.
Settled(f) ==
    LET here(s) == {j \in In(s, f) : row[j].period = Period(f, now)}
    IN  \/ here({"pending", "running", "succeeded"}) # {}
        \/ Cardinality(here({"failed"})) >= Limit

\* Bug: the interval begins when the snapshot was asked for.
Bug_NextAt(f) == row[Latest(In({"succeeded"}, f))].created + Lengths[f]

\* nextScheduledBackupAt, of the latest success
NextAt(f) == row[Latest(In({"succeeded"}, f))].finished + Lengths[f]

Due(f) == ~Settled(f) /\ (In({"succeeded"}, f) # {} => now >= NextAt(f))

\* finishedAt is read of successes alone, and the flag of jobs at work.
Ended(j, s) == row' = [row EXCEPT ![j].status = s, ![j].cancel = FALSE,
                                  ![j].finished = IF s = "succeeded" THEN now ELSE 0]

-------------------------------------------------------------------------------
(***************************************************************************)
(* The scheduler, and the owner.                                           *)
(***************************************************************************)

\* checkNow: all the frequencies that are due, in their order, if they are switched
\* on in the schedule as it is then.
Check == \E enabled \in SUBSET Frequencies :
    LET due     == {f \in enabled : Due(f)}
        rank(f) == Cardinality({g \in due : g <= f})
    IN  /\ due # {} /\ made + Cardinality(due) <= MaxJobs
        /\ row' = [j \in Jobs |->
                     IF \E f \in due : j = made + rank(f)
                     THEN LET f == CHOOSE f \in due : j = made + rank(f)
                          IN  [f |-> f, period |-> Period(f, now), created |-> now,
                               status |-> "pending", finished |-> 0, cancel |-> FALSE]
                     ELSE row[j]]
        /\ made' = made + Cardinality(due)
        /\ UNCHANGED <<now, archives, snap, at, pc, todo, had, cut, crashes>>

Tick ==
    /\ now < MaxTime /\ now' = now + 1
    /\ UNCHANGED <<row, made, archives, snap, at, pc, todo, had, cut, crashes>>

\* requestCancel: at once if it waits, and else when its handler notices.
Cancel(j) ==
    /\ row[j] # None /\ row[j].status \in {"pending", "running"} /\ ~row[j].cancel
    /\ IF row[j].status = "pending" THEN Ended(j, "cancelled")
       ELSE row' = [row EXCEPT ![j].cancel = TRUE]
    /\ UNCHANGED <<now, made, archives, snap, at, pc, todo, had, cut, crashes>>

\* The archive of a job is gone, and the table that is in it.
Gone(j) == archives' = archives \ {j} /\ snap' = [snap EXCEPT ![j] = Empty]

\* What the panel lists, and restores from.
Usable(j) == row[j] # None /\ row[j].status = "succeeded" /\ j \in archives

\* The owner deletes one that is listed.
Remove(j) ==
    /\ Usable(j)
    /\ Gone(j) /\ had' = had \ {row[j].f}
    /\ UNCHANGED <<now, row, made, at, pc, todo, cut, crashes>>

-------------------------------------------------------------------------------
(***************************************************************************)
(* The job: createPanelArchive, then pruneFrequencyBackups.                *)
(***************************************************************************)

\* The queue takes the one that waits longest, which looks at the websites and the
\* databases there are.
Begin(j) ==
    /\ at = None /\ row[j] # None /\ row[j].status = "pending"
    /\ \A i \in Jobs : row[i] # None /\ row[i].status = "pending" => j <= i
    /\ row' = [row EXCEPT ![j].status = "running"]
    /\ at' = j /\ pc' = "copy"
    /\ UNCHANGED <<now, made, archives, snap, todo, had, cut, crashes>>

\* The database is copied: what was made or cancelled since is in the copy, and the
\* job itself runs in it.
Copy ==
    /\ pc = "copy"
    /\ snap' = [snap EXCEPT ![at] = row] /\ pc' = "pack"
    /\ UNCHANGED <<now, row, made, archives, at, todo, had, cut, crashes>>

Over == at' = None /\ pc' = "idle" /\ todo' = {}

\* What there is of an archive may stay when its job ends early.
MayStay == archives' \in {archives, IF pc = "pack" THEN archives \cup {at} ELSE archives}

\* It fails or is aborted.  What it has written is removed if the archive tool
\* failed and Windows lets go of it; not if the job was aborted, nor if it is the
\* working folder that Windows keeps.
PackFails ==
    /\ pc \in {"copy", "pack"}
    /\ Ended(at, IF row[at].cancel THEN "cancelled" ELSE "failed")
    /\ MayStay /\ snap' = [snap EXCEPT ![at] = Empty]
    /\ Over
    /\ UNCHANGED <<now, made, had, cut, crashes>>

Pack ==
    /\ pc = "pack" /\ ~row[at].cancel
    /\ archives' = archives \cup {at}
    /\ pc' = "packed"
    /\ UNCHANGED <<now, row, made, snap, at, todo, had, cut, crashes>>

\* Bug: what failed attempts have left is not looked for.
Bug_Superseded == In({"succeeded"}, row[at].f) \ {at}

\* Bug: the snapshots of the other schedules go as well.
Bug_AllSlots == {j \in Jobs : row[j] # None /\ row[j].status \notin {"pending", "running"}} \ {at}

Superseded == In({"succeeded", "failed", "cancelled"}, row[at].f) \ {at}

Prune ==
    /\ pc = "packed"
    /\ todo' = Superseded /\ pc' = "prune"
    /\ UNCHANGED <<now, row, made, archives, snap, at, had, cut, crashes>>

\* The newest first; one that Windows keeps ends the job.
Delete ==
    /\ pc = "prune" /\ todo # {}
    /\ \/ Gone(Latest(todo)) /\ todo' = todo \ {Latest(todo)}
          /\ UNCHANGED <<row, at, pc, cut>>
       \/ /\ Latest(todo) \in archives
          /\ Ended(at, IF row[at].cancel THEN "cancelled" ELSE "failed")
          /\ cut' = cut \cup {row[at].f} /\ Over
          /\ UNCHANGED <<archives, snap>>
    /\ UNCHANGED <<now, made, had, crashes>>

\* The handler is through; the queue looks whether it was to be cancelled.
Finish ==
    /\ pc = "prune" /\ todo = {}
    /\ IF row[at].cancel
       THEN Ended(at, "cancelled") /\ cut' = cut \cup {row[at].f} /\ UNCHANGED had
       ELSE Ended(at, "succeeded") /\ had' = had \cup {row[at].f} /\ cut' = cut \ {row[at].f}
    /\ Over
    /\ UNCHANGED <<now, made, archives, snap, crashes>>

-------------------------------------------------------------------------------
\* reconcileOrphans: nobody is at work on a job that runs.
Reconciled(t) == [j \in Jobs |-> IF t[j] # None /\ t[j].status = "running"
                                 THEN [t[j] EXCEPT !.status = "failed", !.cancel = FALSE]
                                 ELSE t[j]]

\* The panel ends, and starts again; a half-written archive stays.
Crash ==
    /\ crashes < MaxCrashes /\ crashes' = crashes + 1
    /\ row' = Reconciled(row) /\ Over
    /\ MayStay
    /\ cut' = IF pc = "prune" THEN cut \cup {row[at].f} ELSE cut
    /\ snap' = IF pc = "pack" THEN [snap EXCEPT ![at] = Empty] ELSE snap
    /\ UNCHANGED <<now, made, had>>

\* A restore, which is a job of the queue itself: the table of the archive takes
\* the place of the one that knows it to be a success.  The archives stay.
Restore(j) ==
    /\ at = None /\ Usable(j) /\ crashes < MaxCrashes /\ crashes' = crashes + 1
    /\ row' = Reconciled(snap[j])
    /\ had' = {}
    /\ UNCHANGED <<now, made, archives, snap, at, pc, todo, cut>>

Next == \/ Check \/ Tick
        \/ \E j \in Jobs : Cancel(j) \/ Remove(j) \/ Begin(j) \/ Restore(j)
        \/ Copy \/ PackFails \/ Pack \/ Prune \/ Delete \/ Finish
        \/ Crash

Spec == Init /\ [][Next]_vars

-------------------------------------------------------------------------------
(***************************************************************************)
(* Properties.                                                             *)
(***************************************************************************)
TypeOK == /\ now \in Times
          /\ row \in Table /\ made \in 0..MaxJobs
          /\ archives \in SUBSET Jobs /\ snap \in [Jobs -> Table]
          /\ at \in Jobs \cup {None} /\ pc \in {"idle", "copy", "pack", "packed", "prune"}
          /\ todo \in SUBSET Jobs
          /\ had \in SUBSET Frequencies /\ cut \in SUBSET Frequencies
          /\ crashes \in 0..MaxCrashes
          /\ (at = None) <=> (pc = "idle")
          /\ \A j \in Jobs : row[j] # None /\ row[j].status = "running" <=> at = j

\* "Keeps one snapshot per frequency" (service.ts:2265): of two jobs of one period,
\* at most one waits, runs or has succeeded.
OnePerPeriod == \A f \in Frequencies : \A i, j \in In({"pending", "running", "succeeded"}, f) :
                  row[i].period = row[j].period => i = j

\* "Retrying a few times [...] without looping forever on a permanent one"
\* (service.ts:88-90): of the jobs of one period that the table knows of, no more
\* than the limit have failed.  It is the table there is: a restore puts an older
\* one in its place, which may know of fewer.
FailuresLimited == \A f \in Frequencies : \A j \in In({"failed"}, f) :
    Cardinality({i \in In({"failed"}, f) : row[i].period = row[j].period}) <= Limit

\* "Minimum time between successful automatic snapshots of each frequency"
\* (service.ts:94), between those of which one was asked for after the other.
Spaced == \A f \in Frequencies : \A i, j \in In({"succeeded"}, f) :
    i < j /\ row[i].finished < row[j].created => row[j].created >= row[i].finished + Lengths[f]

\* "Without it a machine taking nightly snapshots of itself eventually fills its
\* own disk" (service.ts:2269-2270): once a snapshot is a success, nothing of an earlier
\* run of its schedule that the table knows of is left, whatever became of that.
OldGone == \A f \in Frequencies : \A j \in In({"succeeded"}, f) :
    \A i \in Attempts(f) : i < j => i \notin archives

\* A run is about to end, and has begun to remove what it replaces.
Replacing(f) == pc = "prune" /\ row[at].f = f

\* "The snapshot this slot holds, which the next successful run replaces"
\* (service.ts:2171): a schedule that has had a snapshot has one that can be
\* restored, unless a run was cut off after it had begun to remove, the owner
\* deleted it, or an older table came back.
SlotHeld == \A f \in had \ cut : Replacing(f) \/ \E j \in In({"succeeded"}, f) : Usable(j)
===============================================================================
