-------------------------- MODULE PanelBackupsProofs ---------------------------
(***************************************************************************)
(* That each schedule has at most one snapshot of a period, that failures  *)
(* are limited, successes apart, and what they supersede gone, for any     *)
(* frequencies, any number of jobs and any number of ends and restores.    *)
(*                                                                         *)
(* A restore may bring back any table that is in an archive, so what is    *)
(* said of the table of jobs has to be true of those in the archives too.  *)
(* That what an older table takes for superseded is gone follows from the  *)
(* histories: a table in the archive of a success knows of no success that *)
(* the current one does not, and the queue, first in, first out, begins    *)
(* nothing that was made before one of them.                               *)
(***************************************************************************)
EXTENDS PanelBackups, FiniteSetTheorems, WellFoundedInduction, TLAPS

Alive == {"pending", "running", "succeeded"}
Begun == {"running", "succeeded", "failed"}

\* Of a table t: two jobs of one period are not both alive.
One(t) == \A i, j \in Jobs :
    /\ t[i] # None /\ t[j] # None /\ t[i].f = t[j].f /\ t[i].period = t[j].period
    /\ t[i].status \in Alive /\ t[j].status \in Alive
    => i = j

\* Those that are alive or have failed are not more than the limit.
Tried(t, f, p) == {j \in Jobs : /\ t[j] # None /\ t[j].f = f /\ t[j].period = p
                                /\ t[j].status # "cancelled"}
Limited(t) == \A f \in Frequencies, p \in Nat : Cardinality(Tried(t, f, p)) <= Limit

\* Nothing was begun before what was made before it had ended.
InOrder(t) == \A i, j \in Jobs :
    i < j /\ t[i] # None /\ t[j] # None /\ t[i].status \in {"pending", "running"} => t[j].status \notin Begun

\* It knows nothing of what came after the time n and the job m.
Past(t, n, m) == \A j \in Jobs : t[j] # None => j <= m /\ t[j].created <= n /\ t[j].finished <= n

\* Successes end in their order, and what was made after one came an interval later.
Apart(t) == \A i, j \in Jobs :
    i < j /\ t[i] # None /\ t[j] # None /\ t[i].f = t[j].f /\ t[i].status = "succeeded" =>
        /\ t[j].status = "succeeded" => t[i].finished <= t[j].finished
        /\ t[i].finished < t[j].created => t[j].created >= t[i].finished + Lengths[t[i].f]

Sound(t, n, m) == One(t) /\ Limited(t) /\ InOrder(t) /\ Past(t, n, m) /\ Apart(t)

\* The successes it knows, and what they have superseded.
Success(t, j)    == t[j] # None /\ t[j].status = "succeeded"
NoneLeft(t)      == \A i, j \in Jobs : i < j /\ Success(t, j) /\ t[i] # None /\ t[i].f = t[j].f => i \notin archives

\* The tables a restore can lead to: of a success, of the job at work.
Held(x)   == (x = at /\ pc # "copy") \/ Success(row, x)
History   == /\ \A x, y \in Jobs : Held(x) /\ Success(snap[x], y) => Success(row, y)
             /\ \A x, y, z \in Jobs : Held(x) /\ Success(snap[x], y) /\ Success(snap[y], z) => Success(snap[x], z)
AllGone   == NoneLeft(row) /\ \A x \in Jobs : Held(x) => NoneLeft(snap[x])

\* What the job at work has packed, and has still to remove.
AtWork == /\ pc \in {"packed", "prune"} => at \in archives
          /\ pc # "prune" => todo = {}
          /\ \A i \in todo : row[i] # None /\ row[i].f = row[at].f /\ i # at
          /\ pc = "prune" => \A i \in Jobs :
                i < at /\ row[i] # None /\ row[i].f = row[at].f => i \in todo \/ i \notin archives

AllSound == Sound(row, now, made) /\ \A x \in Jobs : Sound(snap[x], now, made)

IInv == TypeOK /\ AllSound /\ History /\ AllGone /\ AtWork /\ SlotHeld

-------------------------------------------------------------------------------
(***************************************************************************)
(* Tables.                                                                 *)
(***************************************************************************)
LEMMA JobsFacts == /\ IsFiniteSet(Jobs) /\ Jobs \subseteq Nat /\ Times \subseteq Nat
                   /\ \A t \in Table, j \in Jobs : t[j] # None => t[j] \in Row
<1>1. IsFiniteSet(1..MaxJobs)
  BY FS_Interval, BackupsAssumption
<1> QED BY <1>1, BackupsAssumption DEF Jobs, Times, Table

\* The last of a set of jobs.
LEMMA LatestIs ==
    ASSUME NEW S \in SUBSET Jobs, S # {}
    PROVE  Latest(S) \in S /\ \A i \in S : i <= Latest(S)
<1> DEFINE left(j) == MaxJobs - j
           T       == {left(j) : j \in S}
<1>1. T \subseteq Nat /\ T # {}
  BY BackupsAssumption DEF Jobs
<1>2. PICK x \in T : \A y \in T : ~(<<y, x>> \in OpToRel(<, Nat))
  BY <1>1, NatLessThanWellFounded, WFMin
<1>3. \A y \in T : ~(y < x)
  BY <1>1, <1>2 DEF OpToRel
<1>4. PICK j \in S : x = left(j)
  OBVIOUS
<1>5. \A i \in S : i <= j
  <2> SUFFICES ASSUME NEW i \in S PROVE i <= j
    OBVIOUS
  <2>1. left(i) \in T
    OBVIOUS
  <2>2. ~(left(i) < left(j))
    BY <1>3, <1>4, <2>1
  <2>3. i \in Nat /\ j \in Nat /\ MaxJobs \in Nat
    BY JobsFacts, BackupsAssumption
  <2> QED BY <2>2, <2>3
<1> QED BY <1>5 DEF Latest

\* A table of the same jobs, of which none came to life and none that was
\* cancelled did anything else.
Same(t, u) == \A i \in Jobs :
    /\ u[i] = None <=> t[i] = None
    /\ t[i] # None => /\ u[i].f = t[i].f /\ u[i].period = t[i].period /\ u[i].created = t[i].created
                      /\ u[i].status \in Alive => t[i].status \in Alive
                      /\ t[i].status = "cancelled" => u[i].status = "cancelled"

LEMMA FewerTried ==
    ASSUME NEW S \in SUBSET Jobs, NEW T \in SUBSET S, Cardinality(S) <= Limit
    PROVE  Cardinality(T) <= Limit
<1>1. IsFiniteSet(S) /\ IsFiniteSet(T) /\ Cardinality(T) <= Cardinality(S)
  BY JobsFacts, FS_Subset
<1>2. Cardinality(S) \in Nat /\ Cardinality(T) \in Nat /\ Limit \in Nat
  BY <1>1, FS_CardinalityType, BackupsAssumption
<1> QED BY <1>1, <1>2

LEMMA SameKeeps ==
    ASSUME NEW t, NEW u, Same(t, u), One(t), Limited(t)
    PROVE  One(u) /\ Limited(u)
<1>1. One(u)
  BY DEF One, Same
<1>2. ASSUME NEW f \in Frequencies, NEW p \in Nat PROVE Cardinality(Tried(u, f, p)) <= Limit
  <2>1. Tried(u, f, p) \subseteq Tried(t, f, p) /\ Tried(t, f, p) \subseteq Jobs
    BY DEF Tried, Same
  <2> QED BY <2>1, FewerTried DEF Limited
<1> QED BY <1>1, <1>2 DEF Limited

\* One job ends, by a cancellation while it waits or by an outcome; or it is
\* only told to.
LEMMA EndSound ==
    ASSUME NEW t \in Table, NEW u \in Table, NEW n \in Nat, NEW m \in Nat, NEW j \in Jobs,
           Sound(t, n, m), t[j] # None, u[j] # None,
           \A i \in Jobs \ {j} : u[i] = t[i],
           u[j].f = t[j].f, u[j].period = t[j].period, u[j].created = t[j].created,
           u[j].finished <= n,
           \/ t[j].status = "pending" /\ u[j].status = "cancelled"
           \/ t[j].status = "running" /\ u[j].status \in {"succeeded", "failed", "cancelled"}
           \/ t[j].status \in {"pending", "running"} /\ u[j].status = t[j].status,
           u[j].status = "succeeded" => u[j].finished = n
    PROVE  Sound(u, n, m)
<1>1. Same(t, u)
  BY DEF Same, Alive
<1>2. One(u) /\ Limited(u)
  BY <1>1, SameKeeps DEF Sound
<1>3. InOrder(u)
  BY JobsFacts DEF Sound, InOrder, Begun
<1>4. Past(u, n, m)
  BY DEF Sound, Past
<1>5. Apart(u)
  <2> SUFFICES ASSUME NEW i \in Jobs, NEW k \in Jobs, i < k, u[i] # None, u[k] # None,
                      u[i].f = u[k].f, u[i].status = "succeeded"
               PROVE  /\ u[k].status = "succeeded" => u[i].finished <= u[k].finished
                      /\ u[i].finished < u[k].created => u[k].created >= u[i].finished + Lengths[u[i].f]
    BY DEF Apart
  <2>1. t[k] # None /\ t[k].created <= n /\ t[k].created = u[k].created /\ t[k].created \in Nat
    BY JobsFacts DEF Sound, Past, Row
  <2>2. t[i] # None /\ t[i].f = t[k].f /\ t[i].finished <= n
    BY <2>1 DEF Sound, Past
  <2>3. CASE i = j
    <3>1. u[i].finished = n /\ t[i].status = "running"
      BY <2>3
    <3>2. k # j /\ t[k].status \notin Begun
      BY <2>1, <2>2, <2>3, <3>1, JobsFacts DEF Sound, InOrder
    <3> QED BY <2>1, <3>1, <3>2 DEF Begun
  <2>4. CASE i # j
    <3>1. u[i] = t[i] /\ t[i].status = "succeeded"
      BY <2>4
    <3>2. t[i].finished < t[k].created => t[k].created >= t[i].finished + Lengths[t[i].f]
      BY <2>1, <2>2, <3>1 DEF Sound, Apart
    <3>3. CASE k = j
      BY <2>1, <2>2, <3>1, <3>2, <3>3
    <3>4. CASE k # j
      BY <2>1, <2>2, <3>1, <3>4 DEF Sound, Apart
    <3> QED BY <3>3, <3>4
  <2> QED BY <2>3, <2>4
<1> QED BY <1>2, <1>3, <1>4, <1>5 DEF Sound

\* The jobs that were at work have failed.
LEMMA ReconciledIs ==
    ASSUME NEW t \in Table
    PROVE  /\ Reconciled(t) \in Table
           /\ \A j \in Jobs :
                /\ Reconciled(t)[j] = None <=> t[j] = None
                /\ t[j] # None /\ t[j].status # "running" => Reconciled(t)[j] = t[j]
                /\ t[j] # None => /\ Reconciled(t)[j].f = t[j].f
                                  /\ Reconciled(t)[j].period = t[j].period
                                  /\ Reconciled(t)[j].created = t[j].created
                                  /\ Reconciled(t)[j].finished = t[j].finished
                /\ t[j] # None /\ t[j].status = "running" => Reconciled(t)[j].status = "failed"
<1> DEFINE r == Reconciled(t)
<1>1. ASSUME NEW j \in Jobs, t[j] # None, t[j].status = "running"
      PROVE  /\ r[j] \in Row /\ r[j] # None /\ r[j].f = t[j].f /\ r[j].period = t[j].period
             /\ r[j].created = t[j].created /\ r[j].finished = t[j].finished /\ r[j].status = "failed"
  <2>1. t[j] \in Row
    BY <1>1, JobsFacts
  <2>2. r[j] = [t[j] EXCEPT !.status = "failed", !.cancel = FALSE]
    BY <1>1 DEF Reconciled
  <2>3. r[j] \in Row
    BY <2>1, <2>2 DEF Row, Statuses
  <2> QED BY <2>1, <2>2, <2>3, BackupsAssumption DEF Row
<1>2. ASSUME NEW j \in Jobs, ~(t[j] # None /\ t[j].status = "running") PROVE r[j] = t[j]
  BY <1>2 DEF Reconciled
<1>3. \A j \in Jobs : r[j] \in Row \cup {None}
  BY <1>1, <1>2 DEF Table
<1>4. r = [j \in Jobs |-> r[j]]
  BY DEF Reconciled
<1>5. r \in Table
  BY <1>3, <1>4 DEF Table
<1> HIDE DEF r
<1> QED BY <1>1, <1>2, <1>5 DEF r

LEMMA ReconciledSound ==
    ASSUME NEW t \in Table, NEW n \in Nat, NEW m \in Nat, Sound(t, n, m)
    PROVE  Sound(Reconciled(t), n, m)
<1> DEFINE u == Reconciled(t)
<1>0. /\ u \in Table
      /\ \A j \in Jobs :
           /\ u[j] = None <=> t[j] = None
           /\ t[j] # None /\ t[j].status # "running" => u[j] = t[j]
           /\ t[j] # None => /\ u[j].f = t[j].f /\ u[j].period = t[j].period
                             /\ u[j].created = t[j].created /\ u[j].finished = t[j].finished
           /\ t[j] # None /\ t[j].status = "running" => u[j].status = "failed"
  BY ReconciledIs
<1> HIDE DEF u
<1>1. Same(t, u)
  BY <1>0 DEF Same, Alive
<1>2. One(u) /\ Limited(u)
  BY <1>1, SameKeeps DEF Sound
<1>3. InOrder(u)
  BY <1>0 DEF Sound, InOrder, Begun
<1>4. Past(u, n, m)
  BY <1>0 DEF Sound, Past
<1>5. Apart(u)
  BY <1>0 DEF Sound, Apart
<1> QED BY <1>2, <1>3, <1>4, <1>5 DEF Sound, u

\* The job that waits longest begins, with nobody at work.
LEMMA BeginSound ==
    ASSUME NEW t \in Table, NEW u \in Table, NEW n \in Nat, NEW m \in Nat, NEW j \in Jobs,
           Sound(t, n, m), t[j] # None, u[j] # None, t[j].status = "pending",
           \A i \in Jobs : t[i] # None => t[i].status # "running",
           \A i \in Jobs : t[i] # None /\ t[i].status = "pending" => j <= i,
           \A i \in Jobs \ {j} : u[i] = t[i],
           u[j].f = t[j].f, u[j].period = t[j].period, u[j].created = t[j].created,
           u[j].finished = t[j].finished, u[j].status = "running"
    PROVE  Sound(u, n, m)
<1>1. Same(t, u)
  BY DEF Same, Alive
<1>2. One(u) /\ Limited(u)
  BY <1>1, SameKeeps DEF Sound
<1>3. InOrder(u)
  <2> SUFFICES ASSUME NEW i \in Jobs, NEW k \in Jobs, i < k, u[i] # None, u[k] # None,
                      u[i].status \in {"pending", "running"}, u[k].status \in Begun
               PROVE  FALSE
    BY DEF InOrder
  <2>1. t[i] # None /\ t[i].status = "pending" /\ t[k] # None
    OBVIOUS
  <2>2. j <= i /\ k # j
    BY <2>1, JobsFacts
  <2> QED BY <2>1, <2>2 DEF Sound, InOrder
<1>4. Past(u, n, m)
  BY DEF Sound, Past
<1>5. Apart(u)
  BY DEF Sound, Apart
<1> QED BY <1>2, <1>3, <1>4, <1>5 DEF Sound

LEMMA EmptySound == ASSUME NEW n \in Nat, NEW m \in Nat PROVE Empty \in Table /\ Sound(Empty, n, m)
<1>1. Empty \in Table /\ \A j \in Jobs : Empty[j] = None
  BY DEF Empty, Table
<1>2. \A f, p : Tried(Empty, f, p) = {}
  BY <1>1 DEF Tried
<1>3. Limited(Empty)
  BY <1>2, FS_EmptySet, BackupsAssumption DEF Limited
<1> QED BY <1>1, <1>3 DEF Sound, One, InOrder, Past, Apart

\* Time passes, and more jobs are made.
LEMMA LaterSound ==
    ASSUME NEW t \in Table, NEW n \in Nat, NEW m \in Nat, NEW n2 \in Nat, NEW m2 \in Nat,
           n <= n2, m <= m2, Sound(t, n, m)
    PROVE  Sound(t, n2, m2)
<1>1. Past(t, n2, m2)
  <2> SUFFICES ASSUME NEW j \in Jobs, t[j] # None
               PROVE  j <= m2 /\ t[j].created <= n2 /\ t[j].finished <= n2
    BY DEF Past
  <2>1. j \in Nat /\ t[j].created \in Nat /\ t[j].finished \in Nat
    BY JobsFacts DEF Row
  <2>2. j <= m /\ t[j].created <= n /\ t[j].finished <= n
    BY DEF Sound, Past
  <2> QED BY <2>1, <2>2
<1> QED BY <1>1 DEF Sound

-------------------------------------------------------------------------------
(***************************************************************************)
(* The steps.                                                              *)
(***************************************************************************)
LEMMA InitHolds == Init => IInv
<1> SUFFICES ASSUME Init PROVE IInv
  OBVIOUS
<1>1. 0 \in Nat /\ now = 0 /\ made = 0 /\ row = Empty /\ (\A j \in Jobs : snap[j] = Empty)
  BY DEF Init
<1>2. Empty \in Table /\ Sound(Empty, 0, 0) /\ (\A j \in Jobs : Empty[j] = None)
  BY EmptySound DEF Empty
<1>3. TypeOK
  BY <1>1, <1>2, BackupsAssumption DEF Init, TypeOK, Times
<1>4. AllSound
  BY <1>1, <1>2 DEF AllSound
<1>5. History /\ AllGone
  BY <1>1, <1>2 DEF History, AllGone, Success, NoneLeft
<1>6. AtWork /\ SlotHeld
  BY DEF Init, AtWork, SlotHeld
<1> QED BY <1>3, <1>4, <1>5, <1>6 DEF IInv

\* What TypeOK says of a job and of the one at work.
LEMMA Sorts ==
    ASSUME IInv
    PROVE  /\ now \in Nat /\ made \in Nat /\ row \in Table /\ \A x \in Jobs : snap[x] \in Table
           /\ \A j \in Jobs : row[j] # None => row[j] \in Row
           /\ pc # "idle" => at \in Jobs /\ row[at] # None /\ row[at].status = "running"
           /\ \A j \in Jobs : row[j] # None /\ row[j].status = "running" => j = at /\ pc # "idle"
           /\ \A i \in Jobs : pc # "idle" /\ at < i /\ row[i] # None => row[i].status \notin Begun
           /\ \A i \in Jobs : pc # "idle" /\ i < at /\ row[i] # None =>
                 row[i].status \in {"succeeded", "failed", "cancelled"}
<1>1. /\ now \in Nat /\ made \in Nat /\ row \in Table /\ \A x \in Jobs : snap[x] \in Table
      /\ \A j \in Jobs : row[j] # None => row[j] \in Row
  <2>1. now \in Times /\ made \in 0..MaxJobs /\ row \in Table /\ snap \in [Jobs -> Table]
    BY DEF IInv, TypeOK
  <2>2. now \in Nat /\ made \in Nat
    BY <2>1, JobsFacts, BackupsAssumption
  <2>3. \A j \in Jobs : row[j] # None => row[j] \in Row
    BY <2>1, JobsFacts
  <2> QED BY <2>1, <2>2, <2>3
<1>2. pc # "idle" => at \in Jobs /\ row[at] # None /\ row[at].status = "running"
  BY DEF IInv, TypeOK
<1>3. \A j \in Jobs : row[j] # None /\ row[j].status = "running" => j = at /\ pc # "idle"
  BY BackupsAssumption DEF IInv, TypeOK
<1>4. InOrder(row)
  BY DEF IInv, AllSound, Sound
<1>5. \A i \in Jobs : pc # "idle" /\ at < i /\ row[i] # None => row[i].status \notin Begun
  BY <1>2, <1>4 DEF InOrder
<1>6. ASSUME NEW i \in Jobs, pc # "idle", i < at, row[i] # None
      PROVE  row[i].status \in {"succeeded", "failed", "cancelled"}
  <2>1. row[i].status \in Statuses
    BY <1>1, <1>6 DEF Row
  <2>2. row[i].status # "running"
    BY <1>2, <1>3, <1>6, JobsFacts
  <2>3. row[i].status # "pending"
    BY <1>2, <1>4, <1>6 DEF InOrder, Begun
  <2> QED BY <2>1, <2>2, <2>3 DEF Statuses
<1> QED BY <1>1, <1>2, <1>3, <1>5, <1>6

\* The end of a job changes its row, and no other.
LEMMA EndedDoes ==
    ASSUME IInv, NEW j \in Jobs, row[j] # None, NEW s \in Statuses, Ended(j, s), now' = now, made' = made,
           \/ row[j].status = "pending" /\ s = "cancelled"
           \/ row[j].status = "running" /\ s \in {"succeeded", "failed", "cancelled"}
    PROVE  /\ row' \in Table /\ Sound(row', now', made')
           /\ \A i \in Jobs \ {j} : row'[i] = row[i]
           /\ row'[j] # None /\ row'[j].f = row[j].f /\ row'[j].status = s
<1>1. row[j] \in Row /\ now \in Times
  BY Sorts DEF IInv, TypeOK
<1>2. \A i \in Jobs \ {j} : row'[i] = row[i]
  BY Sorts DEF Ended, Table
<1>3. /\ row'[j] \in Row /\ row'[j].f = row[j].f /\ row'[j].status = s
      /\ row'[j].period = row[j].period /\ row'[j].created = row[j].created
      /\ row'[j].finished = IF s = "succeeded" THEN now ELSE 0
  <2> DEFINE fin == IF s = "succeeded" THEN now ELSE 0
  <2>1. row'[j] = [row[j] EXCEPT !.status = s, !.cancel = FALSE, !.finished = fin]
    BY Sorts DEF Ended, Table
  <2>2. fin \in Times
    BY <1>1, BackupsAssumption DEF Times
  <2> HIDE DEF fin
  <2>3. row'[j] \in Row
    BY <1>1, <2>1, <2>2 DEF Row
  <2>4. row'[j].finished = fin
    BY <1>1, <2>1 DEF Row
  <2> QED BY <1>1, <2>1, <2>3, <2>4 DEF Row, fin
<1>4. row' \in Table
  <2>1. row' = [i \in Jobs |-> row'[i]]
    BY Sorts DEF Ended, Table
  <2>2. \A i \in Jobs : row'[i] \in Row \cup {None}
    BY <1>2, <1>3, Sorts DEF Table
  <2> QED BY <2>1, <2>2 DEF Table
<1>5. row'[j] # None
  BY <1>3, BackupsAssumption
<1>6. row'[j].finished <= now
  BY <1>1, <1>3, JobsFacts
<1>7. Sound(row, now, made)
  BY DEF IInv, AllSound
<1>8. Sound(row', now, made)
  BY <1>2, <1>3, <1>4, <1>5, <1>6, <1>7, Sorts, EndSound
<1> QED BY <1>2, <1>3, <1>4, <1>5, <1>8

\* A job that is at work, or was, may have left an archive: no success that any
\* table knows of was made after it.
LEMMA NoneLater ==
    ASSUME IInv, pc # "idle", NEW y \in Jobs, at < y
    PROVE  ~Success(row, y) /\ \A x \in Jobs : Held(x) => ~Success(snap[x], y)
<1>1. ~Success(row, y)
  BY Sorts DEF Success, Begun
<1> QED BY <1>1 DEF IInv, History

\* What a step that adds no success leaves of the invariant, with the tables in
\* the archives as they are or emptied.
LEMMA FewerHeld ==
    ASSUME IInv, \A y \in Jobs : Success(row, y)' <=> Success(row, y),
           \A y \in Jobs : row'[y] # None => row[y] # None /\ row'[y].f = row[y].f,
           \A x \in Jobs : snap'[x] = snap[x] \/ snap'[x] = Empty,
           \/ archives' \subseteq archives
           \/ pc # "idle" /\ archives' \subseteq archives \cup {at},
           at' = None \/ (at' = at /\ (pc = "copy" => pc' = "copy"))
    PROVE  History' /\ AllGone'
<1>1. \A x \in Jobs : Held(x)' => Held(x)
  BY BackupsAssumption DEF Held
<1>2. \A x, y \in Jobs : Success(snap[x], y)' => Success(snap[x], y) /\ snap'[x] = snap[x]
  BY DEF Success, Empty
<1>3. History'
  BY <1>1, <1>2 DEF IInv, History
<1>4. NoneLeft(row)'
  <2> SUFFICES ASSUME NEW i \in Jobs, NEW j \in Jobs, i < j, Success(row, j)', row'[i] # None,
                      row'[i].f = row'[j].f
               PROVE  i \notin archives'
    BY DEF NoneLeft, Success
  <2>1. Success(row, j) /\ row[i] # None /\ row[j] # None /\ row'[j] # None
    BY DEF Success
  <2>2. row[i].f = row[j].f
    BY <2>1
  <2>3. i \notin archives
    BY <2>1, <2>2 DEF IInv, AllGone, NoneLeft
  <2> QED BY <2>1, <2>3, NoneLater
<1>5. ASSUME NEW x \in Jobs, Held(x)' PROVE NoneLeft(snap[x])'
  <2> SUFFICES ASSUME NEW i \in Jobs, NEW j \in Jobs, i < j, Success(snap[x], j)', snap'[x][i] # None,
                      snap'[x][i].f = snap'[x][j].f
               PROVE  i \notin archives'
    BY DEF NoneLeft, Success
  <2>1. Held(x) /\ Success(snap[x], j) /\ snap'[x] = snap[x]
    BY <1>1, <1>2, <1>5
  <2>2. i \notin archives
    BY <2>1 DEF IInv, AllGone, NoneLeft
  <2> QED BY <2>1, <2>2, NoneLater
<1> QED BY <1>3, <1>4, <1>5 DEF AllGone

\* The tables in the archives, when none is added.
LEMMA StillSound ==
    ASSUME IInv, now' = now, made' = made, Sound(row', now, made),
           \A x \in Jobs : snap'[x] = snap[x] \/ snap'[x] = Empty
    PROVE  AllSound'
<1>1. Sound(Empty, now, made)
  BY Sorts, EmptySound
<1> QED BY <1>1 DEF IInv, AllSound

\* The archive of a job is gone.
LEMMA EmptiedIs ==
    ASSUME IInv, NEW j \in Jobs, snap' = [snap EXCEPT ![j] = Empty]
    PROVE  snap' \in [Jobs -> Table] /\ \A x \in Jobs : snap'[x] = snap[x] \/ snap'[x] = Empty
<1>1. Empty \in Table /\ snap \in [Jobs -> Table]
  BY Sorts, EmptySound DEF IInv, TypeOK
<1> QED BY <1>1

LEMMA TickKeeps == ASSUME IInv, Tick PROVE IInv'
<1> USE DEF Tick
<1>1. now' \in Times /\ now' \in Nat /\ now <= now'
  BY Sorts, BackupsAssumption DEF IInv, TypeOK, Times
<1>2. TypeOK'
  BY <1>1 DEF IInv, TypeOK
<1>3. AllSound'
  <2>1. \A t \in Table : Sound(t, now, made) => Sound(t, now', made')
    BY <1>1, Sorts, LaterSound
  <2> QED BY <2>1, Sorts DEF IInv, AllSound
<1>4. History' /\ AllGone'
  BY DEF IInv, History, AllGone, NoneLeft, Held, Success
<1>5. AtWork' /\ SlotHeld'
  BY DEF IInv, AtWork, SlotHeld, Replacing, In, Attempts, Usable
<1> QED BY <1>2, <1>3, <1>4, <1>5 DEF IInv

\* Who has a snapshot that can be restored.
HasOne(f) == \E j \in Jobs : Success(row, j) /\ row[j].f = f /\ j \in archives

LEMMA SlotsAre == /\ SlotHeld  <=> \A f \in had \ cut : Replacing(f) \/ HasOne(f)
                  /\ SlotHeld' <=> \A f \in had' \ cut' : Replacing(f)' \/ HasOne(f)'
<1>1. \A f : (\E j \in In({"succeeded"}, f) : Usable(j)) <=> HasOne(f)
  BY DEF In, Attempts, Usable, HasOne, Success
<1>2. \A f : (\E j \in In({"succeeded"}, f) : Usable(j))' <=> HasOne(f)'
  BY DEF In, Attempts, Usable, HasOne, Success
<1> QED BY <1>1, <1>2 DEF SlotHeld

\* A request to cancel changes nothing else of a row.
LEMMA MarkedRow ==
    ASSUME NEW r \in Row, NEW q, q = [r EXCEPT !.cancel = TRUE]
    PROVE  /\ q \in Row /\ q.f = r.f /\ q.period = r.period /\ q.created = r.created
           /\ q.status = r.status /\ q.finished = r.finished
<1>1. /\ r.f \in Frequencies /\ r.period \in Nat /\ r.created \in Times
      /\ r.status \in Statuses /\ r.finished \in Times
  BY DEF Row
<1>2. q = [f |-> r.f, period |-> r.period, created |-> r.created,
           status |-> r.status, finished |-> r.finished, cancel |-> TRUE]
  BY ZenonT(60) DEF Row
<1> QED BY <1>1, <1>2, TRUE \in BOOLEAN DEF Row

LEMMA CancelKeeps == ASSUME IInv, NEW j \in Jobs, Cancel(j) PROVE IInv'
<1>0. row[j] # None /\ UNCHANGED <<now, made, archives, snap, at, pc, todo, had, cut, crashes>>
  BY DEF Cancel
<1>1. /\ row' \in Table /\ Sound(row', now', made')
      /\ \A i \in Jobs \ {j} : row'[i] = row[i]
      /\ row'[j] # None /\ row'[j].f = row[j].f
      /\ \/ row[j].status = "pending" /\ row'[j].status = "cancelled"
         \/ row[j].status = "running" /\ row'[j].status = "running"
  <2>1. CASE row[j].status = "pending"
    <3>1. Ended(j, "cancelled") /\ "cancelled" \in Statuses
      BY <2>1 DEF Cancel, Statuses
    <3> QED BY <1>0, <2>1, <3>1, EndedDoes
  <2>2. CASE row[j].status = "running"
    <3>1. row' = [row EXCEPT ![j].cancel = TRUE] /\ row[j] \in Row
      BY <1>0, <2>2, Sorts DEF Cancel
    <3>2. \A i \in Jobs \ {j} : row'[i] = row[i]
      BY <3>1, Sorts DEF Table
    <3>3. row'[j] = [row[j] EXCEPT !.cancel = TRUE]
      BY <3>1, Sorts DEF Table
    <3>4. /\ row'[j] \in Row /\ row'[j].f = row[j].f /\ row'[j].period = row[j].period
          /\ row'[j].created = row[j].created /\ row'[j].status = row[j].status
          /\ row'[j].finished = row[j].finished
      BY <3>1, <3>3, MarkedRow
    <3>5. row' \in Table
      <4>1. row' = [i \in Jobs |-> row'[i]]
        BY <3>1, Sorts DEF Table
      <4>2. \A i \in Jobs : row'[i] \in Row \cup {None}
        BY <3>2, <3>4, Sorts DEF Table
      <4> QED BY <4>1, <4>2 DEF Table
    <3>6. row'[j] # None
      BY <3>4, BackupsAssumption
    <3>7. Sound(row, now, made) /\ row[j].finished <= now
      BY <1>0 DEF IInv, AllSound, Sound, Past
    <3>8. Sound(row', now, made)
      BY <1>0, <2>2, <3>2, <3>4, <3>5, <3>6, <3>7, Sorts, EndSound
    <3> QED BY <1>0, <2>2, <3>2, <3>4, <3>5, <3>6, <3>8
  <2> QED BY <2>1, <2>2 DEF Cancel
<1>2. TypeOK'
  BY <1>0, <1>1 DEF IInv, TypeOK
<1>3. AllSound'
  BY <1>0, <1>1 DEF IInv, AllSound
<1>4. \A y \in Jobs : Success(row, y)' <=> Success(row, y)
  BY <1>1 DEF Success
<1>5. \A y \in Jobs : (row'[y] # None <=> row[y] # None) /\ (row[y] # None => row'[y].f = row[y].f)
  BY <1>0, <1>1
<1>6. History' /\ AllGone'
  BY <1>0, <1>4, <1>5, FewerHeld
<1>7. AtWork'
  BY <1>0, <1>5, Sorts DEF IInv, AtWork, TypeOK
<1>8. \A f : HasOne(f)' <=> HasOne(f)
  BY <1>0, <1>4, <1>5 DEF HasOne, Success
<1>9. \A f : Replacing(f)' <=> Replacing(f)
  BY <1>0, <1>5, Sorts DEF Replacing
<1>10. SlotHeld'
  <2>1. \A f \in had \ cut : Replacing(f) \/ HasOne(f)
    BY SlotsAre DEF IInv
  <2>2. \A f \in had' \ cut' : Replacing(f)' \/ HasOne(f)'
    BY <1>0, <1>8, <1>9, <2>1
  <2> QED BY <2>2, SlotsAre
<1> QED BY <1>2, <1>3, <1>6, <1>7, <1>10 DEF IInv

LEMMA RemoveKeeps == ASSUME IInv, NEW j \in Jobs, Remove(j) PROVE IInv'
<1>0. /\ Success(row, j) /\ archives' = archives \ {j} /\ snap' = [snap EXCEPT ![j] = Empty]
      /\ had' = had \ {row[j].f} /\ UNCHANGED <<now, row, made, at, pc, todo, cut, crashes>>
  BY DEF Remove, Usable, Gone, Success
<1>1. snap' \in [Jobs -> Table] /\ \A x \in Jobs : snap'[x] = snap[x] \/ snap'[x] = Empty
  BY <1>0, EmptiedIs
<1>2. TypeOK'
  BY <1>0, <1>1 DEF IInv, TypeOK
<1>3. Sound(row', now, made)
  BY <1>0 DEF IInv, AllSound
<1>4. AllSound'
  BY <1>0, <1>1, <1>3, StillSound
<1>5. History' /\ AllGone'
  <2>1. \A y \in Jobs : Success(row, y)' <=> Success(row, y)
    BY <1>0 DEF Success
  <2> QED BY <1>0, <1>1, <2>1, FewerHeld
<1>6. AtWork'
  <2>1. pc # "idle" => at # j
    BY <1>0, Sorts DEF Success
  <2>2. AtWork
    BY DEF IInv
  <2> QED BY <1>0, <2>1, <2>2 DEF AtWork
<1>7. SlotHeld'
  <2> SUFFICES ASSUME NEW f \in had' \ cut' PROVE Replacing(f)' \/ HasOne(f)'
    BY SlotsAre
  <2>1. (Replacing(f) \/ HasOne(f)) /\ f # row[j].f
    BY <1>0, SlotsAre DEF IInv
  <2>2. CASE Replacing(f)
    BY <1>0, <2>2 DEF Replacing
  <2>3. CASE HasOne(f)
    <3>1. PICK i \in Jobs : Success(row, i) /\ row[i].f = f /\ i \in archives
      BY <2>3 DEF HasOne
    <3> QED BY <1>0, <2>1, <3>1 DEF HasOne, Success
  <2> QED BY <2>1, <2>2, <2>3
<1> QED BY <1>2, <1>4, <1>5, <1>6, <1>7 DEF IInv

LEMMA BeginKeeps == ASSUME IInv, NEW j \in Jobs, Begin(j) PROVE IInv'
<1>0. /\ at = None /\ row[j] # None /\ row[j].status = "pending"
      /\ \A i \in Jobs : row[i] # None /\ row[i].status = "pending" => j <= i
      /\ row' = [row EXCEPT ![j].status = "running"] /\ at' = j /\ pc' = "copy"
      /\ UNCHANGED <<now, made, archives, snap, todo, had, cut, crashes>>
  BY DEF Begin
<1>1. pc = "idle" /\ \A i \in Jobs : row[i] # None => row[i].status # "running"
  BY <1>0, Sorts DEF IInv, TypeOK
<1>2. \A i \in Jobs \ {j} : row'[i] = row[i]
  BY <1>0, Sorts DEF Table
<1>3. /\ row'[j] \in Row /\ row'[j].f = row[j].f /\ row'[j].period = row[j].period
      /\ row'[j].created = row[j].created /\ row'[j].finished = row[j].finished /\ row'[j].status = "running"
  <2>1. row'[j] = [row[j] EXCEPT !.status = "running"] /\ row[j] \in Row
    BY <1>0, Sorts DEF Table
  <2>2. row'[j] \in Row
    BY <2>1 DEF Row, Statuses
  <2> QED BY <2>1, <2>2 DEF Row
<1>4. row' \in Table /\ row'[j] # None
  <2>1. row' = [i \in Jobs |-> row'[i]]
    BY <1>0, Sorts DEF Table
  <2>2. \A i \in Jobs : row'[i] \in Row \cup {None}
    BY <1>2, <1>3, Sorts DEF Table
  <2> QED BY <1>3, <2>1, <2>2, BackupsAssumption DEF Table
<1>5. Sound(row', now, made)
  <2>1. Sound(row, now, made)
    BY DEF IInv, AllSound
  <2> QED BY <1>0, <1>1, <1>2, <1>3, <1>4, <2>1, Sorts, BeginSound
<1>6. TypeOK'
  <2>1. \A i \in Jobs : row'[i] # None /\ row'[i].status = "running" <=> at' = i
    BY <1>0, <1>1, <1>2, <1>3, <1>4
  <2> QED BY <1>0, <1>4, <2>1, BackupsAssumption DEF IInv, TypeOK
<1>7. AllSound'
  BY <1>0, <1>5 DEF IInv, AllSound
<1>8. \A y \in Jobs : Success(row', y) <=> Success(row, y)
  BY <1>0, <1>2, <1>3, <1>4 DEF Success
<1>9. \A x \in Jobs : Held(x)' => Held(x)
  BY <1>0, <1>8 DEF Held
<1>10. History'
  BY <1>0, <1>8, <1>9 DEF IInv, History
<1>11. AllGone'
  <2>1. NoneLeft(row)'
    <3> SUFFICES ASSUME NEW i \in Jobs, NEW k \in Jobs, i < k, Success(row', k), row'[i] # None,
                        row'[i].f = row'[k].f
                 PROVE  i \notin archives'
      BY DEF NoneLeft
    <3>1. Success(row, k) /\ row[i] # None /\ row[i].f = row[k].f
      BY <1>0, <1>2, <1>3, <1>8
    <3> QED BY <1>0, <3>1 DEF IInv, AllGone, NoneLeft
  <2> QED BY <1>0, <1>9, <2>1 DEF IInv, AllGone, NoneLeft
<1>12. AtWork'
  BY <1>0, <1>1 DEF IInv, AtWork
<1>13. SlotHeld'
  <2> SUFFICES ASSUME NEW f \in had' \ cut' PROVE HasOne(f)'
    BY SlotsAre
  <2>1. HasOne(f)
    BY <1>0, <1>1, SlotsAre DEF IInv, Replacing
  <2>2. PICK i \in Jobs : Success(row, i) /\ row[i].f = f /\ i \in archives
    BY <2>1 DEF HasOne
  <2> QED BY <1>0, <1>2, <1>3, <1>8, <2>2 DEF HasOne
<1> QED BY <1>6, <1>7, <1>10, <1>11, <1>12, <1>13 DEF IInv

\* The copy is sound because the table is: it knows of no success that the table
\* does not, and of the job at work as running.
LEMMA CopyKeeps == ASSUME IInv, Copy PROVE IInv'
<1>0. /\ pc = "copy" /\ snap' = [snap EXCEPT ![at] = row] /\ pc' = "pack"
      /\ UNCHANGED <<now, row, made, archives, at, todo, had, cut, crashes>>
  BY DEF Copy
<1>1. at \in Jobs /\ row[at].status = "running" /\ ~Success(row, at)
  BY <1>0, Sorts DEF Success
<1>2. snap' \in [Jobs -> Table] /\ snap'[at] = row /\ \A x \in Jobs \ {at} : snap'[x] = snap[x]
  BY <1>0, <1>1, Sorts DEF IInv, TypeOK
<1>3. TypeOK'
  BY <1>0, <1>2 DEF IInv, TypeOK
<1>4. AllSound'
  BY <1>0, <1>2 DEF IInv, AllSound
<1>5. \A y \in Jobs : (Success(row', y) <=> Success(row, y)) /\ (Success(row, y) => y # at)
  BY <1>0, <1>1 DEF Success
<1>6. \A x \in Jobs \ {at} : Held(x)' => Held(x) /\ snap'[x] = snap[x]
  BY <1>0, <1>2, <1>5 DEF Held
<1>7. History'
  <2> SUFFICES ASSUME NEW x \in Jobs, NEW y \in Jobs, Held(x)', Success(snap'[x], y)
               PROVE  /\ Success(row', y)
                      /\ \A z \in Jobs : Success(snap'[y], z) => Success(snap'[x], z)
    BY DEF History
  <2>1. CASE x = at
    <3>1. Success(row, y) /\ Held(y) /\ snap'[y] = snap[y]
      BY <1>2, <1>5, <2>1 DEF Held
    <3>2. \A z \in Jobs : Success(snap[y], z) => Success(row, z)
      BY <3>1 DEF IInv, History
    <3> QED BY <1>2, <1>5, <2>1, <3>1, <3>2
  <2>2. CASE x # at
    <3>1. Held(x) /\ Success(snap[x], y) /\ snap'[x] = snap[x]
      BY <1>6, <2>2
    <3>2. Success(row, y)
      BY <3>1 DEF IInv, History
    <3>3. snap'[y] = snap[y]
      BY <1>2, <1>5, <3>2
    <3> QED BY <1>5, <3>1, <3>2, <3>3 DEF IInv, History
  <2> QED BY <2>1, <2>2
<1>8. AllGone'
  <2>1. NoneLeft(row)'
    BY <1>0 DEF IInv, AllGone, NoneLeft
  <2>2. NoneLeft(snap[at])'
    BY <1>0, <1>2, <2>1 DEF NoneLeft
  <2>3. \A x \in Jobs \ {at} : Held(x)' => NoneLeft(snap[x])'
    BY <1>0, <1>6 DEF IInv, AllGone, NoneLeft
  <2> QED BY <1>0, <2>1, <2>2, <2>3 DEF AllGone
<1>9. AtWork'
  BY <1>0 DEF IInv, AtWork
<1>10. SlotHeld'
  BY <1>0 DEF IInv, SlotHeld, Replacing, In, Attempts, Usable
<1> QED BY <1>3, <1>4, <1>7, <1>8, <1>9, <1>10 DEF IInv

\* The job at work ends without success: what it leaves of the invariant, if
\* what it had begun to remove is excused.
LEMMA FailureKeeps ==
    ASSUME IInv, pc # "idle", NEW s \in {"failed", "cancelled"}, Ended(at, s), Over,
           now' = now, made' = made, had' = had, crashes' = crashes,
           archives' \in {archives, archives \cup {at}},
           snap' \in [Jobs -> Table], \A x \in Jobs : snap'[x] = snap[x] \/ snap'[x] = Empty,
           cut' \in {cut, cut \cup {row[at].f}},
           pc = "prune" => cut' = cut \cup {row[at].f}
    PROVE  IInv'
<1>1. s \in Statuses /\ at \in Jobs /\ row[at] # None /\ row[at].status = "running" /\ at' = None
      /\ pc' = "idle" /\ todo' = {}
  BY Sorts DEF Statuses, Over
<1>2. /\ row' \in Table /\ Sound(row', now', made')
      /\ \A i \in Jobs \ {at} : row'[i] = row[i]
      /\ row'[at] # None /\ row'[at].f = row[at].f /\ row'[at].status = s
  BY <1>1, EndedDoes
<1>3. TypeOK'
  <2>1. \A i \in Jobs : row'[i] # None /\ row'[i].status = "running" <=> at' = i
    BY <1>1, <1>2, Sorts, BackupsAssumption
  <2>2. archives' \in SUBSET Jobs
    BY <1>1 DEF IInv, TypeOK
  <2>3. cut' \in SUBSET Frequencies
    BY <1>1, Sorts DEF IInv, TypeOK, Row
  <2> QED BY <1>1, <1>2, <2>1, <2>2, <2>3 DEF IInv, TypeOK
<1>4. AllSound'
  BY <1>2, StillSound
<1>5. \A y \in Jobs : Success(row, y)' <=> Success(row, y)
  BY <1>1, <1>2 DEF Success
<1>6. \A y \in Jobs : row'[y] # None => row[y] # None /\ row'[y].f = row[y].f
  BY <1>1, <1>2
<1>7. History' /\ AllGone'
  BY <1>1, <1>5, <1>6, FewerHeld
<1>8. AtWork'
  BY <1>1 DEF AtWork
<1>9. SlotHeld'
  <2> SUFFICES ASSUME NEW f \in had' \ cut' PROVE HasOne(f)'
    BY SlotsAre
  <2>1. HasOne(f)
    BY SlotsAre DEF IInv, Replacing
  <2>2. PICK i \in Jobs : Success(row, i) /\ row[i].f = f /\ i \in archives
    BY <2>1 DEF HasOne
  <2>3. row'[i].f = f /\ i \in archives'
    BY <1>5, <1>6, <2>2 DEF Success
  <2> QED BY <1>5, <2>2, <2>3 DEF HasOne
<1> QED BY <1>3, <1>4, <1>7, <1>8, <1>9 DEF IInv

LEMMA PackFailsKeeps == ASSUME IInv, PackFails PROVE IInv'
<1>1. /\ pc \in {"copy", "pack"} /\ snap' = [snap EXCEPT ![at] = Empty] /\ Over
      /\ UNCHANGED <<now, made, had, cut, crashes>>
  BY DEF PackFails
<1>2. PICK s \in {"failed", "cancelled"} : Ended(at, s)
  BY DEF PackFails
<1>3. archives' \in {archives, archives \cup {at}} /\ pc # "idle" /\ at \in Jobs
  BY <1>1, Sorts DEF PackFails, MayStay
<1>4. snap' \in [Jobs -> Table] /\ \A x \in Jobs : snap'[x] = snap[x] \/ snap'[x] = Empty
  BY <1>1, <1>3, EmptiedIs
<1> QED BY <1>1, <1>2, <1>3, <1>4, FailureKeeps

LEMMA PackKeeps == ASSUME IInv, Pack PROVE IInv'
<1>0. /\ pc = "pack" /\ archives' = archives \cup {at} /\ pc' = "packed"
      /\ UNCHANGED <<now, row, made, snap, at, todo, had, cut, crashes>>
  BY DEF Pack
<1>1. TypeOK'
  BY <1>0, Sorts DEF IInv, TypeOK
<1>2. AllSound'
  BY <1>0 DEF IInv, AllSound
<1>3. History' /\ AllGone'
  <2>1. \A y \in Jobs : Success(row, y)' <=> Success(row, y)
    BY <1>0 DEF Success
  <2> QED BY <1>0, <2>1, FewerHeld
<1>4. AtWork'
  BY <1>0 DEF IInv, AtWork
<1>5. SlotHeld'
  <2> SUFFICES ASSUME NEW f \in had' \ cut' PROVE HasOne(f)'
    BY SlotsAre
  <2>1. HasOne(f)
    BY <1>0, SlotsAre DEF IInv, Replacing
  <2> QED BY <1>0, <2>1 DEF HasOne, Success
<1> QED BY <1>1, <1>2, <1>3, <1>4, <1>5 DEF IInv

LEMMA PruneKeeps == ASSUME IInv, Prune PROVE IInv'
<1>0. /\ pc = "packed" /\ todo' = Superseded /\ pc' = "prune"
      /\ UNCHANGED <<now, row, made, archives, snap, at, had, cut, crashes>>
  BY DEF Prune
<1>1. \A i \in Jobs : i \in Superseded <=> /\ row[i] # None /\ row[i].f = row[at].f /\ i # at
                                           /\ row[i].status \in {"succeeded", "failed", "cancelled"}
  BY DEF Superseded, In, Attempts
<1>2. TypeOK'
  <2>1. Superseded \in SUBSET Jobs
    BY DEF Superseded, In, Attempts
  <2> QED BY <1>0, <2>1 DEF IInv, TypeOK
<1>3. AllSound'
  BY <1>0 DEF IInv, AllSound
<1>4. History' /\ AllGone'
  <2>1. \A y \in Jobs : Success(row, y)' <=> Success(row, y)
    BY <1>0 DEF Success
  <2> QED BY <1>0, <2>1, FewerHeld
<1>5. AtWork'
  <2>1. at \in archives
    BY <1>0 DEF IInv, AtWork
  <2>2. \A i \in Superseded : i \in Jobs /\ row[i] # None /\ row[i].f = row[at].f /\ i # at
    BY <1>1 DEF Superseded, In, Attempts
  <2>3. ASSUME NEW i \in Jobs, i < at, row[i] # None, row[i].f = row[at].f PROVE i \in Superseded
    BY <1>0, <1>1, <2>3, Sorts, JobsFacts
  <2> QED BY <1>0, <2>1, <2>2, <2>3 DEF AtWork
<1>6. SlotHeld'
  <2> SUFFICES ASSUME NEW f \in had' \ cut' PROVE HasOne(f)'
    BY SlotsAre
  <2>1. HasOne(f)
    BY <1>0, SlotsAre DEF IInv, Replacing
  <2> QED BY <1>0, <2>1 DEF HasOne, Success
<1> QED BY <1>2, <1>3, <1>4, <1>5, <1>6 DEF IInv

LEMMA DeleteKeeps == ASSUME IInv, Delete PROVE IInv'
<1> DEFINE l == Latest(todo)
<1>0. pc = "prune" /\ todo # {} /\ UNCHANGED <<now, made, had, crashes>>
  BY DEF Delete
<1>1. l \in todo /\ l \in Jobs /\ l # at /\ row[l] # None /\ row[l].f = row[at].f
  BY <1>0, LatestIs DEF IInv, TypeOK, AtWork
<1> HIDE DEF l
<1>2. CASE Gone(l) /\ todo' = todo \ {l} /\ UNCHANGED <<row, at, pc, cut>>
  <2>1. archives' = archives \ {l} /\ snap' = [snap EXCEPT ![l] = Empty]
    BY <1>2 DEF Gone
  <2>2. snap' \in [Jobs -> Table] /\ \A x \in Jobs : snap'[x] = snap[x] \/ snap'[x] = Empty
    BY <1>1, <2>1, EmptiedIs
  <2>3. TypeOK'
    BY <1>0, <1>2, <2>1, <2>2 DEF IInv, TypeOK
  <2>4. Sound(row', now, made)
    BY <1>2 DEF IInv, AllSound
  <2>5. AllSound'
    BY <1>0, <2>2, <2>4, StillSound
  <2>6. History' /\ AllGone'
    <3>1. \A y \in Jobs : Success(row, y)' <=> Success(row, y)
      BY <1>2 DEF Success
    <3> QED BY <1>2, <2>1, <2>2, <3>1, FewerHeld
  <2>7. AtWork'
    BY <1>0, <1>1, <1>2, <2>1 DEF IInv, AtWork
  <2>8. SlotHeld'
    <3> SUFFICES ASSUME NEW f \in had' \ cut', ~Replacing(f)' PROVE HasOne(f)'
      BY SlotsAre
    <3>1. HasOne(f) /\ f # row[at].f
      BY <1>0, <1>2, SlotsAre DEF IInv, Replacing
    <3>2. PICK i \in Jobs : Success(row, i) /\ row[i].f = f /\ i \in archives
      BY <3>1 DEF HasOne
    <3> QED BY <1>1, <1>2, <2>1, <3>1, <3>2 DEF HasOne, Success
  <2> QED BY <2>3, <2>5, <2>6, <2>7, <2>8 DEF IInv
<1>3. CASE /\ Ended(at, IF row[at].cancel THEN "cancelled" ELSE "failed")
           /\ cut' = cut \cup {row[at].f} /\ Over
           /\ UNCHANGED <<archives, snap>>
  <2>1. PICK s \in {"failed", "cancelled"} : Ended(at, s)
    BY <1>3
  <2>2. snap' \in [Jobs -> Table] /\ \A x \in Jobs : snap'[x] = snap[x] \/ snap'[x] = Empty
    BY <1>3 DEF IInv, TypeOK
  <2> QED BY <1>0, <1>3, <2>1, <2>2, FailureKeeps
<1> QED BY <1>2, <1>3 DEF Delete, l

LEMMA FinishKeeps == ASSUME IInv, Finish PROVE IInv'
<1>0. pc = "prune" /\ todo = {} /\ Over /\ UNCHANGED <<now, made, archives, snap, crashes>>
  BY DEF Finish
<1>1. CASE Ended(at, "cancelled") /\ cut' = cut \cup {row[at].f} /\ UNCHANGED had
  <2>1. snap' \in [Jobs -> Table] /\ \A x \in Jobs : snap'[x] = snap[x] \/ snap'[x] = Empty
    BY <1>0 DEF IInv, TypeOK
  <2> QED BY <1>0, <1>1, <2>1, FailureKeeps
<1>2. CASE Ended(at, "succeeded") /\ had' = had \cup {row[at].f} /\ cut' = cut \ {row[at].f}
  <2>1. "succeeded" \in Statuses /\ at \in Jobs /\ row[at] # None /\ row[at].status = "running" /\ at' = None
        /\ pc' = "idle" /\ todo' = {}
    BY <1>0, Sorts DEF Statuses, Over
  <2>2. /\ row' \in Table /\ Sound(row', now', made')
        /\ \A i \in Jobs \ {at} : row'[i] = row[i]
        /\ row'[at] # None /\ row'[at].f = row[at].f /\ row'[at].status = "succeeded"
    BY <1>0, <1>2, <2>1, EndedDoes
  <2>3. TypeOK'
    <3>1. \A i \in Jobs : row'[i] # None /\ row'[i].status = "running" <=> at' = i
      BY <2>1, <2>2, Sorts, BackupsAssumption
    <3>2. had' \in SUBSET Frequencies /\ cut' \in SUBSET Frequencies
      BY <1>2, <2>1, Sorts DEF IInv, TypeOK, Row
    <3> QED BY <1>0, <2>1, <2>2, <3>1, <3>2 DEF IInv, TypeOK
  <2>4. AllSound'
    BY <1>0, <2>2, StillSound
  <2>5. \A y \in Jobs : Success(row', y) <=> y = at \/ Success(row, y)
    BY <2>1, <2>2 DEF Success
  <2>6. \A x \in Jobs : Held(x)' => Held(x)
    BY <1>0, <2>1, <2>5, BackupsAssumption DEF Held
  <2>7. History'
    BY <1>0, <2>5, <2>6 DEF IInv, History
  <2>8. NoneLeft(row)'
    <3> SUFFICES ASSUME NEW i \in Jobs, NEW j \in Jobs, i < j, Success(row', j), row'[i] # None,
                        row'[i].f = row'[j].f
                 PROVE  i \notin archives'
      BY DEF NoneLeft
    <3>1. row[i] # None /\ row[i].f = row[j].f
      BY <2>1, <2>2
    <3>2. CASE j = at
      BY <1>0, <3>1, <3>2 DEF IInv, AtWork
    <3>3. CASE j # at
      BY <1>0, <2>5, <3>1, <3>3 DEF IInv, AllGone, NoneLeft
    <3> QED BY <3>2, <3>3
  <2>9. AllGone'
    BY <1>0, <2>6, <2>8 DEF IInv, AllGone, NoneLeft
  <2>10. AtWork'
    BY <2>1 DEF AtWork
  <2>11. SlotHeld'
    <3> SUFFICES ASSUME NEW f \in had' \ cut' PROVE HasOne(f)'
      BY SlotsAre
    <3>1. CASE f = row[at].f
      BY <1>0, <2>1, <2>2, <2>5, <3>1 DEF IInv, AtWork, HasOne
    <3>2. CASE f # row[at].f
      <4>1. HasOne(f)
        BY <1>2, <3>2, SlotsAre DEF IInv, Replacing
      <4>2. PICK i \in Jobs : Success(row, i) /\ row[i].f = f /\ i \in archives
        BY <4>1 DEF HasOne
      <4> QED BY <1>0, <2>2, <2>5, <3>2, <4>2 DEF HasOne
    <3> QED BY <3>1, <3>2
  <2> QED BY <2>3, <2>4, <2>7, <2>9, <2>10, <2>11 DEF IInv
<1> QED BY <1>1, <1>2 DEF Finish

LEMMA CrashKeeps == ASSUME IInv, Crash PROVE IInv'
<1>0. /\ crashes < MaxCrashes /\ crashes' = crashes + 1 /\ row' = Reconciled(row)
      /\ at' = None /\ pc' = "idle" /\ todo' = {}
      /\ archives' \in {archives, IF pc = "pack" THEN archives \cup {at} ELSE archives}
      /\ cut' = IF pc = "prune" THEN cut \cup {row[at].f} ELSE cut
      /\ snap' = IF pc = "pack" THEN [snap EXCEPT ![at] = Empty] ELSE snap
      /\ UNCHANGED <<now, made, had>>
  BY DEF Crash, MayStay, Over
<1>1. /\ row' \in Table
      /\ \A j \in Jobs :
           /\ row'[j] = None <=> row[j] = None
           /\ row[j] # None /\ row[j].status # "running" => row'[j] = row[j]
           /\ row[j] # None => row'[j].f = row[j].f
           /\ row[j] # None /\ row[j].status = "running" => row'[j].status = "failed"
  BY <1>0, Sorts, ReconciledIs
<1>2. snap' \in [Jobs -> Table] /\ \A x \in Jobs : snap'[x] = snap[x] \/ snap'[x] = Empty
  <2>1. CASE pc = "pack"
    BY <1>0, <2>1, Sorts, EmptiedIs
  <2>2. CASE pc # "pack"
    BY <1>0, <2>2 DEF IInv, TypeOK
  <2> QED BY <2>1, <2>2
<1>3. TypeOK'
  <2>1. \A i \in Jobs : row'[i] # None /\ row'[i].status = "running" <=> at' = i
    BY <1>0, <1>1, BackupsAssumption
  <2>2. archives' \in SUBSET Jobs
    BY <1>0, Sorts DEF IInv, TypeOK
  <2>3. cut' \in SUBSET Frequencies
    BY <1>0, Sorts DEF IInv, TypeOK, Row
  <2>4. crashes' \in 0..MaxCrashes
    BY <1>0, BackupsAssumption DEF IInv, TypeOK
  <2> QED BY <1>0, <1>1, <1>2, <2>1, <2>2, <2>3, <2>4 DEF IInv, TypeOK
<1>4. AllSound'
  <2>1. Sound(row', now, made)
    BY <1>0, Sorts, ReconciledSound DEF IInv, AllSound
  <2> QED BY <1>0, <1>2, <2>1, StillSound
<1>5. \A y \in Jobs : Success(row, y)' <=> Success(row, y)
  BY <1>1 DEF Success
<1>6. History' /\ AllGone'
  <2>1. \/ archives' \subseteq archives
        \/ pc # "idle" /\ archives' \subseteq archives \cup {at}
    BY <1>0
  <2> QED BY <1>0, <1>1, <1>2, <1>5, <2>1, FewerHeld
<1>7. AtWork'
  BY <1>0 DEF AtWork
<1>8. SlotHeld'
  <2> SUFFICES ASSUME NEW f \in had' \ cut' PROVE HasOne(f)'
    BY SlotsAre
  <2>1. HasOne(f)
    BY <1>0, SlotsAre DEF IInv, Replacing
  <2>2. PICK i \in Jobs : Success(row, i) /\ row[i].f = f /\ i \in archives
    BY <2>1 DEF HasOne
  <2>3. row'[i].f = f /\ i \in archives'
    BY <1>0, <1>1, <2>2 DEF Success
  <2> QED BY <1>5, <2>2, <2>3 DEF HasOne
<1> QED BY <1>3, <1>4, <1>6, <1>7, <1>8 DEF IInv

LEMMA RestoreKeeps == ASSUME IInv, NEW j \in Jobs, Restore(j) PROVE IInv'
<1>0. /\ at = None /\ Success(row, j) /\ crashes < MaxCrashes /\ crashes' = crashes + 1
      /\ row' = Reconciled(snap[j]) /\ had' = {}
      /\ UNCHANGED <<now, made, archives, snap, at, pc, todo, cut>>
  BY DEF Restore, Usable, Success
<1>1. pc = "idle" /\ Held(j) /\ snap[j] \in Table
  BY <1>0, Sorts DEF IInv, TypeOK, Held
<1>2. /\ row' \in Table
      /\ \A x \in Jobs :
           /\ row'[x] = None <=> snap[j][x] = None
           /\ snap[j][x] # None /\ snap[j][x].status # "running" => row'[x] = snap[j][x]
           /\ snap[j][x] # None => row'[x].f = snap[j][x].f
           /\ snap[j][x] # None /\ snap[j][x].status = "running" => row'[x].status = "failed"
  BY <1>0, <1>1, ReconciledIs
<1>3. TypeOK'
  <2>1. \A i \in Jobs : row'[i] # None /\ row'[i].status = "running" <=> at' = i
    BY <1>0, <1>2, BackupsAssumption
  <2>2. crashes' \in 0..MaxCrashes
    BY <1>0, BackupsAssumption DEF IInv, TypeOK
  <2> QED BY <1>0, <1>2, <2>1, <2>2 DEF IInv, TypeOK
<1>4. AllSound'
  <2>1. Sound(row', now, made)
    BY <1>0, <1>1, Sorts, ReconciledSound DEF IInv, AllSound
  <2> QED BY <1>0, <2>1, StillSound
<1>5. \A y \in Jobs : Success(row', y) <=> Success(snap[j], y)
  BY <1>2 DEF Success
<1>6. \A x \in Jobs : Held(x)' => Success(snap[j], x) /\ Held(x)
  <2> SUFFICES ASSUME NEW x \in Jobs, Held(x)' PROVE Success(snap[j], x) /\ Held(x)
    OBVIOUS
  <2>1. Success(snap[j], x)
    BY <1>0, <1>5, BackupsAssumption DEF Held
  <2>2. Success(row, x)
    BY <1>1, <2>1 DEF IInv, History
  <2> QED BY <2>1, <2>2 DEF Held
<1>7. History'
  <2> SUFFICES ASSUME NEW x \in Jobs, NEW y \in Jobs, Held(x)', Success(snap[x], y)
               PROVE  /\ Success(row', y)
                      /\ \A z \in Jobs : Success(snap[y], z) => Success(snap[x], z)
    BY <1>0 DEF History
  <2>1. Held(x) /\ Success(snap[j], x)
    BY <1>6
  <2>2. Success(snap[j], y)
    BY <1>1, <2>1 DEF IInv, History
  <2> QED BY <1>5, <2>1, <2>2 DEF IInv, History
<1>8. AllGone'
  <2>1. NoneLeft(snap[j])
    BY <1>1 DEF IInv, AllGone
  <2>2. NoneLeft(row)'
    <3> SUFFICES ASSUME NEW i \in Jobs, NEW k \in Jobs, i < k, Success(row', k), row'[i] # None,
                        row'[i].f = row'[k].f
                 PROVE  i \notin archives'
      BY DEF NoneLeft
    <3>1. Success(snap[j], k) /\ snap[j][i] # None /\ snap[j][k] # None
      BY <1>2, <1>5 DEF Success
    <3>2. snap[j][i].f = snap[j][k].f
      BY <1>2, <3>1
    <3> QED BY <1>0, <2>1, <3>1, <3>2 DEF NoneLeft
  <2> QED BY <1>0, <1>6, <2>2 DEF IInv, AllGone, NoneLeft
<1>9. AtWork'
  BY <1>0, <1>1 DEF IInv, AtWork
<1>10. SlotHeld'
  BY <1>0, SlotsAre
<1> QED BY <1>3, <1>4, <1>7, <1>8, <1>9, <1>10 DEF IInv

\* What the scheduler takes for due.
LEMMA DueMeans ==
    ASSUME IInv, NEW f \in Frequencies, Due(f)
    PROVE  /\ \A i \in Jobs : row[i] # None /\ row[i].f = f /\ row[i].period = Period(f, now) =>
                 row[i].status \notin Alive
           /\ ~(Cardinality(Tried(row, f, Period(f, now))) >= Limit)
           /\ \A i \in Jobs : Success(row, i) /\ row[i].f = f => now >= row[i].finished + Lengths[f]
<1> DEFINE here(s) == {i \in In(s, f) : row[i].period = Period(f, now)}
<1>1. here(Alive) = {} /\ ~(Cardinality(here({"failed"})) >= Limit)
  BY DEF Due, Settled, Alive
<1>2. \A i \in Jobs : row[i] # None /\ row[i].f = f /\ row[i].period = Period(f, now) =>
        row[i].status \notin Alive
  BY <1>1 DEF In, Attempts
<1>3. Tried(row, f, Period(f, now)) = here({"failed"})
  <2>1. \A i \in Jobs : row[i] # None => row[i].status \in Alive \cup {"failed", "cancelled"}
    BY Sorts DEF Row, Statuses, Alive
  <2> QED BY <1>2, <2>1 DEF Tried, In, Attempts
<1>4. ASSUME NEW i \in Jobs, Success(row, i), row[i].f = f PROVE now >= row[i].finished + Lengths[f]
  <2> DEFINE S == In({"succeeded"}, f)
             l == Latest(S)
  <2>1. S \in SUBSET Jobs /\ i \in S
    BY <1>4 DEF Success, In, Attempts
  <2>2. l \in S /\ i <= l
    BY <2>1, LatestIs
  <2>3. now >= row[l].finished + Lengths[f]
    BY <2>1 DEF Due, NextAt
  <2>4. l \in Jobs /\ row[l] # None /\ row[l].f = f /\ row[l].status = "succeeded"
    BY <2>2 DEF In, Attempts
  <2> HIDE DEF l
  <2>5. row[i].finished <= row[l].finished
    <3>1. CASE i < l
      BY <1>4, <2>4, <3>1 DEF Success, IInv, AllSound, Sound, Apart
    <3>2. CASE i = l
      <4>1. row[i].finished \in Nat
        BY <1>4, Sorts, JobsFacts DEF Success, Row
      <4> QED BY <3>2, <4>1
    <3> QED BY <2>2, <2>4, <3>1, <3>2, JobsFacts
  <2>6. row[i].finished \in Nat /\ row[l].finished \in Nat /\ Lengths[f] \in Nat /\ now \in Nat
    BY <1>4, <2>4, Sorts, JobsFacts, BackupsAssumption DEF Success, Row
  <2> QED BY <2>3, <2>5, <2>6
<1> QED BY <1>1, <1>2, <1>3, <1>4

\* A new table of which each new row is that of a frequency that is due.
LEMMA CheckIs ==
    ASSUME IInv, Check
    PROVE  \E due \in SUBSET Frequencies, k \in [Frequencies -> Nat] :
             /\ made' \in 0..MaxJobs /\ made <= made'
             /\ \A f \in due : Due(f) /\ k[f] > made /\ k[f] <= made'
             /\ row' \in Table
             /\ \A j \in Jobs :
                  \/ row'[j] = row[j]
                  \/ /\ row[j] = None /\ row'[j] # None /\ j > made
                     /\ row'[j].f \in due /\ j = k[row'[j].f]
                     /\ row'[j].period = Period(row'[j].f, now)
                     /\ row'[j].created = now /\ row'[j].status = "pending"
                     /\ row'[j].finished = 0
<1>1. PICK enabled \in SUBSET Frequencies :
        LET due     == {f \in enabled : Due(f)}
            rank(f) == Cardinality({g \in due : g <= f})
        IN  /\ due # {} /\ made + Cardinality(due) <= MaxJobs
            /\ row' = [j \in Jobs |->
                         IF \E f \in due : j = made + rank(f)
                         THEN LET f == CHOOSE f \in due : j = made + rank(f)
                              IN  [f |-> f, period |-> Period(f, now), created |-> now,
                                   status |-> "pending", finished |-> 0, cancel |-> FALSE]
                         ELSE row[j]]
            /\ made' = made + Cardinality(due)
  BY DEF Check
<1> DEFINE due     == {f \in enabled : Due(f)}
           rank(f) == Cardinality({g \in due : g <= f})
           k       == [f \in Frequencies |-> made + rank(f)]
           the(j)  == CHOOSE f \in due : j = made + rank(f)
           new(f)  == [f |-> f, period |-> Period(f, now), created |-> now,
                       status |-> "pending", finished |-> 0, cancel |-> FALSE]
<1>2. /\ made + Cardinality(due) <= MaxJobs /\ made' = made + Cardinality(due)
      /\ row' = [j \in Jobs |-> IF \E f \in due : j = made + rank(f) THEN new(the(j)) ELSE row[j]]
  BY <1>1
<1>3. IsFiniteSet(due) /\ Cardinality(due) \in Nat /\ due \subseteq Nat /\ due \subseteq Frequencies
  BY BackupsAssumption, FS_Subset, FS_CardinalityType
<1> HIDE DEF due
<1>4. \A f : rank(f) \in Nat /\ rank(f) <= Cardinality(due)
  BY <1>3, FS_Subset, FS_CardinalityType
<1>5. ASSUME NEW f \in due PROVE rank(f) > 0
  <2>1. f \in {g \in due : g <= f} /\ {g \in due : g <= f} \subseteq due
    BY <1>3
  <2>2. rank(f) # 0
    BY <1>3, <2>1, FS_Subset, FS_EmptySet
  <2> QED BY <1>4, <2>2
<1> HIDE DEF rank
<1>6. made \in Nat /\ MaxJobs \in Nat /\ now \in Times /\ now \in Nat
  BY Sorts, BackupsAssumption DEF IInv, TypeOK
<1>7. k \in [Frequencies -> Nat]
  BY <1>4, <1>6
<1>8. made' \in 0..MaxJobs /\ made <= made'
  BY <1>2, <1>3, <1>6
<1>9. \A f \in due : Due(f) /\ k[f] > made /\ k[f] <= made'
  BY <1>2, <1>3, <1>4, <1>5, <1>6 DEF due
<1>10. ASSUME NEW j \in Jobs, \E f \in due : j = made + rank(f)
       PROVE  the(j) \in due /\ j = made + rank(the(j)) /\ j > made /\ row[j] = None /\ row'[j] = new(the(j))
  <2>1. the(j) \in due /\ j = made + rank(the(j))
    BY <1>10
  <2> DEFINE r == rank(the(j))
  <2>0. r \in Nat /\ r > 0 /\ j = made + r
    BY <1>4, <1>5, <2>1
  <2> HIDE DEF r
  <2>2. j > made
    BY <1>6, <2>0
  <2>3. row[j] = None
    BY <1>6, <2>2, JobsFacts DEF IInv, AllSound, Sound, Past
  <2> QED BY <1>2, <1>10, <2>1, <2>2, <2>3
<1>11. ASSUME NEW f \in due PROVE new(f) \in Row /\ new(f) # None
  <2>1. Lengths[f] \in Nat \ {0} /\ f \in Frequencies
    BY <1>3, BackupsAssumption
  <2>2. \A a \in Nat, b \in Nat \ {0} : a \div b \in Nat
    OBVIOUS
  <2>3. Period(f, now) \in Nat
    BY <1>6, <2>1, <2>2 DEF Period
  <2>4. 0 \in Times
    BY BackupsAssumption DEF Times
  <2>5. new(f) \in Row
    BY <1>6, <2>1, <2>3, <2>4, FALSE \in BOOLEAN, "pending" \in Statuses DEF Row, Statuses
  <2> QED BY <2>5, BackupsAssumption
<1>12. ASSUME NEW j \in Jobs
       PROVE  /\ row'[j] \in Row \cup {None}
              /\ \/ row'[j] = row[j]
                 \/ /\ row[j] = None /\ row'[j] # None /\ j > made
                    /\ row'[j].f \in due /\ j = k[row'[j].f]
                    /\ row'[j].period = Period(row'[j].f, now)
                    /\ row'[j].created = now /\ row'[j].status = "pending"
                    /\ row'[j].finished = 0
  <2>1. CASE \E f \in due : j = made + rank(f)
    <3> DEFINE f == the(j)
    <3>1. f \in due /\ j = made + rank(f) /\ j > made /\ row[j] = None /\ row'[j] = new(f)
      BY <1>10, <2>1
    <3> HIDE DEF f
    <3>2. f \in Frequencies /\ k[f] = j
      BY <1>3, <3>1
    <3>3. new(f) \in Row /\ new(f) # None
      BY <1>11, <3>1
    <3>4. /\ row'[j].f = f /\ row'[j].period = Period(f, now) /\ row'[j].created = now
          /\ row'[j].status = "pending" /\ row'[j].finished = 0
      BY <3>1
    <3> HIDE DEF k
    <3> QED BY <3>1, <3>2, <3>3, <3>4
  <2>2. CASE ~\E f \in due : j = made + rank(f)
    BY <1>2, <2>2, Sorts
  <2> QED BY <2>1, <2>2
<1>13. row' \in Table
  <2>1. row' = [j \in Jobs |-> row'[j]]
    BY <1>2
  <2> QED BY <1>12, <2>1 DEF Table
<1>14. due \in SUBSET Frequencies
  BY <1>3
<1> HIDE DEF k
<1> QED BY <1>7, <1>8, <1>9, <1>12, <1>13, <1>14

LEMMA CheckKeeps == ASSUME IInv, Check PROVE IInv'
<1>0. UNCHANGED <<now, archives, snap, at, pc, todo, had, cut, crashes>>
  BY DEF Check
<1>1. PICK due \in SUBSET Frequencies, k \in [Frequencies -> Nat] :
        /\ made' \in 0..MaxJobs /\ made <= made'
        /\ \A f \in due : Due(f) /\ k[f] > made /\ k[f] <= made'
        /\ row' \in Table
        /\ \A j \in Jobs :
             \/ row'[j] = row[j]
             \/ /\ row[j] = None /\ row'[j] # None /\ j > made
                /\ row'[j].f \in due /\ j = k[row'[j].f]
                /\ row'[j].period = Period(row'[j].f, now)
                /\ row'[j].created = now /\ row'[j].status = "pending"
                /\ row'[j].finished = 0
  BY CheckIs
<1> DEFINE New(j) == /\ row[j] = None /\ row'[j] # None /\ j > made
                     /\ row'[j].f \in due /\ j = k[row'[j].f]
                     /\ row'[j].period = Period(row'[j].f, now)
                     /\ row'[j].created = now /\ row'[j].status = "pending"
                     /\ row'[j].finished = 0
<1>2. \A j \in Jobs : row'[j] = row[j] \/ New(j)
  BY <1>1
<1>3. \A j \in Jobs : row[j] # None => row'[j] = row[j] /\ j <= made
  BY <1>2 DEF IInv, AllSound, Sound, Past
<1>4. made \in Nat /\ made' \in Nat /\ made <= made' /\ now \in Nat
  BY <1>1, Sorts, BackupsAssumption
<1>5. ASSUME NEW i \in Jobs, NEW j \in Jobs, row'[i] # None, row[j] # None, i < j
      PROVE  row'[i] = row[i] /\ row[i] # None
  BY <1>2, <1>3, <1>4, <1>5, JobsFacts
<1>6. TypeOK'
  <2>1. \A i \in Jobs : row'[i] # None /\ row'[i].status = "running" <=> at' = i
    BY <1>0, <1>2, <1>3 DEF IInv, TypeOK
  <2> QED BY <1>0, <1>1, <2>1 DEF IInv, TypeOK
<1>7. One(row')
  <2> SUFFICES ASSUME NEW i \in Jobs, NEW j \in Jobs, row'[i] # None, row'[j] # None,
                      row'[i].f = row'[j].f, row'[i].period = row'[j].period,
                      row'[i].status \in Alive, row'[j].status \in Alive
               PROVE  i = j
    BY DEF One
  <2>1. CASE New(i) /\ New(j)
    BY <2>1
  <2>2. CASE New(i) /\ row'[j] = row[j]
    <3>1. row'[i].f \in Frequencies /\ Due(row'[i].f) /\ row'[i].period = Period(row'[i].f, now)
      BY <1>1, <2>2
    <3>2. row[j] # None /\ row[j].f = row'[i].f /\ row[j].period = row'[i].period
      BY <2>2
    <3> QED BY <2>2, <3>1, <3>2, DueMeans
  <2>3. CASE New(j) /\ row'[i] = row[i]
    BY <1>1, <2>3, DueMeans
  <2>4. CASE row'[i] = row[i] /\ row'[j] = row[j]
    BY <2>4 DEF IInv, AllSound, Sound, One
  <2> QED BY <1>2, <2>1, <2>2, <2>3, <2>4
<1>8. Limited(row')
  <2> SUFFICES ASSUME NEW f \in Frequencies, NEW p \in Nat
               PROVE  Cardinality(Tried(row', f, p)) <= Limit
    BY DEF Limited
  <2>1. CASE \E n \in Jobs : New(n) /\ row'[n].f = f /\ row'[n].period = p
    <3>1. PICK n \in Jobs : New(n) /\ row'[n].f = f /\ row'[n].period = p
      BY <2>1
    <3>2. p = Period(f, now) /\ Due(f) /\ n = k[f]
      BY <1>1, <3>1
    <3>3. Tried(row', f, p) = Tried(row, f, p) \cup {n}
      <4>1. \A j \in Jobs : j # n /\ row'[j] # None /\ row'[j].f = f => row'[j] = row[j]
        BY <1>2, <3>2
      <4> QED BY <1>3, <3>1, <4>1 DEF Tried
    <3>4. IsFiniteSet(Tried(row, f, p)) /\ n \notin Tried(row, f, p)
      <4>1. Tried(row, f, p) \subseteq Jobs
        BY DEF Tried
      <4> QED BY <3>1, <4>1, JobsFacts, FS_Subset DEF Tried
    <3>5. ~(Cardinality(Tried(row, f, p)) >= Limit)
      BY <3>2, DueMeans
    <3>6. Cardinality(Tried(row', f, p)) = Cardinality(Tried(row, f, p)) + 1
      BY <3>3, <3>4, FS_AddElement
    <3>7. Cardinality(Tried(row, f, p)) \in Nat /\ Limit \in Nat
      BY <3>4, FS_CardinalityType, BackupsAssumption
    <3> QED BY <3>5, <3>6, <3>7
  <2>2. CASE ~\E n \in Jobs : New(n) /\ row'[n].f = f /\ row'[n].period = p
    <3>1. Tried(row', f, p) \subseteq Tried(row, f, p) /\ Tried(row, f, p) \subseteq Jobs
      BY <1>2, <2>2 DEF Tried
    <3>2. Cardinality(Tried(row, f, p)) <= Limit
      BY DEF IInv, AllSound, Sound, Limited
    <3> QED BY <3>1, <3>2, FewerTried
  <2> QED BY <2>1, <2>2
<1>9. InOrder(row')
  <2> SUFFICES ASSUME NEW i \in Jobs, NEW j \in Jobs, i < j, row'[i] # None, row'[j] # None,
                      row'[i].status \in {"pending", "running"}, row'[j].status \in Begun
               PROVE  FALSE
    BY DEF InOrder
  <2>1. row'[j] = row[j] /\ row[j] # None
    BY <1>2 DEF Begun
  <2>2. row'[i] = row[i] /\ row[i] # None
    BY <1>5, <2>1
  <2> QED BY <2>1, <2>2 DEF IInv, AllSound, Sound, InOrder
<1>10. Past(row', now, made')
  <2> SUFFICES ASSUME NEW j \in Jobs, row'[j] # None
               PROVE  j <= made' /\ row'[j].created <= now /\ row'[j].finished <= now
    BY DEF Past
  <2>1. CASE New(j)
    BY <1>1, <1>4, <2>1
  <2>2. CASE row'[j] = row[j]
    <3>1. j <= made /\ row[j].created <= now /\ row[j].finished <= now
      BY <2>2 DEF IInv, AllSound, Sound, Past
    <3> QED BY <1>4, <2>2, <3>1, JobsFacts
  <2> QED BY <1>2, <2>1, <2>2
<1>11. Apart(row')
  <2> SUFFICES ASSUME NEW i \in Jobs, NEW j \in Jobs, i < j, row'[i] # None, row'[j] # None,
                      row'[i].f = row'[j].f, row'[i].status = "succeeded"
               PROVE  /\ row'[j].status = "succeeded" => row'[i].finished <= row'[j].finished
                      /\ row'[i].finished < row'[j].created =>
                            row'[j].created >= row'[i].finished + Lengths[row'[i].f]
    BY DEF Apart
  <2>1. row'[i] = row[i] /\ Success(row, i)
    BY <1>2 DEF Success
  <2>2. CASE New(j)
    BY <1>1, <2>1, <2>2, DueMeans
  <2>3. CASE row'[j] = row[j]
    BY <2>1, <2>3 DEF IInv, AllSound, Sound, Apart, Success
  <2> QED BY <1>2, <2>2, <2>3
<1>12. AllSound'
  <2>1. \A x \in Jobs : Sound(snap[x], now, made')
    BY <1>4, Sorts, LaterSound DEF IInv, AllSound
  <2> QED BY <1>0, <1>7, <1>8, <1>9, <1>10, <1>11, <2>1 DEF AllSound, Sound
<1>13. \A y \in Jobs : Success(row', y) <=> Success(row, y)
  BY <1>2, <1>3 DEF Success
<1>14. \A x \in Jobs : Held(x)' <=> Held(x)
  BY <1>0, <1>13 DEF Held
<1>15. History'
  BY <1>0, <1>13, <1>14 DEF IInv, History
<1>16. AllGone'
  <2>1. NoneLeft(row)'
    <3> SUFFICES ASSUME NEW i \in Jobs, NEW j \in Jobs, i < j, Success(row', j), row'[i] # None,
                        row'[i].f = row'[j].f
                 PROVE  i \notin archives'
      BY DEF NoneLeft
    <3>1. Success(row, j) /\ row[j] # None
      BY <1>13 DEF Success
    <3>2. row'[i] = row[i] /\ row[i] # None /\ row'[j] = row[j]
      BY <1>3, <1>5, <3>1
    <3> QED BY <1>0, <3>1, <3>2 DEF IInv, AllGone, NoneLeft
  <2> QED BY <1>0, <1>14, <2>1 DEF IInv, AllGone, NoneLeft
<1>17. AtWork'
  <2>1. AtWork /\ todo \subseteq Jobs
    BY DEF IInv, TypeOK
  <2>2. pc # "idle" => at \in Jobs /\ row[at] # None /\ row'[at] = row[at]
    BY <1>3, Sorts
  <2>3. \A i \in todo' : row'[i] # None /\ row'[i].f = row'[at'].f /\ i # at'
    <3> SUFFICES ASSUME NEW i \in todo PROVE row'[i] # None /\ row'[i].f = row'[at].f /\ i # at
      BY <1>0
    <3>1. pc # "idle" /\ row[i] # None /\ row[i].f = row[at].f /\ i # at
      BY <2>1 DEF AtWork
    <3> QED BY <1>3, <2>1, <2>2, <3>1
  <2>4. ASSUME pc = "prune", NEW i \in Jobs, i < at, row'[i] # None, row'[i].f = row'[at].f
        PROVE  i \in todo \/ i \notin archives
    <3>1. row'[i] = row[i] /\ row[i] # None
      BY <1>5, <2>2, <2>4
    <3> QED BY <2>1, <2>2, <2>4, <3>1 DEF AtWork
  <2> QED BY <1>0, <2>1, <2>3, <2>4 DEF AtWork
<1>18. SlotHeld'
  <2> SUFFICES ASSUME NEW f \in had' \ cut', ~Replacing(f)' PROVE HasOne(f)'
    BY SlotsAre
  <2>1. pc = "prune" => row'[at] = row[at]
    BY <1>3, Sorts
  <2>2. HasOne(f)
    BY <1>0, <2>1, SlotsAre DEF IInv, Replacing
  <2>3. PICK i \in Jobs : Success(row, i) /\ row[i].f = f /\ i \in archives
    BY <2>2 DEF HasOne
  <2> QED BY <1>0, <1>3, <1>13, <2>3 DEF HasOne, Success
<1> QED BY <1>6, <1>12, <1>15, <1>16, <1>17, <1>18 DEF IInv

LEMMA StepKeeps == IInv /\ [Next]_vars => IInv'
<1> SUFFICES ASSUME IInv, [Next]_vars PROVE IInv'
  OBVIOUS
<1>1. CASE Check
  BY <1>1, CheckKeeps
<1>2. CASE Tick
  BY <1>2, TickKeeps
<1>3. CASE \E j \in Jobs : Cancel(j) \/ Remove(j) \/ Begin(j) \/ Restore(j)
  BY <1>3, CancelKeeps, RemoveKeeps, BeginKeeps, RestoreKeeps
<1>4. CASE Copy \/ PackFails \/ Pack \/ Prune
  BY <1>4, CopyKeeps, PackFailsKeeps, PackKeeps, PruneKeeps
<1>5. CASE Delete \/ Finish \/ Crash
  BY <1>5, DeleteKeeps, FinishKeeps, CrashKeeps
<1>6. CASE UNCHANGED vars
  BY <1>6 DEF vars, IInv, TypeOK, AllSound, History, AllGone, AtWork, SlotHeld, Replacing, In, Attempts,
              Usable, NoneLeft, Held, Success
<1> QED BY <1>1, <1>2, <1>3, <1>4, <1>5, <1>6 DEF Next

LEMMA Invariance == Spec => []IInv
BY InitHolds, StepKeeps, PTL DEF Spec

\* The end of a job makes no failure of another undone.
LEMMA EndKeepsFailures ==
    ASSUME IInv, NEW j \in Jobs, row[j] # None, row[j].status # "failed", NEW s, Ended(j, s)
    PROVE  \A i \in Jobs : row[i] # None /\ row[i].status = "failed" => row'[i] = row[i]
BY Sorts DEF Ended, Table

\* No step but a restore takes a failure off the table.
LEMMA FailuresStay ==
    ASSUME IInv, [Next]_vars
    PROVE  [\A f \in Frequencies :
              (In({"failed"}, f) \subseteq In({"failed"}, f)') \/ \E j \in Jobs : Restore(j)]_vars
<1> DEFINE Stay == \A i \in Jobs : row[i] # None /\ row[i].status = "failed" => row'[i] = row[i]
<1>1. SUFFICES Stay \/ \E j \in Jobs : Restore(j)
  BY DEF In, Attempts
<1>2. CASE Check
  <2>1. \A j \in Jobs : row'[j] = row[j] \/ row[j] = None
    BY <1>2, CheckIs
  <2> QED BY <2>1
<1>3. ASSUME NEW j \in Jobs, Cancel(j) \/ Begin(j) PROVE Stay
  BY <1>3, Sorts DEF Cancel, Begin, Ended, Table
<1>4. CASE PackFails \/ Delete \/ Finish
  <2>1. at \in Jobs /\ row[at] # None /\ row[at].status # "failed"
    BY <1>4, Sorts DEF PackFails, Delete, Finish
  <2>2. row' = row \/ \E s \in Statuses : Ended(at, s)
    BY <1>4 DEF PackFails, Delete, Finish, Statuses
  <2> QED BY <2>1, <2>2, EndKeepsFailures
<1>5. CASE Crash
  BY <1>5, Sorts, ReconciledIs DEF Crash
<1>6. CASE Tick \/ (\E j \in Jobs : Remove(j)) \/ Copy \/ Pack \/ Prune \/ UNCHANGED vars
  <2>1. row' = row
    BY <1>6 DEF Tick, Remove, Copy, Pack, Prune, vars
  <2> QED BY <2>1
<1> QED BY <1>2, <1>3, <1>4, <1>5, <1>6 DEF Next

-------------------------------------------------------------------------------
(***************************************************************************)
(* Theorems.                                                               *)
(***************************************************************************)
\* The table, the archives and the job at work are always of their types, and the
\* job that the table says runs is the one at work.
THEOREM TypeCorrect == Spec => []TypeOK
BY Invariance, PTL DEF IInv

\* For any frequencies and any number of jobs, ends and restores, no period of a
\* schedule ever has two jobs that wait, run or have succeeded (periodIsSettled).
THEOREM OneOfAPeriod == Spec => []OnePerPeriod
<1>1. IInv => OnePerPeriod
  BY DEF IInv, AllSound, Sound, One, OnePerPeriod, In, Attempts, Alive
<1> QED BY <1>1, Invariance, PTL

\* Of the jobs of one period that the table knows of, no more than the limit have
\* failed, whichever table a restore has put there, and a failure that it knows of
\* it knows of for good, through cancellations, removals and ends of the panel: only
\* a restore makes the schedule forget one (periodIsSettled).
THEOREM RetriesAreLimited ==
    Spec => /\ []FailuresLimited
            /\ [][\A f \in Frequencies :
                     (In({"failed"}, f) \subseteq In({"failed"}, f)') \/ \E j \in Jobs : Restore(j)]_vars
<1>1. IInv => FailuresLimited
  <2> SUFFICES ASSUME IInv, NEW f \in Frequencies, NEW j \in In({"failed"}, f)
               PROVE  Cardinality({i \in In({"failed"}, f) : row[i].period = row[j].period}) <= Limit
    BY DEF FailuresLimited
  <2> DEFINE p == row[j].period
  <2>1. p \in Nat
    BY Sorts DEF In, Attempts, Row
  <2>2. /\ {i \in In({"failed"}, f) : row[i].period = p} \subseteq Tried(row, f, p)
        /\ Tried(row, f, p) \subseteq Jobs
    BY DEF In, Attempts, Tried
  <2>3. Cardinality(Tried(row, f, p)) <= Limit
    BY <2>1 DEF IInv, AllSound, Sound, Limited
  <2> QED BY <2>2, <2>3, FewerTried
<1>2. IInv /\ [Next]_vars =>
        [\A f \in Frequencies :
            (In({"failed"}, f) \subseteq In({"failed"}, f)') \/ \E j \in Jobs : Restore(j)]_vars
  BY FailuresStay
<1> QED BY <1>1, <1>2, Invariance, PTL DEF Spec

\* A snapshot that is asked for after another has succeeded is asked for an interval
\* later (nextScheduledBackupAt).
THEOREM SnapshotsAreApart == Spec => []Spaced
<1>1. IInv => Spaced
  BY DEF IInv, AllSound, Sound, Apart, Spaced, In, Attempts
<1> QED BY <1>1, Invariance, PTL

\* Of the runs before a success that the table knows of no archive is left, whatever
\* cancelled, failed, cut-off or restored (pruneFrequencyBackups).
THEOREM SupersededAreGone == Spec => []OldGone
<1>1. IInv => OldGone
  BY DEF IInv, AllGone, NoneLeft, Success, OldGone, In, Attempts
<1> QED BY <1>1, Invariance, PTL

\* A schedule that has had a snapshot has one that can be restored, but for the
\* excuses SlotHeld names (createPanelArchive before pruneFrequencyBackups).
THEOREM SlotIsHeld == Spec => []SlotHeld
BY Invariance, PTL DEF IInv

================================================================================
