-------------------------------- MODULE Traffic --------------------------------
(***************************************************************************)
(* The access log of one website: the web server appends to it, rolls it   *)
(* and drops the oldest copies; the collector adds up what is new in it,   *)
(* from cursors that outlive the panel (traffic/collector.ts); and whoever *)
(* looks at the traffic page has its newest end read back                  *)
(* (traffic/failures.ts).  Each of them awaits the file system, and the    *)
(* web server waits for nobody.                                            *)
(*                                                                         *)
(* A request is a number, in the order of the log, and all lines are of    *)
(* one length: an offset is a number of lines.                             *)
(***************************************************************************)
EXTENDS Naturals, FiniteSetsExt

CONSTANTS MaxLines,    \* bound: requests
          MaxRolls,    \* bound: how often the log is rolled
          Keep,        \* roll_keep: the copies that stay
          Chunk,       \* MAX_READ_BYTES, in lines
          Passes,      \* MAX_PASSES
          Budget,      \* MAX_SCAN_BYTES, in lines
          Windows,     \* bound: the requests that a look at the traffic page goes back to
          MaxCrashes   \* bound: ends of the panel, and files that cannot be opened

ASSUME TrafficAssumption == /\ {MaxLines, MaxRolls, MaxCrashes} \subseteq Nat
                            /\ {Keep, Chunk, Passes, Budget} \subseteq Nat \ {0}
                            /\ Windows \subseteq 1..MaxLines

Lines == 1..MaxLines
Files == 1..MaxRolls + 1     \* in the order in which they were begun
Live  == MaxRolls + 2        \* the name of the current one; a copy has a name of its own
Names == Files \cup {Live}

VARIABLES made,       \* requests logged
          file,       \* the current file
          before,     \* the requests that were logged before a file was begun
          kept,       \* the copies on disk
          cursor,     \* traffic_cursors, by name
          counted,    \* what site_traffic has of a request, from the current file and from copies
          pc, unread, \* the collector, and the names it has still to read
          name, handle, offset, pass, \* the file it reads, where, and how often it has
          added,      \* what it has counted and the cursor does not know of
          scan,       \* the reader of the traffic page
          cut,        \* history: how often the panel ended between the two
          crashes

log         == <<made, file, before, kept>>
collector   == <<pc, unread, name, handle, offset, pass, added>>
trafficVars == <<log, cursor, counted, collector, scan, cut, crashes>>

None    == 0
Sources == {"live", "copy"}
NoScan  == [todo |-> {}, since |-> 1, unseen |-> {}, budget |-> 0, reached |-> FALSE, rolled |-> FALSE]

TrafficInit ==
    /\ made = 0 /\ file = 1 /\ before = [f \in Files |-> 0] /\ kept = {}
    /\ cursor = [n \in Names |-> 0]
    /\ counted = [s \in Sources |-> [l \in Lines |-> 0]]
    /\ pc = "idle" /\ unread = {} /\ name = None /\ handle = None /\ offset = 0 /\ pass = 0
    /\ added = {} /\ scan = NoScan
    /\ cut = [s \in Sources |-> [l \in Lines |-> 0]] /\ crashes = 0

-------------------------------------------------------------------------------
(***************************************************************************)
(* The web server.                                                         *)
(***************************************************************************)
Size(f) == (IF f = file THEN made ELSE before[f + 1]) - before[f]

Request == /\ made < MaxLines /\ made' = made + 1
           /\ UNCHANGED <<file, before, kept, cursor, counted, collector, scan, cut, crashes>>

\* The file gets a name of its own, and an empty one takes its place.
Roll == /\ file <= MaxRolls /\ Size(file) > 0
        /\ file' = file + 1 /\ before' = [before EXCEPT ![file + 1] = made]
        /\ kept' = kept \cup {file}
        /\ scan' = [scan EXCEPT !.rolled = @ \/ scan.todo # {}]
        /\ UNCHANGED <<made, cursor, counted, collector, cut, crashes>>

Drop == /\ Cardinality(kept) > Keep
        /\ kept' = kept \ {Min(kept)}
        /\ UNCHANGED <<made, file, before, cursor, counted, collector, scan, cut, crashes>>

-------------------------------------------------------------------------------
(***************************************************************************)
(* The collector: sweep, collectSite and readNewLines.                     *)
(***************************************************************************)

\* Bug: only the current file is read.
Bug_LogFiles == {Live}

\* logFilesFor: the copies, the oldest first, then the current file.
LogFiles == kept \cup {Live}

Rest == /\ pc' = "idle" /\ unread' = {} /\ added' = {}
        /\ name' = None /\ handle' = None /\ offset' = 0 /\ pass' = 0

\* The next file from its cursor on, or the end of the sweep.
GoOn(names, at) == IF names = {} THEN Rest
                   ELSE /\ name' = Min(names) /\ unread' = names \ {name'}
                        /\ offset' = at[name'] /\ pass' = 1 /\ pc' = "open"
                        /\ handle' = None /\ added' = {}

\* The timer, unless a sweep is at work.
SweepLogs == /\ pc = "idle" /\ GoOn(LogFiles, cursor)
             /\ UNCHANGED <<log, cursor, counted, scan, cut, crashes>>

\* What is opened under a name stays open when it is rolled or dropped.
OnDisk(n) == IF n = Live THEN {file} ELSE {n} \cap kept

Open == /\ pc = "open"
        /\ \/ OnDisk(name) = {} /\ GoOn(unread, cursor)
           \/ /\ handle' \in OnDisk(name) /\ pc' = "read"
              /\ UNCHANGED <<unread, name, offset, pass, added>>
        /\ UNCHANGED <<log, cursor, counted, scan, cut, crashes>>

\* What throws ends the sweep of the site.
Fails == /\ pc \in {"open", "read"} /\ crashes < MaxCrashes /\ crashes' = crashes + 1
         /\ Rest
         /\ UNCHANGED <<log, cursor, counted, scan, cut>>

\* Bug: a file that has nothing new is taken for another one.
Bug_Start(size) == IF size <= offset THEN 0 ELSE offset

\* Smaller than where it was left off: not the same file any more.
Start(size) == IF size < offset THEN 0 ELSE offset

Source == IF name = Live THEN "live" ELSE "copy"

Until(size) == Min({size, Start(size) + Chunk})

\* Stat, read, and each hour's totals added to its row.
Read == /\ pc = "read"
        /\ added' = before[handle] + Start(Size(handle)) + 1 .. before[handle] + Until(Size(handle))
        /\ counted' = [counted EXCEPT ![Source] = [l \in Lines |-> @[l] + IF l \in added' THEN 1 ELSE 0]]
        /\ offset' = Until(Size(handle))
        /\ pc' = IF offset' < Size(handle) THEN "save, go on" ELSE "save"
        /\ UNCHANGED <<log, cursor, unread, name, handle, pass, scan, cut, crashes>>

\* The cursor, and another pass if there is more.
Save == /\ pc \in {"save", "save, go on"}
        /\ cursor' = [cursor EXCEPT ![name] = offset]
        /\ IF pc = "save, go on" /\ pass < Passes
           THEN /\ pc' = "open" /\ pass' = pass + 1 /\ handle' = None /\ added' = {}
                /\ UNCHANGED <<unread, name, offset>>
           ELSE GoOn(unread, cursor')
        /\ UNCHANGED <<log, counted, scan, cut, crashes>>

-------------------------------------------------------------------------------
(***************************************************************************)
(* The traffic page: scanLogs and readTail.                                *)
(***************************************************************************)
\* What was logged since some request is asked for.
Ask == /\ scan = NoScan
       /\ \E l \in Windows : scan' = [NoScan EXCEPT !.todo = LogFiles, !.since = l, !.unseen = l..made, !.budget = Budget]
       /\ UNCHANGED <<log, cursor, counted, collector, cut, crashes>>

\* Bug: from the oldest file on.
Bug_NextToScan == Min(scan.todo)

\* Newest first.
NextToScan == Max(scan.todo)

\* As much of the end of a file as may be read, without the line it begins in.
Tail(f) == LET take == Min({Size(f), scan.budget})
           IN  (before[f] + Size(f) - take + IF take < Size(f) THEN 2 ELSE 1) .. before[f] + Size(f)

\* An entry from before the window proves that nothing of it was missed.
ReadTail ==
    /\ scan.todo # {}
    /\ LET left == scan.todo \ {NextToScan}
       IN  \/ OnDisk(NextToScan) = {} /\ scan' = [scan EXCEPT !.todo = left]
           \/ \E f \in OnDisk(NextToScan) :
                 LET reached == \E l \in Tail(f) : l < scan.since
                     budget  == scan.budget - Min({scan.budget, Size(f)})
                 IN  scan' = [scan EXCEPT !.todo    = IF reached \/ budget = 0 THEN {} ELSE left,
                                          !.unseen  = @ \ Tail(f),
                                          !.budget  = budget,
                                          !.reached = reached]
    /\ UNCHANGED <<log, cursor, counted, collector, cut, crashes>>

\* The answer is on the page.
Answer == /\ scan # NoScan /\ scan.todo = {} /\ scan' = NoScan
          /\ UNCHANGED <<log, cursor, counted, collector, cut, crashes>>

-------------------------------------------------------------------------------
\* The panel ends and starts again.  What it counted is in the database, and so
\* is the cursor, if it came to that.
Crash == /\ crashes < MaxCrashes /\ crashes' = crashes + 1
         /\ cut' = [cut EXCEPT ![Source] = [l \in Lines |-> @[l] + IF l \in added THEN 1 ELSE 0]]
         /\ Rest /\ scan' = NoScan
         /\ UNCHANGED <<log, cursor, counted>>

Collect == SweepLogs \/ Open \/ Read \/ Save

TrafficNext == \/ Request \/ Roll \/ Drop
               \/ Collect \/ Fails
               \/ Ask \/ ReadTail \/ Answer
               \/ Crash

\* The timer fires, and the file system answers.
TrafficSpec == TrafficInit /\ [][TrafficNext]_trafficVars /\ WF_trafficVars(Collect)

-------------------------------------------------------------------------------
(***************************************************************************)
(* Properties.                                                             *)
(***************************************************************************)
LogOK       == /\ made \in 0..MaxLines /\ file \in Files /\ kept \subseteq Files
               /\ before \in [Files -> Nat]
CountsOK    == /\ cursor \in [Names -> Nat]
               /\ counted \in [Sources -> [Lines -> Nat]] /\ cut \in [Sources -> [Lines -> Nat]]
CollectorOK == /\ pc \in {"idle", "open", "read", "save", "save, go on"} /\ unread \subseteq Names
               /\ name \in Names \cup {None} /\ handle \in Files \cup {None}
               /\ offset \in Nat /\ pass \in 0..Passes /\ added \subseteq Lines
ScanOK      == scan \in [todo : SUBSET Names, since : Nat, unseen : SUBSET Lines, budget : Nat,
                        reached : BOOLEAN, rolled : BOOLEAN]

TrafficTypeOK == LogOK /\ CountsOK /\ CollectorOK /\ ScanOK /\ crashes \in 0..MaxCrashes

Times(l) == counted["live"][l] + counted["copy"][l]

\* "Reading resumes from a saved byte offset, so a restart in the middle of a busy
\* hour does not double that hour" (collector.ts:20-21): what is read under one name
\* is counted once, unless the panel ended between the hour's row and the cursor.
OncePerName == \A s \in Sources, l \in Lines : counted[s][l] <= 1 + cut[s][l]

\* "Nothing is counted twice" (collector.ts:20).
NothingTwice == \A l \in Lines : Times(l) <= 1

\* "The rolled copy keeps a distinct name, so it is picked up on the next sweep and
\* finished rather than abandoned mid-file" (collector.ts:22-24): what is in a copy is
\* counted some time, if that stays on the disk.
InCopy(l)     == \E f \in kept : before[f] < l /\ l <= before[f + 1]
CopiesCounted == \A l \in Lines : InCopy(l) ~> (Times(l) > 0 \/ ~InCopy(l))

\* "Whether the whole of the asked-for window was actually read" (failures.ts:57): a
\* scan that says so has seen all that was logged before it began, unless the log was
\* rolled under it.
CompleteIsAll == scan.todo = {} /\ scan.reached /\ ~scan.rolled => scan.unseen = {}
===============================================================================
