------------------------------- MODULE SitePorts -------------------------------
(***************************************************************************)
(* The ports of the websites: the table port_allocations of                *)
(* PortAllocator (sites/port-allocator.ts) and what the sites table        *)
(* records of it, while SiteService (sites/site-service.ts) creates sites, *)
(* removes them, and repairs both tables at start-up.                      *)
(*                                                                         *)
(* The database is synchronous, so a read or a transaction is one step;    *)
(* but which ports are in use is read before the machine is asked, with    *)
(* awaits, which of the others can be bound, and any other request may run *)
(* in between.  What the machine answers is a choice.                      *)
(***************************************************************************)
EXTENDS FiniteSets, Naturals

CONSTANTS Sites,         \* every site there is, was or will be
          Old,           \* those made by an earlier version
          Static,        \* those served from disk, which need no app ports
          AppPorts,      \* the loopback range (for PHP, the bases of blocks)
          PreviewPorts,  \* the public range
          MaxCrashes,    \* bound: ends of the panel
          None

Ports  == AppPorts \cup PreviewPorts
\* Null, or a blue port and a green one.
Couple == {ps \in SUBSET AppPorts : Cardinality(ps) \in {0, 2}}

ASSUME PortsAssumption ==
    /\ Static \subseteq Sites /\ Old \subseteq Sites
    /\ IsFiniteSet(AppPorts)
    /\ AppPorts \cap PreviewPorts = {}
    /\ None \notin Sites \cup Ports
    /\ MaxCrashes \in Nat

VARIABLES live,     \* the rows of the table sites
          pair,     \* portBlue and portGreen of a row, {} for null
          preview,  \* its previewPort
          owner,    \* port_allocations: a port, and the site it belongs to
          making,   \* where the creation of a site is
          handed,   \* the app ports its allocatePair is about to return
          found,    \* the preview port somebody found free and is about to take
          boot,     \* where the start-up repairs are
          missing,  \* the sites ensurePreviewPorts has still to look at
          fixing,   \* the one it is looking for a port for
          crashes

rows == <<live, pair, preview>>
repair == <<boot, missing, fixing>>
vars == <<rows, owner, making, handed, found, repair, crashes>>

Creating == {"pair", "look", "preview", "files"}
\* "old" was there before this start of the panel, "cut" was cut off by its end.
Makings  == {"none", "done", "failed", "cut", "old"} \cup Creating
Boots    == {"reclaim", "read", "ensure", "up"}

\* found has a place for each creation, and one for start-up.
Seekers == Sites \cup {None}

\* What versions before this one may have left behind.
Recorded(s, p) == s \in live /\ (p \in pair[s] \/ p = preview[s])

Existing(s) == {p \in PreviewPorts : owner[p] = s}

\* Of the old sites some were removed; a static one may have been given a pair,
\* and there may be ports left that nobody is configured with.
Init == /\ live \in SUBSET Old
        /\ making = [s \in Sites |-> IF s \in Old THEN "old" ELSE "none"]
        /\ pair \in [Sites -> Couple]
        /\ \A s \in Sites : /\ s \notin live => pair[s] = {}
                            /\ s \in live \ Static => pair[s] # {}
        /\ preview \in [Sites -> PreviewPorts \cup {None}]
        /\ owner \in [Ports -> Old \cup {None}]
        /\ \A s \in Sites : /\ s \notin live => preview[s] = None
                            /\ s \in live /\ preview[s] = None => Existing(s) = {}
                            /\ \A p \in Ports : Recorded(s, p) => owner[p] = s
        /\ handed = [s \in Sites |-> {}]
        /\ found = [s \in Seekers |-> None]
        /\ boot = "reclaim" /\ missing = {} /\ fixing = None /\ crashes = 0

-------------------------------------------------------------------------------
(***************************************************************************)
(* reclaimStalePorts.                                                      *)
(***************************************************************************)

\* Bug: a pair that was handed out and is not recorded yet is given back.
Bug_StaleApp(s, p) == s \in Static \/ p \notin pair[s]

\* A static site needs no pair; one part-way through its creation has not
\* recorded its pair, or its preview port, yet.
StaleApp(s, p)     == s \in Static \/ (pair[s] # {} /\ p \notin pair[s])
StalePreview(s, p) == preview[s] \notin {None, p}

\* Bug: a row is only looked at through its site.
Bug_Stale(p) == /\ owner[p] # None
                /\ \/ p \in AppPorts /\ StaleApp(owner[p], p)
                   \/ p \in PreviewPorts /\ StalePreview(owner[p], p)

Stale(p) == /\ owner[p] # None
            /\ \/ owner[p] \notin live
               \/ p \in AppPorts /\ StaleApp(owner[p], p)
               \/ p \in PreviewPorts /\ StalePreview(owner[p], p)

\* "Leaving the numbers on the site would point it at ports another site is now
\* free to take" (port-allocator.ts:126-127).
Unpaired == [s \in Sites |-> IF \E p \in AppPorts : owner[p] = s /\ s \in live \cap Static
                             THEN {} ELSE pair[s]]

Reclaim == /\ owner' = [p \in Ports |-> IF Stale(p) THEN None ELSE owner[p]]
           /\ pair' = Unpaired

Taken == {p \in Ports : owner[p] # None}

-------------------------------------------------------------------------------
(***************************************************************************)
(* create: five steps of one request.                                      *)
(***************************************************************************)
Goto(s, step) == making' = [making EXCEPT ![s] = step]

\* What allocatePair may come back with, or {} if it finds no two ports.
Pairs(taken) == {ps \in SUBSET (AppPorts \ taken) : Cardinality(ps) = 2} \cup {{}}

\* The row, the reclaim, and the read of what is taken.
Insert(s) ==
    /\ making[s] = "none"
    /\ live' = live \cup {s}
    /\ Reclaim
    /\ IF s \in Static
       THEN Goto(s, "look") /\ UNCHANGED handed
       ELSE /\ Goto(s, "pair")
            /\ \E ps \in Pairs({p \in Taken : ~Stale(p)}) : handed' = [handed EXCEPT ![s] = ps]
    /\ UNCHANGED <<preview, found, repair, crashes>>

\* Bug: the row of a creation that failed stays.
Bug_Fail(s) == Goto(s, "failed") /\ UNCHANGED <<live, owner, pair, preview>>

\* The row goes, and what was allocated to it goes with it.
Fail(s) == /\ Goto(s, "failed")
           /\ live' = live \ {s}
           /\ owner' = [p \in Ports |-> IF owner[p] = s THEN None ELSE owner[p]]
           /\ pair' = [pair EXCEPT ![s] = {}]
           /\ preview' = [preview EXCEPT ![s] = None]

\* The transaction: a port is the key of the table, and its site must exist.
Insertable(s) == handed[s] # {} /\ s \in live /\ \A p \in handed[s] : owner[p] \in {None, s}

Pair(s) ==
    /\ making[s] = "pair"
    /\ IF Insertable(s)
       THEN /\ owner' = [p \in Ports |-> IF p \in handed[s] THEN s
                                         ELSE IF p \in AppPorts /\ owner[p] = s THEN None
                                         ELSE owner[p]]
            /\ Goto(s, "look")
            /\ UNCHANGED rows
       ELSE Fail(s)
    /\ UNCHANGED <<handed, found, repair, crashes>>

\* The update of the row, which matches nothing once the site was removed.
Record(s, port) == /\ pair' = IF s \in live THEN [pair EXCEPT ![s] = handed[s]] ELSE pair
                   /\ preview' = IF s \in live THEN [preview EXCEPT ![s] = port] ELSE preview
                   /\ Goto(s, "files")

\* allocatePreviewPort returns what the site has, or looks for a free one.
Look(s) ==
    /\ making[s] = "look"
    /\ IF Existing(s) # {}
       THEN /\ \E p \in Existing(s) : Record(s, p)
            /\ UNCHANGED found
       ELSE /\ \E p \in (PreviewPorts \ Taken) \cup {None} : found' = [found EXCEPT ![s] = p]
            /\ Goto(s, "preview")
            /\ UNCHANGED <<pair, preview>>
    /\ UNCHANGED <<live, owner, handed, repair, crashes>>

Free(p, s) == p # None /\ s \in live /\ owner[p] = None

\* Its insertion, whose failure only leaves the site without one.
Preview(s) ==
    /\ making[s] = "preview"
    /\ LET p == found[s]
       IN IF Free(p, s) THEN owner' = [owner EXCEPT ![p] = s] /\ Record(s, p)
          ELSE Record(s, None) /\ UNCHANGED owner
    /\ found' = [found EXCEPT ![s] = None]
    /\ UNCHANGED <<live, handed, repair, crashes>>

\* The folders and the files of a new site.
Files(s) ==
    /\ making[s] = "files"
    /\ \/ Goto(s, "done") /\ UNCHANGED <<rows, owner>>
       \/ Fail(s)
    /\ UNCHANGED <<handed, found, repair, crashes>>

\* remove: a site is on the list as soon as its row is.
Remove(s) ==
    /\ s \in live
    /\ live' = live \ {s}
    /\ owner' = [p \in Ports |-> IF owner[p] = s THEN None ELSE owner[p]]
    /\ pair' = [pair EXCEPT ![s] = {}]
    /\ preview' = [preview EXCEPT ![s] = None]
    /\ UNCHANGED <<making, handed, found, repair, crashes>>

-------------------------------------------------------------------------------
(***************************************************************************)
(* Start-up, while requests are already served.                            *)
(***************************************************************************)
BootReclaim ==
    /\ boot = "reclaim"
    /\ Reclaim
    /\ boot' = "read"
    /\ UNCHANGED <<live, preview, making, handed, found, missing, fixing, crashes>>

\* ensurePreviewPorts: the sites that have none are read once.
EnsureRead ==
    /\ boot = "read"
    /\ missing' = {s \in live : preview[s] = None}
    /\ boot' = "ensure"
    /\ UNCHANGED <<rows, owner, making, handed, found, fixing, crashes>>

\* Bug: a site that has a port is not told which.
Bug_EnsureLook ==
    /\ boot = "ensure" /\ fixing = None
    /\ \E s \in missing :
         /\ missing' = missing \ {s}
         /\ IF Existing(s) # {} THEN UNCHANGED <<found, fixing>>
            ELSE /\ \E p \in (PreviewPorts \ Taken) \cup {None} : found' = [found EXCEPT ![None] = p]
                 /\ fixing' = s
    /\ UNCHANGED <<live, pair, preview, owner, making, handed, boot, crashes>>

\* The next of them, which may have got a port, or have been removed, since.
EnsureLook ==
    /\ boot = "ensure" /\ fixing = None
    /\ \E s \in missing :
         /\ missing' = missing \ {s}
         /\ IF Existing(s) # {}
            THEN /\ \E p \in Existing(s) : preview' = [preview EXCEPT ![s] = p]
                 /\ UNCHANGED <<found, fixing>>
            ELSE /\ \E p \in (PreviewPorts \ Taken) \cup {None} : found' = [found EXCEPT ![None] = p]
                 /\ fixing' = s
                 /\ UNCHANGED preview
    /\ UNCHANGED <<live, pair, owner, making, handed, boot, crashes>>

EnsureAssign ==
    /\ fixing # None
    /\ LET p == found[None]
       IN IF Free(p, fixing) THEN /\ owner' = [owner EXCEPT ![p] = fixing]
                                  /\ preview' = [preview EXCEPT ![fixing] = p]
          ELSE UNCHANGED <<owner, preview>>
    /\ found' = [found EXCEPT ![None] = None]
    /\ fixing' = None
    /\ UNCHANGED <<live, pair, making, handed, boot, missing, crashes>>

EnsureDone ==
    /\ boot = "ensure" /\ missing = {} /\ fixing = None
    /\ boot' = "up"
    /\ UNCHANGED <<rows, owner, making, handed, found, missing, fixing, crashes>>

\* The panel ends and is started again: the tables stay as they are.
Crash ==
    /\ crashes < MaxCrashes
    /\ crashes' = crashes + 1
    /\ making' = [s \in Sites |-> IF making[s] \in Creating THEN "cut"
                                ELSE IF making[s] = "done" THEN "old" ELSE making[s]]
    /\ handed' = [s \in Sites |-> {}]
    /\ found' = [s \in Seekers |-> None]
    /\ boot' = "reclaim" /\ missing' = {} /\ fixing' = None
    /\ UNCHANGED <<rows, owner>>

Create(s) == Insert(s) \/ Pair(s) \/ Look(s) \/ Preview(s) \/ Files(s)
Next      == \/ \E s \in Sites : Create(s) \/ Remove(s)
             \/ BootReclaim \/ EnsureRead \/ EnsureLook \/ EnsureAssign \/ EnsureDone
             \/ Crash

Spec == Init /\ [][Next]_vars

-------------------------------------------------------------------------------
(***************************************************************************)
(* Properties.                                                             *)
(***************************************************************************)
\* Types; what a site has of app ports is a pair.
TypeOK == /\ live \in SUBSET Sites
          /\ pair \in [Sites -> Couple]
          /\ preview \in [Sites -> PreviewPorts \cup {None}]
          /\ owner \in [Ports -> Sites \cup {None}]
          /\ making \in [Sites -> Makings]
          /\ handed \in [Sites -> Couple]
          /\ found \in [Seekers -> PreviewPorts \cup {None}]
          /\ boot \in Boots
          /\ missing \in SUBSET Sites
          /\ fixing \in Sites \cup {None}
          /\ crashes \in 0..MaxCrashes

\* A port a website is configured with, and that the web server and its process
\* are given, is its own: no other site can be handed it, so no two sites ever
\* answer on one port.  "Safe to run at any time" (port-allocator.ts:79) is said
\* of the reclaim that runs in between.
RecordedIsOwned == \A s \in Sites, p \in Ports : Recorded(s, p) => owner[p] = s

\* A creation gives a site all it needs, or leaves nothing of it: no row, no
\* port (site-service.ts:402-403), whatever runs meanwhile.
AllOrNothing == \A s \in Sites :
    /\ making[s] = "done" /\ s \in live \ Static => Cardinality(pair[s]) = 2
    /\ making[s] = "failed" => s \notin live /\ \A p \in Ports : owner[p] # s

\* "A row that outlives its purpose burns a number permanently" (port-allocator.
\* ts:69): after a reclaim a port that is allocated is one its site is configured
\* with, unless the site has not got as far as that, the panel ended then, or a
\* creation and a start-up have got in each other's way over a preview port.
Burned(p) == /\ owner[p] # None
             /\ ~Recorded(owner[p], p)
             /\ making[owner[p]] \notin Creating \cup {"cut"}
             /\ p \in PreviewPorts /\ owner[p] \in live => preview[owner[p]] # None
NoneBurned == [][ (\E s \in Sites : Insert(s)) \/ BootReclaim => \A p \in Ports : ~Burned(p)' ]_vars

\* Which the next start puts right: after it a site that was there before is
\* configured with the preview port that is kept for it.
Repaired == boot = "up" => \A s \in live :
                making[s] \in {"old", "cut"} /\ Existing(s) # {} => preview[s] \in Existing(s)
===============================================================================
