----------------------------- MODULE OutageMonitor -----------------------------
(***************************************************************************)
(* SiteOutageMonitor (mail/site-outage-monitor.ts): a sweep probes every   *)
(* site, keeps what it found in site_outage_states, and mails when a site  *)
(* has been found down twice, and when it is back.                         *)
(*                                                                         *)
(* The sweep awaits its probes and its mails.  While it does, sites go     *)
(* down and come back, a deploy stops one and starts it again, an owner    *)
(* stops or removes one, and the panel may end.  The rows survive that, as *)
(* do the stops on record; the sweep and #initialSweep do not.             *)
(***************************************************************************)
EXTENDS Naturals

CONSTANTS Sites,     \* websites with a process and a port
          MaxEnds,   \* bound: how often the panel ends
          NoSite

ASSUME OutageAssumption == NoSite \notin Sites /\ MaxEnds \in Nat

VARIABLES present,    \* the sites not removed
          answers,    \* the sites whose port answers
          deploying,  \* the sites with a running deploy: sitesMidDeploy
          stopped,    \* the sites whose service has a stop on record
          failures,   \* consecutive_failures of each row, up to the confirmation
          notified,   \* notified_state of each row: "null", "up" or "down"
          todo,       \* the sites the sweep has read and not come to
          skipped,    \* the sites that were deploying when it began
          allow,      \* whether it may notify
          initial,    \* #initialSweep
          at,         \* the site it is at, if it awaits something
          step,       \* what it awaits
          open,       \* history: sites told down and not seen otherwise since
          unrecorded, \* history: those of which the panel died before noting it
          ends

world   == <<present, answers, deploying, stopped>>
rows    == <<failures, notified>>
sweep   == <<todo, skipped, allow, initial, at, step>>
history == <<open, unrecorded>>
vars    == <<world, rows, sweep, history, ends>>

Confirmation == 2   \* FAILURE_CONFIRMATION_COUNT

\* No row is a row with no failures and nothing notified.
Init == /\ present = Sites /\ answers = Sites /\ deploying = {} /\ stopped = {}
        /\ failures = [s \in Sites |-> 0]
        /\ notified = [s \in Sites |-> "null"]
        /\ todo = {} /\ skipped = {} /\ allow = FALSE /\ initial = TRUE
        /\ at = NoSite /\ step = "waiting"
        /\ open = {} /\ unrecorded = {}
        /\ ends = 0

-------------------------------------------------------------------------------
(***************************************************************************)
(* The sweep.                                                              *)
(***************************************************************************)
Walk  == step' = "walking" /\ at' = NoSite
Await(what) == step' = what /\ UNCHANGED at

\* Nothing is open about s any more.
Settled(s) == open' = open \ {s} /\ unrecorded' = unrecorded \ {s}

\* The next timer tick.  A tick while a sweep is under way does nothing.
SweepBegins ==
    /\ step = "waiting"
    /\ Walk
    /\ todo' = present
    /\ skipped' = deploying
    /\ allow' = ~initial
    /\ initial' = FALSE
    /\ UNCHANGED <<world, rows, history, ends>>

\* Bug: the site is given a clean slate by deploying.
Bug_SkipForgets(s) ==
    /\ step = "walking" /\ s \in todo \cap skipped
    /\ todo' = todo \ {s}
    /\ failures' = [failures EXCEPT ![s] = 0]
    /\ notified' = [notified EXCEPT ![s] = "null"]
    /\ UNCHANGED <<world, skipped, allow, initial, at, step, history, ends>>

\* A site that was deploying when the sweep began is left as it was.
Skip(s) ==
    /\ step = "walking" /\ s \in todo \cap skipped
    /\ todo' = todo \ {s}
    /\ UNCHANGED <<world, rows, skipped, allow, initial, at, step, history, ends>>

\* The sweep that comes to s now takes it for one that was stopped on purpose.
SeenStopped(s) == step = "walking" /\ s \in (todo \ skipped) \cap stopped \cap present

\* saveIgnored: a site that was stopped on purpose is forgotten, also when it
\* was stopped by a deploy that the sweep does not know of.
Ignore(s) ==
    /\ SeenStopped(s)
    /\ todo' = todo \ {s}
    /\ failures' = [failures EXCEPT ![s] = 0]
    /\ notified' = [notified EXCEPT ![s] = "null"]
    /\ Settled(s)
    /\ UNCHANGED <<world, skipped, allow, initial, at, step, ends>>

Probe(s) ==
    /\ step = "walking" /\ s \in (todo \ skipped) \ stopped
    /\ todo' = todo \ {s}
    /\ at' = s /\ step' = "probing"
    /\ UNCHANGED <<world, rows, skipped, allow, initial, history, ends>>

\* Bug: a recovery is recorded only when it is mailed.
Bug_RecoveryUnrecorded ==
    /\ step = "probing" /\ at \in answers \cap present
    /\ LET recovered == notified[at] = "down"
       IN /\ failures' = [failures EXCEPT ![at] = 0]
          /\ IF recovered /\ allow THEN Await("mail up") ELSE Walk
    /\ Settled(at)
    /\ UNCHANGED <<world, notified, todo, skipped, allow, initial, ends>>

\* record, answered: the row is written before the mail, if one is due.
FoundUp ==
    /\ step = "probing" /\ at \in answers \cap present
    /\ LET recovered == notified[at] = "down"
       IN /\ failures' = [failures EXCEPT ![at] = 0]
          /\ notified' = [notified EXCEPT ![at] = IF recovered THEN "up" ELSE @]
          /\ IF recovered /\ allow THEN Await("mail up") ELSE Walk
    /\ Settled(at)
    /\ UNCHANGED <<world, todo, skipped, allow, initial, ends>>

\* Bug: only the sweep that confirms an outage may announce it.
Bug_AnnouncedAtOnceOrNever ==
    /\ step = "probing" /\ at \in present \ answers
    /\ LET count == IF failures[at] < Confirmation THEN failures[at] + 1 ELSE failures[at]
       IN /\ failures' = [failures EXCEPT ![at] = count]
          /\ IF allow /\ failures[at] = Confirmation - 1 /\ notified[at] # "down"
             THEN Await("mail down") ELSE Walk
    /\ UNCHANGED <<world, notified, todo, skipped, allow, initial, history, ends>>

\* record, not answered: one more failure, counted up to the confirmation.
FoundDown ==
    /\ step = "probing" /\ at \in present \ answers
    /\ LET count == IF failures[at] < Confirmation THEN failures[at] + 1 ELSE failures[at]
       IN /\ failures' = [failures EXCEPT ![at] = count]
          /\ IF allow /\ count = Confirmation /\ notified[at] # "down"
             THEN Await("mail down") ELSE Walk
    /\ UNCHANGED <<world, notified, todo, skipped, allow, initial, history, ends>>

\* The row of a removed site cannot be written: the sweep throws, and is over.
SweepThrows ==
    /\ \/ step = "probing" /\ at \notin present
       \/ step = "walking" /\ ~((todo \ skipped) \cap stopped \subseteq present)
    /\ step' = "waiting" /\ at' = NoSite /\ todo' = {} /\ skipped' = {} /\ allow' = FALSE
    /\ UNCHANGED <<world, rows, initial, history, ends>>

MailUp ==
    /\ step = "mail up"
    /\ Walk
    /\ UNCHANGED <<world, rows, todo, skipped, allow, initial, history, ends>>

\* The outage goes out first; that it did is written after the await.
MailDown ==
    /\ step = "mail down"
    /\ open' = open \cup {at}
    /\ Await("mailed")
    /\ UNCHANGED <<world, rows, todo, skipped, allow, initial, unrecorded, ends>>

\* Bug: that the outage was mailed is not kept.
Bug_NotNoted ==
    /\ step = "mailed"
    /\ Walk
    /\ UNCHANGED <<world, rows, todo, skipped, allow, initial, history, ends>>

Noted ==
    /\ step = "mailed"
    /\ notified' = IF at \in present THEN [notified EXCEPT ![at] = "down"] ELSE notified
    /\ Walk
    /\ UNCHANGED <<world, failures, todo, skipped, allow, initial, history, ends>>

SweepEnds ==
    /\ step = "walking" /\ todo = {}
    /\ step' = "waiting" /\ skipped' = {} /\ allow' = FALSE
    /\ UNCHANGED <<world, rows, todo, initial, at, history, ends>>

-------------------------------------------------------------------------------
(***************************************************************************)
(* Meanwhile.                                                              *)
(***************************************************************************)
GoesDown(s) ==
    /\ s \in answers
    /\ answers' = answers \ {s}
    /\ UNCHANGED <<present, deploying, stopped, rows, sweep, history, ends>>

ComesBack(s) ==
    /\ s \in present \ (answers \cup stopped)
    /\ answers' = answers \cup {s}
    /\ UNCHANGED <<present, deploying, stopped, rows, sweep, history, ends>>

\* The queue runs one job at a time.
DeployBegins(s) ==
    /\ deploying = {} /\ s \in present
    /\ deploying' = {s}
    /\ UNCHANGED <<present, answers, stopped, rows, sweep, history, ends>>

\* The stops of a deploy, for the swap and in the rollback, are recorded like
\* the owner's.
DeployStops(s) ==
    /\ s \in deploying \cap present
    /\ stopped' = stopped \cup {s} /\ answers' = answers \ {s}
    /\ UNCHANGED <<present, deploying, rows, sweep, history, ends>>

\* It removes the service, or starts it, or takes its stop off the record: what
\* answers then, if anything, is another matter.
DeployStarts(s) ==
    /\ s \in deploying \cap present \cap stopped
    /\ stopped' = stopped \ {s}
    /\ answers' \in {answers, answers \cup {s}}
    /\ UNCHANGED <<present, deploying, rows, sweep, history, ends>>

\* Folders that cannot be moved have it end with its stop on record.
DeployEnds ==
    /\ deploying # {}
    /\ deploying' = {}
    /\ UNCHANGED <<present, answers, stopped, rows, sweep, history, ends>>

OwnerStops(s) ==
    /\ s \in present \ stopped
    /\ stopped' = stopped \cup {s} /\ answers' = answers \ {s}
    /\ UNCHANGED <<present, deploying, rows, sweep, history, ends>>

OwnerStarts(s) ==
    /\ s \in present \cap stopped
    /\ stopped' = stopped \ {s} /\ answers' = answers \cup {s}
    /\ UNCHANGED <<present, deploying, rows, sweep, history, ends>>

\* sites.remove, its end: the row goes with the site (ON DELETE CASCADE).  No
\* deploy was running when it began; a queued one may have begun since.
OwnerRemoves(s) ==
    /\ s \in present
    /\ present' = present \ {s} /\ answers' = answers \ {s}
    /\ failures' = [failures EXCEPT ![s] = 0]
    /\ notified' = [notified EXCEPT ![s] = "null"]
    /\ UNCHANGED <<deploying, stopped, sweep, history, ends>>

\* The panel ends and starts again: a shutdown does not wait for the sweep.
PanelRestarts ==
    /\ ends < MaxEnds
    /\ ends' = ends + 1
    /\ todo' = {} /\ skipped' = {} /\ allow' = FALSE /\ initial' = TRUE
    /\ at' = NoSite /\ step' = "waiting"
    /\ deploying' = {}
    /\ unrecorded' = IF step = "mailed" THEN unrecorded \cup {at} ELSE unrecorded
    /\ UNCHANGED <<present, answers, stopped, rows, open>>

Sweep == \/ SweepBegins \/ SweepEnds \/ SweepThrows
         \/ \E s \in Sites : Skip(s) \/ Ignore(s) \/ Probe(s)
         \/ FoundUp \/ FoundDown
         \/ MailUp \/ MailDown \/ Noted

World == \/ \E s \in Sites : \/ GoesDown(s) \/ ComesBack(s)
                             \/ DeployBegins(s) \/ DeployStops(s) \/ DeployStarts(s)
                             \/ OwnerStops(s) \/ OwnerStarts(s) \/ OwnerRemoves(s)
         \/ DeployEnds

Next == Sweep \/ World \/ PanelRestarts

Spec == Init /\ [][Next]_vars

\* The timer keeps firing, and a probe or a mail comes to an end.
FairSpec == Spec /\ WF_vars(Sweep)

-------------------------------------------------------------------------------
(***************************************************************************)
(* Properties.                                                             *)
(***************************************************************************)

WorldOK   == /\ present \subseteq Sites /\ answers \subseteq present
             /\ deploying \subseteq Sites /\ stopped \subseteq Sites
RowsOK    == /\ failures \in [Sites -> 0..Confirmation]
             /\ notified \in [Sites -> {"null", "up", "down"}]
SweepOK   == /\ todo \subseteq Sites /\ skipped \subseteq Sites
             /\ allow \in BOOLEAN /\ initial \in BOOLEAN
             /\ step \in {"waiting", "walking", "probing", "mail up", "mail down", "mailed"}
             /\ at \in Sites \cup {NoSite}
             /\ at = NoSite <=> step \in {"waiting", "walking"}
HistoryOK == open \subseteq Sites /\ unrecorded \subseteq open /\ ends \in 0..MaxEnds

\* Types; the sweep is at a site exactly while it awaits something.
TypeOK == WorldOK /\ RowsOK /\ SweepOK /\ HistoryOK

MailsDown(s) == step = "mail down" /\ at = s /\ step' = "mailed"
MailsUp(s)   == step = "probing" /\ at = s /\ step' = "mail up"

\* An outage is announced once (record): a site told to be down is not told so
\* again until a sweep found it up or with a stop on record, over any number of
\* restarts, unless the panel ended between the mail and its row.
OneMailPerOutage == [][\A s \in Sites : MailsDown(s) => s \notin open \/ s \in unrecorded]_vars

\* Mails alternate: a recovery is only ever mailed about a site that was said to
\* be down, and not yet said to be back, nor found stopped meanwhile (record,
\* notify).
RecoveryAnswersOutage == [][\A s \in Sites : MailsUp(s) => s \in open]_vars

\* The deploy's promise that "a site that was already down before the deploy
\* still gets its recovery message", and the restart's that no active outage is
\* forgotten: as long as the last word about a site is that it is down, its row
\* knows, unless a sweep saw it up or stopped since, or the panel died on it.
OutageRemembered ==
    \A s \in open \cap present : \/ notified[s] = "down" \/ s \in unrecorded
                                 \/ at = s /\ step = "mailed"

Down(s) == s \in present \ (answers \cup stopped \cup deploying)
Up(s)   == s \in answers \ (stopped \cup deploying)

\* A site that stays down is announced, also when its outage was confirmed by a
\* sweep that may not notify, or the panel restarted on the way (sweep, record).
OutageAnnounced == \A s \in Sites : <>[]Down(s) => <>[](notified[s] = "down")

\* A site announced down that comes back to stay gets its recovery mail (record),
\* also from a deploy that stops and starts it: no sweep that found it deploying
\* forgets it.  Left out: a restart of the panel, and a sweep that had not found
\* it deploying and has yet to come to it while a stop is on record, the owner's
\* or that of a deploy which began since; that sweep forgets the outage.
RecoveryAnnounced ==
    \A s \in Sites : [](/\ notified[s] = "down" /\ step = "waiting"
                        /\ [](~SeenStopped(s) /\ ~initial)
                        /\ <>[]Up(s)
                        => <>(step = "mail up" /\ at = s))

===============================================================================
