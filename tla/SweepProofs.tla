----------------------------- MODULE SweepProofs -----------------------------
(***************************************************************************)
(* That the two sweeps of the agent that only look on keep their word: the *)
(* outage monitor's, over any number of sites, sweeps and restarts, and    *)
(* the traffic collector's, over a log of any length that is rolled any    *)
(* number of times, with the scans of the traffic page.                    *)
(*                                                                         *)
(* The outage monitor.  The row alone does not tell what was mailed:       *)
(* between the mail and the row there is an await.  The invariant says     *)
(* where the truth is: in the row, in the sweep that awaits, or, when the  *)
(* panel died there, nowhere.                                              *)
(*                                                                         *)
(* The collector.  A cursor alone does not tell what was counted: it is    *)
(* saved after the rows are, it is a number without the file it was taken  *)
(* in, and that file may have been rolled since.  The invariant says how   *)
(* far the log has been counted under each name, at every step.            *)
(***************************************************************************)
EXTENDS OutageMonitor, Traffic, FiniteSetTheorems, WellFoundedInduction, TLAPS

\* What is about to be mailed was not said before, and what was mailed is open.
Mailing == /\ step = "mail down" => at \notin open \/ at \in unrecorded
           /\ step = "mailed" => at \in open

\* A row never knows of an outage nobody was told of.
RowsHonest == \A s \in Sites : notified[s] = "down" => s \in open

IInv == TypeOK /\ OutageRemembered /\ Mailing /\ RowsHonest

\* Before the first sweep nothing is recorded and nobody was mailed.
LEMMA InitHolds == Init => IInv
<1> SUFFICES ASSUME Init PROVE IInv
  OBVIOUS
<1>1. WorldOK /\ RowsOK
  BY DEF Init, WorldOK, RowsOK, Confirmation
<1>2. SweepOK
  BY OutageAssumption DEF Init, SweepOK
<1>3. HistoryOK
  BY OutageAssumption DEF Init, HistoryOK
<1>4. OutageRemembered /\ Mailing /\ RowsHonest
  BY DEF Init, OutageRemembered, Mailing, RowsHonest
<1> QED BY <1>1, <1>2, <1>3, <1>4 DEF IInv, TypeOK

\* Every step of the monitor, the sites and the panel keeps the invariant.
LEMMA StepKeeps == IInv /\ [Next]_vars => IInv'
<1> SUFFICES ASSUME IInv, [Next]_vars PROVE IInv'
  OBVIOUS
<1> USE OutageAssumption DEF IInv, TypeOK, Confirmation, world, rows, sweep, history, Walk, Await,
    Settled
<1>1. CASE SweepBegins
  <2>1. WorldOK'  BY <1>1 DEF SweepBegins, WorldOK
  <2>2. RowsOK'  BY <1>1 DEF SweepBegins, RowsOK
  <2>3. SweepOK'  BY <1>1 DEF SweepBegins, SweepOK, WorldOK
  <2>4. HistoryOK'  BY <1>1 DEF SweepBegins, HistoryOK
  <2>5. OutageRemembered'  BY <1>1 DEF SweepBegins, OutageRemembered
  <2>6. Mailing'  BY <1>1 DEF SweepBegins, Mailing
  <2>7. RowsHonest'  BY <1>1 DEF SweepBegins, RowsHonest
  <2> QED BY <2>1, <2>2, <2>3, <2>4, <2>5, <2>6, <2>7 DEF IInv, TypeOK
<1>2. CASE SweepEnds
  <2>1. WorldOK'  BY <1>2 DEF SweepEnds, WorldOK
  <2>2. RowsOK'  BY <1>2 DEF SweepEnds, RowsOK
  <2>3. SweepOK'  BY <1>2 DEF SweepEnds, SweepOK
  <2>4. HistoryOK'  BY <1>2 DEF SweepEnds, HistoryOK
  <2>5. OutageRemembered'  BY <1>2 DEF SweepEnds, OutageRemembered
  <2>6. Mailing'  BY <1>2 DEF SweepEnds, Mailing
  <2>7. RowsHonest'  BY <1>2 DEF SweepEnds, RowsHonest
  <2> QED BY <2>1, <2>2, <2>3, <2>4, <2>5, <2>6, <2>7 DEF IInv, TypeOK
<1>3. CASE SweepThrows
  <2>1. WorldOK'  BY <1>3 DEF SweepThrows, WorldOK
  <2>2. RowsOK'  BY <1>3 DEF SweepThrows, RowsOK
  <2>3. SweepOK'  BY <1>3 DEF SweepThrows, SweepOK
  <2>4. HistoryOK'  BY <1>3 DEF SweepThrows, HistoryOK
  <2>5. OutageRemembered'  BY <1>3 DEF SweepThrows, OutageRemembered
  <2>6. Mailing'  BY <1>3 DEF SweepThrows, Mailing
  <2>7. RowsHonest'  BY <1>3 DEF SweepThrows, RowsHonest
  <2> QED BY <2>1, <2>2, <2>3, <2>4, <2>5, <2>6, <2>7 DEF IInv, TypeOK
<1>4. ASSUME NEW s \in Sites, Skip(s) PROVE IInv'
  <2>1. WorldOK'  BY <1>4 DEF Skip, WorldOK
  <2>2. RowsOK'  BY <1>4 DEF Skip, RowsOK
  <2>3. SweepOK'  BY <1>4 DEF Skip, SweepOK
  <2>4. HistoryOK'  BY <1>4 DEF Skip, HistoryOK
  <2>5. OutageRemembered'  BY <1>4 DEF Skip, OutageRemembered
  <2>6. Mailing'  BY <1>4 DEF Skip, Mailing
  <2>7. RowsHonest'  BY <1>4 DEF Skip, RowsHonest
  <2> QED BY <2>1, <2>2, <2>3, <2>4, <2>5, <2>6, <2>7 DEF IInv, TypeOK
<1>5. ASSUME NEW s \in Sites, Ignore(s) PROVE IInv'
  <2>1. WorldOK'  BY <1>5 DEF Ignore, SeenStopped, WorldOK
  <2>2. RowsOK'  BY <1>5 DEF Ignore, SeenStopped, RowsOK
  <2>3. SweepOK'  BY <1>5 DEF Ignore, SeenStopped, SweepOK
  <2>4. HistoryOK'  BY <1>5 DEF Ignore, SeenStopped, HistoryOK
  <2>5. OutageRemembered'  BY <1>5 DEF Ignore, SeenStopped, OutageRemembered
  <2>6. Mailing'  BY <1>5 DEF Ignore, SeenStopped, Mailing
  <2>7. RowsHonest'  BY <1>5 DEF Ignore, SeenStopped, RowsHonest, RowsOK
  <2> QED BY <2>1, <2>2, <2>3, <2>4, <2>5, <2>6, <2>7 DEF IInv, TypeOK
<1>6. ASSUME NEW s \in Sites, Probe(s) PROVE IInv'
  <2>1. WorldOK'  BY <1>6 DEF Probe, WorldOK
  <2>2. RowsOK'  BY <1>6 DEF Probe, RowsOK
  <2>3. SweepOK'  BY <1>6 DEF Probe, SweepOK
  <2>4. HistoryOK'  BY <1>6 DEF Probe, HistoryOK
  <2>5. OutageRemembered'  BY <1>6 DEF Probe, OutageRemembered
  <2>6. Mailing'  BY <1>6 DEF Probe, Mailing
  <2>7. RowsHonest'  BY <1>6 DEF Probe, RowsHonest
  <2> QED BY <2>1, <2>2, <2>3, <2>4, <2>5, <2>6, <2>7 DEF IInv, TypeOK
<1>7. CASE FoundUp
  <2>1. WorldOK'  BY <1>7 DEF FoundUp, WorldOK
  <2>2. RowsOK'
    <3>1. at \in Sites
      BY <1>7 DEF FoundUp, WorldOK
    <3>2. failures' \in [Sites -> 0..Confirmation]
      <4> DEFINE Counts == 0..Confirmation
      <4>1. failures \in [Sites -> Counts]
        BY DEF RowsOK
      <4>2. 0 \in Counts
        BY <3>1, <4>1
      <4>3. failures' = [failures EXCEPT ![at] = 0]
        BY <1>7 DEF FoundUp
      <4> HIDE DEF Counts
      <4>4. failures' \in [Sites -> Counts]
        BY <3>1, <4>1, <4>2, <4>3
      <4> QED BY <4>4 DEF Counts
    <3>3. notified' \in [Sites -> {"null", "up", "down"}]
      BY <1>7, <3>1 DEF FoundUp, RowsOK
    <3> QED BY <3>2, <3>3 DEF RowsOK
  <2>3. SweepOK'  BY <1>7 DEF FoundUp, SweepOK
  <2>4. HistoryOK'  BY <1>7 DEF FoundUp, HistoryOK
  <2>5. OutageRemembered'  BY <1>7 DEF FoundUp, OutageRemembered, RowsOK, WorldOK
  <2>6. Mailing'  BY <1>7 DEF FoundUp, Mailing
  <2>7. RowsHonest'  BY <1>7 DEF FoundUp, RowsHonest, RowsOK
  <2> QED BY <2>1, <2>2, <2>3, <2>4, <2>5, <2>6, <2>7 DEF IInv, TypeOK
<1>8. CASE FoundDown
  <2>1. WorldOK'  BY <1>8 DEF FoundDown, WorldOK
  <2>2. RowsOK'
    <3>1. at \in Sites
      BY <1>8 DEF FoundDown, WorldOK
    <3>2. failures' \in [Sites -> 0..Confirmation]
      <4> DEFINE Counts == 0..Confirmation
      <4> DEFINE count == IF failures[at] < Confirmation THEN failures[at] + 1 ELSE failures[at]
      <4>1. failures \in [Sites -> Counts]
        BY DEF RowsOK
      <4>2. count \in Counts
        BY <3>1, <4>1
      <4>3. failures' = [failures EXCEPT ![at] = count]
        BY <1>8 DEF FoundDown
      <4> HIDE DEF Counts, count
      <4>4. failures' \in [Sites -> Counts]
        BY <3>1, <4>1, <4>2, <4>3
      <4> QED BY <4>4 DEF Counts
    <3>3. notified' \in [Sites -> {"null", "up", "down"}]
      BY <1>8, <3>1 DEF FoundDown, RowsOK
    <3> QED BY <3>2, <3>3 DEF RowsOK
  <2>3. SweepOK'  BY <1>8 DEF FoundDown, SweepOK
  <2>4. HistoryOK'  BY <1>8 DEF FoundDown, HistoryOK
  <2>5. OutageRemembered'  BY <1>8 DEF FoundDown, OutageRemembered
  <2>6. Mailing'  BY <1>8 DEF FoundDown, Mailing, OutageRemembered
  <2>7. RowsHonest'  BY <1>8 DEF FoundDown, RowsHonest
  <2> QED BY <2>1, <2>2, <2>3, <2>4, <2>5, <2>6, <2>7 DEF IInv, TypeOK
<1>9. CASE MailUp
  <2>1. WorldOK'  BY <1>9 DEF MailUp, WorldOK
  <2>2. RowsOK'  BY <1>9 DEF MailUp, RowsOK
  <2>3. SweepOK'  BY <1>9 DEF MailUp, SweepOK
  <2>4. HistoryOK'  BY <1>9 DEF MailUp, HistoryOK
  <2>5. OutageRemembered'  BY <1>9 DEF MailUp, OutageRemembered
  <2>6. Mailing'  BY <1>9 DEF MailUp, Mailing
  <2>7. RowsHonest'  BY <1>9 DEF MailUp, RowsHonest
  <2> QED BY <2>1, <2>2, <2>3, <2>4, <2>5, <2>6, <2>7 DEF IInv, TypeOK
<1>10. CASE MailDown
  <2>1. WorldOK'  BY <1>10 DEF MailDown, WorldOK
  <2>2. RowsOK'  BY <1>10 DEF MailDown, RowsOK
  <2>3. SweepOK'  BY <1>10 DEF MailDown, SweepOK
  <2>4. HistoryOK'  BY <1>10 DEF MailDown, HistoryOK, SweepOK
  <2>5. OutageRemembered'  BY <1>10 DEF MailDown, OutageRemembered
  <2>6. Mailing'  BY <1>10 DEF MailDown, Mailing
  <2>7. RowsHonest'  BY <1>10 DEF MailDown, RowsHonest
  <2> QED BY <2>1, <2>2, <2>3, <2>4, <2>5, <2>6, <2>7 DEF IInv, TypeOK
<1>11. CASE Noted
  <2>1. WorldOK'  BY <1>11 DEF Noted, WorldOK
  <2>2. RowsOK'  BY <1>11 DEF Noted, RowsOK
  <2>3. SweepOK'  BY <1>11 DEF Noted, SweepOK
  <2>4. HistoryOK'  BY <1>11 DEF Noted, HistoryOK
  <2>5. OutageRemembered'  BY <1>11 DEF Noted, OutageRemembered, SweepOK, RowsOK
  <2>6. Mailing'  BY <1>11 DEF Noted, Mailing
  <2>7. RowsHonest'  BY <1>11 DEF Noted, RowsHonest, Mailing
  <2> QED BY <2>1, <2>2, <2>3, <2>4, <2>5, <2>6, <2>7 DEF IInv, TypeOK
<1>12. CASE World
  <2>1. ASSUME NEW s \in Sites, GoesDown(s) PROVE IInv'
    <3>1. WorldOK'  BY <2>1 DEF GoesDown, WorldOK
    <3>2. RowsOK'  BY <2>1 DEF GoesDown, RowsOK
    <3>3. SweepOK'  BY <2>1 DEF GoesDown, SweepOK
    <3>4. HistoryOK'  BY <2>1 DEF GoesDown, HistoryOK
    <3>5. OutageRemembered'  BY <2>1 DEF GoesDown, OutageRemembered
    <3>6. Mailing'  BY <2>1 DEF GoesDown, Mailing
    <3>7. RowsHonest'  BY <2>1 DEF GoesDown, RowsHonest
    <3> QED BY <3>1, <3>2, <3>3, <3>4, <3>5, <3>6, <3>7 DEF IInv, TypeOK
  <2>2. ASSUME NEW s \in Sites, ComesBack(s) PROVE IInv'
    <3>1. WorldOK'  BY <2>2 DEF ComesBack, WorldOK
    <3>2. RowsOK'  BY <2>2 DEF ComesBack, RowsOK
    <3>3. SweepOK'  BY <2>2 DEF ComesBack, SweepOK
    <3>4. HistoryOK'  BY <2>2 DEF ComesBack, HistoryOK
    <3>5. OutageRemembered'  BY <2>2 DEF ComesBack, OutageRemembered
    <3>6. Mailing'  BY <2>2 DEF ComesBack, Mailing
    <3>7. RowsHonest'  BY <2>2 DEF ComesBack, RowsHonest
    <3> QED BY <3>1, <3>2, <3>3, <3>4, <3>5, <3>6, <3>7 DEF IInv, TypeOK
  <2>3. ASSUME NEW s \in Sites, DeployBegins(s) PROVE IInv'
    <3>1. WorldOK'  BY <2>3 DEF DeployBegins, WorldOK
    <3>2. RowsOK'  BY <2>3 DEF DeployBegins, RowsOK
    <3>3. SweepOK'  BY <2>3 DEF DeployBegins, SweepOK
    <3>4. HistoryOK'  BY <2>3 DEF DeployBegins, HistoryOK
    <3>5. OutageRemembered'  BY <2>3 DEF DeployBegins, OutageRemembered
    <3>6. Mailing'  BY <2>3 DEF DeployBegins, Mailing
    <3>7. RowsHonest'  BY <2>3 DEF DeployBegins, RowsHonest
    <3> QED BY <3>1, <3>2, <3>3, <3>4, <3>5, <3>6, <3>7 DEF IInv, TypeOK
  <2>4. CASE DeployEnds
    <3>1. WorldOK'  BY <2>4 DEF DeployEnds, WorldOK
    <3>2. RowsOK'  BY <2>4 DEF DeployEnds, RowsOK
    <3>3. SweepOK'  BY <2>4 DEF DeployEnds, SweepOK
    <3>4. HistoryOK'  BY <2>4 DEF DeployEnds, HistoryOK
    <3>5. OutageRemembered'  BY <2>4 DEF DeployEnds, OutageRemembered
    <3>6. Mailing'  BY <2>4 DEF DeployEnds, Mailing
    <3>7. RowsHonest'  BY <2>4 DEF DeployEnds, RowsHonest
    <3> QED BY <3>1, <3>2, <3>3, <3>4, <3>5, <3>6, <3>7 DEF IInv, TypeOK
  <2>5. ASSUME NEW s \in Sites, OwnerStops(s) PROVE IInv'
    <3>1. WorldOK'  BY <2>5 DEF OwnerStops, WorldOK
    <3>2. RowsOK'  BY <2>5 DEF OwnerStops, RowsOK
    <3>3. SweepOK'  BY <2>5 DEF OwnerStops, SweepOK
    <3>4. HistoryOK'  BY <2>5 DEF OwnerStops, HistoryOK
    <3>5. OutageRemembered'  BY <2>5 DEF OwnerStops, OutageRemembered
    <3>6. Mailing'  BY <2>5 DEF OwnerStops, Mailing
    <3>7. RowsHonest'  BY <2>5 DEF OwnerStops, RowsHonest
    <3> QED BY <3>1, <3>2, <3>3, <3>4, <3>5, <3>6, <3>7 DEF IInv, TypeOK
  <2>6. ASSUME NEW s \in Sites, OwnerStarts(s) PROVE IInv'
    <3>1. WorldOK'  BY <2>6 DEF OwnerStarts, WorldOK
    <3>2. RowsOK'  BY <2>6 DEF OwnerStarts, RowsOK
    <3>3. SweepOK'  BY <2>6 DEF OwnerStarts, SweepOK
    <3>4. HistoryOK'  BY <2>6 DEF OwnerStarts, HistoryOK
    <3>5. OutageRemembered'  BY <2>6 DEF OwnerStarts, OutageRemembered
    <3>6. Mailing'  BY <2>6 DEF OwnerStarts, Mailing
    <3>7. RowsHonest'  BY <2>6 DEF OwnerStarts, RowsHonest
    <3> QED BY <3>1, <3>2, <3>3, <3>4, <3>5, <3>6, <3>7 DEF IInv, TypeOK
  <2>7. ASSUME NEW s \in Sites, OwnerRemoves(s) PROVE IInv'
    <3>1. WorldOK'  BY <2>7 DEF OwnerRemoves, WorldOK
    <3>2. RowsOK'  BY <2>7 DEF OwnerRemoves, RowsOK
    <3>3. SweepOK'  BY <2>7 DEF OwnerRemoves, SweepOK
    <3>4. HistoryOK'  BY <2>7 DEF OwnerRemoves, HistoryOK
    <3>5. OutageRemembered'  BY <2>7 DEF OwnerRemoves, OutageRemembered, RowsOK, WorldOK
    <3>6. Mailing'  BY <2>7 DEF OwnerRemoves, Mailing
    <3>7. RowsHonest'  BY <2>7 DEF OwnerRemoves, RowsHonest, RowsOK
    <3> QED BY <3>1, <3>2, <3>3, <3>4, <3>5, <3>6, <3>7 DEF IInv, TypeOK
  <2>8. ASSUME NEW s \in Sites, DeployStops(s) PROVE IInv'
    <3>1. WorldOK'  BY <2>8 DEF DeployStops, WorldOK
    <3>2. RowsOK'  BY <2>8 DEF DeployStops, RowsOK
    <3>3. SweepOK'  BY <2>8 DEF DeployStops, SweepOK
    <3>4. HistoryOK'  BY <2>8 DEF DeployStops, HistoryOK
    <3>5. OutageRemembered'  BY <2>8 DEF DeployStops, OutageRemembered
    <3>6. Mailing'  BY <2>8 DEF DeployStops, Mailing
    <3>7. RowsHonest'  BY <2>8 DEF DeployStops, RowsHonest
    <3> QED BY <3>1, <3>2, <3>3, <3>4, <3>5, <3>6, <3>7 DEF IInv, TypeOK
  <2>9. ASSUME NEW s \in Sites, DeployStarts(s) PROVE IInv'
    <3>1. WorldOK'  BY <2>9 DEF DeployStarts, WorldOK
    <3>2. RowsOK'  BY <2>9 DEF DeployStarts, RowsOK
    <3>3. SweepOK'  BY <2>9 DEF DeployStarts, SweepOK
    <3>4. HistoryOK'  BY <2>9 DEF DeployStarts, HistoryOK
    <3>5. OutageRemembered'  BY <2>9 DEF DeployStarts, OutageRemembered
    <3>6. Mailing'  BY <2>9 DEF DeployStarts, Mailing
    <3>7. RowsHonest'  BY <2>9 DEF DeployStarts, RowsHonest
    <3> QED BY <3>1, <3>2, <3>3, <3>4, <3>5, <3>6, <3>7 DEF IInv, TypeOK
  <2> QED BY <1>12, <2>1, <2>2, <2>3, <2>4, <2>5, <2>6, <2>7, <2>8, <2>9 DEF World
<1>13. CASE PanelRestarts
  <2>1. WorldOK'  BY <1>13 DEF PanelRestarts, WorldOK
  <2>2. RowsOK'  BY <1>13 DEF PanelRestarts, RowsOK
  <2>3. SweepOK'  BY <1>13 DEF PanelRestarts, SweepOK
  <2>4. HistoryOK'
    <3>1. open' \subseteq Sites /\ unrecorded' \subseteq open'
      BY <1>13 DEF PanelRestarts, HistoryOK, Mailing
    <3>2. ends' \in 0..MaxEnds
      BY <1>13 DEF PanelRestarts, HistoryOK
    <3> QED BY <3>1, <3>2 DEF HistoryOK
  <2>5. OutageRemembered'  BY <1>13 DEF PanelRestarts, OutageRemembered
  <2>6. Mailing'  BY <1>13 DEF PanelRestarts, Mailing
  <2>7. RowsHonest'  BY <1>13 DEF PanelRestarts, RowsHonest
  <2> QED BY <2>1, <2>2, <2>3, <2>4, <2>5, <2>6, <2>7 DEF IInv, TypeOK
<1>14. CASE UNCHANGED vars
  BY <1>14 DEF vars, TypeOK, WorldOK, RowsOK, SweepOK, HistoryOK, OutageRemembered, Mailing, RowsHonest
<1> QED BY <1>1, <1>2, <1>3, <1>4, <1>5, <1>6, <1>7, <1>8, <1>9, <1>10, <1>11, <1>12, <1>13, <1>14
           DEF Next, Sweep

\* So the invariant holds throughout.
LEMMA Invariance == Spec => []IInv
<1>1. Init => IInv
  BY InitHolds
<1>2. IInv /\ [Next]_vars => IInv'
  BY StepKeeps
<1> QED BY <1>1, <1>2, PTL DEF Spec

\* Types, for any set of sites.
THEOREM TypeCorrect == Spec => []TypeOK
<1>1. IInv => TypeOK
  BY DEF IInv
<1> QED BY <1>1, Invariance, PTL

\* What was announced is on record, or lost with the panel that announced it
\* (record, notify): for any number of sites, sweeps and restarts.
THEOREM NothingForgotten == Spec => []OutageRemembered
<1>1. IInv => OutageRemembered
  BY DEF IInv
<1> QED BY <1>1, Invariance, PTL

\* No outage is mailed twice, unless the panel died between mail and row.
THEOREM MailedOnce == Spec => OneMailPerOutage
<1>1. IInv /\ [Next]_vars => [\A s \in Sites : MailsDown(s) => s \notin open \/ s \in unrecorded]_vars
  BY DEF IInv, Mailing, MailsDown
<1> QED BY <1>1, Invariance, PTL DEF Spec, OneMailPerOutage

\* No recovery is mailed about a site that nobody was told is down.
THEOREM RecoveryAnswers == Spec => RecoveryAnswersOutage
<1>1. IInv /\ [Next]_vars => [\A s \in Sites : MailsUp(s) => s \in open]_vars
  <2> SUFFICES ASSUME IInv, Next, NEW s \in Sites, MailsUp(s) PROVE s \in open
    OBVIOUS
  <2>1. FoundUp
    BY DEF Next, Sweep, World, MailsUp, SweepBegins, SweepEnds, SweepThrows, Skip, Ignore, Probe,
           FoundUp, FoundDown, MailUp, MailDown, Noted, GoesDown, ComesBack, DeployBegins, DeployStops,
           DeployStarts, DeployEnds, SeenStopped, OwnerStops, OwnerStarts, OwnerRemoves,
           PanelRestarts, Walk, Await, sweep
  <2>2. notified[s] = "down"
    BY <2>1 DEF FoundUp, MailsUp, Walk
  <2> QED BY <2>2 DEF IInv, RowsHonest
<1> QED BY <1>1, Invariance, PTL DEF Spec, RecoveryAnswersOutage

-------------------------------------------------------------------------------
(***************************************************************************)
(* The traffic collector.                                                  *)
(***************************************************************************)
Reading == {"read", "save", "save, go on"}
Saving  == {"save", "save, go on"}
Rolled  == 1..file - 1

\* Files follow one another in the log, and it is the oldest copies that go.
Ordered == /\ \A f \in 1..file, g \in 1..file : f < g => before[f] < before[g]
           /\ \A f \in 1..file : before[f] <= made
           /\ kept \subseteq Rolled
           /\ \A f \in kept, g \in Rolled : f < g => g \in kept

\* What the collector has in hand between a look at the cursor and its save.
InHand == \E from \in {0, cursor[name]} : /\ from <= offset
                                          /\ name # Live => from = cursor[name]
                                          /\ added = before[handle] + from + 1 .. before[handle] + offset

Collecting ==
    /\ unread \subseteq Rolled \cup {Live}
    /\ pc = "idle" => name = None
    /\ pc # "idle" => name \in Rolled \cup {Live}
    /\ pc \notin Reading => handle = None
    /\ pc \in Reading => handle \in 1..file /\ (name # Live => handle = name)
    /\ pc \notin Saving => added = {}
    /\ pc \in {"open", "read"} => offset = cursor[name]
    /\ pc \in Saving => offset <= Size(handle) /\ InHand

\* No cursor is past the end of a copy.
CursorsFit == /\ \A f \in Rolled : cursor[f] <= Size(f)
              /\ \A f \in Files : f \notin Rolled => cursor[f] = 0

\* How far the log has been counted: by the cursor if a file is what was the current
\* one when it was set, and by the read that is to be saved.
ReachIn(f)   == before[f] + (IF cursor[Live] <= Size(f) THEN cursor[Live] ELSE 0)
LiveReach    == IF name = Live /\ handle # None
                THEN IF pc \in Saving THEN before[handle] + offset ELSE ReachIn(handle)
                ELSE ReachIn(file)
CopyReach(f) == before[f] + (IF name = f /\ pc \in Saving THEN offset ELSE cursor[f])
InCopies(l) == \E f \in Rolled : before[f] < l /\ l <= CopyReach(f)

CountedOnce == \A l \in Lines : /\ l > LiveReach => counted["live"][l] <= cut["live"][l]
                                /\ ~InCopies(l) => counted["copy"][l] <= cut["copy"][l]

CountInv == LogOK /\ CountsOK /\ CollectorOK /\ Ordered /\ Collecting /\ CursorsFit /\ CountedOnce
            /\ OncePerName

-------------------------------------------------------------------------------
\* The least of a set of numbers is one of them.
LEMMA MinIs ==
    ASSUME NEW S, S \subseteq Nat, S # {}
    PROVE  Min(S) \in S /\ \A x \in S : Min(S) <= x
<1>1. PICK m \in S : \A x \in S : ~(<<x, m>> \in OpToRel(<, Nat))
  BY NatLessThanWellFounded, WFMin
<1>2. ASSUME NEW x \in S PROVE m <= x
  <2>1. ~(x < m)
    BY <1>1 DEF OpToRel
  <2>2. x \in Nat /\ m \in Nat
    OBVIOUS
  <2> QED BY <2>1, <2>2
<1> QED BY <1>2 DEF Min

\* The greatest of a finite set of numbers is one of them.
LEMMA MaxIs ==
    ASSUME NEW N \in Nat, NEW S, S \subseteq 0..N, S # {}
    PROVE  Max(S) \in S /\ \A x \in S : x <= Max(S)
<1> DEFINE T == {N - x : x \in S}
<1>1. ASSUME NEW x \in S PROVE x \in Nat /\ N - x \in Nat
  <2>1. x \in 0..N
    OBVIOUS
  <2> QED BY <2>1
<1>2. T \subseteq Nat /\ T # {}
  BY <1>1
<1>3. PICK m \in S : Min(T) = N - m
  BY <1>2, MinIs
<1>4. ASSUME NEW x \in S PROVE x <= m
  <2>1. N - x \in T
    OBVIOUS
  <2>2. N - m <= N - x
    BY <1>2, <1>3, <2>1, MinIs
  <2> QED BY <1>1, <2>2
<1>5. \A x \in S : m >= x
  BY <1>1, <1>4
<1> HIDE DEF T
<1> QED BY <1>5, <1>1 DEF Max

\* The lesser of two numbers.
LEMMA LesserOf ==
    ASSUME NEW a \in Nat, NEW b \in Nat
    PROVE  Min({a, b}) = IF a <= b THEN a ELSE b
<1>1. Min({a, b}) \in {a, b} /\ Min({a, b}) <= a /\ Min({a, b}) <= b
  BY MinIs
<1> QED BY <1>1

\* A read ends no earlier than it begins, and no later than the file.
LEMMA ReadBounds ==
    ASSUME offset \in Nat, NEW size \in Nat
    PROVE  /\ Start(size) \in {0, offset} /\ Start(size) <= Until(size) /\ Until(size) <= size
           /\ Until(size) \in Nat /\ (offset <= size => Start(size) = offset)
           /\ (offset > size => Start(size) = 0)
<1>1. Start(size) \in Nat /\ Start(size) + Chunk \in Nat
  BY TrafficAssumption DEF Start
<1>2. Until(size) = IF size <= Start(size) + Chunk THEN size ELSE Start(size) + Chunk
  BY <1>1, LesserOf DEF Until
<1> QED BY <1>1, <1>2, TrafficAssumption DEF Start

\* The files of the log follow one another: each ends where the next begins.
LEMMA Sizes ==
    ASSUME LogOK, Ordered
    PROVE  /\ file \in Nat /\ made \in Nat /\ \A f \in 1..file : f \in Files /\ before[f] \in Nat
               /\ Size(f) \in Nat
           /\ \A f \in Rolled : before[f] + Size(f) = before[f + 1]
           /\ \A f \in Rolled, g \in 1..file : f < g => before[f] + Size(f) <= before[g]
           /\ before[file] + Size(file) = made
           /\ \A f \in 1..file : before[f] + Size(f) <= made
<1>1. file \in Nat /\ file >= 1 /\ made \in Nat /\ \A f \in 1..file : f \in Files /\ before[f] \in Nat
  BY TrafficAssumption DEF LogOK, Files
<1>2. \A f \in Rolled : f + 1 \in 1..file /\ Size(f) = before[f + 1] - before[f]
      /\ before[f] < before[f + 1]
  BY <1>1 DEF Rolled, Size, Ordered
<1>3. Size(file) = made - before[file] /\ before[file] <= made
  BY <1>1 DEF Size, Ordered
<1>4. \A f \in 1..file : f = file \/ f \in Rolled
  BY <1>1 DEF Rolled
<1>5. \A f \in Rolled, g \in 1..file : f < g => before[f + 1] <= before[g]
  <2> SUFFICES ASSUME NEW f \in Rolled, NEW g \in 1..file, f < g PROVE before[f + 1] <= before[g]
    OBVIOUS
  <2>1. f + 1 = g \/ f + 1 < g
    BY <1>1 DEF Rolled
  <2> QED BY <1>1, <1>2, <2>1 DEF Ordered
<1>6. \A f \in 1..file : before[f] <= made
  BY DEF Ordered
<1>7. \A f \in 1..file : Size(f) \in Nat
  BY <1>1, <1>2, <1>3, <1>4
<1>8. \A f \in Rolled : before[f] + Size(f) = before[f + 1] /\ f \in 1..file
  BY <1>1, <1>2 DEF Rolled
<1>9. \A f \in Rolled, g \in 1..file : f < g => before[f] + Size(f) <= before[g]
  BY <1>5, <1>8
<1>10. before[file] + Size(file) = made /\ file \in 1..file
  BY <1>1, <1>3
<1>11. \A f \in 1..file : before[f] + Size(f) <= made
  <2> SUFFICES ASSUME NEW f \in 1..file PROVE before[f] + Size(f) <= made
    OBVIOUS
  <2>1. CASE f = file
    BY <1>1, <1>10, <2>1
  <2>2. CASE f \in Rolled
    BY <1>2, <1>6, <1>8, <2>2
  <2> QED BY <1>4, <2>1, <2>2
<1> QED BY <1>1, <1>7, <1>8, <1>9, <1>10, <1>11

-------------------------------------------------------------------------------
\* Requests, rolls and dropped copies keep the log in order.
LEMMA LogTypes == LogOK /\ Ordered /\ (Request \/ Roll \/ Drop) => LogOK' /\ Ordered'
<1> SUFFICES ASSUME LogOK, Ordered, Request \/ Roll \/ Drop PROVE LogOK' /\ Ordered'
  OBVIOUS
<1>1. file \in Nat /\ file >= 1 /\ made \in Nat /\ MaxLines \in Nat /\ MaxRolls \in Nat
      /\ file \in Files
  BY TrafficAssumption DEF LogOK, Files
<1>2. CASE Request
  <2>1. LogOK'
    BY <1>1, <1>2 DEF Request, LogOK
  <2>2. made' >= made /\ before' = before /\ file' = file /\ kept' = kept
    BY <1>1, <1>2 DEF Request
  <2>3. \A f \in 1..file : before[f] <= made'
    BY <1>1, <2>1, <2>2, Sizes DEF Ordered, LogOK
  <2> QED BY <2>1, <2>2, <2>3 DEF Ordered, Rolled
<1>3. CASE Roll
  <2>1. file + 1 \in Files /\ file' = file + 1 /\ made' = made
        /\ before' = [before EXCEPT ![file + 1] = made] /\ kept' = kept \cup {file}
    BY <1>1, <1>3 DEF Roll, Files
  <2>2. LogOK'
    BY <1>1, <2>1 DEF LogOK
  <2>3. before'[file + 1] = made /\ \A f \in 1..file : before'[f] = before[f]
    BY <1>1, <2>1, Sizes DEF LogOK
  <2>4. before[file] < made
    BY <1>1, <1>3, Sizes DEF Roll, Size
  <2>5. \A f \in 1..file : before[f] < made /\ before[f] \in Nat
    <3> SUFFICES ASSUME NEW f \in 1..file PROVE before[f] < made
      BY Sizes
    <3>1. f = file \/ f < file
      BY <1>1
    <3>2. file \in 1..file
      BY <1>1
    <3> QED BY <1>1, <2>4, <3>1, <3>2, Sizes DEF Ordered
  <2>6. \A f \in 1..file' : f \in 1..file \/ f = file + 1
    BY <1>1, <2>1
  <2>7. \A f \in 1..file', g \in 1..file' : f < g => before'[f] < before'[g]
    <3> SUFFICES ASSUME NEW f \in 1..file', NEW g \in 1..file', f < g PROVE before'[f] < before'[g]
      OBVIOUS
    <3>1. f \in 1..file
      BY <1>1, <2>1
    <3>2. CASE g \in 1..file
      BY <2>3, <3>1, <3>2 DEF Ordered
    <3>3. CASE g = file + 1
      BY <2>3, <2>5, <3>1, <3>3
    <3> QED BY <2>6, <3>2, <3>3
  <2>8. \A f \in 1..file' : before'[f] <= made'
    BY <1>1, <2>1, <2>3, <2>5, <2>6
  <2>9. kept' \subseteq Rolled'
    BY <1>1, <2>1 DEF Ordered, Rolled
  <2>10. \A f \in kept', g \in Rolled' : f < g => g \in kept'
    <3> SUFFICES ASSUME NEW f \in kept', NEW g \in Rolled', f < g PROVE g \in kept'
      OBVIOUS
    <3>1. g \in Rolled \/ g = file
      BY <1>1, <2>1 DEF Rolled
    <3>2. f \in kept \/ f = file
      BY <2>1
    <3>3. CASE f = file
      BY <1>1, <2>1, <3>3 DEF Rolled
    <3>4. CASE f \in kept
      BY <2>1, <3>1, <3>4 DEF Ordered
    <3> QED BY <3>2, <3>3, <3>4
  <2> QED BY <2>2, <2>7, <2>8, <2>9, <2>10 DEF Ordered
<1>4. CASE Drop
  <2>1. kept' \subseteq kept /\ file' = file /\ made' = made /\ before' = before
    BY <1>4 DEF Drop
  <2>2. LogOK'
    BY <2>1 DEF LogOK
  <2>3. kept # {}
    <3>1. Keep \in Nat /\ Cardinality({}) = 0
      BY TrafficAssumption, FS_EmptySet
    <3> QED BY <1>4, <3>1 DEF Drop
  <2>4. kept \subseteq Nat
    BY <1>1 DEF Ordered, Rolled
  <2>5. Min(kept) \in kept /\ \A f \in kept : Min(kept) <= f
    BY <2>3, <2>4, MinIs
  <2>6. \A f \in kept', g \in Rolled : f < g => g \in kept'
    <3> SUFFICES ASSUME NEW f \in kept', NEW g \in Rolled, f < g PROVE g \in kept'
      OBVIOUS
    <3>1. f \in kept /\ g \in kept
      BY <2>1 DEF Ordered
    <3>2. f \in Nat /\ g \in Nat /\ Min(kept) \in Nat
      BY <2>4, <2>5, <3>1
    <3>3. g # Min(kept)
      BY <2>5, <3>1, <3>2
    <3> QED BY <1>4, <3>1, <3>3 DEF Drop
  <2> QED BY <2>1, <2>2, <2>6 DEF Ordered, Rolled
<1> QED BY <1>2, <1>3, <1>4

\* A file that was rolled stays as it is, and the others only grow.
LEMMA LogGrows ==
    ASSUME LogOK, Ordered, Request \/ Roll \/ Drop \/ UNCHANGED log
    PROVE  /\ file <= file' /\ file' \in Nat /\ made <= made' /\ 1..file \subseteq 1..file'
               /\ Rolled \subseteq Rolled'
           /\ \A f \in 1..file : before'[f] = before[f] /\ Size(f)' \in Nat /\ Size(f) <= Size(f)'
           /\ \A f \in Rolled : Size(f)' = Size(f)
           /\ file' # file => file' = file + 1 /\ before'[file + 1] = made
               /\ \A f \in 1..file : Size(f)' = Size(f)
<1>1. file \in Nat /\ file >= 1 /\ made \in Nat /\ MaxLines \in Nat /\ MaxRolls \in Nat
      /\ file \in Files
  BY TrafficAssumption DEF LogOK, Files
<1>2. \A f \in 1..file : before[f] \in Nat /\ Size(f) \in Nat /\ f \in Files
  BY Sizes
<1>3. \A f \in Rolled : f \in 1..file /\ f + 1 \in 1..file /\ f # file
  BY <1>1 DEF Rolled
<1>4. CASE Request \/ Drop \/ UNCHANGED log
  <2>1. file' = file /\ made <= made' /\ made' \in Nat /\ before' = before
    BY <1>1, <1>4 DEF Request, Drop, log
  <2>2. \A f \in Rolled : Size(f)' = Size(f)
    BY <1>3, <2>1 DEF Size
  <2>3. Size(file)' = made' - before[file] /\ Size(file) = made - before[file]
    BY <2>1 DEF Size
  <2>4. \A f \in 1..file : f \in Rolled \/ f = file
    BY <1>1 DEF Rolled
  <2>5. Size(file)' \in Nat /\ Size(file) <= Size(file)'
    BY <1>1, <1>2, <2>1, <2>3
  <2> QED BY <1>1, <1>2, <2>1, <2>2, <2>4, <2>5 DEF Rolled
<1>5. CASE Roll
  <2>1. file + 1 \in Files /\ file' = file + 1 /\ made' = made
        /\ before' = [before EXCEPT ![file + 1] = made]
    BY <1>1, <1>5 DEF Roll, Files
  <2>2. before'[file + 1] = made /\ \A f \in 1..file : before'[f] = before[f]
    BY <1>1, <1>2, <2>1 DEF LogOK
  <2>3. \A f \in Rolled : Size(f)' = Size(f)
    BY <1>1, <1>3, <2>1, <2>2 DEF Size
  <2>4. file \in 1..file /\ file' # file /\ file' \in Nat
    BY <1>1, <2>1
  <2>5. ASSUME NEW f \in 1..file, f = file PROVE Size(f)' = Size(f)
    BY <1>2, <2>1, <2>2, <2>4, <2>5 DEF Size
  <2>6. \A f \in 1..file : f \in Rolled \/ f = file
    BY <1>1 DEF Rolled
  <2>7. \A f \in 1..file : Size(f)' = Size(f)
    BY <2>3, <2>5, <2>6
  <2>8. file <= file' /\ made <= made' /\ 1..file \subseteq 1..file' /\ Rolled \subseteq Rolled'
    BY <1>1, <2>1 DEF Rolled
  <2>9. \A f \in 1..file : Size(f)' \in Nat /\ Size(f) <= Size(f)'
    BY <1>2, <2>7
  <2> QED BY <2>1, <2>2, <2>3, <2>4, <2>7, <2>8, <2>9
<1> QED BY <1>4, <1>5

-------------------------------------------------------------------------------
\* What a file has been counted up to lies within the file.
LEMMA ReachIs ==
    ASSUME LogOK, Ordered, cursor[Live] \in Nat, NEW f \in 1..file
    PROVE  ReachIn(f) \in Nat /\ before[f] <= ReachIn(f) /\ ReachIn(f) <= before[f] + Size(f)
           /\ ReachIn(f) <= made
<1>1. before[f] \in Nat /\ Size(f) \in Nat /\ made \in Nat /\ before[f] + Size(f) <= made
  BY Sizes
<1> QED BY <1>1 DEF ReachIn

\* While the log grows, is rolled or loses copies, the collector's part holds.
LEMMA LogKeeps ==
    ASSUME CountInv, Request \/ Roll \/ Drop
    PROVE  CountInv'
<1> USE DEF CountInv
<1>1. UNCHANGED <<cursor, counted, collector, cut>>
  BY DEF Request, Roll, Drop
<1>2. LogOK' /\ Ordered'
  BY LogTypes
<1>3. CountsOK' /\ CollectorOK' /\ OncePerName'
  BY <1>1 DEF CountsOK, CollectorOK, collector, OncePerName
<1>4. handle \in 1..file \/ handle = None
  BY DEF Collecting
<1>5. file \in Nat /\ file \in 1..file /\ made \in Nat
  BY Sizes, TrafficAssumption DEF LogOK, Files
<1>6. /\ file <= file' /\ file' \in Nat /\ made <= made' /\ 1..file \subseteq 1..file'
          /\ Rolled \subseteq Rolled'
      /\ \A f \in 1..file : before'[f] = before[f] /\ Size(f)' \in Nat /\ Size(f) <= Size(f)'
      /\ \A f \in Rolled : Size(f)' = Size(f)
      /\ file' # file => file' = file + 1
  BY LogGrows
<1>7. \A f \in 1..file : Size(f) \in Nat
  BY Sizes
<1>8. Collecting'
  <2>1. pc \in Saving => handle \in 1..file /\ offset <= Size(handle)'
    <3> SUFFICES ASSUME pc \in Saving PROVE handle \in 1..file /\ offset <= Size(handle)'
      OBVIOUS
    <3>1. handle \in 1..file /\ offset <= Size(handle) /\ offset \in Nat
      BY DEF Collecting, Saving, Reading, CollectorOK
    <3>2. \A f \in 1..file : f = handle => Size(f)' = Size(handle)'
      BY <1>1 DEF collector, Size
    <3>3. Size(handle) <= Size(handle)' /\ Size(handle) \in Nat /\ Size(handle)' \in Nat
      BY <1>6, <1>7, <3>1, <3>2
    <3> QED BY <3>1, <3>3
  <2>2. pc \in Saving => InHand'
    BY <1>1, <1>6, <2>1 DEF Collecting, InHand, collector
  <2>3. pc \in Saving => (offset <= Size(handle))'
    BY <1>1, <2>1 DEF collector
  <2> QED BY <1>1, <1>6, <2>2, <2>3 DEF Collecting, collector
<1>9. CursorsFit'
  <2>1. \A f \in Files : f \notin Rolled' => cursor'[f] = 0
    BY <1>1, <1>6 DEF CursorsFit
  <2>2. ASSUME NEW f \in Rolled' PROVE cursor'[f] <= Size(f)'
    <3>1. f \in 1..file
      <4>1. f \in 1..file' - 1
        BY DEF Rolled
      <4>2. file' = file \/ file' = file + 1
        BY <1>6
      <4> QED BY <1>5, <4>1, <4>2
    <3>2. CASE f \in Rolled
      BY <1>1, <1>6, <3>2 DEF CursorsFit
    <3>3. CASE f \notin Rolled
      <4>1. cursor'[f] = 0
        BY <1>1, <3>1, <3>3, Sizes DEF CursorsFit
      <4>2. Size(f)' \in Nat
        BY <1>6, <3>1
      <4> QED BY <4>1, <4>2
    <3> QED BY <3>2, <3>3
  <2> QED BY <2>1, <2>2 DEF CursorsFit
<1>10. \A l \in Lines : InCopies(l) => InCopies(l)'
  <2> SUFFICES ASSUME NEW l \in Lines, NEW f \in Rolled, before[f] < l, l <= CopyReach(f)
               PROVE  before'[f] < l /\ l <= CopyReach(f)'
    BY <1>6 DEF InCopies
  <2>1. f \in 1..file
    BY Sizes DEF Rolled
  <2> QED BY <1>1, <1>6, <2>1 DEF CopyReach, collector
<1>11. LiveReach <= LiveReach' /\ LiveReach \in Nat /\ LiveReach' \in Nat
  <2>1. cursor[Live] \in Nat /\ cursor' = cursor /\ offset \in Nat
    BY <1>1 DEF CountsOK, CollectorOK, Names
  <2>2. \A f \in 1..file : /\ ReachIn(f) \in Nat /\ ReachIn(f)' \in Nat /\ ReachIn(f) <= ReachIn(f)'
                           /\ before[f] \in Nat /\ before'[f] = before[f] /\ ReachIn(f) <= made
    <3> SUFFICES ASSUME NEW f \in 1..file
                 PROVE /\ ReachIn(f) \in Nat /\ ReachIn(f)' \in Nat /\ ReachIn(f) <= ReachIn(f)'
                       /\ before[f] \in Nat /\ before'[f] = before[f] /\ ReachIn(f) <= made
      OBVIOUS
    <3>1. before[f] \in Nat /\ Size(f) \in Nat /\ before'[f] = before[f] /\ Size(f)' \in Nat
          /\ Size(f) <= Size(f)'
      BY <1>6, Sizes
    <3>2. ReachIn(f) \in Nat /\ ReachIn(f) <= made
      BY <2>1, ReachIs
    <3> QED BY <2>1, <3>1, <3>2 DEF ReachIn
  <2>3. CASE name = Live /\ handle # None
    <3>1. handle \in 1..file
      BY <1>4, <2>3
    <3>2. \A f \in 1..file : f = handle => ReachIn(f)' = ReachIn(handle)'
      BY <1>1 DEF ReachIn, Size, collector
    <3>3. ReachIn(handle) \in Nat /\ ReachIn(handle)' \in Nat /\ ReachIn(handle) <= ReachIn(handle)'
      BY <2>2, <3>1, <3>2
    <3>4. before[handle] \in Nat /\ before'[handle] = before[handle]
      BY <2>2, <3>1
    <3> QED BY <1>1, <2>1, <2>3, <3>3, <3>4 DEF LiveReach, collector
  <2>4. CASE ~(name = Live /\ handle # None) /\ file' = file
    <3>1. \A f \in 1..file : f = file => ReachIn(f)' = ReachIn(file)'
      BY <2>4 DEF ReachIn, Size
    <3>2. ReachIn(file) \in Nat /\ ReachIn(file)' \in Nat /\ ReachIn(file) <= ReachIn(file)'
      BY <1>5, <2>2, <3>1
    <3> QED BY <1>1, <2>4, <3>2 DEF LiveReach, collector
  <2>5. CASE ~(name = Live /\ handle # None) /\ file' # file
    <3>1. ReachIn(file) \in Nat /\ ReachIn(file) <= made
      BY <1>5, <2>2
    <3>2. before'[file'] = made
      BY <2>5, LogGrows
    <3>3. ReachIn(file)' \in {made, made + cursor[Live]}
      BY <2>1, <3>2, <1>5 DEF ReachIn
    <3> QED BY <1>1, <1>5, <2>1, <2>5, <3>1, <3>3 DEF LiveReach, collector
  <2> QED BY <2>3, <2>4, <2>5
<1>12. CountedOnce'
  BY <1>1, <1>10, <1>11 DEF CountedOnce, Lines
<1> QED BY <1>2, <1>3, <1>8, <1>9, <1>12

-------------------------------------------------------------------------------
\* No earlier file is counted further than the live one.
LEMMA ReachFile ==
    ASSUME LogOK, Ordered, cursor[Live] \in Nat, NEW f \in 1..file
    PROVE  ReachIn(f) <= ReachIn(file) /\ file \in 1..file
<1>1. file \in Nat /\ file \in 1..file
  BY TrafficAssumption DEF LogOK, Files
<1>2. CASE f = file
  BY <1>1, <1>2, ReachIs
<1>3. CASE f # file
  <2>1. f \in Rolled /\ f < file
    BY <1>1, <1>3 DEF Rolled
  <2>2. before[f] + Size(f) <= before[file] /\ before[f] \in Nat /\ Size(f) \in Nat
        /\ before[file] \in Nat
    BY <1>1, <2>1, Sizes
  <2>3. ReachIn(f) \in Nat /\ ReachIn(file) \in Nat /\ ReachIn(f) <= before[f] + Size(f)
        /\ before[file] <= ReachIn(file)
    BY <1>1, ReachIs
  <2> QED BY <1>1, <2>2, <2>3
<1> QED BY <1>1, <1>2, <1>3

\* The names of the copies and of the live log are different numbers.
LEMMA NamesFacts ==
    ASSUME LogOK
    PROVE  /\ Rolled \cup {Live} \subseteq Names /\ Live \in Nat /\ Live \notin Files /\ Live # None
           /\ Rolled \subseteq Files /\ None \notin Names /\ Names \subseteq Nat /\ Names = 1..Live
           /\ file \in Nat /\ file >= 1 /\ 1..file \subseteq Files
  BY TrafficAssumption DEF LogOK, Rolled, Files, Names, Live, None

\* The collector between files, or at rest.
AtNone == pc \in {"idle", "open"} /\ handle = None /\ added = {}

\* A collector that ends its sweep holds no file.
LEMMA RestIs ==
    ASSUME LogOK, Rest, UNCHANGED log
    PROVE  CollectorOK' /\ Collecting' /\ AtNone'
  BY TrafficAssumption DEF Rest, log, CollectorOK, Collecting, AtNone, Saving, Reading

\* A collector that goes on to its next file holds none yet.
LEMMA GoOnIs ==
    ASSUME LogOK, NEW names, names \subseteq Rolled \cup {Live}, NEW c, c = cursor', CountsOK',
           GoOn(names, c), UNCHANGED log
    PROVE  CollectorOK' /\ Collecting' /\ AtNone'
<1>1. CASE names = {}
  BY <1>1, RestIs DEF GoOn
<1>2. CASE names # {}
  <2>1. names \subseteq Nat /\ names \subseteq Names
    BY NamesFacts
  <2>2. name' \in names
    BY <1>2, <2>1, MinIs DEF GoOn
  <2>3. /\ unread' \subseteq names /\ offset' = cursor'[name'] /\ pass' = 1 /\ pc' = "open"
        /\ handle' = None /\ added' = {}
    BY <1>2 DEF GoOn
  <2>4. offset' \in Nat
    BY <2>1, <2>2, <2>3 DEF CountsOK
  <2>5. CollectorOK'
    BY <2>1, <2>2, <2>3, <2>4, TrafficAssumption DEF CollectorOK
  <2>6. Rolled' = Rolled
    BY DEF log, Rolled
  <2>7. Collecting'
    BY <2>2, <2>3, <2>6 DEF Collecting, Reading, Saving
  <2> QED BY <2>3, <2>5, <2>7 DEF AtNone
<1> QED BY <1>1, <1>2

\* What is said of the log does not change while the log does not.
LEMMA LogSame ==
    ASSUME UNCHANGED log
    PROVE  /\ (LogOK => LogOK') /\ (Ordered => Ordered')
           /\ Rolled' = Rolled /\ file' = file /\ before' = before /\ made' = made /\ kept' = kept
           /\ \A f : Size(f)' = Size(f)
           /\ cursor'[Live] = cursor[Live] => \A f : ReachIn(f)' = ReachIn(f)
  BY DEF log, LogOK, Ordered, Rolled, Size, ReachIn

\* A file that nothing was read from is let go.
LEMMA LetGo ==
    ASSUME CountInv, pc \notin Saving, AtNone', UNCHANGED log, UNCHANGED <<cursor, counted, cut>>
    PROVE  CountedOnce'
<1>1. cursor[Live] \in Nat /\ file \in 1..file
  BY TrafficAssumption DEF CountInv, CountsOK, Names, LogOK, Files
<1>2. LiveReach' = ReachIn(file)
  BY LogSame, NamesFacts DEF AtNone, LiveReach, CountInv
<1>3. LiveReach <= LiveReach' /\ LiveReach \in Nat /\ LiveReach' \in Nat
  <2>1. CASE name = Live /\ handle # None
    <3>1. handle \in 1..file
      BY <2>1 DEF CountInv, Collecting
    <3>2. LiveReach = ReachIn(handle)
      BY <2>1 DEF LiveReach
    <3> QED BY <1>1, <1>2, <3>1, <3>2, ReachFile, ReachIs DEF CountInv
  <2>2. CASE ~(name = Live /\ handle # None)
    BY <1>1, <1>2, <2>2, ReachIs DEF LiveReach, CountInv
  <2> QED BY <2>1, <2>2
<1>4. \A l \in Lines : InCopies(l) => InCopies(l)'
  BY LogSame DEF InCopies, CopyReach, AtNone, Saving
<1> QED BY <1>3, <1>4 DEF CountedOnce, CountInv, Lines

\* A sweep begins with nothing in hand.
LEMMA SweepLogsKeeps == CountInv /\ SweepLogs => CountInv'
<1> SUFFICES ASSUME CountInv, SweepLogs PROVE CountInv'
  OBVIOUS
<1> USE DEF CountInv
<1>1. UNCHANGED <<cursor, counted, cut>> /\ UNCHANGED log /\ GoOn(LogFiles, cursor) /\ pc \notin Saving
  BY DEF SweepLogs, Saving
<1>2. LogOK' /\ Ordered' /\ CountsOK' /\ CursorsFit' /\ OncePerName'
  BY <1>1, LogSame DEF CountsOK, CursorsFit, OncePerName
<1>3. LogFiles \subseteq Rolled \cup {Live}
  BY DEF LogFiles, Ordered
<1>4. CollectorOK' /\ Collecting' /\ AtNone'
  BY <1>1, <1>2, <1>3, GoOnIs
<1> QED BY <1>1, <1>2, <1>4, LetGo

\* An open takes hold of the file that has the name now.
LEMMA OpenKeeps == CountInv /\ Open => CountInv'
<1> SUFFICES ASSUME CountInv, Open PROVE CountInv'
  OBVIOUS
<1> USE DEF CountInv
<1>1. UNCHANGED <<cursor, counted, cut>> /\ UNCHANGED log /\ pc \notin Saving
  BY DEF Open, Saving
<1>2. LogOK' /\ Ordered' /\ CountsOK' /\ CursorsFit' /\ OncePerName'
  BY <1>1, LogSame DEF CountsOK, CursorsFit, OncePerName
<1>3. CASE GoOn(unread, cursor)
  <2>1. CollectorOK' /\ Collecting' /\ AtNone'
    BY <1>1, <1>2, <1>3, GoOnIs DEF Collecting
  <2> QED BY <1>1, <1>2, <2>1, LetGo
<1>4. CASE /\ handle' \in OnDisk(name) /\ pc' = "read"
           /\ UNCHANGED <<unread, name, offset, pass, added>>
  <2>1. name \in Rolled \cup {Live} /\ handle = None /\ added = {} /\ offset = cursor[name]
        /\ pc = "open"
    BY DEF Open, Collecting, Reading, Saving
  <2>2. handle' \in 1..file /\ (name # Live => handle' = name) /\ (name = Live => handle' = file)
        /\ handle' \in Files
    BY <1>4, <2>1, NamesFacts DEF OnDisk, Rolled
  <2>3. CollectorOK' /\ Collecting'
    BY <1>1, <1>4, <2>1, <2>2, LogSame DEF CollectorOK, Collecting, Reading, Saving
  <2>4. LiveReach' = LiveReach
    BY <1>1, <1>4, <2>1, <2>2, LogSame, NamesFacts DEF LiveReach, Saving
  <2>5. \A l \in Lines : InCopies(l) => InCopies(l)'
    BY <1>1, <1>4, <2>1, LogSame DEF InCopies, CopyReach, Saving
  <2> QED BY <1>1, <1>2, <2>3, <2>4, <2>5 DEF CountedOnce
<1> QED BY <1>3, <1>4 DEF Open

\* A sweep that fails leaves the cursors as they were.
LEMMA FailsKeeps == CountInv /\ Fails => CountInv'
<1> SUFFICES ASSUME CountInv, Fails PROVE CountInv'
  OBVIOUS
<1> USE DEF CountInv
<1>1. UNCHANGED <<cursor, counted, cut>> /\ UNCHANGED log /\ pc \notin Saving
  BY DEF Fails, Saving
<1>2. LogOK' /\ Ordered' /\ CountsOK' /\ CursorsFit' /\ OncePerName'
  BY <1>1, LogSame DEF CountsOK, CursorsFit, OncePerName
<1>3. CollectorOK' /\ Collecting' /\ AtNone'
  BY <1>1, <1>2, RestIs DEF Fails
<1> QED BY <1>1, <1>2, <1>3, LetGo

\* One more, for each of some lines, from one source.
LEMMA OneMore ==
    ASSUME NEW t \in [Sources -> [Lines -> Nat]], NEW S, NEW src \in Sources, NEW u,
           u = [t EXCEPT ![src] = [l \in Lines |-> @[l] + IF l \in S THEN 1 ELSE 0]]
    PROVE  /\ u \in [Sources -> [Lines -> Nat]]
           /\ \A s \in Sources, l \in Lines :
                 /\ s # src \/ l \notin S => u[s][l] = t[s][l]
                 /\ s = src /\ l \in S => u[s][l] = t[s][l] + 1
                 /\ u[s][l] \in Nat /\ t[s][l] \in Nat
<1> DEFINE row == [l \in Lines |-> t[src][l] + IF l \in S THEN 1 ELSE 0]
<1>1. \A s \in Sources, l \in Lines : t[s][l] \in Nat
  OBVIOUS
<1>2. \A l \in Lines : /\ row[l] = t[src][l] + (IF l \in S THEN 1 ELSE 0)
                       /\ row[l] \in Nat
  BY <1>1
<1>3. row \in [Lines -> Nat]
  BY <1>2
<1>4. u = [t EXCEPT ![src] = row]
  OBVIOUS
<1> HIDE DEF row
<1>5. u \in [Sources -> [Lines -> Nat]] /\ u[src] = row /\ \A s \in Sources : s # src => u[s] = t[s]
  BY <1>3, <1>4
<1> QED BY <1>1, <1>2, <1>5

\* A read counts what lies between the cursor and where it ends.
LEMMA ReadKeeps == CountInv /\ Read => CountInv'
<1> SUFFICES ASSUME CountInv, Read PROVE CountInv'
  OBVIOUS
<1> USE DEF CountInv
<1> DEFINE size == Size(handle)
           from == Start(size)
           upto == Until(size)
<1>1. UNCHANGED log /\ UNCHANGED <<cursor, cut>> /\ UNCHANGED <<unread, name, handle, pass>>
      /\ pc = "read"
  BY DEF Read
<1>2. LogOK' /\ Ordered' /\ CursorsFit'
  BY <1>1, LogSame DEF CursorsFit
<1>3. /\ handle \in 1..file /\ handle \in Files /\ (name # Live => handle = name)
          /\ name \in Rolled \cup {Live}
      /\ offset = cursor[name] /\ added = {} /\ offset \in Nat /\ handle # None
  BY <1>1, NamesFacts, TrafficAssumption DEF Collecting, CollectorOK, Reading, Saving, None
<1>4. size \in Nat /\ before[handle] \in Nat /\ before[handle] + size <= made /\ made \in Nat
      /\ made <= MaxLines /\ MaxLines \in Nat
  BY <1>3, Sizes, TrafficAssumption DEF LogOK
<1>5. /\ from \in {0, offset} /\ from <= upto /\ upto <= size /\ upto \in Nat /\ from \in Nat
      /\ offset <= size => from = offset
      /\ offset > size => from = 0
  BY <1>3, <1>4, ReadBounds
<1>6. added' = before[handle] + from + 1 .. before[handle] + upto /\ offset' = upto /\ pc' \in Saving
  BY DEF Read, Saving
<1>7. Source \in Sources
  BY DEF Source, Sources
<1>8. /\ counted' \in [Sources -> [Lines -> Nat]]
      /\ \A s \in Sources, l \in Lines :
            /\ s # Source \/ l \notin added' => counted'[s][l] = counted[s][l]
            /\ s = Source /\ l \in added' => counted'[s][l] = counted[s][l] + 1
            /\ counted'[s][l] \in Nat /\ counted[s][l] \in Nat
  <2>1. counted' = [counted EXCEPT ![Source] = [l \in Lines |-> @[l] + IF l \in added' THEN 1 ELSE 0]]
    BY DEF Read
  <2>2. counted \in [Sources -> [Lines -> Nat]]
    BY DEF CountsOK
  <2> QED BY <1>7, <2>1, <2>2, OneMore
<1>9. CountsOK' /\ \A s \in Sources, l \in Lines : cut'[s][l] = cut[s][l] /\ cut[s][l] \in Nat
  BY <1>1, <1>8 DEF CountsOK
<1> HIDE DEF size, from, upto
<1>10. added' \subseteq Lines
  BY <1>4, <1>5, <1>6 DEF Lines
<1>11. CollectorOK'
  BY <1>1, <1>5, <1>6, <1>10 DEF CollectorOK, Saving
<1>12. name # Live => offset <= size
  BY <1>3 DEF size, CursorsFit
<1>13. InHand'
  BY <1>1, <1>3, <1>5, <1>6, <1>12, LogSame DEF InHand
<1>14. Collecting'
  <2>1. Size(handle)' = size
    BY <1>1 DEF log, Size, size
  <2> QED BY <1>1, <1>3, <1>5, <1>6, <1>13, <2>1, LogSame DEF Collecting, Saving, Reading
<1>15. CASE name = Live
  <2>1. LiveReach = before[handle] + from /\ LiveReach' = before[handle] + upto
    <3>1. LiveReach = ReachIn(handle)
      BY <1>1, <1>3, <1>15 DEF LiveReach, Saving
    <3>2. ReachIn(handle) = before[handle] + from
      BY <1>3, <1>4, <1>5, <1>15 DEF ReachIn, size
    <3>3. LiveReach' = before[handle] + upto
      BY <1>1, <1>3, <1>6, <1>15, LogSame DEF LiveReach, Saving
    <3> QED BY <3>1, <3>2, <3>3
  <2>2. Source = "live"
    BY <1>15 DEF Source
  <2>3. \A l \in Lines : InCopies(l) => InCopies(l)'
    BY <1>1, <1>15, LogSame, NamesFacts DEF InCopies, CopyReach
  <2>4. ASSUME NEW l \in Lines
        PROVE  /\ l > LiveReach' => counted'["live"][l] <= cut'["live"][l]
               /\ counted'["live"][l] <= 1 + cut'["live"][l]
               /\ counted'["copy"][l] = counted["copy"][l]
    <3>1. l \in added' => l > LiveReach /\ l <= LiveReach'
      BY <1>4, <1>5, <1>6, <2>1
    <3>2. l > LiveReach' => l > LiveReach
      BY <1>4, <1>5, <2>1 DEF Lines
    <3>3. l > LiveReach => counted["live"][l] <= cut["live"][l]
      BY DEF CountedOnce
    <3>4. counted["live"][l] <= 1 + cut["live"][l]
      BY DEF OncePerName, Sources
    <3>5. "live" \in Sources /\ "copy" \in Sources /\ "copy" # "live"
      BY DEF Sources
    <3>6. counted'["copy"][l] = counted["copy"][l]
      BY <1>8, <2>2, <3>5
    <3>7. CASE l \in added'
      <4>1. counted'["live"][l] = counted["live"][l] + 1 /\ counted["live"][l] <= cut["live"][l]
        BY <1>8, <2>2, <3>1, <3>3, <3>5, <3>7
      <4>2. cut'["live"][l] = cut["live"][l] /\ cut["live"][l] \in Nat /\ counted["live"][l] \in Nat
        BY <1>8, <1>9, <3>5
      <4>3. ~(l > LiveReach')
        BY <1>4, <1>5, <2>1, <3>1, <3>7 DEF Lines
      <4> QED BY <3>6, <4>1, <4>2, <4>3
    <3>8. CASE l \notin added'
      <4>1. counted'["live"][l] = counted["live"][l]
        BY <1>8, <3>5, <3>8
      <4>2. cut'["live"][l] = cut["live"][l]
        BY <1>9, <3>5
      <4> QED BY <3>2, <3>3, <3>4, <3>6, <4>1, <4>2
    <3> QED BY <3>7, <3>8
  <2>5. CountedOnce' /\ OncePerName'
    BY <1>9, <2>3, <2>4 DEF CountedOnce, OncePerName, Sources
  <2> QED BY <1>2, <1>9, <1>11, <1>14, <2>5
<1>16. CASE name # Live
  <2>1. name \in Rolled /\ handle = name /\ from = cursor[name] /\ Source = "copy"
    BY <1>3, <1>5, <1>12, <1>16 DEF Source
  <2>2. LiveReach' = LiveReach
    BY <1>1, <1>16, LogSame DEF LiveReach
  <2>3. ASSUME NEW l \in Lines
        PROVE  /\ ~InCopies(l)' => ~InCopies(l) /\ l \notin added'
               /\ l \in added' => ~InCopies(l)
    <3>1. CopyReach(name)' = before[name] + upto
      BY <1>1, <1>6, LogSame DEF CopyReach
    <3>2. \A f \in Rolled : CopyReach(f) = before[f] + cursor[f]
          /\ (f # name => CopyReach(f)' = CopyReach(f))
      BY <1>1, LogSame DEF CopyReach, Saving
    <3>3. \A f \in Rolled : cursor[f] \in Nat /\ before[f] \in Nat /\ Size(f) \in Nat
          /\ cursor[f] <= Size(f)
      BY Sizes, NamesFacts DEF CountsOK, CursorsFit, Rolled
    <3>4. InCopies(l) => InCopies(l)'
      <4> SUFFICES ASSUME NEW f \in Rolled, before[f] < l, l <= CopyReach(f)
                   PROVE  before'[f] < l /\ l <= CopyReach(f)' /\ f \in Rolled'
        BY DEF InCopies
      <4>1. before'[f] < l /\ f \in Rolled'
        BY <1>1, LogSame
      <4>2. CASE f # name
        BY <3>2, <4>1, <4>2
      <4>3. CASE f = name
        <5>1. before[name] + cursor[name] <= before[name] + upto /\ l \in Nat
          BY <1>4, <1>5, <2>1 DEF Lines
        <5>2. CopyReach(name) = before[name] + cursor[name] /\ CopyReach(name) \in Nat
              /\ CopyReach(name)' \in Nat
          BY <1>4, <1>5, <2>1, <3>1, <3>2, <3>3
        <5>3. l <= CopyReach(name)
          BY <4>3
        <5>4. l <= CopyReach(name)'
          BY <3>1, <5>1, <5>2, <5>3
        <5> QED BY <1>1, <4>1, <4>3, <5>4 DEF CopyReach
      <4> QED BY <4>2, <4>3
    <3>5. l \in added' => InCopies(l)'
      <4> SUFFICES ASSUME l \in added' PROVE InCopies(l)'
        OBVIOUS
      <4>1. before[name] < l /\ l <= before[name] + upto
        BY <1>4, <1>5, <1>6, <2>1
      <4> QED BY <1>1, <2>1, <3>1, <4>1, LogSame DEF InCopies
    <3>6. l \in added' => ~InCopies(l)
      <4> SUFFICES ASSUME l \in added', NEW f \in Rolled, before[f] < l, l <= CopyReach(f) PROVE FALSE
        BY DEF InCopies
      <4>1. before[name] + cursor[name] < l /\ l <= before[name] + Size(name) /\ l \in Nat
        BY <1>4, <1>5, <1>6, <2>1 DEF size
      <4>2. f # name
        BY <2>1, <3>2, <3>3, <4>1
      <4>3. f \in Nat /\ name \in Nat /\ f \in 1..file /\ name \in 1..file
        BY <2>1, NamesFacts DEF Rolled
      <4>4. CASE f < name
        BY <2>1, <3>2, <3>3, <4>1, <4>3, <4>4, Sizes
      <4>5. CASE name < f
        BY <2>1, <3>2, <3>3, <4>1, <4>3, <4>5, Sizes
      <4> QED BY <4>2, <4>3, <4>4, <4>5
    <3> QED BY <3>4, <3>5, <3>6
  <2>4. ASSUME NEW l \in Lines
        PROVE  /\ ~InCopies(l)' => counted'["copy"][l] <= cut'["copy"][l]
               /\ counted'["copy"][l] <= 1 + cut'["copy"][l]
               /\ counted'["live"][l] = counted["live"][l]
    <3>1. "live" \in Sources /\ "copy" \in Sources /\ "copy" # "live"
      BY DEF Sources
    <3>2. counted'["live"][l] = counted["live"][l]
      BY <1>8, <2>1, <3>1
    <3>3. ~InCopies(l) => counted["copy"][l] <= cut["copy"][l]
      BY DEF CountedOnce
    <3>4. counted["copy"][l] <= 1 + cut["copy"][l]
      BY DEF OncePerName, Sources
    <3>5. cut'["copy"][l] = cut["copy"][l] /\ cut["copy"][l] \in Nat /\ counted["copy"][l] \in Nat
      BY <1>8, <1>9, <3>1
    <3>6. CASE l \in added'
      <4>1. counted'["copy"][l] = counted["copy"][l] + 1
        BY <1>8, <2>1, <3>1, <3>6
      <4> QED BY <2>3, <3>2, <3>3, <3>5, <3>6, <4>1
    <3>7. CASE l \notin added'
      <4>1. counted'["copy"][l] = counted["copy"][l]
        BY <1>8, <3>1, <3>7
      <4> QED BY <2>3, <3>2, <3>3, <3>4, <3>5, <4>1
    <3> QED BY <3>6, <3>7
  <2>5. CountedOnce' /\ OncePerName'
    BY <1>9, <2>2, <2>4 DEF CountedOnce, OncePerName, Sources
  <2> QED BY <1>2, <1>9, <1>11, <1>14, <2>5
<1> QED BY <1>15, <1>16

\* What the collector has in hand while it saves.
LEMMA SavingFacts ==
    ASSUME CountInv, pc \in Saving
    PROVE  /\ handle \in 1..file /\ (name # Live => handle = name) /\ name \in Rolled \cup {Live}
               /\ handle # None
           /\ offset \in Nat /\ offset <= Size(handle) /\ Size(handle) \in Nat /\ before[handle] \in Nat
           /\ cursor[name] \in Nat /\ cursor[Live] \in Nat /\ file \in 1..file /\ file \in Nat
           /\ InHand
<1>1. pc \in Reading /\ pc # "idle"
  BY DEF Saving, Reading
<1>2. handle \in 1..file /\ (name # Live => handle = name) /\ name \in Rolled \cup {Live}
      /\ offset <= Size(handle) /\ InHand
  BY <1>1 DEF CountInv, Collecting
<1>3. Size(handle) \in Nat /\ before[handle] \in Nat
  BY <1>2, Sizes DEF CountInv
<1>4. file \in Nat /\ file \in 1..file /\ name \in Names /\ Live \in Names /\ handle # None
  BY <1>2, NamesFacts DEF CountInv, None, Names
<1> QED BY <1>2, <1>3, <1>4 DEF CountInv, CountsOK, CollectorOK

\* The cursor catches up with what was counted.
LEMMA SaveKeeps == CountInv /\ Save => CountInv'
<1> SUFFICES ASSUME CountInv, Save PROVE CountInv'
  OBVIOUS
<1> USE DEF CountInv
<1>1. UNCHANGED log /\ UNCHANGED <<counted, cut>> /\ pc \in Saving
      /\ cursor' = [cursor EXCEPT ![name] = offset]
  BY DEF Save, Saving
<1>2. LogOK' /\ Ordered' /\ OncePerName'
  BY <1>1, LogSame DEF OncePerName
<1>3. /\ handle \in 1..file /\ (name # Live => handle = name) /\ name \in Rolled \cup {Live}
          /\ handle # None
      /\ offset \in Nat /\ offset <= Size(handle) /\ Size(handle) \in Nat /\ before[handle] \in Nat
      /\ cursor[Live] \in Nat /\ file \in 1..file /\ file \in Nat
  BY <1>1, SavingFacts
<1>4. /\ CountsOK' /\ cursor'[name] = offset
      /\ \A n \in Names : n # name => cursor'[n] = cursor[n]
  BY <1>1, <1>3, NamesFacts DEF CountsOK
<1>5. CollectorOK' /\ Collecting' /\ AtNone'
  <2>1. CASE GoOn(unread, cursor')
    BY <1>1, <1>4, <2>1, GoOnIs DEF Collecting
  <2>2. CASE /\ pc' = "open" /\ pass < Passes /\ pass' = pass + 1 /\ handle' = None /\ added' = {}
             /\ UNCHANGED <<unread, name, offset>>
    <3>1. pass' \in 0..Passes
      <4>1. pass \in 0..Passes /\ Passes \in Nat
        BY TrafficAssumption DEF CollectorOK
      <4> QED BY <2>2, <4>1
    <3>2. CollectorOK' /\ AtNone'
      BY <2>2, <3>1, NamesFacts DEF CollectorOK, AtNone
    <3>3. Rolled' = Rolled /\ (unread' \subseteq Rolled \cup {Live}) /\ name' \in Rolled \cup {Live}
          /\ offset' = cursor'[name']
      BY <1>1, <1>3, <1>4, <2>2, LogSame DEF Collecting
    <3> QED BY <2>2, <3>2, <3>3 DEF Collecting, Saving, Reading
  <2> QED BY <2>1, <2>2 DEF Save
<1>6. CursorsFit'
  <2>1. \A f \in Rolled : cursor'[f] <= Size(f)
    BY <1>3, <1>4, NamesFacts DEF CursorsFit
  <2>2. \A f \in Files : f \notin Rolled => cursor'[f] = 0
    <3> SUFFICES ASSUME NEW f \in Files, f \notin Rolled PROVE cursor'[f] = 0
      OBVIOUS
    <3>1. f # name /\ f \in Names
      BY <1>3, NamesFacts DEF Names
    <3> QED BY <1>4, <3>1 DEF CursorsFit
  <2> QED BY <1>1, <2>1, <2>2, LogSame DEF CursorsFit
<1>7. LiveReach' = ReachIn(file)'
  BY <1>5 DEF LiveReach, AtNone
<1>8. LiveReach <= LiveReach' /\ LiveReach \in Nat /\ LiveReach' \in Nat
  <2>1. CASE name = Live
    <3>1. LiveReach = before[handle] + offset
      BY <1>1, <1>3, <2>1 DEF LiveReach
    <3>2. LiveReach' = before[file] + (IF offset <= Size(file) THEN offset ELSE 0)
      BY <1>1, <1>4, <1>7, <2>1, LogSame DEF ReachIn
    <3>3. before[file] \in Nat
      BY <1>3, Sizes
    <3>4. CASE handle = file
      BY <1>3, <3>1, <3>2, <3>3, <3>4
    <3>5. CASE handle # file
      <4>1. handle \in Rolled /\ handle < file
        BY <1>3, <3>5 DEF Rolled
      <4>2. before[handle] + Size(handle) <= before[file]
        BY <1>3, <4>1, Sizes
      <4> QED BY <1>3, <3>1, <3>2, <3>3, <4>2
    <3> QED BY <3>4, <3>5
  <2>2. CASE name # Live
    <3>1. cursor'[Live] = cursor[Live]
      BY <1>4, <2>2 DEF Names
    <3>2. LiveReach' = ReachIn(file)
      BY <1>1, <1>7, <3>1, LogSame
    <3> QED BY <1>3, <2>2, <3>2, ReachIs DEF LiveReach
  <2> QED BY <2>1, <2>2
<1>9. ASSUME NEW l \in Lines, InCopies(l) PROVE InCopies(l)'
  <2>1. PICK f \in Rolled : before[f] < l /\ l <= CopyReach(f)
    BY <1>9 DEF InCopies
  <2>2. f \in Names
    BY NamesFacts
  <2>3. CopyReach(f)' = before[f] + cursor'[f]
    BY <1>1, <1>5, LogSame DEF CopyReach, AtNone, Saving
  <2>4. CopyReach(f)' = CopyReach(f)
    BY <1>1, <1>4, <2>2, <2>3 DEF CopyReach
  <2> QED BY <1>1, <2>1, <2>4, LogSame DEF InCopies
<1>10. CountedOnce'
  BY <1>1, <1>8, <1>9 DEF CountedOnce, Lines
<1> QED BY <1>2, <1>4, <1>5, <1>6, <1>10

\* A crash between the row and the cursor is what cut remembers.
LEMMA CrashKeeps == CountInv /\ Crash => CountInv'
<1> SUFFICES ASSUME CountInv, Crash PROVE CountInv'
  OBVIOUS
<1> USE DEF CountInv
<1>1. UNCHANGED log /\ UNCHANGED <<cursor, counted>> /\ Rest
  BY DEF Crash
<1>2. LogOK' /\ Ordered' /\ CursorsFit'
  BY <1>1, LogSame DEF CursorsFit
<1>3. CollectorOK' /\ Collecting' /\ AtNone'
  BY <1>1, RestIs
<1>4. Source \in Sources
  BY DEF Source, Sources
<1>5. /\ cut' \in [Sources -> [Lines -> Nat]]
      /\ \A s \in Sources, l \in Lines :
            /\ s # Source \/ l \notin added => cut'[s][l] = cut[s][l]
            /\ s = Source /\ l \in added => cut'[s][l] = cut[s][l] + 1
            /\ cut'[s][l] \in Nat /\ cut[s][l] \in Nat
  <2>1. cut' = [cut EXCEPT ![Source] = [l \in Lines |-> @[l] + IF l \in added THEN 1 ELSE 0]]
    BY DEF Crash
  <2>2. cut \in [Sources -> [Lines -> Nat]]
    BY DEF CountsOK
  <2> QED BY <1>4, <2>1, <2>2, OneMore
<1>6. CountsOK'
  BY <1>1, <1>5 DEF CountsOK
<1>7. \A s \in Sources, l \in Lines : /\ counted'[s][l] = counted[s][l] /\ counted[s][l] \in Nat
                                      /\ cut[s][l] <= cut'[s][l] /\ counted[s][l] <= 1 + cut[s][l]
  <2> SUFFICES ASSUME NEW s \in Sources, NEW l \in Lines
               PROVE  /\ counted'[s][l] = counted[s][l] /\ counted[s][l] \in Nat
                      /\ cut[s][l] <= cut'[s][l] /\ counted[s][l] <= 1 + cut[s][l]
    OBVIOUS
  <2>1. counted[s][l] \in Nat
    BY DEF CountsOK
  <2>2. cut[s][l] <= cut'[s][l]
    BY <1>5
  <2> QED BY <1>1, <2>1, <2>2 DEF OncePerName
<1>8. OncePerName'
  BY <1>5, <1>7 DEF OncePerName
<1>9. LiveReach' = ReachIn(file) /\ cursor[Live] \in Nat /\ file \in 1..file
  BY <1>1, <1>3, LogSame, NamesFacts DEF LiveReach, AtNone, CountsOK
<1>10. ASSUME NEW l \in Lines, l > LiveReach' PROVE counted["live"][l] <= cut'["live"][l]
  <2>1. "live" \in Sources
    BY DEF Sources
  <2>2. CASE Source = "live" /\ l \in added
    BY <1>5, <1>7, <2>1, <2>2
  <2>3. CASE ~(Source = "live" /\ l \in added)
    <3>1. l > LiveReach
      <4>1. ReachIn(file) \in Nat /\ l \in Nat
        BY <1>9, ReachIs DEF Lines
      <4>2. CASE name = Live /\ pc \in Saving
        <5>1. /\ handle \in 1..file /\ offset \in Nat /\ offset <= Size(handle)
                  /\ Size(handle) \in Nat /\ handle # None
              /\ before[handle] \in Nat /\ InHand
          BY <4>2, SavingFacts
        <5>2. LiveReach = before[handle] + offset
          BY <4>2, <5>1 DEF LiveReach
        <5>3. PICK from \in {0, cursor[Live]} : from <= offset
                   /\ added = before[handle] + from + 1 .. before[handle] + offset
          BY <4>2, <5>1 DEF InHand
        <5>4. before[handle] + from <= ReachIn(handle) /\ from \in Nat
          BY <1>9, <5>1, <5>3 DEF ReachIn
        <5>5. ReachIn(handle) <= ReachIn(file) /\ ReachIn(handle) \in Nat
          BY <1>9, <5>1, ReachFile, ReachIs
        <5>6. l \notin added
          BY <2>3, <4>2 DEF Source
        <5> QED BY <1>9, <1>10, <4>1, <5>1, <5>2, <5>3, <5>4, <5>5, <5>6
      <4>3. CASE name = Live /\ handle # None /\ pc \notin Saving
        <5>1. LiveReach = ReachIn(handle) /\ handle \in 1..file
          BY <4>3 DEF LiveReach, Collecting
        <5>2. ReachIn(handle) <= ReachIn(file) /\ ReachIn(handle) \in Nat
          BY <1>9, <5>1, ReachFile, ReachIs
        <5> QED BY <1>9, <1>10, <4>1, <5>1, <5>2
      <4>4. CASE ~(name = Live /\ handle # None)
        BY <1>9, <1>10, <4>4 DEF LiveReach
      <4> QED BY <4>2, <4>3, <4>4
    <3>2. counted["live"][l] <= cut["live"][l]
      BY <3>1 DEF CountedOnce
    <3> QED BY <1>5, <1>7, <2>1, <3>2
  <2> QED BY <2>2, <2>3
<1>11. ASSUME NEW l \in Lines, ~InCopies(l)' PROVE counted["copy"][l] <= cut'["copy"][l]
  <2>1. "copy" \in Sources
    BY DEF Sources
  <2>2. CASE Source = "copy" /\ l \in added
    BY <1>5, <1>7, <2>1, <2>2
  <2>3. CASE ~(Source = "copy" /\ l \in added)
    <3>1. ~InCopies(l)
      <4> SUFFICES ASSUME NEW f \in Rolled, before[f] < l, l <= CopyReach(f) PROVE FALSE
        BY DEF InCopies
      <4>1. CopyReach(f)' = before[f] + cursor[f] /\ f \in Rolled' /\ before'[f] = before[f]
            /\ l \in Nat
        <5>1. Rolled' = Rolled /\ before' = before /\ cursor' = cursor /\ pc' \notin Saving
          BY <1>1, <1>3, LogSame DEF AtNone, Saving
        <5> QED BY <5>1 DEF CopyReach, Lines
      <4>2. CASE name = f /\ pc \in Saving
        <5>1. /\ handle = f /\ f # Live /\ offset \in Nat /\ before[f] \in Nat /\ cursor[f] \in Nat
                  /\ InHand
          BY <4>2, SavingFacts, NamesFacts
        <5>2. added = before[f] + cursor[f] + 1 .. before[f] + offset
          BY <4>2, <5>1 DEF InHand
        <5>3. l <= before[f] + offset
          BY <4>2 DEF CopyReach
        <5>4. l \notin added
          BY <2>3, <4>2, <5>1 DEF Source
        <5>5. l <= before[f] + cursor[f]
          BY <4>1, <5>1, <5>2, <5>3, <5>4
        <5> QED BY <1>11, <4>1, <5>5 DEF InCopies
      <4>3. CASE ~(name = f /\ pc \in Saving)
        <5>1. CopyReach(f) = before[f] + cursor[f]
          BY <4>3 DEF CopyReach
        <5> QED BY <1>11, <4>1, <5>1 DEF InCopies
      <4> QED BY <4>2, <4>3
    <3>2. counted["copy"][l] <= cut["copy"][l]
      BY <3>1 DEF CountedOnce
    <3> QED BY <1>5, <1>7, <2>1, <3>2
  <2> QED BY <2>2, <2>3
<1>12. CountedOnce'
  BY <1>1, <1>10, <1>11 DEF CountedOnce
<1> QED BY <1>2, <1>3, <1>6, <1>8, <1>12

\* Nobody else touches what the collector counts.
LEMMA OthersKeep ==
    ASSUME CountInv, UNCHANGED <<log, cursor, counted, collector, cut>>
    PROVE  CountInv'
  BY DEF CountInv, LogOK, CountsOK, CollectorOK, Ordered, Collecting, CursorsFit, CountedOnce,
     OncePerName, log, collector,
         Rolled, Size, InHand, LiveReach, ReachIn, InCopies, CopyReach

\* A log nobody has read yet.
LEMMA CountingHolds == TrafficInit => CountInv
<1> SUFFICES ASSUME TrafficInit PROVE CountInv
  OBVIOUS
<1>1. LogOK /\ CountsOK /\ CollectorOK
  BY TrafficAssumption DEF TrafficInit, LogOK, CountsOK, CollectorOK, Files, Sources, Lines, Names
<1>2. Ordered /\ Collecting /\ CursorsFit
  BY TrafficAssumption DEF TrafficInit, Ordered, Collecting, CursorsFit, Rolled, Reading, Saving,
     Files, Names
<1>3. CountedOnce /\ OncePerName
  BY DEF TrafficInit, CountedOnce, OncePerName, Sources
<1> QED BY <1>1, <1>2, <1>3 DEF CountInv

\* Every step keeps what is said of the counts.
LEMMA CountingKept == CountInv /\ [TrafficNext]_trafficVars => CountInv'
<1> SUFFICES ASSUME CountInv, [TrafficNext]_trafficVars PROVE CountInv'
  OBVIOUS
<1>1. CASE Request \/ Roll \/ Drop
  BY <1>1, LogKeeps
<1>2. CASE Collect
  BY <1>2, SweepLogsKeeps, OpenKeeps, ReadKeeps, SaveKeeps DEF Collect
<1>3. CASE Fails
  BY <1>3, FailsKeeps
<1>4. CASE Ask \/ ReadTail \/ Answer
  BY <1>4, OthersKeep DEF Ask, ReadTail, Answer
<1>5. CASE Crash
  BY <1>5, CrashKeeps
<1>6. CASE UNCHANGED trafficVars
  BY <1>6, OthersKeep DEF trafficVars
<1> QED BY <1>1, <1>2, <1>3, <1>4, <1>5, <1>6 DEF TrafficNext

\* "Reading resumes from a saved byte offset, so a restart in the middle of a busy hour
\* does not double that hour": for any log, however often it is rolled and the panel
\* ends, what is read under one name is counted once, but for the reads that were cut off
\* between the hour's row and the cursor (readNewLines, #collectSite).
THEOREM ReadOnce == TrafficSpec => []OncePerName
<1>1. CountInv => OncePerName
  BY DEF CountInv
<1> QED BY <1>1, CountingHolds, CountingKept, PTL DEF TrafficSpec

\* Each end of the panel cuts one read off.
CutOnce == \A l \in Lines : cut["live"][l] + cut["copy"][l] <= crashes

\* A crash adds to what was cut of one of the two, and everything else to neither.
LEMMA CutKept ==
    ASSUME CountInv, CutOnce, crashes \in Nat, [TrafficNext]_trafficVars
    PROVE  CutOnce' /\ crashes' \in Nat
<1>1. cut \in [Sources -> [Lines -> Nat]]
  BY DEF CountInv, CountsOK
<1>2. CASE UNCHANGED cut /\ crashes' \in {crashes, crashes + 1}
  <2>1. ASSUME NEW l \in Lines PROVE cut'["live"][l] + cut'["copy"][l] <= crashes'
    <3>1. cut["live"][l] \in Nat /\ cut["copy"][l] \in Nat /\ cut["live"][l] + cut["copy"][l] <= crashes
      BY <1>1 DEF CutOnce, Sources
    <3> QED BY <1>2, <3>1
  <2> QED BY <1>2, <2>1 DEF CutOnce
<1>3. CASE Crash
  <2>1. cut' = [cut EXCEPT ![Source] = [l \in Lines |-> @[l] + IF l \in added THEN 1 ELSE 0]]
        /\ crashes' = crashes + 1 /\ Source \in Sources
    BY <1>3 DEF Crash, Source, Sources
  <2>2. ASSUME NEW l \in Lines PROVE cut'["live"][l] + cut'["copy"][l] <= crashes'
    <3>1. cut["live"][l] \in Nat /\ cut["copy"][l] \in Nat /\ cut["live"][l] + cut["copy"][l] <= crashes
      BY <1>1 DEF CutOnce, Sources
    <3>2. cut'[Source][l] \in {cut[Source][l], cut[Source][l] + 1}
      BY <1>1, <2>1
    <3>3. \A s \in Sources : s # Source => cut'[s][l] = cut[s][l]
      BY <1>1, <2>1
    <3>4. CASE Source = "live"
      BY <2>1, <3>1, <3>2, <3>3, <3>4 DEF Sources
    <3>5. CASE Source = "copy"
      BY <2>1, <3>1, <3>2, <3>3, <3>5 DEF Sources
    <3> QED BY <2>1, <3>4, <3>5 DEF Sources
  <2> QED BY <2>1, <2>2 DEF CutOnce
<1> QED
  BY <1>2, <1>3 DEF TrafficNext, Request, Roll, Drop, Collect, SweepLogs, Open, Read, Save, Fails, Ask,
     ReadTail, Answer, trafficVars

\* How far the code is from "nothing is counted twice" (collector.ts:18): a request is
\* counted while it is in the live file, and again from its rolled copy, and no more often
\* than that but once with each end of the panel.
TwiceAtMost == \A l \in Lines : Times(l) <= 2 + crashes

\* So much and no more is counted, however often the log is rolled (#collectSite).
THEOREM CountedTwiceAtMost == TrafficSpec => []TwiceAtMost
<1>1. TrafficInit => CutOnce /\ crashes \in Nat
  BY DEF TrafficInit, CutOnce, Sources
<1>2. CountInv /\ (CutOnce /\ crashes \in Nat) /\ [TrafficNext]_trafficVars
        => (CutOnce /\ crashes \in Nat)'
  BY CutKept
<1>3. CountInv /\ (CutOnce /\ crashes \in Nat) => TwiceAtMost
  <2> SUFFICES ASSUME CountInv, CutOnce, crashes \in Nat, NEW l \in Lines PROVE Times(l) <= 2 + crashes
    BY DEF TwiceAtMost
  <2>1. /\ counted \in [Sources -> [Lines -> Nat]] /\ cut \in [Sources -> [Lines -> Nat]]
        /\ "live" \in Sources /\ "copy" \in Sources
    BY DEF CountInv, CountsOK, Sources
  <2>2. counted["live"][l] \in Nat /\ counted["copy"][l] \in Nat /\ cut["live"][l] \in Nat
        /\ cut["copy"][l] \in Nat
    BY <2>1
  <2>3. counted["live"][l] <= 1 + cut["live"][l] /\ counted["copy"][l] <= 1 + cut["copy"][l]
    BY <2>1 DEF CountInv, OncePerName
  <2>4. cut["live"][l] + cut["copy"][l] <= crashes
    BY DEF CutOnce
  <2> QED BY <2>2, <2>3, <2>4 DEF Times
<1> QED BY <1>1, <1>2, <1>3, CountingHolds, CountingKept, PTL DEF TrafficSpec

-------------------------------------------------------------------------------
(***************************************************************************)
(* The scan of the traffic page.                                           *)
(***************************************************************************)
\* What a scan that nothing was rolled under has not seen is older than what it has
\* read, unless it is in copies that are gone.
Seen == scan.todo # {} /\ ~scan.rolled =>
            /\ ~scan.reached
            /\ scan.todo \subseteq Rolled \cup {Live}
            /\ \A l \in scan.unseen : scan.since <= l /\ l <= made
            /\ Live \notin scan.todo => \A l \in scan.unseen : l <= before[file]
            /\ \A f \in scan.todo \cap kept, g \in Rolled :
                  f < g => g \in scan.todo \/ \A l \in scan.unseen : l <= before[g]

ScanInv == LogOK /\ Ordered /\ ScanOK /\ Seen /\ CompleteIsAll

\* The parts of a scan.
LEMMA ScanFields ==
    ASSUME ScanOK
    PROVE  /\ scan.todo \subseteq Names /\ scan.since \in Nat /\ scan.unseen \subseteq Lines
               /\ scan.budget \in Nat
           /\ scan.reached \in BOOLEAN /\ scan.rolled \in BOOLEAN
  BY DEF ScanOK

\* No scan is a scan.
LEMMA NoScanOK == NoScan \in [todo : SUBSET Names, since : Nat, unseen : SUBSET Lines, budget : Nat,
                              reached : BOOLEAN, rolled : BOOLEAN]
  BY DEF NoScan

\* A new scan has seen nothing yet.
LEMMA AskScans == ScanInv /\ Ask => ScanInv'
<1> SUFFICES ASSUME ScanInv, Ask PROVE ScanInv'
  OBVIOUS
<1> USE DEF ScanInv
<1>1. UNCHANGED log
  BY DEF Ask
<1>2. PICK l \in Windows : scan' = [NoScan EXCEPT !.todo = LogFiles, !.since = l, !.unseen = l..made, !.budget = Budget]
  BY DEF Ask
<1>3. LogFiles \subseteq Rolled \cup {Live} /\ LogFiles \subseteq Names
  BY NamesFacts DEF LogFiles, Ordered
<1>4. l \in Nat /\ l \in Lines /\ made \in Nat /\ made <= MaxLines /\ MaxLines \in Nat /\ Budget \in Nat
  BY TrafficAssumption DEF Lines, LogOK
<1>5. l..made \subseteq Lines
  BY <1>4 DEF Lines
<1>6. scan' = [todo |-> LogFiles, since |-> l, unseen |-> l..made, budget |-> Budget, reached |-> FALSE, rolled |-> FALSE]
  BY <1>2 DEF NoScan
<1>7. ScanOK'
  BY <1>3, <1>4, <1>5, <1>6 DEF ScanOK
<1>8. Live \in scan'.todo /\ scan'.todo = LogFiles /\ ~scan'.reached /\ scan'.since = l
      /\ scan'.unseen = l..made
  BY <1>6 DEF LogFiles
<1>9. \A f \in kept, g \in Rolled : f < g => g \in kept
  BY DEF Ordered
<1>10. Seen'
  <2>1. LogFiles \subseteq Rolled' \cup {Live} /\ Rolled' = Rolled /\ made' = made /\ kept' = kept
        /\ before' = before
    BY <1>1, <1>3, LogSame
  <2>2. \A x \in l..made : l <= x /\ x <= made
    BY <1>4
  <2>3. \A f \in scan'.todo \cap kept, g \in Rolled : f < g => g \in scan'.todo
    BY <1>8, <1>9 DEF LogFiles
  <2> QED BY <1>8, <2>1, <2>2, <2>3 DEF Seen
<1>11. CompleteIsAll'
  BY <1>8 DEF CompleteIsAll
<1> QED BY <1>1, <1>7, <1>10, <1>11, LogSame

\* The part of a file that is read.
LEMMA TailIs ==
    ASSUME ScanOK, LogOK, Ordered, NEW f \in 1..file
    PROVE  \E low \in Nat : /\ Tail(f) = low .. before[f] + Size(f)
                            /\ scan.budget - Min({scan.budget, Size(f)}) # 0 => low = before[f] + 1
<1>1. scan.budget \in Nat /\ Size(f) \in Nat /\ before[f] \in Nat
  BY ScanFields, Sizes
<1>2. Min({Size(f), scan.budget}) = IF Size(f) <= scan.budget THEN Size(f) ELSE scan.budget
  BY <1>1, LesserOf
<1>3. Min({scan.budget, Size(f)}) = IF scan.budget <= Size(f) THEN scan.budget ELSE Size(f)
  BY <1>1, LesserOf
<1> DEFINE take == Min({Size(f), scan.budget})
           low  == before[f] + Size(f) - take + (IF take < Size(f) THEN 2 ELSE 1)
<1>4. low \in Nat /\ (scan.budget - Min({scan.budget, Size(f)}) # 0 => low = before[f] + 1)
  BY <1>1, <1>2, <1>3
<1>5. Tail(f) = low .. before[f] + Size(f)
  BY <1>1, <1>2 DEF Tail
<1> QED BY <1>4, <1>5

\* A scan reads its files from the newest to the oldest, each from its end.
LEMMA ReadTailScans == ScanInv /\ ReadTail => ScanInv'
<1> SUFFICES ASSUME ScanInv, ReadTail PROVE ScanInv'
  OBVIOUS
<1> USE DEF ScanInv
<1> DEFINE h    == NextToScan
           left == scan.todo \ {h}
<1>1. UNCHANGED log /\ scan.todo # {}
  BY DEF ReadTail
<1>2. h \in scan.todo /\ \A x \in scan.todo : x <= h
  <2>1. Live \in Nat /\ scan.todo \subseteq 0..Live
    BY ScanFields, NamesFacts
  <2> QED BY <1>1, <2>1, MaxIs DEF NextToScan
<1>3. h \in Names /\ h \in Nat /\ Live \in Nat /\ h <= Live /\ file \in 1..file /\ file \in Nat
  BY <1>2, ScanFields, NamesFacts
<1> HIDE DEF h
<1>4. CASE OnDisk(h) = {} /\ scan' = [scan EXCEPT !.todo = left]
  <2>1. /\ scan'.todo = left /\ scan'.since = scan.since /\ scan'.unseen = scan.unseen
        /\ scan'.reached = scan.reached /\ scan'.rolled = scan.rolled
    BY <1>4 DEF ScanOK
  <2>2. ScanOK'
    BY <1>4 DEF ScanOK
  <2>3. h # Live /\ h \notin kept
    BY <1>4 DEF OnDisk
  <2>4. CASE scan.rolled
    BY <1>1, <2>1, <2>2, <2>4, LogSame DEF Seen, CompleteIsAll
  <2>5. CASE ~scan.rolled
    <3>1. CompleteIsAll'
      BY <1>1, <2>1, <2>5 DEF Seen, CompleteIsAll
    <3>2. Live \in left <=> Live \in scan.todo
      BY <2>3
    <3>3. ASSUME NEW f \in left \cap kept, NEW g \in Rolled, f < g, g \notin left
          PROVE  \A l \in scan.unseen : l <= before[g]
      <4>1. g # h
        BY <2>3, <3>3 DEF Ordered
      <4> QED BY <1>1, <2>5, <3>3, <4>1 DEF Seen
    <3>4. Seen'
      BY <1>1, <2>1, <2>5, <3>2, <3>3, LogSame DEF Seen
    <3> QED BY <1>1, <2>2, <3>1, <3>4, LogSame
  <2> QED BY <2>4, <2>5 DEF ScanOK
<1>5. ASSUME NEW f \in OnDisk(h),
             LET reached == \E l \in Tail(f) : l < scan.since
                 budget  == scan.budget - Min({scan.budget, Size(f)})
             IN  scan' = [scan EXCEPT !.todo    = IF reached \/ budget = 0 THEN {} ELSE left,
                                      !.unseen  = @ \ Tail(f),
                                      !.budget  = budget,
                                      !.reached = reached]
      PROVE  ScanInv'
  <2>1. f \in 1..file /\ (h # Live => f = h /\ h \in kept /\ h \in Rolled) /\ (h = Live => f = file)
    BY <1>3 DEF OnDisk, Ordered, Rolled
  <2>2. PICK low \in Nat : /\ Tail(f) = low .. before[f] + Size(f)
                           /\ scan.budget - Min({scan.budget, Size(f)}) # 0 => low = before[f] + 1
    BY <2>1, TailIs
  <2> DEFINE reached == \E l \in Tail(f) : l < scan.since
             budget  == scan.budget - Min({scan.budget, Size(f)})
  <2>3. budget \in Nat /\ reached \in BOOLEAN /\ before[f] \in Nat /\ Size(f) \in Nat
        /\ scan.since \in Nat
    <3>1. scan.budget \in Nat /\ Size(f) \in Nat /\ before[f] \in Nat /\ scan.since \in Nat
      BY <2>1, ScanFields, Sizes
    <3> QED BY <3>1, LesserOf
  <2>4. scan' = [scan EXCEPT !.todo    = IF reached \/ budget = 0 THEN {} ELSE left,
                             !.unseen  = @ \ Tail(f),
                             !.budget  = budget,
                             !.reached = reached]
    BY <1>5
  <2> HIDE DEF reached, budget
  <2>5. /\ scan'.todo = (IF reached \/ budget = 0 THEN {} ELSE left) /\ scan'.since = scan.since
        /\ scan'.unseen = scan.unseen \ Tail(f) /\ scan'.reached = reached /\ scan'.rolled = scan.rolled
    BY <2>4 DEF ScanOK
  <2>6. ScanOK'
    BY <2>3, <2>4 DEF ScanOK
  <2>7. CASE scan.rolled
    BY <1>1, <2>5, <2>6, <2>7, LogSame DEF Seen, CompleteIsAll
  <2>8. CASE ~scan.rolled
    <3>1. \A l \in scan.unseen : scan.since <= l /\ l <= before[f] + Size(f) /\ l \in Nat
      <4>1. \A l \in scan.unseen : scan.since <= l /\ l <= made /\ l \in Nat
        BY <1>1, <2>8, ScanFields DEF Seen, Lines
      <4>2. CASE h = Live
        BY <2>1, <4>1, <4>2, Sizes
      <4>3. CASE h # Live
        <5>1. Live \notin scan.todo /\ h \in Rolled /\ f = h /\ h \in kept
          BY <1>2, <1>3, <2>1, <4>3
        <5>2. before[h] + Size(h) = before[h + 1]
          BY <5>1, Sizes
        <5>3. CASE h + 1 = file
          BY <1>1, <2>8, <4>1, <5>1, <5>2, <5>3 DEF Seen
        <5>4. CASE h + 1 # file
          <6>1. h + 1 \in Rolled /\ h < h + 1 /\ h + 1 \notin scan.todo
            BY <1>2, <1>3, <5>1, <5>4 DEF Rolled
          <6>2. \A l \in scan.unseen : l <= before[h + 1]
            BY <1>1, <1>2, <2>8, <5>1, <6>1 DEF Seen
          <6> QED BY <4>1, <5>1, <5>2, <6>2
        <5> QED BY <5>3, <5>4
      <4> QED BY <4>2, <4>3
    <3>2. CASE reached
      <4>1. low < scan.since
        BY <2>2, <2>3, <3>2 DEF reached
      <4>2. scan.unseen \subseteq Tail(f)
        BY <2>2, <2>3, <3>1, <4>1
      <4>3. scan'.unseen = {} /\ scan'.todo = {}
        BY <2>5, <3>2, <4>2
      <4> QED BY <1>1, <2>6, <4>3, LogSame DEF Seen, CompleteIsAll
    <3>3. CASE ~reached /\ budget = 0
      BY <1>1, <2>5, <2>6, <3>3, LogSame DEF Seen, CompleteIsAll
    <3>4. CASE ~reached /\ budget # 0
      <4>1. Tail(f) = before[f] + 1 .. before[f] + Size(f)
        BY <2>2, <3>4 DEF budget
      <4>2. \A l \in scan'.unseen : l \in scan.unseen /\ l <= before[f] /\ l \in Nat
        BY <2>3, <2>5, <3>1, <4>1
      <4>3. before[f] <= before[file] /\ before[file] \in Nat
        BY <1>3, <2>1, Sizes DEF Ordered
      <4>4. ASSUME NEW x \in left \cap kept, NEW g \in Rolled, x < g, g \notin left
            PROVE  \A l \in scan'.unseen : l <= before[g]
        <5>1. CASE g = h
          <6>1. f = g
            BY <1>3, <2>1, <5>1, NamesFacts
          <6> QED BY <4>2, <6>1
        <5>2. CASE g # h
          BY <1>1, <2>8, <4>2, <4>4, <5>2 DEF Seen
        <5> QED BY <5>1, <5>2
      <4>5. \A l \in scan'.unseen : scan'.since <= l /\ l <= made
        BY <1>1, <2>5, <2>8, <4>2 DEF Seen
      <4>6. \A l \in scan'.unseen : l <= before[file]
        BY <2>3, <4>2, <4>3
      <4>7. scan'.todo = left /\ ~scan'.reached /\ left \subseteq Rolled \cup {Live}
        BY <1>1, <2>5, <2>8, <3>4 DEF Seen
      <4>8. Seen'
        BY <1>1, <4>4, <4>5, <4>6, <4>7, LogSame DEF Seen
      <4>9. CompleteIsAll'
        BY <4>7 DEF CompleteIsAll
      <4> QED BY <1>1, <2>6, <4>8, <4>9, LogSame
    <3> QED BY <2>3, <3>2, <3>3, <3>4
  <2> QED BY <2>7, <2>8 DEF ScanOK
<1> QED BY <1>4, <1>5 DEF ReadTail, h

\* No scan has begun.
LEMMA ScanHolds == TrafficInit => ScanInv
<1> SUFFICES ASSUME TrafficInit PROVE ScanInv
  OBVIOUS
<1>1. LogOK /\ Ordered
  BY TrafficAssumption DEF TrafficInit, LogOK, Files, Ordered, Rolled
<1>2. scan = NoScan
  BY DEF TrafficInit
<1>3. ScanOK
  BY <1>2, NoScanOK DEF ScanOK
<1>4. Seen /\ CompleteIsAll
  BY <1>2 DEF Seen, CompleteIsAll, NoScan
<1> QED BY <1>1, <1>3, <1>4 DEF ScanInv

\* Every step keeps what is said of the scan.
LEMMA ScanKept == ScanInv /\ [TrafficNext]_trafficVars => ScanInv'
<1> SUFFICES ASSUME ScanInv, [TrafficNext]_trafficVars PROVE ScanInv'
  OBVIOUS
<1> USE DEF ScanInv
<1>1. CASE UNCHANGED log /\ UNCHANGED scan
  BY <1>1, LogSame DEF ScanOK, Seen, CompleteIsAll
<1>2. CASE Request \/ Drop
  <2>1. LogOK' /\ Ordered' /\ made <= made' /\ made \in Nat /\ made' \in Nat
    BY <1>2, LogTypes, LogGrows DEF LogOK
  <2>2. scan' = scan /\ file' = file /\ before' = before /\ Rolled' = Rolled /\ kept' \subseteq kept
    BY <1>2 DEF Request, Drop, Rolled
  <2>3. ScanOK' /\ CompleteIsAll'
    BY <2>2 DEF ScanOK, CompleteIsAll
  <2>4. scan.unseen \subseteq Nat
    BY ScanFields DEF Lines
  <2>5. Seen'
    BY <2>1, <2>2, <2>4 DEF Seen
  <2> QED BY <2>1, <2>3, <2>5
<1>3. CASE Roll
  <2>1. LogOK' /\ Ordered'
    BY <1>3, LogTypes
  <2>2. scan' = [scan EXCEPT !.rolled = scan.rolled \/ scan.todo # {}]
    BY <1>3 DEF Roll
  <2>3. scan'.todo = scan.todo /\ scan'.unseen = scan.unseen /\ scan'.reached = scan.reached
        /\ scan'.rolled = (scan.rolled \/ scan.todo # {})
    BY <2>2 DEF ScanOK
  <2>4. ScanOK'
    BY <2>2 DEF ScanOK
  <2>5. Seen' /\ CompleteIsAll'
    BY <2>3 DEF Seen, CompleteIsAll
  <2> QED BY <2>1, <2>4, <2>5
<1>4. CASE Collect
  BY <1>1, <1>4 DEF Collect, SweepLogs, Open, Read, Save
<1>5. CASE Fails
  BY <1>1, <1>5 DEF Fails
<1>6. CASE Ask \/ ReadTail
  BY <1>6, AskScans, ReadTailScans
<1>7. CASE Answer \/ Crash
  <2>1. scan' = NoScan /\ UNCHANGED log
    BY <1>7 DEF Answer, Crash
  <2>2. ScanOK'
    BY <2>1, NoScanOK DEF ScanOK
  <2>3. Seen' /\ CompleteIsAll'
    BY <2>1 DEF Seen, CompleteIsAll, NoScan
  <2> QED BY <2>1, <2>2, <2>3, LogSame
<1>8. CASE UNCHANGED trafficVars
  BY <1>1, <1>8 DEF trafficVars
<1> QED BY <1>2, <1>3, <1>4, <1>5, <1>6, <1>7, <1>8 DEF TrafficNext

\* A scan that calls itself complete has seen all that was logged before it began, unless
\* the log was rolled under it (scanLogs): for any number of copies and any budget.
THEOREM ScanHonest == TrafficSpec => []CompleteIsAll
<1>1. ScanInv => CompleteIsAll
  BY DEF ScanInv
<1> QED BY <1>1, ScanHolds, ScanKept, PTL DEF TrafficSpec

\* Types, for any log.
THEOREM TrafficTypes == TrafficSpec => []TrafficTypeOK
<1>1. TrafficInit => crashes \in 0..MaxCrashes
  BY TrafficAssumption DEF TrafficInit
<1>2. crashes \in 0..MaxCrashes /\ [TrafficNext]_trafficVars => (crashes \in 0..MaxCrashes)'
  <2> SUFFICES ASSUME crashes \in 0..MaxCrashes,
                      [TrafficNext]_trafficVars PROVE crashes' \in 0..MaxCrashes
    OBVIOUS
  <2>1. CASE Fails \/ Crash
    BY <2>1, TrafficAssumption DEF Fails, Crash
  <2> QED BY <2>1 DEF TrafficNext, trafficVars, Request, Roll, Drop, Collect, SweepLogs, Open, Read,
             Save,
                      Ask, ReadTail, Answer
<1>3. CountInv /\ ScanInv /\ crashes \in 0..MaxCrashes => TrafficTypeOK
  BY DEF CountInv, ScanInv, TrafficTypeOK
<1> QED BY <1>1, <1>2, <1>3, CountingHolds, CountingKept, ScanHolds, ScanKept, PTL DEF TrafficSpec
===============================================================================
