------------------------- MODULE ServiceWatchdogProofs -------------------------
(***************************************************************************)
(* That the watchdog keeps its hands off what it must, over any number of  *)
(* ends of the panel.                                                      *)
(*                                                                         *)
(* A stop is held because, as long as it was not raced, it is on record    *)
(* and the watchdog has not made up its mind to start (Held).  A program   *)
(* that serves is spared because the visit gets no further than the probe  *)
(* while it holds the port (Serves).                                       *)
(***************************************************************************)
EXTENDS ServiceWatchdog, TLAPS

Held == asked = "down" /\ ~raced => intent /\ ~Decided

Serves == serving => holder = "app" /\ pc["watchdog"] \in {"idle", "query", "probe"}

\* What a caller does after what it does.
Plans == /\ plan["user"] \in {"done", "start"}
         /\ pc["watchdog"] \in {"stop", "stopping", "unblock", "start"} => plan["watchdog"] = "start"

IInv == TypeOK /\ Held /\ Serves /\ Plans /\ IntentHonest

\* At first the service is stopped, nobody is at work on it and nobody stopped it.
LEMMA InitHolds == Init => IInv
<1> SUFFICES ASSUME Init PROVE IInv
  OBVIOUS
<1>1. ServiceOK
  BY DEF Init, ServiceOK
<1>2. CallersOK
  BY DEF Init, CallersOK, Callers
<1>3. MemoryOK
  BY DEF Init, MemoryOK
<1>4. HistoryOK
  <2>1. 0 \in 0..MaxEnds
    BY WatchdogAssumption DEF WatchdogAssumption
  <2> QED BY <2>1 DEF Init, HistoryOK
<1>5. Held /\ Serves /\ IntentHonest /\ Plans
  BY DEF Init, Held, Serves, IntentHonest, Plans, Callers
<1> QED BY <1>1, <1>2, <1>3, <1>4, <1>5 DEF IInv, TypeOK

\* Every step of the two callers, the service, its port and the panel keeps the
\* invariant.
LEMMA StepKeeps == IInv /\ [Next]_vars => IInv'
<1> SUFFICES ASSUME IInv, [Next]_vars PROVE IInv'
  OBVIOUS
<1> USE DEF IInv, TypeOK, Callers, Goto, GotoFor, Holds, EndsHolder, Ours,
        service, caller, memory, history
<1>1. ASSUME NEW c \in Callers, StopMarks(c) PROVE IInv'
  <2>1. ServiceOK' /\ CallersOK'
    BY <1>1 DEF StopMarks, ServiceOK, CallersOK
  <2>2. MemoryOK'
    BY <1>1 DEF StopMarks, MemoryOK
  <2>3. HistoryOK'
    BY <1>1 DEF StopMarks, HistoryOK
  <2>4. Held'
    BY <1>1 DEF StopMarks, Held, Decided, CallersOK
  <2>5. Serves'
    BY <1>1 DEF StopMarks, Serves
  <2>6. Plans' /\ IntentHonest'
    BY <1>1 DEF StopMarks, Plans, IntentHonest, CallersOK
  <2> QED BY <2>1, <2>2, <2>3, <2>4, <2>5, <2>6
<1>2. ASSUME NEW c \in Callers, StopsWrapper(c) PROVE IInv'
  <2>1. ServiceOK' /\ CallersOK'
    BY <1>2 DEF StopsWrapper, ServiceOK, CallersOK
  <2>2. MemoryOK'
    BY <1>2 DEF StopsWrapper, MemoryOK
  <2>3. HistoryOK'
    BY <1>2 DEF StopsWrapper, HistoryOK
  <2>4. Held'
    BY <1>2 DEF StopsWrapper, Held, Decided, CallersOK
  <2>5. Serves'
    BY <1>2 DEF StopsWrapper, Serves
  <2>6. Plans' /\ IntentHonest'
    BY <1>2 DEF StopsWrapper, Plans, IntentHonest
  <2> QED BY <2>1, <2>2, <2>3, <2>4, <2>5, <2>6
<1>3. ASSUME NEW c \in Callers, StopThrows(c) PROVE IInv'
  <2>1. ServiceOK' /\ CallersOK'
    BY <1>3 DEF StopThrows, ServiceOK, CallersOK
  <2>2. MemoryOK'
    BY <1>3 DEF StopThrows, MemoryOK
  <2>3. HistoryOK'
    BY <1>3 DEF StopThrows, HistoryOK
  <2>4. Held'
    BY <1>3 DEF StopThrows, Held, Decided, CallersOK
  <2>5. Serves'
    BY <1>3 DEF StopThrows, Serves
  <2>6. Plans' /\ IntentHonest'
    BY <1>3 DEF StopThrows, Plans, IntentHonest, CallersOK
  <2> QED BY <2>1, <2>2, <2>3, <2>4, <2>5, <2>6
<1>4. ASSUME NEW c \in Callers, Unblocks(c) PROVE IInv'
  <2>1. ServiceOK' /\ CallersOK'
    <3>1. ServiceOK'
      BY <1>4 DEF Unblocks, ServiceOK
    <3>2. CallersOK'
      BY <1>4 DEF Unblocks, CallersOK
    <3> QED BY <3>1, <3>2
  <2>2. MemoryOK'
    BY <1>4 DEF Unblocks, MemoryOK
  <2>3. HistoryOK'
    BY <1>4 DEF Unblocks, HistoryOK
  <2>4. Held'
    BY <1>4 DEF Unblocks, Held, Decided, CallersOK
  <2>5. Serves'
    BY <1>4 DEF Unblocks, Serves
  <2>6. Plans' /\ IntentHonest'
    BY <1>4 DEF Unblocks, Plans, IntentHonest, CallersOK
  <2> QED BY <2>1, <2>2, <2>3, <2>4, <2>5, <2>6
<1>5. ASSUME NEW c \in Callers, StartMarks(c) PROVE IInv'
  <2>1. ServiceOK' /\ CallersOK'
    BY <1>5 DEF StartMarks, ServiceOK, CallersOK
  <2>2. MemoryOK'
    BY <1>5 DEF StartMarks, MemoryOK
  <2>3. HistoryOK'
    BY <1>5 DEF StartMarks, HistoryOK
  <2>4. Held'
    BY <1>5 DEF StartMarks, Held, Decided
  <2>5. Serves'
    BY <1>5 DEF StartMarks, Serves
  <2>6. Plans' /\ IntentHonest'
    BY <1>5 DEF StartMarks, Plans, IntentHonest
  <2> QED BY <2>1, <2>2, <2>3, <2>4, <2>5, <2>6
<1>6. ASSUME NEW c \in Callers, Launches(c) PROVE IInv'
  <2>1. ServiceOK' /\ CallersOK'
    BY <1>6 DEF Launches, ServiceOK, CallersOK
  <2>2. MemoryOK'
    BY <1>6 DEF Launches, MemoryOK
  <2>3. HistoryOK'
    BY <1>6 DEF Launches, HistoryOK
  <2>4. Held'
    BY <1>6 DEF Launches, Held, Decided, CallersOK
  <2>5. Serves'
    BY <1>6 DEF Launches, Serves
  <2>6. Plans' /\ IntentHonest'
    BY <1>6 DEF Launches, Plans, IntentHonest
  <2> QED BY <2>1, <2>2, <2>3, <2>4, <2>5, <2>6
<1>7. ASSUME NEW c \in Callers, Settles(c) PROVE IInv'
  <2>1. ServiceOK' /\ CallersOK'
    <3>1. ServiceOK'
      BY <1>7 DEF Settles, ServiceOK
    <3>2. CallersOK'
      BY <1>7 DEF Settles, CallersOK
    <3> QED BY <3>1, <3>2
  <2>2. MemoryOK'
    BY <1>7 DEF Settles, MemoryOK
  <2>3. HistoryOK'
    BY <1>7 DEF Settles, HistoryOK
  <2>4. Held'
    BY <1>7 DEF Settles, Held, Decided, CallersOK
  <2>5. Serves'
    BY <1>7 DEF Settles, Serves, CallersOK
  <2>6. Plans' /\ IntentHonest'
    BY <1>7 DEF Settles, Plans, IntentHonest, CallersOK
  <2> QED BY <2>1, <2>2, <2>3, <2>4, <2>5, <2>6
<1>8. CASE Visits
  <2>1. ServiceOK' /\ CallersOK'
    BY <1>8 DEF Visits, ServiceOK, CallersOK
  <2>2. MemoryOK'
    BY <1>8 DEF Visits, MemoryOK
  <2>3. HistoryOK'
    BY <1>8 DEF Visits, HistoryOK
  <2>4. Held'
    BY <1>8 DEF Visits, Held, Decided, CallersOK
  <2>5. Serves'
    BY <1>8 DEF Visits, Serves, CallersOK
  <2>6. Plans' /\ IntentHonest'
    BY <1>8 DEF Visits, Plans, IntentHonest
  <2> QED BY <2>1, <2>2, <2>3, <2>4, <2>5, <2>6
<1>9. CASE FindsRunning
  <2>1. ServiceOK' /\ CallersOK'
    BY <1>9 DEF FindsRunning, ServiceOK, CallersOK
  <2>2. MemoryOK'
    BY <1>9 DEF FindsRunning, MemoryOK
  <2>3. HistoryOK'
    BY <1>9 DEF FindsRunning, HistoryOK
  <2>4. Held'
    BY <1>9 DEF FindsRunning, Held, Decided, CallersOK
  <2>5. Serves'
    BY <1>9 DEF FindsRunning, Serves, CallersOK
  <2>6. Plans' /\ IntentHonest'
    BY <1>9 DEF FindsRunning, Plans, IntentHonest, CallersOK
  <2> QED BY <2>1, <2>2, <2>3, <2>4, <2>5, <2>6
<1>10. CASE FindsStopped
  <2>1. ServiceOK' /\ CallersOK'
    BY <1>10 DEF FindsStopped, ServiceOK, CallersOK
  <2>2. MemoryOK'
    BY <1>10 DEF FindsStopped, MemoryOK
  <2>3. HistoryOK'
    BY <1>10 DEF FindsStopped, HistoryOK
  <2>4. Held'
    BY <1>10 DEF FindsStopped, Held, Decided, CallersOK
  <2>5. Serves'
    BY <1>10 DEF FindsStopped, Serves, ServiceOK
  <2>6. Plans' /\ IntentHonest'
    BY <1>10 DEF FindsStopped, Plans, IntentHonest
  <2> QED BY <2>1, <2>2, <2>3, <2>4, <2>5, <2>6
<1>11. CASE Probes
  <2>1. ServiceOK' /\ CallersOK'
    BY <1>11 DEF Probes, ServiceOK, CallersOK
  <2>2. MemoryOK'
    BY <1>11 DEF Probes, MemoryOK
  <2>3. HistoryOK'
    BY <1>11 DEF Probes, HistoryOK
  <2>4. Held'
    BY <1>11 DEF Probes, Held, Decided
  <2>5. Serves'
    BY <1>11 DEF Probes, Serves
  <2>6. Plans' /\ IntentHonest'
    BY <1>11 DEF Probes, Plans, IntentHonest, CallersOK
  <2> QED BY <2>1, <2>2, <2>3, <2>4, <2>5, <2>6
<1>12. CASE ListsDead
  <2>1. ServiceOK' /\ CallersOK'
    BY <1>12 DEF ListsDead, ServiceOK, CallersOK
  <2>2. MemoryOK'
    <3>1. listed' \in BOOLEAN
      <4>1. listed' = (holder \in {"app", "orphan"})
        BY <1>12 DEF ListsDead
      <4> QED BY <4>1, SMT
    <3>2. UNCHANGED <<intent, deploying, silent, last>>
      BY <1>12 DEF ListsDead
    <3> QED BY <3>1, <3>2 DEF MemoryOK
  <2>3. HistoryOK'
    BY <1>12 DEF ListsDead, HistoryOK
  <2>4. Held'
    BY <1>12 DEF ListsDead, Held, Decided
  <2>5. Serves'
    BY <1>12 DEF ListsDead, Serves
  <2>6. Plans' /\ IntentHonest'
    BY <1>12 DEF ListsDead, Plans, IntentHonest, CallersOK
  <2> QED BY <2>1, <2>2, <2>3, <2>4, <2>5, <2>6
<1>13. CASE ListsStopped
  <2>1. ServiceOK' /\ CallersOK'
    BY <1>13 DEF ListsStopped, ServiceOK, CallersOK
  <2>2. MemoryOK'
    BY <1>13 DEF ListsStopped, MemoryOK
  <2>3. HistoryOK'
    BY <1>13 DEF ListsStopped, HistoryOK
  <2>4. Held'
    BY <1>13 DEF ListsStopped, Held, Decided, CallersOK
  <2>5. Serves'
    BY <1>13 DEF ListsStopped, Serves
  <2>6. Plans' /\ IntentHonest'
    BY <1>13 DEF ListsStopped, Plans, IntentHonest
  <2> QED BY <2>1, <2>2, <2>3, <2>4, <2>5, <2>6
<1>14. CASE Kills
  <2>1. ServiceOK' /\ CallersOK'
    BY <1>14 DEF Kills, ServiceOK, CallersOK
  <2>2. MemoryOK'
    BY <1>14 DEF Kills, MemoryOK
  <2>3. HistoryOK'
    BY <1>14 DEF Kills, HistoryOK
  <2>4. Held'
    BY <1>14 DEF Kills, Held, Decided, CallersOK
  <2>5. Serves'
    BY <1>14 DEF Kills, Serves
  <2>6. Plans' /\ IntentHonest'
    BY <1>14 DEF Kills, Plans, IntentHonest, CallersOK
  <2> QED BY <2>1, <2>2, <2>3, <2>4, <2>5, <2>6
<1>15. CASE Passes
  <2>1. ServiceOK' /\ CallersOK'
    BY <1>15 DEF Passes, ServiceOK, CallersOK
  <2>2. MemoryOK'
    BY <1>15 DEF Passes, MemoryOK
  <2>3. HistoryOK'
    BY <1>15 DEF Passes, HistoryOK
  <2>4. Held'
    BY <1>15 DEF Passes, Held, Decided
  <2>5. Serves'
    BY <1>15 DEF Passes, Serves
  <2>6. Plans' /\ IntentHonest'
    BY <1>15 DEF Passes, Plans, IntentHonest
  <2> QED BY <2>1, <2>2, <2>3, <2>4, <2>5, <2>6
<1>16. CASE DeployBegins
  <2>1. ServiceOK' /\ CallersOK'
    BY <1>16 DEF DeployBegins, ServiceOK, CallersOK
  <2>2. MemoryOK'
    BY <1>16 DEF DeployBegins, MemoryOK
  <2>3. HistoryOK'
    BY <1>16 DEF DeployBegins, HistoryOK
  <2>4. Held'
    BY <1>16 DEF DeployBegins, Held, Decided, CallersOK
  <2>5. Serves'
    BY <1>16 DEF DeployBegins, Serves
  <2>6. Plans' /\ IntentHonest'
    BY <1>16 DEF DeployBegins, Plans, IntentHonest
  <2> QED BY <2>1, <2>2, <2>3, <2>4, <2>5, <2>6
<1>17. CASE DeployEnds
  <2>1. ServiceOK' /\ CallersOK'
    BY <1>17 DEF DeployEnds, ServiceOK, CallersOK
  <2>2. MemoryOK'
    BY <1>17 DEF DeployEnds, MemoryOK
  <2>3. HistoryOK'
    BY <1>17 DEF DeployEnds, HistoryOK
  <2>4. Held'
    BY <1>17 DEF DeployEnds, Held, Decided
  <2>5. Serves'
    BY <1>17 DEF DeployEnds, Serves
  <2>6. Plans' /\ IntentHonest'
    BY <1>17 DEF DeployEnds, Plans, IntentHonest
  <2> QED BY <2>1, <2>2, <2>3, <2>4, <2>5, <2>6
<1>18. CASE AppEnds
  <2>1. ServiceOK' /\ CallersOK'
    BY <1>18 DEF AppEnds, ServiceOK, CallersOK
  <2>2. MemoryOK'
    BY <1>18 DEF AppEnds, MemoryOK
  <2>3. HistoryOK'
    BY <1>18 DEF AppEnds, HistoryOK
  <2>4. Held'
    BY <1>18 DEF AppEnds, Held, Decided
  <2>5. Serves'
    BY <1>18 DEF AppEnds, Serves
  <2>6. Plans' /\ IntentHonest'
    BY <1>18 DEF AppEnds, Plans, IntentHonest
  <2> QED BY <2>1, <2>2, <2>3, <2>4, <2>5, <2>6
<1>19. CASE AppBinds
  <2>1. ServiceOK' /\ CallersOK'
    BY <1>19 DEF AppBinds, ServiceOK, CallersOK
  <2>2. MemoryOK'
    BY <1>19 DEF AppBinds, MemoryOK
  <2>3. HistoryOK'
    BY <1>19 DEF AppBinds, HistoryOK
  <2>4. Held'
    BY <1>19 DEF AppBinds, Held, Decided
  <2>5. Serves'
    BY <1>19 DEF AppBinds, Serves
  <2>6. Plans' /\ IntentHonest'
    BY <1>19 DEF AppBinds, Plans, IntentHonest
  <2> QED BY <2>1, <2>2, <2>3, <2>4, <2>5, <2>6
<1>20. CASE WrapperDies
  <2>1. ServiceOK' /\ CallersOK'
    BY <1>20 DEF WrapperDies, ServiceOK, CallersOK
  <2>2. MemoryOK'
    BY <1>20 DEF WrapperDies, MemoryOK
  <2>3. HistoryOK'
    BY <1>20 DEF WrapperDies, HistoryOK
  <2>4. Held'
    BY <1>20 DEF WrapperDies, Held, Decided
  <2>5. Serves'
    BY <1>20 DEF WrapperDies, Serves
  <2>6. Plans' /\ IntentHonest'
    BY <1>20 DEF WrapperDies, Plans, IntentHonest
  <2> QED BY <2>1, <2>2, <2>3, <2>4, <2>5, <2>6
<1>21. CASE WindowsRestarts
  <2>1. ServiceOK' /\ CallersOK'
    BY <1>21 DEF WindowsRestarts, ServiceOK, CallersOK
  <2>2. MemoryOK'
    BY <1>21 DEF WindowsRestarts, MemoryOK
  <2>3. HistoryOK'
    BY <1>21 DEF WindowsRestarts, HistoryOK
  <2>4. Held'
    BY <1>21 DEF WindowsRestarts, Held, Decided
  <2>5. Serves'
    BY <1>21 DEF WindowsRestarts, Serves
  <2>6. Plans' /\ IntentHonest'
    BY <1>21 DEF WindowsRestarts, Plans, IntentHonest
  <2> QED BY <2>1, <2>2, <2>3, <2>4, <2>5, <2>6
<1>22. CASE PortTaken
  <2>1. ServiceOK' /\ CallersOK'
    BY <1>22 DEF PortTaken, ServiceOK, CallersOK
  <2>2. MemoryOK'
    BY <1>22 DEF PortTaken, MemoryOK
  <2>3. HistoryOK'
    BY <1>22 DEF PortTaken, HistoryOK
  <2>4. Held'
    BY <1>22 DEF PortTaken, Held, Decided
  <2>5. Serves'
    BY <1>22 DEF PortTaken, Serves
  <2>6. Plans' /\ IntentHonest'
    BY <1>22 DEF PortTaken, Plans, IntentHonest
  <2> QED BY <2>1, <2>2, <2>3, <2>4, <2>5, <2>6
<1>23. CASE PortFreed
  <2>1. ServiceOK' /\ CallersOK'
    BY <1>23 DEF PortFreed, ServiceOK, CallersOK
  <2>2. MemoryOK'
    BY <1>23 DEF PortFreed, MemoryOK
  <2>3. HistoryOK'
    BY <1>23 DEF PortFreed, HistoryOK
  <2>4. Held'
    BY <1>23 DEF PortFreed, Held, Decided
  <2>5. Serves'
    BY <1>23 DEF PortFreed, Serves
  <2>6. Plans' /\ IntentHonest'
    BY <1>23 DEF PortFreed, Plans, IntentHonest
  <2> QED BY <2>1, <2>2, <2>3, <2>4, <2>5, <2>6
<1>24. CASE PanelRestarts
  <2>1. ServiceOK' /\ CallersOK'
    BY <1>24 DEF PanelRestarts, ServiceOK, CallersOK
  <2>2. MemoryOK'
    BY <1>24 DEF PanelRestarts, MemoryOK
  <2>3. HistoryOK'
    <3>1. ends \in Nat /\ ends < MaxEnds /\ ends' = ends + 1
      BY <1>24, WatchdogAssumption DEF PanelRestarts, HistoryOK, WatchdogAssumption
    <3>2. ends' \in 0..MaxEnds
      BY <3>1, WatchdogAssumption DEF WatchdogAssumption
    <3> QED BY <1>24, <3>2 DEF PanelRestarts, HistoryOK
  <2>4. Held'
    BY <1>24 DEF PanelRestarts, Held, Decided
  <2>5. Serves'
    BY <1>24 DEF PanelRestarts, Serves
  <2>6. Plans' /\ IntentHonest'
    BY <1>24 DEF PanelRestarts, Plans, IntentHonest
  <2> QED BY <2>1, <2>2, <2>3, <2>4, <2>5, <2>6
<1>25. ASSUME NEW where \in {"start", "stop"}, NEW p \in {"done", "start"}, Asks(where, p) PROVE IInv'
  <2>1. ServiceOK' /\ CallersOK'
    BY <1>25 DEF Asks, ServiceOK, CallersOK
  <2>2. MemoryOK'
    BY <1>25 DEF Asks, MemoryOK
  <2>3. HistoryOK'
    BY <1>25 DEF Asks, HistoryOK
  <2>4. Held'
    BY <1>25 DEF Asks, Held, Decided, CallersOK
  <2>5. Serves'
    BY <1>25 DEF Asks, Serves
  <2>6. Plans' /\ IntentHonest'
    BY <1>25 DEF Asks, Plans, IntentHonest
  <2> QED BY <2>1, <2>2, <2>3, <2>4, <2>5, <2>6
<1>26. CASE UNCHANGED vars
  <2>1. ServiceOK' /\ CallersOK'
    BY <1>26 DEF vars, ServiceOK, CallersOK
  <2>2. MemoryOK' /\ HistoryOK'
    BY <1>26 DEF vars, MemoryOK, HistoryOK
  <2>3. Held' /\ Serves' /\ Plans' /\ IntentHonest'
    BY <1>26 DEF vars, Held, Decided, Serves, Plans, IntentHonest
  <2> QED BY <2>1, <2>2, <2>3
<1>27. ASSUME NEW c \in Callers, Manager(c) PROVE IInv'
  BY <1>27, <1>1, <1>2, <1>3, <1>4, <1>5, <1>6, <1>7 DEF Manager
<1>28. CASE Sweep
  BY <1>28, <1>8, <1>9, <1>10, <1>11, <1>12, <1>13, <1>14 DEF Sweep
<1>29. CASE World
  BY <1>29, <1>16, <1>17, <1>18, <1>19, <1>20, <1>21, <1>22, <1>23, <1>25 DEF World
<1> HIDE DEF IInv
<1> QED BY <1>15, <1>24, <1>26, <1>27, <1>28, <1>29 DEF Next

\* So the invariant holds throughout.
LEMMA Invariance == Spec => []IInv
  BY InitHolds, StepKeeps, PTL DEF Spec

\* Types, and what a program needs to run, for any number of ends of the panel.
THEOREM TypeCorrect == Spec => []TypeOK
<1>1. IInv => TypeOK
  BY DEF IInv
<1> QED BY <1>1, Invariance, PTL

\* No stop is recorded that nobody asked for (stop, start, restart).
THEOREM IntentIsHonest == Spec => []IntentHonest
<1>1. IInv => IntentHonest
  BY DEF IInv
<1> QED BY <1>1, Invariance, PTL

\* A stop made through the panel is not undone by a watchdog that came after it.
THEOREM StopIsHeld == Spec => StopHeld
<1>1. IInv /\ [Next]_vars
        => [pc["watchdog"] = "start" /\ pc'["watchdog"] = "launch" => (asked = "up" \/ raced)]_vars
  BY DEF IInv, Held, Decided, TypeOK, HistoryOK
<1> QED BY <1>1, Invariance, PTL DEF Spec, StopHeld

\* A program that serves when the watchdog comes by is not ended by it.
THEOREM ServingIsSpared == Spec => ServingSpared
<1>1. IInv /\ [Next]_vars
        => [holder = "app" /\ holder' # "app" /\ pc'["watchdog"] # pc["watchdog"] => ~serving]_vars
  <2> SUFFICES ASSUME IInv, Next, serving, holder = "app", holder' # "app",
                      pc'["watchdog"] # pc["watchdog"]
               PROVE FALSE
    OBVIOUS
  <2>1. pc["watchdog"] \in {"idle", "query", "probe"}
    BY DEF IInv, Serves
  <2>2. ASSUME NEW c \in Callers, Manager(c) PROVE FALSE
    BY <2>1, <2>2 DEF Manager, StopMarks, StopsWrapper, StopThrows, Unblocks, StartMarks, Launches,
                      Settles, Goto, GotoFor, Callers, IInv, TypeOK, CallersOK, service
  <2>3. CASE Sweep \/ Passes
    BY <2>1, <2>3 DEF Sweep, Passes, Visits, FindsRunning, FindsStopped, Probes, ListsDead,
                      ListsStopped, Kills, service
  <2>4. CASE World
    BY <2>1, <2>4 DEF World, Asks, DeployBegins, DeployEnds, AppEnds, AppBinds, WrapperDies,
                      WindowsRestarts, PortTaken, PortFreed, Goto, GotoFor, caller, service, Callers,
                      IInv, TypeOK, CallersOK
  <2>5. CASE PanelRestarts
    BY <2>5 DEF PanelRestarts, service
  <2> QED BY <2>2, <2>3, <2>4, <2>5 DEF Next
<1> QED BY <1>1, Invariance, PTL DEF Spec, ServingSpared
===============================================================================
