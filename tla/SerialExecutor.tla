---------------------------- MODULE SerialExecutor ----------------------------
(***************************************************************************)
(* What the job queue of apps/agent/src/jobs/queue.ts promises to the rest *)
(* of the panel, without its rows, its poll timer or its process: a job    *)
(* that has been submitted waits, at most one job executes at a time, an   *)
(* executing job may be sent back to wait (a retry), and a job that has    *)
(* finished stays finished.  All of this may be kept by a job that         *)
(* executes, and come back at once, in exchange for what there is then (a  *)
(* restore of the panel): nothing else undoes an outcome.  JobQueue.tla is *)
(* shown to implement it.                                                  *)
(***************************************************************************)
CONSTANT Jobs

VARIABLES waiting,    \* submitted and not executing
          executing,  \* being worked on: empty or one job
          finished,   \* succeeded, failed or cancelled
          kept        \* the states that may come back

vars == <<waiting, executing, finished, kept>>

State == [waiting |-> waiting, executing |-> executing, finished |-> finished]
Empty == [waiting |-> {}, executing |-> {}, finished |-> {}]

Init == /\ State = Empty
        /\ kept = {Empty}

Submit(j) == /\ j \notin waiting \cup executing \cup finished
             /\ waiting' = waiting \cup {j}
             /\ UNCHANGED <<executing, finished, kept>>

Begin(j) == /\ executing = {}
            /\ j \in waiting
            /\ waiting' = waiting \ {j}
            /\ executing' = {j}
            /\ UNCHANGED <<finished, kept>>

\* What a job has kept counts only if it finishes well.
Requeue(j) == /\ j \in executing
              /\ executing' = executing \ {j}
              /\ waiting' = waiting \cup {j}
              /\ kept' \subseteq kept
              /\ UNCHANGED finished

Finish(j) == /\ j \in waiting \cup executing
             /\ waiting' = waiting \ {j}
             /\ executing' = executing \ {j}
             /\ finished' = finished \cup {j}
             /\ kept' \subseteq kept

Keep == /\ executing # {}
        /\ kept' = kept \cup {State}
        /\ UNCHANGED <<waiting, executing, finished>>

Forget == /\ kept' \subseteq kept
          /\ UNCHANGED <<waiting, executing, finished>>

ComeBack == /\ State' \in kept
            /\ UNCHANGED kept

Next == \/ \E j \in Jobs : Submit(j) \/ Begin(j) \/ Requeue(j) \/ Finish(j)
        \/ Keep \/ Forget \/ ComeBack

Spec == Init /\ [][Next]_vars
===============================================================================
