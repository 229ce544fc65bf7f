------------------------------ MODULE MCJobQueue ------------------------------
(* A small instance of JobQueue: a panel backup with two attempts (as the   *)
(* "create a panel backup" request enqueues it), a panel restore, and a job *)
(* of a kind without a handler.                                             *)
EXTENDS JobQueue

CONSTANTS backup, restore, deploy

MCJobs == {backup, restore, deploy}
MCMaxAttempts == [j \in MCJobs |-> IF j = backup THEN 2 ELSE 1]
MCBackups == {backup}
MCRestores == {restore}
===============================================================================
