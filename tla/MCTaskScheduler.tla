-------------------------- MODULE MCTaskScheduler --------------------------
(* Instances of TaskScheduler for TLC.                                     *)
EXTENDS TaskScheduler

CONSTANTS a, b

MCTasks    == {a, b}
MCNewTasks == {a}
MCFaults   == [dberror |-> 1, reload |-> 1, badreload |-> 1]
=============================================================================
