-------------------------- MODULE MCMetricDelivery --------------------------
(***************************************************************************)
(* Instances of MetricDelivery for TLC: the tasks are model values, the    *)
(* bounds on faults are chosen per run.                                    *)
(***************************************************************************)
EXTENDS MetricDelivery, TLC

CONSTANTS Crashes, Timeouts, Refusals, Reloads, DbErrors

MCMaxFaults == [crash |-> Crashes, timeout |-> Timeouts, refusal |-> Refusals,
                reload |-> Reloads, dberror |-> DbErrors]

TaskSymmetry == Permutations(Tasks)
=============================================================================
