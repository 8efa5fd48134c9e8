-------------------------- MODULE MCServerProcess --------------------------
(* Instances of ServerProcess for TLC.                                     *)
EXTENDS ServerProcess

CONSTANTS a, b, fast, slow, probe

MCAgents   == {a, b}
MCTasks    == {fast, slow, probe}
MCSchedule == [t \in MCTasks |-> IF t = slow THEN 90 ELSE 25]
MCPhase    == [x \in MCAgents |-> [t \in MCTasks |-> IF t = slow THEN 70 ELSE 7]]
MCTasksRun == [x \in MCAgents |-> IF x = a THEN {fast, slow} ELSE {probe}]
MCConfig   == [x \in MCAgents |-> IF x = a THEN {fast, slow} ELSE NoConfig]
MCVersion  == [x \in MCAgents |-> IF x = a THEN <<1, 10, 0>> ELSE NoVersion]
MCServerVersion == <<1, 9, 2>>
MCEvents   == [request |-> 2, end |-> 1]
=============================================================================
