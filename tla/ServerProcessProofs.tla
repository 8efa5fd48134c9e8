------------------------- MODULE ServerProcessProofs -------------------------
(***************************************************************************)
(* Theorems about ServerProcess, for all values of its constants: the      *)
(* tables refer to agents that are registered, a request keeps its agent   *)
(* through a cleanup, the report is that of the check just made, a         *)
(* shutdown cuts no task short, a health check raises no false alarm and   *)
(* misses no agent that is silent.                                         *)
(***************************************************************************)
EXTENDS ServerProcess, FiniteSetTheorems, TLAPS

CleaningSteps == {"delay", "off", "metrics", "errors", "agents"}
CheckSteps    == {"off", "judge", "export", "clean"}
AllPhases     == {"up", "close", "down"} \cup BackgroundTasks

LEMMA Background ==
    /\ BackgroundTasks = {"cleanup", "health"}
    /\ Awaited[1] = "cleanup"
    /\ NextPhase("cleanup") = "health" /\ NextPhase("health") = "close"
  <1>1. /\ Awaited = <<"cleanup", "health">> /\ DOMAIN Awaited = {1, 2}
        /\ Len(Awaited) = 2
    BY DEF Awaited
  <1>2. BackgroundTasks = {"cleanup", "health"} /\ Awaited[1] = "cleanup"
    BY <1>1 DEF BackgroundTasks
  <1>3. NextPhase("cleanup") = "health"
    <2>1. (CHOOSE i \in DOMAIN Awaited : Awaited[i] = "cleanup") = 1
      BY <1>1
    <2> QED
      BY <1>1, <2>1 DEF NextPhase
  <1>4. NextPhase("health") = "close"
    <2>1. (CHOOSE i \in DOMAIN Awaited : Awaited[i] = "health") = 2
      BY <1>1
    <2> QED
      BY <1>1, <2>1 DEF NextPhase
  <1> QED
    BY <1>2, <1>3, <1>4

(* What comes from the records of an action.                               *)
LEMMA ConstantFacts ==
    /\ LastMinute \in Nat /\ LastMinute >= 1
    /\ \A m \in Minutes : m \in Nat /\ m >= 1 /\ m <= LastMinute
    /\ 1 \in Minutes
    /\ Retention \in Nat /\ Retention >= 1
    /\ HealthRetention \in Nat /\ HealthRetention >= 1
    /\ Interval \in Nat /\ Interval >= 1
    /\ StartSecond \in Nat
  BY DatabaseAssumption, HealthAssumption DEF Minutes

LEMMA CutoffType ==
    ASSUME NEW r \in Nat, r >= 1, minute \in Minutes
    PROVE  Cutoff(r) \in 0 .. LastMinute /\ Cutoff(r) < minute
  BY ConstantFacts DEF Cutoff

-----------------------------------------------------------------------------
(* The tables                                                              *)

(* Every row that refers to an agent refers to a registered one.           *)
ForeignKeys == \A k \in stored : k[1] \in Registered

Tables == DatabaseTypeOK /\ HealthTypeOK /\ ForeignKeys

LEMMA InitTables == Init => Tables
  <1> SUFFICES ASSUME Init PROVE Tables
    OBVIOUS
  <1> USE DEF Init, DatabaseInit, HealthInit
  <1>1. Registered = {}
    BY DEF Registered
  <1>2. cleaning \in [at : CleaningSteps, cutoff : 0 .. LastMinute]
    BY ConstantFacts DEF Delayed, CleaningSteps
  <1>3. DatabaseTypeOK
    BY <1>1, <1>2, ConstantFacts DEF DatabaseTypeOK, CleaningSteps
  <1>4. check \in [at : CheckSteps, end : 0 .. LastMinute, todo : SUBSET Agents,
                   found : SUBSET Verdicts]
    BY ConstantFacts DEF NoCheck, CheckSteps
  <1>5. HealthTypeOK
    BY <1>4, ConstantFacts DEF HealthTypeOK, CheckSteps
  <1> QED
    BY <1>3, <1>5 DEF Tables, ForeignKeys, StoreInit

(* Agents may come; those that go are not referred to.                     *)
LEMMA AgentsChange ==
    ASSUME Tables, Registered' \subseteq Agents,
           \A a \in Registered' : lastSeen'[a] \in Minutes,
           \A a \in Registered \ Registered' : ~Referred(a),
           UNCHANGED <<errors, checks, stored, minute>>
    PROVE  /\ errors' \subseteq [agent : Registered', at : Minutes]
           /\ checks' \subseteq
                [agent : Registered', at : 0 .. LastMinute, bad : BOOLEAN]
           /\ ForeignKeys'
  <1>1. ASSUME NEW e \in errors
        PROVE  e \in [agent : Registered', at : Minutes]
    <2>1. e \in [agent : Registered, at : Minutes] /\ e.agent \in Registered
      BY DEF Tables, DatabaseTypeOK
    <2>2. e.agent \in Registered'
      BY <2>1 DEF Referred
    <2> QED
      BY <2>1, <2>2
  <1>2. ASSUME NEW c \in checks
        PROVE  c \in [agent : Registered', at : 0 .. LastMinute, bad : BOOLEAN]
    <2>1. /\ c \in [agent : Registered, at : 0 .. LastMinute, bad : BOOLEAN]
          /\ c.agent \in Registered
      BY DEF Tables, DatabaseTypeOK
    <2>2. c.agent \in Registered'
      BY <2>1 DEF Referred
    <2> QED
      BY <2>1, <2>2
  <1>3. ForeignKeys'
    BY DEF Tables, ForeignKeys, Referred
  <1> QED
    BY <1>1, <1>2, <1>3

LEMMA CleaningTypes ==
    ASSUME Tables, CleanupStep, UNCHANGED checkVars
    PROVE  Tables'
  <1> USE DEF Tables
  <1>2. HealthTypeOK'
    BY DEF checkVars, HealthTypeOK
  <1>1. /\ cleaning \in [at : CleaningSteps, cutoff : 0 .. LastMinute]
        /\ minute \in Minutes
    BY DEF DatabaseTypeOK, CleaningSteps
  <1>3. CASE BeginCleanup
    <2>1. Cutoff(Retention) \in 0 .. LastMinute
      BY <1>1, CutoffType, ConstantFacts
    <2>2. cleaning' \in [at : CleaningSteps, cutoff : 0 .. LastMinute]
      BY <1>3, <2>1 DEF BeginCleanup, CleaningSteps
    <2> QED
      BY <1>2, <1>3, <2>2 DEF BeginCleanup, tableVars, CleaningSteps, DatabaseTypeOK,
                        Registered, ForeignKeys
  <1>4. CASE CleanMetrics \/ CleanErrors
    <2>1. cleaning' \in [at : CleaningSteps, cutoff : 0 .. LastMinute]
      BY <1>1, <1>4 DEF CleanMetrics, CleanErrors, CleaningSteps
    <2>2. /\ stored' \subseteq stored /\ errors' \subseteq errors
          /\ UNCHANGED <<minute, lastSeen, checks>>
      BY <1>4 DEF CleanMetrics, CleanErrors
    <2> QED
      BY <1>2, <2>1, <2>2 DEF CleaningSteps, DatabaseTypeOK, Registered,
                              ForeignKeys
  <1>5. CASE CleanAgents
    <2> DEFINE old == {a \in Registered : lastSeen[a] < cleaning.cutoff}
    <2>1. /\ cleaning' = Off
          /\ UNCHANGED <<minute, errors, checks, stored>>
          /\ \/ lastSeen' = lastSeen
             \/ /\ \A a \in old : ~Referred(a)
                /\ lastSeen' = [a \in Registered \ old |-> lastSeen[a]]
      BY <1>5 DEF CleanAgents
    <2>2. /\ Registered' \subseteq Registered
          /\ \A a \in Registered' : lastSeen'[a] = lastSeen[a]
          /\ \A a \in Registered \ Registered' : ~Referred(a)
      <3>1. CASE lastSeen' = lastSeen
        BY <3>1 DEF Registered
      <3>2. CASE /\ \A a \in old : ~Referred(a)
                 /\ lastSeen' = [a \in Registered \ old |-> lastSeen[a]]
        BY <3>2 DEF Registered
      <3> QED
        BY <2>1, <3>1, <3>2
    <2>3. /\ Registered' \subseteq Agents
          /\ \A a \in Registered' : lastSeen'[a] \in Minutes
      BY <2>2 DEF DatabaseTypeOK
    <2>4. cleaning' \in [at : CleaningSteps, cutoff : 0 .. LastMinute]
      BY <2>1, ConstantFacts DEF Off, CleaningSteps
    <2> QED
      BY <1>2, <2>1, <2>2, <2>3, <2>4, AgentsChange
         DEF DatabaseTypeOK, CleaningSteps
  <1> QED
    BY <1>3, <1>4, <1>5 DEF CleanupStep

LEMMA RequestTables ==
    ASSUME Tables, \/ \E a \in Agents : \/ ReceiveMetrics(a) \/ FinishMetrics(a)
                                        \/ ReceiveConfigError(a)
    PROVE  Tables'
  <1> USE DEF Tables
  <1>1. PICK a \in Agents : \/ ReceiveMetrics(a) \/ FinishMetrics(a)
                            \/ ReceiveConfigError(a)
    OBVIOUS
  <1>2. HealthTypeOK' /\ UNCHANGED <<minute, cleaning>>
    BY <1>1 DEF ReceiveMetrics, FinishMetrics,
                ReceiveConfigError, checkVars, HealthTypeOK
  <1>3. CASE ReceiveMetrics(a)
    <2>1. /\ lastSeen' = [b \in Registered \cup {a} |->
                            IF b = a THEN minute ELSE lastSeen[b]]
          /\ UNCHANGED <<errors, checks, stored>>
      BY <1>3 DEF ReceiveMetrics, Upsert
    <2>2. Registered' = Registered \cup {a}
      BY <2>1 DEF Registered
    <2>3. /\ Registered' \subseteq Agents
          /\ \A b \in Registered' : lastSeen'[b] \in Minutes
      BY <2>1, <2>2 DEF DatabaseTypeOK
    <2> QED
      BY <1>2, <2>1, <2>2, <2>3, AgentsChange DEF DatabaseTypeOK
  <1>4. CASE FinishMetrics(a)
    <2>1. \A k \in stored' : k \in stored \/ k[1] \in Registered
      BY <1>4 DEF FinishMetrics, StoreMetrics, Batch, Due
    <2> QED
      BY <1>2, <1>4, <2>1 DEF FinishMetrics, DatabaseTypeOK, Registered,
                              ForeignKeys
  <1>5. CASE ReceiveConfigError(a)
    <2>1. errors' \subseteq [agent : Registered, at : Minutes]
      BY <1>5 DEF ReceiveConfigError, LogConfigError, DatabaseTypeOK
    <2> QED
      BY <1>2, <1>5, <2>1 DEF ReceiveConfigError, DatabaseTypeOK, Registered,
                              ForeignKeys
  <1> QED
    BY <1>1, <1>3, <1>4, <1>5

(* The health check.                                                       *)
CheckRecords == [at : CheckSteps, end : 0 .. LastMinute, todo : SUBSET Agents,
                 found : SUBSET Verdicts]

LEMMA CheckTables ==
    ASSUME Tables, CheckStep
    PROVE  Tables'
  <1> USE DEF Tables
  <1>1. /\ check \in CheckRecords /\ nextCheck \in Nat /\ report \subseteq Agents
        /\ minute \in Minutes
    BY DEF HealthTypeOK, CheckRecords, CheckSteps, DatabaseTypeOK
  <1>2. HealthTypeOK' <=> /\ check' \in CheckRecords /\ nextCheck' \in Nat
                          /\ report' \subseteq Agents
    BY DEF HealthTypeOK, CheckRecords, CheckSteps
  <1>3. UNCHANGED <<minute, lastSeen, errors, stored, cleaning>>
    BY DEF CheckStep, BeginCheck, StoreVerdicts, Export, CleanChecks, Judge,
           tableVars
  <1>4. ASSUME checks' \subseteq [agent : Registered, at : 0 .. LastMinute,
                                  bad : BOOLEAN]
        PROVE  DatabaseTypeOK' /\ ForeignKeys'
    BY <1>3, <1>4 DEF DatabaseTypeOK, Registered, ForeignKeys
  <1>5. ASSUME UNCHANGED checks
        PROVE  DatabaseTypeOK' /\ ForeignKeys'
    BY <1>4, <1>5 DEF DatabaseTypeOK
  <1>6. CASE BeginCheck
    <2>1. nextCheck' \in Nat /\ report' = report /\ checks' = checks
      BY <1>1, <1>6, ConstantFacts DEF BeginCheck, tableVars
    <2>2. check' \in CheckRecords
      <3>1. minute - 1 \in 0 .. LastMinute /\ Registered \subseteq Agents
        BY <1>1, ConstantFacts DEF DatabaseTypeOK
      <3>2. CASE Registered = {}
        BY <1>6, <3>2, ConstantFacts
           DEF BeginCheck, NoCheck, CheckRecords, CheckSteps
      <3>3. CASE Registered # {}
        BY <1>6, <3>1, <3>3 DEF BeginCheck, CheckRecords, CheckSteps
      <3> QED
        BY <3>2, <3>3
    <2> QED
      BY <1>1, <1>2, <1>5, <2>1, <2>2
  <1>7. ASSUME NEW a \in Agents, Judge(a)
        PROVE  Tables'
    <2> DEFINE v == [agent |-> a, at |-> check.end,
                     bad |-> Problematic(a, check.end)]
    <2>1. v \in Verdicts
      <3>1. Problematic(a, check.end) \in BOOLEAN
        BY DEF Problematic
      <3> QED
        BY <1>1, <3>1 DEF Verdicts, CheckRecords
    <2>2. check' = [check EXCEPT !.todo = @ \ {a},
                                 !.found = IF Config[a] = NoConfig THEN @
                                           ELSE @ \cup {v}]
      BY <1>7 DEF Judge
    <2> HIDE DEF v
    <2>3. check' \in CheckRecords
      BY <1>1, <2>1, <2>2 DEF CheckRecords
    <2> QED
      BY <1>1, <1>2, <1>5, <1>7, <2>3 DEF Judge, tableVars
  <1>8. CASE StoreVerdicts
    <2>1. checks' \subseteq [agent : Registered, at : 0 .. LastMinute,
                             bad : BOOLEAN]
      <3>1. check.found \subseteq Verdicts
        BY <1>1 DEF CheckRecords
      <3>2. \/ checks' = checks
            \/ checks' = checks \cup check.found /\ CanStore(check.found)
        BY <1>8 DEF StoreVerdicts, StoreChecks
      <3> QED
        BY <3>1, <3>2 DEF CanStore, Verdicts, DatabaseTypeOK
    <2>2. \/ check' = [check EXCEPT !.at = "export"]
          \/ check' = [check EXCEPT !.at = "clean"]
      BY <1>8 DEF StoreVerdicts
    <2>3. check' \in CheckRecords
      BY <1>1, <2>2 DEF CheckRecords, CheckSteps
    <2> QED
      BY <1>1, <1>2, <1>4, <1>8, <2>1, <2>3 DEF StoreVerdicts
  <1>9. CASE Export
    <2>1. report' \subseteq Agents
      BY <1>9 DEF Export, Newest, DatabaseTypeOK
    <2>2. check' = [check EXCEPT !.at = "clean"]
      BY <1>9 DEF Export
    <2>3. check' \in CheckRecords
      BY <1>1, <2>2 DEF CheckRecords, CheckSteps
    <2> QED
      BY <1>1, <1>2, <1>5, <1>9, <2>1, <2>3 DEF Export, tableVars
  <1>10. CASE CleanChecks
    <2>1. checks' \subseteq checks
      BY <1>10 DEF CleanChecks, DropChecks
    <2>2. check' \in CheckRecords
      BY <1>10, ConstantFacts DEF CleanChecks, NoCheck, CheckRecords, CheckSteps
    <2> QED
      BY <1>1, <1>2, <1>4, <1>10, <2>1, <2>2 DEF CleanChecks, DatabaseTypeOK
  <1> QED
    BY <1>6, <1>7, <1>8, <1>9, <1>10 DEF CheckStep

LEMMA TablesUntouched ==
    ASSUME Tables, UNCHANGED <<tableVars, check, report>>,
           minute' \in Minutes, nextCheck' \in Nat,
           cleaning' = cleaning \/ cleaning' = Off \/ cleaning' = Delayed
    PROVE  Tables'
  <1>1. cleaning' \in [at : CleaningSteps, cutoff : 0 .. LastMinute]
    BY ConstantFacts DEF Tables, DatabaseTypeOK, CleaningSteps, Off, Delayed
  <1> QED
    BY <1>1 DEF Tables, tableVars, DatabaseTypeOK, HealthTypeOK, CleaningSteps,
                Registered, ForeignKeys

(* Of the life of the process and the clock.                               *)
LEMMA OtherTables ==
    ASSUME Tables,
           \/ ClockTick \/ BeginShutdown \/ Shutdown \/ Kill \/ Start
           \/ \E t \in BackgroundTasks : TaskEnds(t)
           \/ Clean /\ EndDelay
           \/ UNCHANGED vars
    PROVE  Tables'
  <1>1. minute \in Minutes /\ nextCheck \in Nat
    BY DEF Tables, DatabaseTypeOK, HealthTypeOK
  <1>2. CASE ClockTick
    <2>1. minute' \in Minutes
      BY <1>1, <1>2, ConstantFacts DEF ClockTick, Minutes
    <2> QED
      BY <1>1, <1>2, <2>1, TablesUntouched DEF ClockTick, checkVars
  <1>3. CASE Close \/ Kill
    <2>1. End
      BY <1>3 DEF Close, Kill
    <2>2. check' \in CheckRecords
      BY <2>1, ConstantFacts DEF End, NoCheck, CheckRecords, CheckSteps
    <2>3. cleaning' \in [at : CleaningSteps, cutoff : 0 .. LastMinute]
      BY <2>1, ConstantFacts DEF End, Delayed, CleaningSteps
    <2> QED
      BY <2>1, <2>2, <2>3
         DEF End, tableVars, Tables, DatabaseTypeOK, HealthTypeOK,
             CleaningSteps, CheckRecords, CheckSteps, Registered, ForeignKeys
  <1>4. CASE Start
    BY <1>1, <1>4, ConstantFacts, TablesUntouched DEF Start
  <1>5. CASE \/ BeginShutdown \/ TaskJoined \/ WaitTimesOut
             \/ \E t \in BackgroundTasks : TaskEnds(t)
             \/ UNCHANGED vars
    BY <1>1, <1>5, TablesUntouched
       DEF BeginShutdown, TaskJoined, WaitTimesOut, TaskEnds, vars,
           checkVars
  <1>6. CASE Clean /\ EndDelay
    BY <1>1, <1>6, TablesUntouched DEF Clean, EndDelay, checkVars
  <1> QED
    BY <1>2, <1>3, <1>4, <1>5, <1>6 DEF Shutdown

LEMMA NextTables ==
    ASSUME Tables, [Next]_vars
    PROVE  Tables'
  <1>1. CASE Requests
    BY <1>1, RequestTables DEF Requests
  <1>2. CASE Clean /\ CleanupStep
    BY <1>2, CleaningTypes DEF Clean
  <1>3. CASE Monitor
    BY <1>3, CheckTables DEF Monitor
  <1> QED
    BY <1>1, <1>2, <1>3, OtherTables DEF Next, Clean

(* The tables keep their types and their references, whatever interleaves. *)
THEOREM TablesHold == Spec => []Tables
  <1> QED
    BY InitTables, NextTables, PTL DEF Spec

-----------------------------------------------------------------------------
(* A request keeps its agent                                               *)

(* Between its two steps a request has its agent's row at this minute,     *)
(* and no cleanup has a cutoff in the future.                              *)
InHand(a) == request[a] # 0 => a \in Registered /\ lastSeen[a] = minute

RequestInv ==
    /\ request \in [Agents -> Nat]
    /\ \A a \in Agents : InHand(a)
    /\ cleaning.cutoff \in Nat /\ cleaning.cutoff <= minute

LEMMA InitRequest == Init => RequestInv
  BY DEF Init, DatabaseInit, Delayed, RequestInv, InHand

(* What a step that leaves the agents and the clock alone may do.          *)
LEMMA RequestUntouched ==
    ASSUME RequestInv, UNCHANGED <<lastSeen, minute>>,
           request' \in [Agents -> Nat],
           \A a \in Agents : request'[a] # 0 => request[a] # 0,
           \/ UNCHANGED cleaning
           \/ cleaning'.cutoff \in Nat /\ cleaning'.cutoff <= minute
    PROVE  RequestInv'
  BY DEF RequestInv, InHand, Registered

LEMMA NextRequest ==
    ASSUME Tables, RequestInv, [Next]_vars
    PROVE  RequestInv'
  <1>1. minute \in Minutes /\ minute \in Nat /\ minute >= 1
    BY ConstantFacts DEF Tables, DatabaseTypeOK
  <1>2. request \in [Agents -> Nat]
    BY DEF RequestInv
  <1>3. cleaning \in [at : CleaningSteps, cutoff : 0 .. LastMinute]
    BY DEF Tables, DatabaseTypeOK, CleaningSteps
  <1>4. CASE ClockTick
    <2>1. cleaning' = cleaning /\ lastSeen' = lastSeen /\ request' = request
          /\ minute' = minute + 1 /\ \A a \in Agents : request[a] = 0
      BY <1>4 DEF ClockTick, tableVars, agentVars
    <2> QED
      BY <1>1, <1>2, <2>1 DEF RequestInv, InHand
  <1>5. ASSUME NEW a \in Agents, ReceiveMetrics(a)
        PROVE  RequestInv'
    <2>1. /\ lastSeen' = [b \in Registered \cup {a} |->
                            IF b = a THEN minute ELSE lastSeen[b]]
          /\ request' = [request EXCEPT ![a] = minute]
          /\ UNCHANGED <<minute, cleaning>>
      BY <1>5 DEF ReceiveMetrics, Upsert
    <2>2. Registered' = Registered \cup {a}
      BY <2>1 DEF Registered
    <2>3. ASSUME NEW b \in Agents PROVE InHand(b)'
      BY <1>2, <2>1, <2>2 DEF InHand, RequestInv
    <2>4. request' \in [Agents -> Nat]
      BY <1>1, <1>2, <2>1
    <2> QED
      BY <2>1, <2>3, <2>4 DEF RequestInv
  <1>6. ASSUME NEW a \in Agents, ReceiveConfigError(a)
        PROVE  RequestInv'
    BY <1>2, <1>6, RequestUntouched
       DEF ReceiveConfigError, tableVars, agentVars
  <1>7. ASSUME NEW a \in Agents, FinishMetrics(a)
        PROVE  RequestInv'
    <2>1. /\ request' = [request EXCEPT ![a] = 0]
          /\ UNCHANGED <<lastSeen, minute, cleaning>>
      BY <1>7 DEF FinishMetrics
    <2> QED
      BY <1>2, <2>1, RequestUntouched
  <1>8. CASE Clean /\ EndDelay
    <2>1. cleaning' = Off /\ UNCHANGED <<lastSeen, minute, request>>
      BY <1>8 DEF Clean, EndDelay, tableVars, agentVars
    <2> QED
      BY <1>1, <1>2, <2>1, RequestUntouched DEF Off
  <1>9. CASE Clean /\ BeginCleanup
    <2>1. /\ cleaning' = [at |-> "metrics", cutoff |-> Cutoff(Retention)]
          /\ UNCHANGED <<lastSeen, minute, request>>
      BY <1>9 DEF Clean, BeginCleanup, tableVars, agentVars
    <2>2. Cutoff(Retention) \in Nat /\ Cutoff(Retention) <= minute
      BY <1>1, CutoffType, ConstantFacts
    <2> QED
      BY <1>2, <2>1, <2>2, RequestUntouched
  <1>10. CASE Clean /\ (CleanMetrics \/ CleanErrors)
    <2>1. /\ cleaning'.cutoff = cleaning.cutoff
          /\ UNCHANGED <<lastSeen, minute, request>>
      BY <1>3, <1>10 DEF Clean, CleanMetrics, CleanErrors, agentVars
    <2>2. cleaning.cutoff \in Nat /\ cleaning.cutoff <= minute
      BY DEF RequestInv
    <2> QED
      BY <1>2, <2>1, <2>2, RequestUntouched
  <1>11. CASE Clean /\ CleanAgents
    <2> DEFINE old == {a \in Registered : lastSeen[a] < cleaning.cutoff}
    <2>1. /\ \/ lastSeen' = lastSeen
             \/ lastSeen' = [a \in Registered \ old |-> lastSeen[a]]
          /\ cleaning' = Off
          /\ UNCHANGED <<minute, request>>
      BY <1>11 DEF Clean, CleanAgents, agentVars
    <2>2. ASSUME NEW a \in Agents PROVE InHand(a)'
      <3>1. InHand(a)
        BY DEF RequestInv
      <3>2. CASE lastSeen' = lastSeen
        BY <2>1, <3>1, <3>2 DEF InHand, Registered
      <3>3. CASE lastSeen' = [b \in Registered \ old |-> lastSeen[b]]
        <4>1. request[a] # 0 => a \in Registered \ old
          BY <1>1, <3>1 DEF InHand, RequestInv
        <4> HIDE DEF old
        <4> QED
          BY <2>1, <3>1, <3>3, <4>1 DEF InHand, Registered
      <3> QED
        BY <2>1, <3>2, <3>3
    <2> QED
      BY <1>1, <1>2, <2>1, <2>2 DEF RequestInv, Off
  <1>12. CASE Monitor
    BY <1>2, <1>12, RequestUntouched
       DEF Monitor, CheckStep, BeginCheck, StoreVerdicts, Export, CleanChecks,
           Judge, tableVars, agentVars
  <1>13. CASE Close \/ Kill
    <2>1. /\ request' = [a \in Agents |-> 0] /\ cleaning' = Delayed
          /\ UNCHANGED <<lastSeen, minute>>
      BY <1>13 DEF Close, Kill, End, tableVars
    <2> QED
      BY <1>1, <2>1, RequestUntouched DEF Delayed
  <1>14. CASE \/ BeginShutdown \/ TaskJoined \/ WaitTimesOut \/ Start
              \/ \E t \in BackgroundTasks : TaskEnds(t)
              \/ UNCHANGED vars
    BY <1>2, <1>14, RequestUntouched
       DEF BeginShutdown, TaskJoined, WaitTimesOut, Start, TaskEnds,
           vars, tableVars, agentVars
  <1> QED
    BY <1>4, <1>5, <1>6, <1>7, <1>8, <1>9, <1>10, <1>11, <1>12, <1>13, <1>14
       DEF Next, Requests, Clean, CleanupStep, Shutdown

(* The row a request upserted is there when it stores the metrics: the     *)
(* cleanup of handle_metrics' database judges by a cutoff before the       *)
(* request's own last_seen, even when it took the cutoff earlier.          *)
THEOREM RequestsKeepAgents == Spec => []RequestKeepsAgent
  <1>1. RequestInv => RequestKeepsAgent
    BY DEF RequestInv, InHand, RequestKeepsAgent
  <1> QED
    BY <1>1, InitRequest, NextRequest, TablesHold, PTL DEF Spec

-----------------------------------------------------------------------------
(* The report is that of the check just made                               *)

(* The check under way is of the minute before this one and, once stored,  *)
(* in the table, where no check is newer.                                  *)
CheckInv ==
    /\ \A d \in checks : d.at < minute
    /\ check.at \in {"judge", "export"} =>
          check.end = minute - 1 /\ \A c \in check.found : c.at = check.end
    /\ check.at = "export" => check.found \subseteq checks

LEMMA InitCheck == Init => CheckInv
  BY DEF Init, DatabaseInit, HealthInit, NoCheck, CheckInv

LEMMA CheckUntouched ==
    ASSUME CheckInv, UNCHANGED <<check, checks, minute>>
    PROVE  CheckInv'
  BY DEF CheckInv

LEMMA StepsOfCheck ==
    ASSUME Tables, CheckInv, CheckStep
    PROVE  CheckInv'
  <1>1. /\ check \in CheckRecords /\ minute \in Nat /\ minute >= 1
        /\ checks \subseteq [agent : Registered, at : 0 .. LastMinute,
                             bad : BOOLEAN]
    BY ConstantFacts
       DEF Tables, DatabaseTypeOK, HealthTypeOK, CheckRecords, CheckSteps
  <1>2. minute' = minute
    BY DEF CheckStep, BeginCheck, StoreVerdicts, Export, CleanChecks, Judge
  <1>3. CASE BeginCheck
    <2>1. /\ checks' = checks
          /\ check' = IF Registered = {} THEN [NoCheck EXCEPT !.at = "clean"]
                      ELSE [at |-> "judge", end |-> minute - 1,
                            todo |-> Registered, found |-> {}]
      BY <1>3 DEF BeginCheck, tableVars
    <2>2. CASE Registered = {}
      BY <1>2, <2>1, <2>2 DEF CheckInv, NoCheck
    <2>3. CASE Registered # {}
      BY <1>2, <2>1, <2>3 DEF CheckInv
    <2> QED
      BY <2>2, <2>3
  <1>4. ASSUME NEW a \in Agents, Judge(a)
        PROVE  CheckInv'
    <2> DEFINE v == [agent |-> a, at |-> check.end,
                     bad |-> Problematic(a, check.end)]
    <2>1. /\ check.at = "judge" /\ checks' = checks
          /\ check' = [check EXCEPT !.todo = @ \ {a},
                                    !.found = IF Config[a] = NoConfig THEN @
                                              ELSE @ \cup {v}]
      BY <1>4 DEF Judge, tableVars
    <2>2. v.at = check.end
      OBVIOUS
    <2> HIDE DEF v
    <2>3. /\ check'.at = "judge" /\ check'.end = check.end
          /\ check'.found \subseteq check.found \cup {v}
      BY <1>1, <2>1 DEF CheckRecords
    <2> QED
      BY <1>2, <2>1, <2>2, <2>3 DEF CheckInv
  <1>5. CASE StoreVerdicts
    <2>1. /\ check.at = "judge"
          /\ \/ checks' = checks /\ check' = [check EXCEPT !.at = "clean"]
             \/ /\ checks' = checks \cup check.found
                /\ check' = [check EXCEPT !.at = "export"]
      BY <1>5 DEF StoreVerdicts, StoreChecks
    <2>2. check'.found = check.found /\ check'.end = check.end
      BY <1>1, <2>1 DEF CheckRecords
    <2>3. /\ check.end = minute - 1
          /\ \A c \in check.found : c.at = check.end
          /\ \A d \in checks : d.at < minute
      BY <2>1 DEF CheckInv
    <2>4. \A d \in checks' : d.at < minute
      BY <1>1, <2>1, <2>3
    <2>5. CASE check' = [check EXCEPT !.at = "clean"]
      <3>1. check'.at = "clean"
        BY <1>1, <2>5 DEF CheckRecords
      <3> QED
        BY <1>2, <2>4, <3>1 DEF CheckInv
    <2>6. CASE /\ checks' = checks \cup check.found
               /\ check' = [check EXCEPT !.at = "export"]
      <3>1. check'.found \subseteq checks'
        BY <2>2, <2>6
      <3> QED
        BY <1>2, <2>2, <2>3, <2>4, <3>1 DEF CheckInv
    <2> QED
      BY <2>1, <2>5, <2>6
  <1>6. CASE Export
    <2>1. check'.at = "clean" /\ checks' = checks
      BY <1>1, <1>6 DEF Export, CheckRecords, tableVars
    <2> QED
      BY <1>2, <2>1 DEF CheckInv
  <1>7. CASE CleanChecks
    <2>1. check'.at = "off" /\ checks' \subseteq checks
      BY <1>7 DEF CleanChecks, DropChecks, NoCheck
    <2> QED
      BY <1>2, <2>1 DEF CheckInv
  <1> QED
    BY <1>3, <1>4, <1>5, <1>6, <1>7 DEF CheckStep

LEMMA NextCheckInv ==
    ASSUME Tables, CheckInv, [Next]_vars
    PROVE  CheckInv'
  <1>1. CASE Monitor
    BY <1>1, StepsOfCheck DEF Monitor
  <1>2. CASE ClockTick
    <2>1. /\ check.at = "off" /\ check' = check /\ checks' = checks
          /\ minute' = minute + 1
      BY <1>2 DEF ClockTick, tableVars, checkVars
    <2>2. /\ minute \in Nat
          /\ \A d \in checks : d.at \in Nat /\ d.at < minute
      BY ConstantFacts DEF CheckInv, Tables, DatabaseTypeOK
    <2>3. \A d \in checks' : d.at < minute'
      BY <2>1, <2>2
    <2> QED
      BY <2>1, <2>3 DEF CheckInv
  <1>3. CASE Close \/ Kill
    <2>1. check' = NoCheck /\ UNCHANGED <<checks, minute>>
      BY <1>3 DEF Close, Kill, End, tableVars
    <2> QED
      BY <2>1 DEF CheckInv, NoCheck
  <1>4. CASE Requests
    BY <1>4, CheckUntouched
       DEF Requests, ReceiveMetrics, FinishMetrics,
           ReceiveConfigError, tableVars, checkVars
  <1>5. CASE Clean
    BY <1>5, CheckUntouched
       DEF Clean, EndDelay, CleanupStep, BeginCleanup, CleanMetrics,
           CleanErrors, CleanAgents, tableVars, checkVars
  <1>6. CASE \/ BeginShutdown \/ TaskJoined \/ WaitTimesOut \/ Start
             \/ \E t \in BackgroundTasks : TaskEnds(t)
             \/ UNCHANGED vars
    BY <1>6, CheckUntouched
       DEF BeginShutdown, TaskJoined, WaitTimesOut, Start, TaskEnds,
           vars, tableVars, checkVars
  <1> QED
    BY <1>1, <1>2, <1>3, <1>4, <1>5, <1>6 DEF Next, Shutdown

(* Only the export leads from the stored verdicts to the cleanup.          *)
LEMMA OnlyExportLeavesExport ==
    ASSUME Tables, [Next]_vars, check.at = "export", check'.at = "clean"
    PROVE  Export
  <1>1. check' # check
    OBVIOUS
  <1>2. check' # NoCheck
    BY DEF NoCheck
  <1>3. Monitor
    BY <1>1, <1>2
       DEF Next, Requests, Shutdown, ClockTick, ReceiveMetrics,
           FinishMetrics, ReceiveConfigError, Clean, TaskEnds,
           BeginShutdown, TaskJoined, WaitTimesOut, Close, Kill, End, Start,
           checkVars, vars
  <1> QED
    BY <1>3 DEF Monitor, CheckStep, BeginCheck, StoreVerdicts, CleanChecks, Judge

(* The report of problematic agents, read back from agent_health_checks    *)
(* by export_problematic_agents, lists those of the check just stored.     *)
THEOREM ReportsAreOfTheirCheck == Spec => ReportIsThisCheck
  <1>1. ASSUME Tables, CheckInv, [Next]_vars,
               check.at = "export", check'.at = "clean",
               ~ \E d \in checks \ check.found : d.at = check.end
        PROVE  report' = {c.agent : c \in {d \in check.found : d.bad}}
    <2>1. Export
      BY <1>1, OnlyExportLeavesExport
    <2>2. CASE \E c \in check.found : c.bad
      <3>1. /\ check.found \subseteq checks
            /\ \A c \in check.found : c.at = check.end
            /\ check.end = minute - 1
        BY <1>1 DEF CheckInv
      <3>2. /\ minute \in Nat
            /\ \A d \in checks : d.at \in Nat /\ d.at < minute
        BY <1>1, ConstantFacts DEF CheckInv, Tables, DatabaseTypeOK
      <3>3. PICK c \in check.found : c.at = check.end
        BY <2>2, <3>1
      <3>4. \A d \in checks : d.at <= check.end
        BY <3>1, <3>2
      <3>5. \A d \in checks : d \in Newest <=> d.at = check.end
        <4>1. SUFFICES ASSUME NEW d \in checks
                       PROVE  (\A e \in checks : e.at <= d.at) <=> d.at = check.end
          BY DEF Newest
        <4>2. d.at \in Nat /\ check.end \in Int /\ d.at <= check.end
          BY <3>1, <3>2, <3>4
        <4>3. ASSUME \A e \in checks : e.at <= d.at PROVE d.at = check.end
          BY <3>1, <3>3, <4>2, <4>3
        <4>4. ASSUME d.at = check.end PROVE \A e \in checks : e.at <= d.at
          BY <3>4, <4>4
        <4> QED
          BY <4>3, <4>4
      <3>6. Newest = check.found
        BY <1>1, <3>1, <3>5 DEF Newest
      <3> QED
        BY <2>1, <2>2, <3>6 DEF Export
    <2>3. CASE ~ \E c \in check.found : c.bad
      <3>1. report' = {} /\ {d \in check.found : d.bad} = {}
        BY <2>1, <2>3 DEF Export
      <3> QED
        BY <3>1
    <2> QED
      BY <2>2, <2>3
  <1>2. Tables /\ CheckInv /\ [Next]_vars =>
            (check.at = "export" /\ check'.at = "clean" =>
                \/ report' = {c.agent : c \in {d \in check.found : d.bad}}
                \/ \E d \in checks \ check.found : d.at = check.end)
    BY <1>1
  <1>3. Spec => []CheckInv
    BY InitCheck, NextCheckInv, TablesHold, PTL DEF Spec
  <1> QED
    BY <1>2, <1>3, TablesHold, PTL DEF Spec, ReportIsThisCheck

-----------------------------------------------------------------------------
(* A shutdown cuts no task short                                           *)

(* A task ends at its select! only, and the phase comes to the next one    *)
(* when the task has ended or its wait timed out.                          *)
TaskInv ==
    /\ phase \in AllPhases
    /\ alive \subseteq BackgroundTasks
    /\ "cleanup" \notin alive => cleaning.at \in {"off", "delay"}
    /\ "health" \notin alive => check.at = "off"
    /\ phase = "health" => "cleanup" \notin alive \/ timedOut
    /\ phase = "close" =>
          ("cleanup" \notin alive /\ "health" \notin alive) \/ timedOut

LEMMA InitTasks == Init => TaskInv
  BY Background
     DEF Init, DatabaseInit, HealthInit, NoCheck, Delayed, TaskInv, AllPhases

LEMMA TasksUntouched ==
    ASSUME TaskInv, UNCHANGED <<phase, alive, timedOut>>,
           cleaning' = cleaning \/ "cleanup" \in alive,
           check' = check \/ "health" \in alive
    PROVE  TaskInv'
  BY DEF TaskInv

LEMMA NextTasks ==
    ASSUME TaskInv, [Next]_vars
    PROVE  TaskInv'
  <1>1. CASE Clean \/ Monitor
    BY <1>1, TasksUntouched
       DEF Clean, Monitor, CheckStep, BeginCheck, StoreVerdicts, Export,
           CleanChecks, Judge, checkVars, processVars
  <1>2. ASSUME NEW t \in BackgroundTasks, TaskEnds(t)
        PROVE  TaskInv'
    <2>1. /\ alive' = alive \ {t}
          /\ t = "cleanup" => cleaning.at = "off"
          /\ t = "health" => check.at = "off"
          /\ UNCHANGED <<cleaning, check, phase, timedOut>>
      BY <1>2 DEF TaskEnds, AtSelect, checkVars
    <2> QED
      BY <1>2, <2>1, Background DEF TaskInv
  <1>3. CASE BeginShutdown
    <2>1. phase' = "cleanup" /\ UNCHANGED <<alive, cleaning, check, timedOut>>
      BY <1>3, Background DEF BeginShutdown, checkVars
    <2> QED
      BY <2>1, Background DEF TaskInv, AllPhases
  <1>4. CASE TaskJoined \/ WaitTimesOut
    <2>1. /\ phase \in {"cleanup", "health"}
          /\ phase' = NextPhase(phase)
          /\ phase \notin alive \/ timedOut'
          /\ timedOut => timedOut'
          /\ UNCHANGED <<alive, cleaning, check>>
      BY <1>4, Background DEF TaskJoined, WaitTimesOut, TaskInv, checkVars
    <2> QED
      BY <2>1, Background DEF TaskInv, AllPhases
  <1>5. CASE Close \/ Kill
    <2>1. /\ phase' = "down" /\ alive' = {}
          /\ check' = NoCheck /\ cleaning' = Delayed
      BY <1>5 DEF Close, Kill, End
    <2> QED
      BY <2>1 DEF TaskInv, AllPhases, NoCheck, Delayed
  <1>6. CASE Start
    <2>1. phase' = "up" /\ alive' = BackgroundTasks
      BY <1>6 DEF Start
    <2> QED
      BY <2>1, Background DEF TaskInv, AllPhases
  <1>7. CASE ClockTick \/ Requests \/ UNCHANGED vars
    BY <1>7, TasksUntouched
       DEF ClockTick, Requests, ReceiveMetrics, FinishMetrics,
           ReceiveConfigError, processVars, checkVars, vars
  <1> QED
    BY <1>1, <1>2, <1>3, <1>4, <1>5, <1>6, <1>7 DEF Next, Shutdown

(* shutdown() lets each background task finish the round it is in, unless  *)
(* graceful_shutdown_timeout_seconds pass.                                 *)
THEOREM ShutdownsCutNothing == Spec => ShutdownCutsNothing
  <1>1. ASSUME TaskInv, phase = "close"
        PROVE  timedOut \/ (check.at = "off" /\ cleaning.at \in {"off", "delay"})
    BY <1>1 DEF TaskInv
  <1>2. Spec => []TaskInv
    BY InitTasks, NextTasks, PTL DEF Spec
  <1> QED
    BY <1>1, <1>2, PTL DEF Spec, ShutdownCutsNothing

-----------------------------------------------------------------------------
(* The types                                                               *)

ProcessTypes ==
    /\ request \in [Agents -> 0 .. LastMinute]
    /\ sent \in [Agents -> 0 .. LastMinute]
    /\ used \in [EventKinds -> Nat]
    /\ timedOut \in BOOLEAN

LEMMA InitProcess == Init => ProcessTypes
  <1> SUFFICES ASSUME Init PROVE ProcessTypes
    OBVIOUS
  <1>1. 0 \in 0 .. LastMinute /\ 0 \in Nat
    BY ConstantFacts
  <1>2. /\ request = [a \in Agents |-> 0] /\ sent = [a \in Agents |-> 0]
        /\ used = [k \in EventKinds |-> 0] /\ timedOut = FALSE
    BY DEF Init
  <1> QED
    BY <1>1, <1>2 DEF ProcessTypes

LEMMA SpendType ==
    ASSUME ProcessTypes, NEW k \in EventKinds, Spend(k)
    PROVE  used' \in [EventKinds -> Nat]
  <1>1. used' = [used EXCEPT ![k] = @ + 1] /\ used[k] \in Nat
    BY DEF Spend, ProcessTypes
  <1> QED
    BY <1>1 DEF ProcessTypes

LEMMA NextProcess ==
    ASSUME Tables, ProcessTypes, [Next]_vars
    PROVE  ProcessTypes'
  <1>1. minute \in 0 .. LastMinute /\ minute - 1 \in 0 .. LastMinute
        /\ 0 \in 0 .. LastMinute
    BY ConstantFacts DEF Tables, DatabaseTypeOK
  <1>2. "request" \in EventKinds /\ "end" \in EventKinds
    BY DEF EventKinds
  <1>3. ASSUME NEW a \in Agents, ReceiveMetrics(a) PROVE ProcessTypes'
    <2>1. used' \in [EventKinds -> Nat]
      BY <1>2, <1>3, SpendType DEF ReceiveMetrics
    <2>2. request' = [request EXCEPT ![a] = minute] /\ UNCHANGED <<sent, timedOut>>
      BY <1>3 DEF ReceiveMetrics
    <2> QED
      BY <1>1, <2>1, <2>2 DEF ProcessTypes
  <1>4. ASSUME NEW a \in Agents, FinishMetrics(a) PROVE ProcessTypes'
    <2>1. /\ request' = [request EXCEPT ![a] = 0]
          /\ sent' = sent \/ sent' = [sent EXCEPT ![a] = minute - 1]
          /\ UNCHANGED <<used, timedOut>>
      BY <1>4 DEF FinishMetrics
    <2>2. request' \in [Agents -> 0 .. LastMinute]
      BY <1>1, <2>1 DEF ProcessTypes
    <2>3. sent' \in [Agents -> 0 .. LastMinute]
      BY <1>1, <2>1 DEF ProcessTypes
    <2> QED
      BY <2>1, <2>2, <2>3 DEF ProcessTypes
  <1>5. ASSUME NEW a \in Agents, ReceiveConfigError(a) PROVE ProcessTypes'
    <2>1. used' \in [EventKinds -> Nat]
      BY <1>2, <1>5, SpendType DEF ReceiveConfigError
    <2> QED
      BY <1>5, <2>1 DEF ReceiveConfigError, ProcessTypes, agentVars
  <1>6. CASE BeginShutdown \/ Kill
    <2>1. used' \in [EventKinds -> Nat]
      BY <1>2, <1>6, SpendType DEF BeginShutdown, Kill
    <2> QED
      BY <1>1, <1>6, <2>1
         DEF BeginShutdown, Kill, End, ProcessTypes, agentVars
  <1>7. CASE \/ ClockTick \/ Clean \/ Monitor \/ TaskJoined
             \/ WaitTimesOut \/ Close \/ Start \/ UNCHANGED vars
             \/ \E t \in BackgroundTasks : TaskEnds(t)
    <2>1. /\ UNCHANGED <<sent, used>>
          /\ request' = request \/ request' = [a \in Agents |-> 0]
          /\ timedOut' = timedOut \/ timedOut' \in {TRUE, FALSE}
      BY <1>7 DEF ClockTick, Clean, Monitor, TaskJoined, WaitTimesOut,
         Close, End, Start, TaskEnds, agentVars, vars
    <2> QED
      BY <1>1, <2>1 DEF ProcessTypes
  <1> QED
    BY <1>3, <1>4, <1>5, <1>6, <1>7 DEF Next, Requests, Shutdown

(* The server's tables, tasks and checks keep their types and the tables   *)
(* their foreign keys.                                                     *)
THEOREM TypesHold == Spec => []TypeOK
  <1>1. Tables /\ TaskInv /\ ProcessTypes => TypeOK
    BY DEF Tables, TaskInv, ProcessTypes, TypeOK, AllPhases
  <1>2. Spec => []TaskInv
    BY InitTasks, NextTasks, PTL DEF Spec
  <1>3. Spec => []ProcessTypes
    BY InitProcess, NextProcess, TablesHold, PTL DEF Spec
  <1> QED
    BY <1>1, <1>2, <1>3, TablesHold, PTL

-----------------------------------------------------------------------------
(* The verdicts of the health check                                        *)

(* The arithmetic of the minutes a task is due in.                         *)
LEMMA DivisionFacts ==
    ASSUME NEW n \in Nat, NEW s \in Nat, s >= 1
    PROVE  n \div s \in Nat /\ s * (n \div s) <= n /\ n < s * (n \div s) + s
  BY SMT

LEMMA MultiplesGrow ==
    ASSUME NEW q \in Int, NEW r \in Int, q <= r, NEW s \in Nat
    PROVE  s * q <= s * r
  BY SMT

LEMMA RunIsDue ==
    ASSUME NEW q \in Nat, NEW s \in Nat, NEW p \in Nat, p < s
    PROVE  (s * q + p) % s = p
  BY SMT

(* The first multiple of s from x on, over s.                              *)
FirstRun(s, x) == ((x + s) - 1) \div s

LEMMA MultiplesInWindow ==
    ASSUME NEW s \in Nat, s >= 1, NEW w \in Nat, NEW n \in Nat,
           NEW i \in Nat, i >= 1, i <= n \div s
    PROVE  /\ FirstRun(s, w) \in Nat
           /\ w <= s * ((FirstRun(s, w) + i) - 1)
           /\ s * ((FirstRun(s, w) + i) - 1) <= (w + n) - 1
  <1> DEFINE q == FirstRun(s, w)
  <1>1. /\ q \in Nat /\ s * q <= (w + s) - 1
        /\ (w + s) - 1 < s * q + s
    <2>1. (w + s) - 1 \in Nat
      OBVIOUS
    <2> QED
      BY <2>1, DivisionFacts DEF FirstRun
  <1>2. n \div s \in Nat /\ s * (n \div s) <= n
    BY DivisionFacts
  <1> HIDE DEF q
  <1>3. (q + i) - 1 \in Nat /\ q <= (q + i) - 1
    BY <1>1
  <1>4. s * q \in Nat /\ s * q <= s * ((q + i) - 1)
    BY <1>1, <1>3, MultiplesGrow
  <1>5. s * i <= s * (n \div s)
    BY <1>2, MultiplesGrow
  <1>6. s * ((q + i) - 1) = (s * q + s * i) - s
    BY <1>1
  <1>7. s * i \in Nat
    OBVIOUS
  <1>8. s * ((q + i) - 1) \in Nat
    BY <1>3
  <1>9. w <= s * ((q + i) - 1)
    BY <1>1, <1>4, <1>8
  <1>10. s * ((q + i) - 1) <= (w + n) - 1
    <2> DEFINE x == s * q
               y == s * i
               z == s * (n \div s)
    <2>1. x \in Nat /\ y \in Nat /\ z \in Nat
      BY <1>2, <1>4, <1>7
    <2>2. x <= (w + s) - 1 /\ y <= z /\ z <= n
      BY <1>1, <1>2, <1>5
    <2> HIDE DEF x, y, z
    <2>3. (x + y) - s <= (w + n) - 1
      BY <2>1, <2>2
    <2> QED
      BY <1>6, <2>3 DEF x, y
  <1> QED
    BY <1>1, <1>9, <1>10 DEF q

(* The i-th second from x on that a task with period s and phase p runs in *)
FirstSecond(s, p, x) == s * (FirstRun(s, (x + s) - p) - 2) + p

NthSecond(s, p, x, i) == FirstSecond(s, p, x) + s * i

(* The i-th of the runs in a window of n seconds from x on.                *)
IsNthOf(s, p, x, n, i) ==
    /\ s \in Nat /\ p \in Nat /\ p < s
    /\ x \in Nat /\ x >= 1 /\ n \in Nat
    /\ i \in Nat /\ i >= 1 /\ i <= n \div s

RunsWithin(s, p, x, n, i) ==
    /\ FirstSecond(s, p, x) \in Int
    /\ NthSecond(s, p, x, i) \in x .. (x + n) - 1
    /\ NthSecond(s, p, x, i) % s = p

LEMMA SecondsInWindow ==
    ASSUME NEW s, NEW p, NEW x, NEW n, NEW i, IsNthOf(s, p, x, n, i)
    PROVE  RunsWithin(s, p, x, n, i)
  <1> USE DEF IsNthOf
  <1> DEFINE v == (x + s) - p
             q == FirstRun(s, v)
             m == s * ((q + i) - 1)
  <1>1. s >= 1 /\ v \in Nat /\ v >= 1
    OBVIOUS
  <1> HIDE DEF v
  <1>2. q \in Nat /\ v <= m /\ m <= (v + n) - 1
    BY <1>1, MultiplesInWindow
  <1> HIDE DEF q
  <1>3. (q + i) - 1 \in Nat /\ m \in Nat
    BY <1>1, <1>2
  <1>4. FirstSecond(s, p, x) = s * (q - 2) + p
    BY DEF FirstSecond, q, v
  <1>5. s * (q - 2) + s * i = m - s
    BY <1>2
  <1>6. s * (q - 2) \in Int /\ s * i \in Int
    BY <1>2
  <1>7. NthSecond(s, p, x, i) = (m - s) + p
    BY <1>3, <1>4, <1>5, <1>6 DEF NthSecond
  <1>8. (m - s) + p \in x .. (x + n) - 1
    BY <1>2, <1>3 DEF v
  <1>9. ((m - s) + p) % s = p
    <2>1. (q + i) - 1 >= 1
      <3>1. CASE (q + i) - 1 = 0
        <4>1. m = 0
          BY <3>1
        <4> QED
          BY <1>1, <1>2, <4>1
      <3> HIDE DEF m
      <3> QED
        BY <1>2, <1>3, <3>1
    <2>2. (q + i) - 2 \in Nat
      BY <1>2, <2>1
    <2>3. m - s = s * ((q + i) - 2)
      BY <1>2
    <2> QED
      BY <2>2, <2>3, RunIsDue
  <1> QED
    BY <1>4, <1>6, <1>7, <1>8, <1>9 DEF RunsWithin

(* A second lies in its minute.                                            *)
LEMMA MinuteOfSecond ==
    ASSUME NEW r \in Nat, NEW w \in Nat, NEW n \in Nat,
           r \in 60 * w .. (60 * w + 60 * n) - 1
    PROVE  /\ r \div 60 \in w .. (w + n) - 1
           /\ r \in 60 * (r \div 60) .. 60 * (r \div 60) + 59
  <1> DEFINE m == r \div 60
  <1>1. m \in Nat /\ 60 * m <= r /\ r < 60 * m + 60
    BY DivisionFacts
  <1> HIDE DEF m
  <1> QED
    BY <1>1 DEF m

LEMMA MinutesDiffer ==
    ASSUME NEW r \in Nat, NEW x \in Nat, r + 60 <= x
    PROVE  r \div 60 < x \div 60
  BY SMT

(* The minutes that lie in the window of a check as a whole.               *)
WindowMinutes == Interval \div 60

(* The minute the i-th run from minute w on falls in that counts for a     *)
(* check: each minute for a task that runs more often.                     *)
SecondOf(a, t, i, w) == NthSecond(Schedule[t], Phase[a][t], 60 * w, i)

RunOf(a, t, i, w) == IF Schedule[t] < 60 THEN (w + i) - 1
                     ELSE SecondOf(a, t, i, w) \div 60

LEMMA TaskFacts ==
    ASSUME NEW a \in Agents, NEW t \in Tasks
    PROVE  /\ Schedule[t] \in Nat /\ Phase[a][t] \in Nat
           /\ Schedule[t] # 0 => Phase[a][t] < Schedule[t]
           /\ Interval \in Nat /\ Interval >= 1
           /\ WindowMinutes \in Nat /\ 60 * WindowMinutes <= Interval
  <1>1. WindowMinutes \in Nat /\ 60 * WindowMinutes <= Interval
    BY HealthAssumption, DivisionFacts DEF WindowMinutes
  <1> QED
    BY <1>1, HealthAssumption, ProcessAssumption

(* The runs expected of a task that is not overcounted.                    *)
Counted(t) == Schedule[t] >= 60 =>
    Interval \div Schedule[t] <= (60 * WindowMinutes) \div Schedule[t]

LEMMA SlowRuns ==
    ASSUME NEW a \in Agents, NEW t \in Tasks, Schedule[t] >= 60, Counted(t),
           NEW w \in Nat, w >= 1, NEW i \in Nat, i >= 1, i <= ExpectedOf(t)
    PROVE  /\ FirstSecond(Schedule[t], Phase[a][t], 60 * w) \in Int
           /\ SecondOf(a, t, i, w) \in 60 * w .. (60 * w + 60 * WindowMinutes) - 1
           /\ SecondOf(a, t, i, w) % Schedule[t] = Phase[a][t]
  <1> DEFINE s == Schedule[t]
             p == Phase[a][t]
             n == 60 * WindowMinutes
             x == 60 * w
  <1>1. s \in Nat /\ p \in Nat /\ p < s /\ WindowMinutes \in Nat /\ s >= 60
    BY TaskFacts
  <1>2. n \in Nat /\ x \in Nat /\ x >= 1
    BY <1>1
  <1>3. ExpectedOf(t) = Interval \div s
    BY <1>1 DEF ExpectedOf
  <1>4. Interval \div s \in Nat /\ n \div s \in Nat
    BY <1>1, <1>2, TaskFacts, DivisionFacts
  <1>5. i <= n \div s
    BY <1>1, <1>3, <1>4 DEF Counted
  <1> HIDE DEF s, p, n, x
  <1>6. /\ FirstSecond(s, p, x) \in Int
        /\ NthSecond(s, p, x, i) \in x .. (x + n) - 1
        /\ NthSecond(s, p, x, i) % s = p
    <2>1. IsNthOf(s, p, x, n, i)
      BY <1>1, <1>2, <1>5 DEF IsNthOf
    <2> QED
      BY <2>1, SecondsInWindow DEF RunsWithin
  <1> QED
    BY <1>6 DEF SecondOf, s, p, n, x

LEMMA RunsInWindow ==
    ASSUME NEW a \in Agents, NEW t \in Tasks, Counted(t), NEW w \in Nat, w >= 1,
           NEW i \in Nat, i >= 1, i <= ExpectedOf(t)
    PROVE  /\ RunOf(a, t, i, w) \in w .. (w + WindowMinutes) - 1
           /\ DueIn(a, t, RunOf(a, t, i, w))
  <1>1. /\ Schedule[t] \in Nat /\ Phase[a][t] \in Nat
        /\ Schedule[t] # 0 => Phase[a][t] < Schedule[t]
        /\ WindowMinutes \in Nat
    BY TaskFacts
  <1>2. Schedule[t] # 0
    BY DEF ExpectedOf
  <1>3. CASE Schedule[t] < 60
    <2> DEFINE s == Schedule[t]
               p == Phase[a][t]
               m == (w + i) - 1
               r == NthSecond(s, p, 60 * m, 1)
    <2>1. i <= WindowMinutes
      BY <1>1, <1>2, <1>3 DEF ExpectedOf, WindowMinutes
    <2>2. m \in Nat /\ m >= 1 /\ m \in w .. (w + WindowMinutes) - 1
      BY <1>1, <2>1
    <2>3. s \in Nat /\ p \in Nat /\ p < s /\ s >= 1 /\ s <= 59
      BY <1>1, <1>2, <1>3
    <2>4. RunOf(a, t, i, w) = m
      BY <1>3 DEF RunOf
    <2> HIDE DEF m, s, p
    <2>5. 60 * m \in Nat /\ 60 * m >= 1
      BY <2>2
    <2>6. 1 <= 60 \div s
      BY <2>3, SMT
    <2>7. r \in 60 * m .. (60 * m + 60) - 1 /\ r % s = p
      <3>1. IsNthOf(s, p, 60 * m, 60, 1)
        BY <2>3, <2>5, <2>6 DEF IsNthOf
      <3> QED
        BY <3>1, SecondsInWindow DEF RunsWithin
    <2> HIDE DEF r
    <2>8. r \in 60 * m .. 60 * m + 59
      BY <2>5, <2>7
    <2> QED
      BY <1>2, <2>2, <2>4, <2>7, <2>8 DEF DueIn, s, p
  <1>4. CASE Schedule[t] >= 60
    <2> DEFINE r == SecondOf(a, t, i, w)
    <2>1. /\ r \in 60 * w .. (60 * w + 60 * WindowMinutes) - 1
          /\ r % Schedule[t] = Phase[a][t]
      BY <1>4, SlowRuns
    <2> HIDE DEF r
    <2>2. r \in Nat
      BY <1>1, <2>1
    <2>3. /\ r \div 60 \in w .. (w + WindowMinutes) - 1
          /\ r \in 60 * (r \div 60) .. 60 * (r \div 60) + 59
      BY <1>1, <2>1, <2>2, MinuteOfSecond
    <2>4. RunOf(a, t, i, w) = r \div 60
      BY <1>1, <1>4 DEF RunOf, r
    <2> QED
      BY <1>2, <2>1, <2>3, <2>4 DEF DueIn
  <1> QED
    BY <1>1, <1>3, <1>4

LEMMA RunsDiffer ==
    ASSUME NEW a \in Agents, NEW t \in Tasks, Counted(t), NEW w \in Nat, w >= 1,
           NEW i \in Nat, i >= 1, i <= ExpectedOf(t),
           NEW j \in Nat, j >= 1, j <= ExpectedOf(t), i < j
    PROVE  RunOf(a, t, i, w) # RunOf(a, t, j, w)
  <1>1. Schedule[t] \in Nat /\ WindowMinutes \in Nat
    BY TaskFacts
  <1>2. CASE Schedule[t] < 60
    BY <1>2 DEF RunOf
  <1>3. CASE Schedule[t] >= 60
    <2> DEFINE f == FirstSecond(Schedule[t], Phase[a][t], 60 * w)
               y == Schedule[t] * i
               z == Schedule[t] * j
    <2>1. /\ f \in Int
          /\ SecondOf(a, t, i, w) \in 60 * w .. (60 * w + 60 * WindowMinutes) - 1
          /\ SecondOf(a, t, j, w) \in 60 * w .. (60 * w + 60 * WindowMinutes) - 1
      BY <1>3, SlowRuns
    <2>2. SecondOf(a, t, i, w) = f + y /\ SecondOf(a, t, j, w) = f + z
      BY DEF SecondOf, NthSecond
    <2>3. y + Schedule[t] <= z
      <3>1. Schedule[t] * (i + 1) <= z
        BY <1>1, MultiplesGrow
      <3>2. Schedule[t] * (i + 1) = y + Schedule[t]
        BY <1>1
      <3> QED
        BY <3>1, <3>2
    <2>4. y \in Int /\ z \in Int
      BY <1>1
    <2> HIDE DEF f, y, z
    <2>5. f + y \in Nat /\ f + z \in Nat
      BY <1>1, <2>1, <2>2
    <2>6. (f + y) + 60 <= f + z
      BY <1>1, <1>3, <2>1, <2>3, <2>4
    <2>7. (f + y) \div 60 < (f + z) \div 60
      BY <2>5, <2>6, MinutesDiffer
    <2>8. (f + y) \div 60 \in Nat /\ (f + z) \div 60 \in Nat
      BY <2>5, DivisionFacts
    <2>9. /\ RunOf(a, t, i, w) = (f + y) \div 60
          /\ RunOf(a, t, j, w) = (f + z) \div 60
      BY <1>1, <1>3, <2>2 DEF RunOf
    <2> QED
      BY <2>7, <2>8, <2>9
  <1> QED
    BY <1>1, <1>2, <1>3

(* The rows in the window of a check.                                      *)
RowsIn(a, end) == {k \in stored : k[1] = a /\ InWindow(k[3], end)}

LEMMA EntriesFinite ==
    ASSUME NEW a \in Agents, Config[a] # NoConfig
    PROVE  IsFiniteSet(Entries(a)) /\ Expected(a) \in Nat
  <1>1. IsFiniteSet(Config[a])
    BY HealthAssumption, FS_Subset
  <1>2. IsFiniteSet(1 .. Interval)
    BY HealthAssumption, FS_Interval
  <1>3. IsFiniteSet(Config[a] \X (1 .. Interval))
    BY <1>1, <1>2, FS_Product
  <1>4. IsFiniteSet(Entries(a))
    BY <1>3, FS_Subset DEF Entries
  <1> QED
    BY <1>4, FS_CardinalityType DEF Expected

(* A window whose due rows are all there holds what is expected.           *)
LEMMA EnoughReceived ==
    ASSUME IsFiniteSet(stored), NEW a \in Agents, Config[a] # NoConfig,
           Config[a] \subseteq TasksRun[a],
           minute \in Nat, NEW end \in Nat, end = minute - 1,
           60 * end > Interval, ~Overcounted(a),
           \A k \in Due(a) : DueIn(a, k[2], k[3])
                             /\ 60 * k[3] >= 60 * end - Interval
                             /\ k[3] + 2 <= minute => k \in stored
    PROVE  Expected(a) <= ReceivedIn(a, end)
  <1> DEFINE w == end - WindowMinutes
             f == [e \in Entries(a) |-> <<a, e[1], RunOf(a, e[1], e[2], w)>>]
  <1>1. /\ w \in Nat /\ w >= 1 /\ Interval \in Nat /\ end = w + WindowMinutes
        /\ WindowMinutes \in Nat /\ 60 * WindowMinutes <= Interval
    <2>1. /\ WindowMinutes \in Nat /\ 60 * WindowMinutes <= Interval
          /\ Interval \in Nat
      BY HealthAssumption, DivisionFacts DEF WindowMinutes
    <2> QED
      BY <2>1
  <1> HIDE DEF w
  <1>2. ASSUME NEW e \in Entries(a)
        PROVE  /\ e[1] \in Tasks /\ Counted(e[1])
               /\ e[2] \in Nat /\ e[2] >= 1 /\ e[2] <= ExpectedOf(e[1])
               /\ e = <<e[1], e[2]>>
               /\ f[e] \in RowsIn(a, end)
    <2>1. /\ e \in Config[a] \X (1 .. Interval)
          /\ e[2] <= ExpectedOf(e[1])
      BY DEF Entries
    <2>2. /\ e[1] \in Config[a] /\ e[2] \in 1 .. Interval
          /\ e = <<e[1], e[2]>>
      BY <2>1
    <2>3. e[1] \in Tasks /\ e[1] \in TasksRun[a]
      BY <2>2, HealthAssumption
    <2>4. e[2] \in Nat /\ e[2] >= 1 /\ Counted(e[1])
      <3>1. /\ e[2] \in Nat /\ e[2] >= 1
            /\ Schedule[e[1]] \in Nat /\ 60 * WindowMinutes \in Nat
            /\ Interval \in Nat
        BY <1>1, <2>2, <2>3, HealthAssumption
      <3>2. CASE Schedule[e[1]] >= 60
        <4>1. /\ Interval \div Schedule[e[1]] \in Nat
              /\ (60 * WindowMinutes) \div Schedule[e[1]] \in Nat
          BY <3>1, <3>2, DivisionFacts
        <4>2. ~ (Interval \div Schedule[e[1]]
                   > (60 * WindowMinutes) \div Schedule[e[1]])
          BY <2>2, <3>2 DEF Overcounted, WindowMinutes
        <4> QED
          BY <3>1, <4>1, <4>2 DEF Counted
      <3> QED
        BY <3>1, <3>2 DEF Counted
    <2> DEFINE m == RunOf(a, e[1], e[2], w)
    <2>5. m \in w .. (w + WindowMinutes) - 1 /\ DueIn(a, e[1], m)
      BY <1>1, <2>1, <2>3, <2>4, RunsInWindow
    <2> HIDE DEF m
    <2>6. /\ m \in 1 .. minute - 1 /\ 60 * m >= 60 * end - Interval
          /\ m + 2 <= minute /\ m < end
      BY <1>1, <2>5
    <2>7. <<a, e[1], m>> \in Due(a)
      BY <2>3, <2>6 DEF Due
    <2>8. <<a, e[1], m>> \in stored
      BY <2>5, <2>6, <2>7
    <2>9. <<a, e[1], m>> \in RowsIn(a, end)
      BY <2>6, <2>8 DEF RowsIn, InWindow
    <2> QED
      BY <2>1, <2>2, <2>3, <2>4, <2>9 DEF m
  <1>3. f \in Injection(Entries(a), RowsIn(a, end))
    <2>1. f \in [Entries(a) -> RowsIn(a, end)]
      BY <1>2
    <2>2. ASSUME NEW d \in Entries(a), NEW e \in Entries(a), f[d] = f[e]
          PROVE  d = e
      <3>1. /\ f[d] = <<a, d[1], RunOf(a, d[1], d[2], w)>>
            /\ f[e] = <<a, e[1], RunOf(a, e[1], e[2], w)>>
        OBVIOUS
      <3>2. d[1] = e[1] /\ RunOf(a, d[1], d[2], w) = RunOf(a, d[1], e[2], w)
        BY <2>2, <3>1
      <3>3. d[2] = e[2]
        <4>1. /\ d[1] \in Tasks /\ Counted(d[1])
              /\ d[2] \in Nat /\ d[2] >= 1 /\ d[2] <= ExpectedOf(d[1])
              /\ e[2] \in Nat /\ e[2] >= 1 /\ e[2] <= ExpectedOf(d[1])
          BY <1>2, <3>2
        <4>2. ~(d[2] < e[2]) /\ ~(e[2] < d[2])
          BY <1>1, <3>2, <4>1, RunsDiffer
        <4> QED
          BY <4>1, <4>2
      <3> QED
        BY <1>2, <3>2, <3>3
    <2> QED
      BY <2>1, <2>2 DEF Injection, IsInjective
  <1>4. IsFiniteSet(RowsIn(a, end))
    BY FS_Subset DEF RowsIn
  <1>5. Cardinality(Entries(a)) <= Cardinality(RowsIn(a, end))
    BY <1>3, <1>4, FS_Injection
  <1> QED
    BY <1>5 DEF Expected, ReceivedIn, RowsIn

(* Every row is of an agent, a task and a minute.                          *)
RowTypes == stored \subseteq Agents \X Tasks \X Minutes

LEMMA RowsFinite == RowTypes => IsFiniteSet(stored)
  <1>1. IsFiniteSet(Minutes)
    BY DatabaseAssumption, FS_Interval DEF Minutes
  <1>2. IsFiniteSet(Agents) /\ IsFiniteSet(Tasks)
    BY DatabaseAssumption, HealthAssumption
  <1>3. IsFiniteSet((Agents \X Tasks) \X Minutes)
    BY <1>1, <1>2, FS_Product
  <1>4. ASSUME RowTypes PROVE IsFiniteSet(stored)
    <2> DEFINE f == [k \in stored |-> <<<<k[1], k[2]>>, k[3]>>]
    <2>1. ASSUME NEW k \in stored
          PROVE  /\ k[1] \in Agents /\ k[2] \in Tasks /\ k[3] \in Minutes
                 /\ k = <<k[1], k[2], k[3]>>
      BY <1>4 DEF RowTypes
    <2>2. f \in [stored -> (Agents \X Tasks) \X Minutes]
      BY <2>1
    <2>3. ASSUME NEW k \in stored, NEW l \in stored, f[k] = f[l] PROVE k = l
      <3>1. /\ f[k] = <<<<k[1], k[2]>>, k[3]>>
            /\ f[l] = <<<<l[1], l[2]>>, l[3]>>
        OBVIOUS
      <3>2. k[1] = l[1] /\ k[2] = l[2] /\ k[3] = l[3]
        BY <2>3, <3>1
      <3> QED
        BY <2>1, <3>2
    <2>4. f \in Injection(stored, (Agents \X Tasks) \X Minutes)
      BY <2>2, <2>3 DEF Injection, IsInjective
    <2> QED
      BY <1>3, <2>4, FS_Injection
  <1> QED
    BY <1>4

(* What becomes of the rows in a step.                                     *)
LEMMA RowsChange ==
    ASSUME [Next]_vars
    PROVE  \/ stored' = stored
           \/ \E a \in Agents : FinishMetrics(a) /\ stored' = stored \cup Batch(a)
           \/ Clean /\ CleanMetrics
  <1>1. CASE Requests
    BY <1>1 DEF Requests, ReceiveMetrics, FinishMetrics,
                ReceiveConfigError, StoreMetrics, tableVars
  <1>2. CASE Clean
    BY <1>2 DEF Clean, EndDelay, CleanupStep, BeginCleanup, CleanErrors,
                CleanAgents, tableVars
  <1>3. CASE Monitor
    BY <1>3 DEF Monitor, CheckStep, BeginCheck, StoreVerdicts, Export,
                CleanChecks, Judge, tableVars
  <1>4. CASE \/ ClockTick \/ BeginShutdown \/ Shutdown \/ Kill \/ Start
             \/ \E t \in BackgroundTasks : TaskEnds(t)
             \/ UNCHANGED vars
    BY <1>4 DEF ClockTick, BeginShutdown, Shutdown, TaskJoined,
                WaitTimesOut, Close, Kill, End, Start, TaskEnds, vars, tableVars
  <1> QED
    BY <1>1, <1>2, <1>3, <1>4 DEF Next

LEMMA NextRowTypes ==
    ASSUME Tables, RowTypes, [Next]_vars
    PROVE  RowTypes'
  <1>1. ASSUME NEW a \in Agents PROVE Batch(a) \subseteq Agents \X Tasks \X Minutes
    <2>1. \A m \in 1 .. minute - 1 : m \in Minutes
      BY ConstantFacts DEF Tables, DatabaseTypeOK, Minutes
    <2>2. \A t \in TasksRun[a] : t \in Tasks
      BY ProcessAssumption
    <2>3. Due(a) \subseteq Agents \X Tasks \X Minutes
      BY <2>1, <2>2 DEF Due
    <2> QED
      BY <2>3 DEF Batch
  <1>2. stored' \subseteq stored \/ \E a \in Agents : stored' = stored \cup Batch(a)
    BY RowsChange DEF CleanMetrics
  <1> QED
    BY <1>1, <1>2 DEF RowTypes

LEMMA RowTypesHold == Spec => []RowTypes
  <1>1. Init => RowTypes
    BY DEF Init, DatabaseInit, StoreInit, RowTypes
  <1> QED
    BY <1>1, NextRowTypes, TablesHold, PTL DEF Spec

(* A verdict comes into the list by a step that judges its agent.          *)
LEMMA OnlyJudgeFinds ==
    ASSUME Tables, [Next]_vars, NEW c \in check'.found, c \notin check.found
    PROVE  \E a \in Agents :
              /\ Judge(a)
              /\ Config[a] # NoConfig
              /\ c = [agent |-> a, at |-> check.end, bad |-> Problematic(a, check.end)]
  <1>1. check \in CheckRecords
    BY DEF Tables, HealthTypeOK, CheckRecords, CheckSteps
  <1>2. check' # check /\ check' # NoCheck
    BY DEF NoCheck
  <1>3. ~ UNCHANGED checkVars /\ ~ End
    BY <1>2 DEF checkVars, End
  <1>4. Monitor
    BY <1>2, <1>3
       DEF Next, ClockTick, Requests, ReceiveMetrics,
           FinishMetrics, ReceiveConfigError, Clean, TaskEnds,
           BeginShutdown, Shutdown, TaskJoined, WaitTimesOut, Close, Kill,
           Start, vars
  <1>5. ~ BeginCheck
    BY <1>2 DEF BeginCheck, NoCheck
  <1>6. ~ StoreVerdicts /\ ~ Export
    BY <1>1 DEF StoreVerdicts, Export, CheckRecords
  <1>7. ~ CleanChecks
    BY <1>2 DEF CleanChecks
  <1>8. PICK a \in Agents : Judge(a)
    BY <1>4, <1>5, <1>6, <1>7 DEF Monitor, CheckStep
  <1> DEFINE v == [agent |-> a, at |-> check.end, bad |-> Problematic(a, check.end)]
  <1>9. check' = [check EXCEPT !.todo = @ \ {a},
                               !.found = IF Config[a] = NoConfig THEN @
                                         ELSE @ \cup {v}]
    BY <1>8 DEF Judge
  <1>10. check'.found = IF Config[a] = NoConfig THEN check.found
                        ELSE check.found \cup {v}
    <2> HIDE DEF v
    <2> QED
      BY <1>1, <1>9 DEF CheckRecords
  <1>11. Config[a] # NoConfig /\ c = v
    BY <1>10
  <1> QED
    BY <1>8, <1>11

(* The agents run the tasks of the configuration the server has of them.   *)
ConfigsRun ==
    \A a \in Agents : Config[a] = NoConfig \/ Config[a] \subseteq TasksRun[a]

(* An up-to-date agent whose metrics are stored is no false alarm: the     *)
(* count of calculate_expected_entries never exceeds the runs due in the   *)
(* window of a check, for any schedules, phases, interval and ratio for    *)
(* which no slow task is overcounted.                                      *)
THEOREM AlarmsAreJustified ==
    ASSUME ConfigsRun
    PROVE  Spec => NoFalseAlarm
  <1>1. ASSUME Tables, RowTypes, CheckInv, [Next]_vars,
               NEW c \in check'.found, c \notin check.found, c.bad,
               ~Outdated(Version[c.agent]), ~ (60 * check.end <= Interval),
               ~Overcounted(c.agent),
               \A k \in Due(c.agent) :
                  DueIn(c.agent, k[2], k[3])
                  /\ 60 * k[3] >= 60 * check.end - Interval
                  /\ k[3] + 2 <= minute => k \in stored
        PROVE  FALSE
    <2>1. PICK a \in Agents :
              /\ Judge(a)
              /\ Config[a] # NoConfig
              /\ c = [agent |-> a, at |-> check.end,
                      bad |-> Problematic(a, check.end)]
      BY <1>1, OnlyJudgeFinds
    <2>2. c.agent = a /\ Problematic(a, check.end)
      BY <1>1, <2>1
    <2>3. /\ minute \in Nat /\ check.end \in Nat /\ Interval \in Nat
          /\ check.end = minute - 1 /\ 60 * check.end > Interval
      <3>1. check.end \in Nat
        BY <1>1 DEF Tables, HealthTypeOK
      <3>2. check.end = minute - 1
        BY <1>1, <2>1 DEF CheckInv, Judge
      <3>3. minute \in Nat /\ Interval \in Nat
        BY <1>1, ConstantFacts DEF Tables, DatabaseTypeOK
      <3> QED
        BY <1>1, <3>1, <3>2, <3>3
    <2>4. IsFiniteSet(stored) /\ Config[a] \subseteq TasksRun[a]
      BY <1>1, <2>1, RowsFinite DEF ConfigsRun
    <2>5. Expected(a) <= ReceivedIn(a, check.end)
      BY <1>1, <2>1, <2>2, <2>3, <2>4, EnoughReceived
    <2>6. Expected(a) \in Nat /\ ReceivedIn(a, check.end) \in Nat
      <3>1. IsFiniteSet(RowsIn(a, check.end))
        BY <2>4, FS_Subset DEF RowsIn
      <3> QED
        BY <2>1, <3>1, EntriesFinite, FS_CardinalityType DEF ReceivedIn, RowsIn
    <2>7. 100 * ReceivedIn(a, check.end) < Percent * Expected(a)
      BY <1>1, <2>2 DEF Problematic
    <2>8. Percent \in Nat /\ Percent <= 100
      BY HealthAssumption
    <2>9. Expected(a) * Percent <= Expected(a) * 100
      BY <2>6, <2>8, MultiplesGrow
    <2> QED
      BY <2>5, <2>6, <2>7, <2>8, <2>9
  <1>2. ASSUME Tables, RowTypes, CheckInv, [Next]_vars,
               NEW c \in check'.found \ check.found, c.bad
        PROVE  \/ Outdated(Version[c.agent])
               \/ 60 * check.end <= Interval
               \/ Overcounted(c.agent)
               \/ \E k \in Due(c.agent) :
                     /\ DueIn(c.agent, k[2], k[3])
                     /\ 60 * k[3] >= 60 * check.end - Interval
                     /\ k[3] + 2 <= minute
                     /\ k \notin stored
    BY <1>1, <1>2
  <1>3. Tables /\ RowTypes /\ CheckInv /\ [Next]_vars =>
           \A c \in check'.found \ check.found :
              c.bad => \/ Outdated(Version[c.agent])
                       \/ 60 * check.end <= Interval
                       \/ Overcounted(c.agent)
                       \/ \E k \in Due(c.agent) :
                             /\ DueIn(c.agent, k[2], k[3])
                             /\ 60 * k[3] >= 60 * check.end - Interval
                             /\ k[3] + 2 <= minute
                             /\ k \notin stored
    BY <1>2
  <1>4. Spec => []CheckInv
    BY InitCheck, NextCheckInv, TablesHold, PTL DEF Spec
  <1> QED
    BY <1>3, <1>4, TablesHold, RowTypesHold, PTL DEF Spec, NoFalseAlarm

(* The cleanup keeps what a check may still have to judge by, and a        *)
(* verdict that is not bad rests on a row that is there until the export.  *)
CutoffInv ==
    /\ cleaning.cutoff \in Nat
    /\ cleaning.cutoff = 0 \/ cleaning.cutoff + Retention <= minute

RunsInInterval(a) ==
    Interval >= 60 /\ \E t \in Config[a] : Schedule[t] \in 1 .. Interval

VerdictInv ==
    check.at \in {"judge", "export"} =>
        \A c \in check.found :
            c.bad \/ ~RunsInInterval(c.agent) \/ RowsIn(c.agent, check.end) # {}

LEMMA NextCutoff ==
    ASSUME Tables, CutoffInv, [Next]_vars
    PROVE  CutoffInv'
  <1>1. /\ minute \in Minutes /\ minute \in Nat /\ Retention \in Nat
        /\ cleaning \in [at : CleaningSteps, cutoff : 0 .. LastMinute]
    BY ConstantFacts DEF Tables, DatabaseTypeOK, CleaningSteps
  <1>2. CASE ClockTick
    <2>1. cleaning' = cleaning /\ minute' = minute + 1
      BY <1>2 DEF ClockTick
    <2> QED
      BY <1>1, <2>1 DEF CutoffInv
  <1>3. CASE Clean /\ BeginCleanup
    <2>1. cleaning'.cutoff = Cutoff(Retention) /\ minute' = minute
      BY <1>3 DEF Clean, BeginCleanup
    <2>2. \/ Cutoff(Retention) = 0
          \/ Cutoff(Retention) \in Nat /\ Cutoff(Retention) + Retention = minute
      BY <1>1 DEF Cutoff
    <2> QED
      BY <1>1, <2>1, <2>2 DEF CutoffInv
  <1>4. CASE Clean /\ (CleanMetrics \/ CleanErrors)
    <2>1. cleaning'.cutoff = cleaning.cutoff /\ minute' = minute
      BY <1>1, <1>4 DEF Clean, CleanMetrics, CleanErrors
    <2> QED
      BY <2>1 DEF CutoffInv
  <1>5. CASE \/ Clean /\ (EndDelay \/ CleanAgents)
             \/ Close \/ Kill
    <2>1. cleaning'.cutoff = 0
      BY <1>5 DEF Clean, EndDelay, CleanAgents, Close, Kill, End, Off, Delayed
    <2> QED
      BY <2>1 DEF CutoffInv
  <1>6. CASE \/ Requests \/ Monitor \/ BeginShutdown \/ TaskJoined
             \/ WaitTimesOut \/ Start
             \/ \E t \in BackgroundTasks : TaskEnds(t)
             \/ UNCHANGED vars
    <2>1. UNCHANGED <<cleaning, minute>>
      BY <1>6 DEF Requests, ReceiveMetrics, FinishMetrics,
                  ReceiveConfigError, Monitor, CheckStep, BeginCheck,
                  StoreVerdicts, Export, CleanChecks, Judge,
                  BeginShutdown, TaskJoined, WaitTimesOut, Start, TaskEnds, vars
    <2> QED
      BY <2>1 DEF CutoffInv
  <1> QED
    BY <1>2, <1>3, <1>4, <1>5, <1>6 DEF Next, Clean, CleanupStep, Shutdown

LEMMA WindowRowsStay ==
    ASSUME Tables, RowTypes, CutoffInv, Interval <= 60 * Retention, [Next]_vars,
           NEW end \in Nat, end = minute - 1, NEW a, RowsIn(a, end) # {}
    PROVE  RowsIn(a, end)' # {}
  <1>1. PICK k \in stored : k[1] = a /\ 60 * k[3] >= 60 * end - Interval
                             /\ k[3] < end
    BY DEF RowsIn, InWindow
  <1>2. k[3] \in Nat /\ minute \in Nat /\ Interval \in Nat /\ Retention \in Nat
    BY ConstantFacts DEF RowTypes, Tables, DatabaseTypeOK
  <1>3. k[3] + 1 >= cleaning.cutoff
    BY <1>1, <1>2 DEF CutoffInv
  <1>4. k \in stored'
    BY <1>3, RowsChange DEF CleanMetrics
  <1> QED
    BY <1>1, <1>4 DEF RowsIn, InWindow

(* An agent with a task that runs is not well without a row.               *)
LEMMA SilentIsBad ==
    ASSUME IsFiniteSet(stored), Percent > 0, NEW a \in Agents,
           Config[a] # NoConfig, RunsInInterval(a), NEW end,
           RowsIn(a, end) = {}
    PROVE  Problematic(a, end)
  <1>1. ReceivedIn(a, end) = 0
    BY FS_EmptySet DEF ReceivedIn, RowsIn
  <1>2. PICK t \in Config[a] : Interval >= 60 /\ Schedule[t] \in 1 .. Interval
    BY DEF RunsInInterval
  <1>3. <<t, 1>> \in Entries(a)
    <2>1. Schedule[t] \in Nat /\ Interval \in Nat
      BY <1>2, HealthAssumption
    <2>2. 1 <= Interval \div 60
      BY <1>2, <2>1, SMT
    <2>3. 1 <= Interval \div Schedule[t]
      BY <1>2, <2>1, SMT
    <2>4. 1 <= ExpectedOf(t)
      BY <1>2, <2>1, <2>2, <2>3 DEF ExpectedOf
    <2> QED
      BY <1>2, <2>4, ConstantFacts DEF Entries
  <1>4. Expected(a) \in Nat /\ Expected(a) # 0
    BY <1>3, EntriesFinite, FS_EmptySet DEF Expected
  <1>5. Percent \in Nat /\ Percent >= 1
    BY HealthAssumption
  <1>6. Expected(a) * 1 <= Expected(a) * Percent
    BY <1>4, <1>5, MultiplesGrow
  <1>7. 100 * ReceivedIn(a, end) < Percent * Expected(a)
    BY <1>1, <1>4, <1>5, <1>6
  <1> QED
    BY <1>7 DEF Problematic

LEMMA NextVerdicts ==
    ASSUME Tables, RowTypes, CheckInv, CutoffInv, VerdictInv,
           Interval <= 60 * Retention, Percent > 0, [Next]_vars
    PROVE  VerdictInv'
  <1> SUFFICES ASSUME check'.at \in {"judge", "export"},
                      NEW c \in check'.found, ~c.bad, RunsInInterval(c.agent)
               PROVE  RowsIn(c.agent, check.end)' # {}
    BY DEF VerdictInv, RunsInInterval
  <1>1. check \in CheckRecords
    BY DEF Tables, HealthTypeOK, CheckRecords, CheckSteps
  <1>2. CASE c \notin check.found
    <2>1. PICK a \in Agents :
              /\ Judge(a)
              /\ Config[a] # NoConfig
              /\ c = [agent |-> a, at |-> check.end,
                      bad |-> Problematic(a, check.end)]
      BY <1>2, OnlyJudgeFinds
    <2>2. c.agent = a /\ ~Problematic(a, check.end) /\ RunsInInterval(a)
      BY <2>1
    <2>3. RowsIn(a, check.end) # {}
      BY <2>1, <2>2, RowsFinite, SilentIsBad
    <2>4. stored' = stored /\ check'.end = check.end
      BY <1>1, <2>1 DEF Judge, tableVars, CheckRecords
    <2> QED
      BY <2>2, <2>3, <2>4 DEF RowsIn
  <1>3. CASE c \in check.found
    <2>1. check' = check \/ check' = NoCheck \/ Monitor
      BY DEF Next, ClockTick, Requests, ReceiveMetrics,
             FinishMetrics, ReceiveConfigError, Clean, TaskEnds,
             BeginShutdown, Shutdown, TaskJoined, WaitTimesOut, Close, Kill,
             End, Start, vars, checkVars
    <2>2. /\ check.at \in {"judge", "export"} /\ check'.end = check.end
      <3>1. CASE check' = check
        BY <3>1
      <3>2. CASE check' = NoCheck
        BY <3>2 DEF NoCheck
      <3>3. CASE Monitor
        <4>1. CASE BeginCheck \/ Export \/ CleanChecks
          BY <1>1, <4>1
             DEF BeginCheck, Export, CleanChecks, NoCheck, CheckRecords
        <4>2. CASE StoreVerdicts
          BY <1>1, <4>2 DEF StoreVerdicts, CheckRecords
        <4>3. CASE \E a \in Agents : Judge(a)
          BY <1>1, <4>3 DEF Judge, CheckRecords
        <4> QED
          BY <3>3, <4>1, <4>2, <4>3 DEF Monitor, CheckStep
      <3> QED
        BY <2>1, <3>1, <3>2, <3>3
    <2>3. check.end \in Nat /\ check.end = minute - 1
      BY <1>1, <2>2 DEF CheckInv, CheckRecords
    <2>4. RowsIn(c.agent, check.end) # {}
      BY <1>3, <2>2 DEF VerdictInv
    <2>5. PICK end \in Nat : end = check.end
      BY <2>3
    <2>6. PICK a : a = c.agent
      OBVIOUS
    <2>7. RowsIn(a, end)' # {}
      BY <2>3, <2>4, <2>5, <2>6, WindowRowsStay
    <2>8. check'.end = end
      BY <2>2, <2>5
    <2> QED
      BY <2>6, <2>7, <2>8 DEF RowsIn
  <1> QED
    BY <1>2, <1>3

(* An agent that falls silent is reported: with an interval of at least a  *)
(* minute, a window that the retention covers and a ratio above 0, neither *)
(* the cleanup nor another check can keep it out of                        *)
(* problematic_agents.txt.  An interval below a minute is an exception the *)
(* property names: nothing is expected then.                               *)
THEOREM SilentAgentsAreReported ==
    ASSUME Interval <= 60 * Retention, Percent > 0
    PROVE  Spec => SilentIsReported
  <1>1. ASSUME Tables, CheckInv, VerdictInv, [Next]_vars,
               check.at = "export", check'.at = "clean",
               NEW c \in check.found, RunsInInterval(c.agent),
               RowsIn(c.agent, check.end) = {}
        PROVE  c.agent \in report'
    <2>1. Export
      BY <1>1, OnlyExportLeavesExport
    <2>2. c.bad
      BY <1>1 DEF VerdictInv
    <2>3. report' = {d.agent : d \in {e \in Newest : e.bad}}
      BY <1>1, <2>1, <2>2 DEF Export
    <2>4. /\ c \in checks /\ c.at = check.end /\ check.end = minute - 1
          /\ \A d \in checks : d.at < minute
      BY <1>1 DEF CheckInv
    <2>5. minute \in Nat /\ \A d \in checks : d.at \in Nat
      BY <1>1, ConstantFacts DEF Tables, DatabaseTypeOK
    <2>6. \A d \in checks : d.at <= c.at
      BY <2>4, <2>5
    <2>7. c \in Newest
      BY <2>4, <2>6 DEF Newest
    <2> QED
      BY <2>2, <2>3, <2>7
  <1>2. ASSUME Tables, RowTypes, CheckInv, VerdictInv, [Next]_vars,
               check.at = "export", check'.at = "clean", NEW c \in check.found
        PROVE  \/ Interval < 60
               \/ \A t \in Config[c.agent] : Schedule[t] \notin 1 .. Interval
               \/ \E k \in stored : k[1] = c.agent /\ InWindow(k[3], check.end)
               \/ c.agent \in report'
    <2>1. Interval \in Nat
      BY ConstantFacts
    <2>2. CASE RowsIn(c.agent, check.end) = {}
      BY <1>1, <1>2, <2>1, <2>2 DEF RunsInInterval
    <2>3. CASE RowsIn(c.agent, check.end) # {}
      BY <2>3 DEF RowsIn
    <2> QED
      BY <2>2, <2>3
  <1>3. Tables /\ RowTypes /\ CheckInv /\ VerdictInv /\ [Next]_vars =>
           (check.at = "export" /\ check'.at = "clean" =>
              \A c \in check.found :
                 \/ Interval < 60
                 \/ \A t \in Config[c.agent] : Schedule[t] \notin 1 .. Interval
                 \/ \E k \in stored : k[1] = c.agent /\ InWindow(k[3], check.end)
                 \/ c.agent \in report')
    BY <1>2
  <1>4. Spec => []CheckInv
    BY InitCheck, NextCheckInv, TablesHold, PTL DEF Spec
  <1>5. Init => CutoffInv
    BY DEF Init, DatabaseInit, Delayed, CutoffInv
  <1>6. Spec => []CutoffInv
    BY <1>5, NextCutoff, TablesHold, PTL DEF Spec
  <1>7. Init => VerdictInv
    BY DEF Init, HealthInit, NoCheck, VerdictInv
  <1>8. Tables /\ RowTypes /\ CheckInv /\ CutoffInv /\ VerdictInv
        /\ [Next]_vars => VerdictInv'
    BY NextVerdicts
  <1>9. Spec => []VerdictInv
    BY <1>4, <1>6, <1>7, <1>8, TablesHold, RowTypesHold, PTL DEF Spec
  <1> QED
    BY <1>3, <1>4, <1>9, TablesHold, RowTypesHold, PTL DEF Spec, SilentIsReported
=============================================================================
