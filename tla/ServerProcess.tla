--------------------------- MODULE ServerProcess ---------------------------
(***************************************************************************)
(* The server process (server/src/main.rs, server/src/api.rs): the request *)
(* handlers, the background tasks over the database, and the start and     *)
(* shutdown of all of them.  The agents that send the requests, and their  *)
(* clock, are part of the environment.  A request that the limiter         *)
(* (RateLimiter) or a check of the headers turns away changes nothing here.*)
(*                                                                         *)
(* Concurrent are: one handler per request, the cleanup of the database,   *)
(* the health monitor, and the shutdown, which waits for the tasks one     *)
(* after the other.                                                        *)
(***************************************************************************)
EXTENDS HealthMonitor, Sequences

CONSTANTS
    TasksRun,       \* [Agents -> tasks it runs]
    Phase,          \* [Agents -> [Tasks -> second of its period a task runs in]]
    MaxEvents       \* [EventKinds -> Nat]: bound on the events of each kind

EventKinds == {"request", "end"}

ASSUME ProcessAssumption ==
    /\ TasksRun \in [Agents -> SUBSET Tasks]
    /\ Phase \in [Agents -> [Tasks -> Nat]]
    /\ \A a \in Agents : \A t \in Tasks : Schedule[t] # 0 => Phase[a][t] < Schedule[t]
    /\ MaxEvents \in [EventKinds -> Nat]

VARIABLES
    phase,      \* "up", "down", or the task the shutdown waits for
    alive,      \* background tasks that have not ended
    request,    \* [Agents -> minute its request was upserted], 0 if none
    sent,       \* [Agents -> last minute its requests have delivered]
    used        \* how many events of each bounded kind have happened

(* History: a wait of the shutdown under way timed out.                    *)
VARIABLE timedOut

checkVars   == <<check, nextCheck, report>>
processVars == <<phase, alive>>
agentVars   == <<request, sent>>
vars == <<tableVars, minute, cleaning, checkVars, processVars, agentVars,
          used, timedOut>>

(* The tasks the shutdown waits for, in that order.  The watcher of the    *)
(* reconfigurations and the checkpoints of the write-ahead log, which are  *)
(* awaited before each of them, change none of this state.                 *)
Awaited == <<"cleanup", "health">>
BackgroundTasks == {Awaited[i] : i \in DOMAIN Awaited}

TypeOK ==
    /\ DatabaseTypeOK
    /\ HealthTypeOK
    /\ phase \in {"up", "close", "down"} \cup BackgroundTasks
    /\ alive \subseteq BackgroundTasks
    /\ request \in [Agents -> 0 .. LastMinute]
    /\ sent \in [Agents -> 0 .. LastMinute]
    /\ used \in [EventKinds -> Nat]
    /\ timedOut \in BOOLEAN

Init ==
    /\ DatabaseInit
    /\ HealthInit
    /\ phase = "up"
    /\ alive = BackgroundTasks
    /\ request = [a \in Agents |-> 0]
    /\ sent = [a \in Agents |-> 0]
    /\ used = [k \in EventKinds |-> 0]
    /\ timedOut = FALSE

Spend(kind) ==
    /\ used[kind] < MaxEvents[kind]
    /\ used' = [used EXCEPT ![kind] = @ + 1]

-----------------------------------------------------------------------------
(* The clock.  A request, a cleanup and a health check that is due end     *)
(* within the minute they begin in.                                        *)
ClockTick ==
    /\ minute < LastMinute
    /\ \A a \in Agents : request[a] = 0
    /\ cleaning.at \in {"off", "delay"}
    /\ check.at = "off"
    /\ "health" \in alive => ~CheckDue
    /\ minute' = minute + 1
    /\ UNCHANGED <<tableVars, cleaning, checkVars, processVars,
                   agentVars, used, timedOut>>

-----------------------------------------------------------------------------
(* Requests.                                                               *)

(* A task an agent runs is due in the minutes it runs in; a run is taken   *)
(* to end in the minute it begins in.                                      *)
DueIn(a, t, m) == /\ Schedule[t] # 0
                  /\ \E s \in 60 * m .. 60 * m + 59 : s % Schedule[t] = Phase[a][t]

Due(a) == {<<a, t, m>> : t \in TasksRun[a], m \in 1 .. minute - 1}

Batch(a) == {k \in Due(a) : k[3] > sent[a] /\ DueIn(a, k[2], k[3])}

(* handle_metrics of a request that is let through: upsert_agent.          *)
ReceiveMetrics(a) ==
    /\ phase = "up"
    /\ request[a] = 0
    /\ Spend("request")
    /\ Upsert(a)
    /\ request' = [request EXCEPT ![a] = minute]
    /\ UNCHANGED <<errors, checks, stored, minute, cleaning, checkVars,
                   processVars, sent, timedOut>>

(* handle_metrics: store_metrics, under the lock of the database anew.     *)
FinishMetrics(a) ==
    /\ request[a] # 0
    /\ IF a \in Registered
          THEN /\ StoreMetrics(Batch(a))
               /\ sent' = [sent EXCEPT ![a] = minute - 1]
          ELSE UNCHANGED <<stored, sent>>
    /\ request' = [request EXCEPT ![a] = 0]
    /\ UNCHANGED <<lastSeen, errors, checks, minute, cleaning, checkVars,
                   processVars, used, timedOut>>

(* handle_config_error, of a configuration the server has sent.            *)
ReceiveConfigError(a) ==
    /\ phase = "up"
    /\ Config[a] # NoConfig
    /\ Spend("request")
    /\ LogConfigError(a)
    /\ UNCHANGED <<lastSeen, checks, stored, minute, cleaning, checkVars,
                   processVars, agentVars, timedOut>>

-----------------------------------------------------------------------------
(* Background tasks.  A task that is told to stop may take one more tick   *)
(* first: select! picks among its ready branches.                          *)

Clean ==
    /\ "cleanup" \in alive
    /\ EndDelay \/ CleanupStep
    /\ UNCHANGED <<checkVars, processVars, agentVars, used, timedOut>>

Monitor ==
    /\ "health" \in alive
    /\ CheckStep
    /\ UNCHANGED <<processVars, agentVars, used, timedOut>>

(* A task sees the signal when it is back at its select!.                  *)
AtSelect(t) == CASE t = "cleanup" -> cleaning.at = "off"
                 [] t = "health"  -> check.at = "off"
                 [] OTHER         -> TRUE

TaskEnds(t) ==
    /\ phase \notin {"up", "down"}
    /\ t \in alive
    /\ AtSelect(t)
    /\ alive' = alive \ {t}
    /\ UNCHANGED <<tableVars, minute, cleaning, checkVars, phase,
                   agentVars, used, timedOut>>

-----------------------------------------------------------------------------
(* Shutdown and start.                                                     *)

(* Mutant: the health monitor is not waited for.                           *)
NextPhaseShort(p) == LET i == CHOOSE i \in DOMAIN Awaited : Awaited[i] = p
                     IN  IF i >= Len(Awaited) - 1 THEN "close" ELSE Awaited[i + 1]

NextPhase(p) == LET i == CHOOSE i \in DOMAIN Awaited : Awaited[i] = p
                IN  IF i = Len(Awaited) THEN "close" ELSE Awaited[i + 1]

(* The signal drops run(), and with it the listener, and shutdown() tells  *)
(* the tasks to stop.                                                      *)
BeginShutdown ==
    /\ phase = "up"
    /\ Spend("end")
    /\ phase' = Awaited[1]
    /\ UNCHANGED <<tableVars, minute, cleaning, checkVars, alive,
                   agentVars, timedOut>>

TaskJoined ==
    /\ phase \in BackgroundTasks \ alive
    /\ phase' = NextPhase(phase)
    /\ UNCHANGED <<tableVars, minute, cleaning, checkVars, alive,
                   agentVars, used, timedOut>>

(* Mutant: a task is waited for without a timeout.                         *)
WaitWithoutTimeout ==
    /\ phase \in alive
    /\ UNCHANGED vars

(* graceful_shutdown_timeout_seconds: the task is left alone and goes on.  *)
WaitTimesOut ==
    /\ phase \in alive
    /\ phase' = NextPhase(phase)
    /\ timedOut' = TRUE
    /\ UNCHANGED <<tableVars, minute, cleaning, checkVars, alive,
                   agentVars, used>>

(* The process ends: what is in memory is gone, the database stays.        *)
End ==
    /\ phase' = "down"
    /\ alive' = {}
    /\ request' = [a \in Agents |-> 0]
    /\ check' = NoCheck
    /\ cleaning' = Delayed
    /\ UNCHANGED <<tableVars, minute, nextCheck, report, sent, timedOut>>

Close == phase = "close" /\ End /\ UNCHANGED used

Kill == phase # "down" /\ Spend("end") /\ End

Start ==
    /\ phase = "down"
    /\ phase' = "up"
    /\ alive' = BackgroundTasks
    /\ nextCheck' = 60 * minute + StartSecond
    /\ timedOut' = FALSE
    /\ UNCHANGED <<tableVars, minute, cleaning, check, report,
                   agentVars, used>>

Shutdown == TaskJoined \/ WaitTimesOut \/ Close

Requests == \E a \in Agents :
    ReceiveMetrics(a) \/ FinishMetrics(a) \/ ReceiveConfigError(a)

Next ==
    \/ ClockTick \/ Requests \/ Clean \/ Monitor
    \/ \E t \in BackgroundTasks : TaskEnds(t)
    \/ BeginShutdown \/ Shutdown \/ Kill \/ Start

Spec == Init /\ [][Next]_vars

(* The runtime lets every task go on, timers fire, and a server that is    *)
(* down is started again.                                                  *)
Fairness ==
    /\ WF_vars(Clean)
    /\ WF_vars(Shutdown)
    /\ WF_vars(Start)

FairSpec == Spec /\ Fairness

-----------------------------------------------------------------------------
(* A request that was upserted finds its agent when it stores the metrics: *)
(* a cleanup between the two steps does not take it, although it judged    *)
(* the age of the rows before the request came.                            *)
RequestKeepsAgent == \A a \in Agents : request[a] # 0 => a \in Registered

(* More runs of a task are expected than surely fall into the minutes that *)
(* lie in the window as a whole: so of an interval of 90 seconds and a     *)
(* task that runs every 90.                                                *)
Overcounted(a) ==
    \E t \in Config[a] :
        /\ Schedule[t] >= 60
        /\ Interval \div Schedule[t] > (60 * (Interval \div 60)) \div Schedule[t]

(* An agent that runs an up-to-date version and had everything its tasks   *)
(* produced stored within the minute after next is never found problematic: *)
(* the window leaves out what may be on its way, and the number of entries *)
(* expected of a slow task never exceeds its runs in the window.  Excepted *)
(* are a window that reaches back before the agent started, and an interval *)
(* that is no whole number of minutes and so overcounts a slow task.       *)
NoFalseAlarm ==
    [][\A c \in check'.found \ check.found :
          c.bad => \/ Outdated(Version[c.agent])
                   \/ 60 * check.end <= Interval
                   \/ Overcounted(c.agent)
                   \/ \E k \in Due(c.agent) :
                         /\ DueIn(c.agent, k[2], k[3])
                         /\ 60 * k[3] >= 60 * check.end - Interval
                         /\ k[3] + 2 <= minute
                         /\ k \notin stored]_vars

(* An agent of which nothing came in the window, though its configuration  *)
(* has a task that runs within the interval, is in the report of the       *)
(* check.  Excepted is an interval of less than a minute, which validation *)
(* accepts: then nothing is expected of any agent, and none is missed.     *)
SilentIsReported ==
    [][check.at = "export" /\ check'.at = "clean" =>
          \A c \in check.found :
              \/ Interval < 60
              \/ \A t \in Config[c.agent] : Schedule[t] \notin 1 .. Interval
              \/ \E k \in stored : k[1] = c.agent /\ InWindow(k[3], check.end)
              \/ c.agent \in report']_vars

(* The report is that of the check just made, although it is read back     *)
(* from the table without the lock in between.  Excepted is a second check *)
(* in the same minute, after a restart or with an interval below a minute, *)
(* whose rows cannot be told from those of the first.                      *)
ReportIsThisCheck ==
    [][check.at = "export" /\ check'.at = "clean" =>
          \/ report' = {c.agent : c \in {d \in check.found : d.bad}}
          \/ \E d \in checks \ check.found : d.at = check.end]_vars

(* Metrics beyond the retention are removed in the end, whatever becomes   *)
(* of the statements after theirs.                                         *)
OldMetricsGo ==
    \A m \in Minutes :
        (\E k \in stored : k[3] = m) /\ m + 1 < minute - Retention
            ~> ~ \E k \in stored : k[3] = m

(* An agent not seen for the retention is removed in the end.  Excepted is *)
(* the case that some such agent is still referred to: then none is        *)
(* removed.  A monitored agent always is, by its checks.                   *)
DeadAgentsGo ==
    \A a \in Agents :
        a \in Registered /\ lastSeen[a] < minute - Retention
            ~> \/ a \notin Registered
               \/ lastSeen[a] >= minute - Retention
               \/ \E b \in Registered : /\ lastSeen[b] < minute - Retention
                                        /\ Referred(b)

(* A shutdown ends no task in the middle of its work, unless the wait for  *)
(* one timed out.                                                          *)
ShutdownCutsNothing ==
    [][phase = "close" /\ phase' = "down" /\ used' = used =>
          timedOut \/ (check.at = "off" /\ cleaning.at \in {"off", "delay"})]_vars

(* A shutdown comes to its end, also when it begins during the initial     *)
(* delay of the cleanup, which does not listen.                            *)
ShutdownCompletes == phase \in BackgroundTasks \cup {"close"} ~> phase = "down"
=============================================================================
