--------------------------- MODULE HealthMonitor ---------------------------
(***************************************************************************)
(* The health monitor (server/src/health_monitor.rs): at each interval it  *)
(* compares, for every registered agent, the metrics that should have come *)
(* for the last full window with those that have, stores the verdicts and  *)
(* writes the report.  It takes the locks of the configuration and of the  *)
(* database for each step anew, so requests and the cleanup come between.  *)
(***************************************************************************)
EXTENDS ServerDatabase

CONSTANTS
    Tasks,              \* names of tasks
    Schedule,           \* [Tasks -> schedule_seconds]
    Config,             \* [Agents -> tasks of its configuration, or NoConfig
                        \*  if it has none that parses]
    NoConfig,
    Version,            \* [Agents -> <<major, minor, patch>> or NoVersion]
    NoVersion,
    ServerVersion,
    Interval,           \* health_check_interval_seconds, the length of the window
    StartSecond,        \* the second of its minute the server starts in
    Percent,            \* health_check_success_ratio_threshold
    HealthRetention     \* health_check_retention_days

ASSUME HealthAssumption ==
    /\ IsFiniteSet(Tasks)
    /\ Schedule \in [Tasks -> Nat]
    /\ \A a \in Agents : Config[a] = NoConfig \/ Config[a] \subseteq Tasks
    /\ ServerVersion \in Nat \X Nat \X Nat
    /\ \A a \in Agents : Version[a] = NoVersion \/ Version[a] \in Nat \X Nat \X Nat
    /\ Interval \in Nat \ {0}
    /\ StartSecond \in 0 .. 59
    /\ Percent \in 0 .. 100
    /\ HealthRetention \in Nat \ {0}

VARIABLES
    check,      \* the check under way
    nextCheck,  \* the second the interval fires next
    report      \* problematic_agents.txt: the agents it lists

NoCheck == [at |-> "off", end |-> 0, todo |-> {}, found |-> {}]

Verdicts == [agent : Agents, at : 0 .. LastMinute, bad : BOOLEAN]

HealthTypeOK ==
    /\ check \in [at : {"off", "judge", "export", "clean"},
                  end : 0 .. LastMinute, todo : SUBSET Agents,
                  found : SUBSET Verdicts]
    /\ nextCheck \in Nat
    /\ report \subseteq Agents

HealthInit ==
    /\ check = NoCheck
    /\ nextCheck = 60 + StartSecond
    /\ report = {}

-----------------------------------------------------------------------------
(* compare_versions(server, agent) = Greater, or no version to compare.    *)
Outdated(v) ==
    \/ v = NoVersion
    \/ \E i \in 1 .. 3 :
          /\ ServerVersion[i] > v[i]
          /\ \A j \in 1 .. i - 1 : ServerVersion[j] = v[j]

(* calculate_expected_entries of a task: one per minute for a task that    *)
(* runs more often, else one per run; a task without schedule is skipped.  *)
ExpectedOf(t) == CASE Schedule[t] = 0        -> 0
                   [] Schedule[t] \in 1 .. 59 -> Interval \div 60
                   [] OTHER                  -> Interval \div Schedule[t]

(* calculate_expected_entries: the sum over the tasks of the agent, as the *)
(* number of the entries, the i-th of a task for each i.                   *)
Entries(a) == {e \in Config[a] \X (1 .. Interval) : e[2] <= ExpectedOf(e[1])}

Expected(a) == Cardinality(Entries(a))

(* The window of a check is Interval seconds up to a full minute; it need  *)
(* not begin with one.                                                     *)
InWindow(m, end) == 60 * m >= 60 * end - Interval /\ m < end

(* calculate_received_entries, with period_start in the window.            *)
ReceivedIn(a, end) == Cardinality({k \in stored : k[1] = a /\ InWindow(k[3], end)})

(* Mutant: an agent nothing came from has no ratio.                        *)
ProblematicIfReceived(a, end) ==
    \/ ReceivedIn(a, end) > 0 /\ 100 * ReceivedIn(a, end) < Percent * Expected(a)
    \/ Outdated(Version[a])

(* An agent of which nothing is expected is healthy.                       *)
Problematic(a, end) ==
    \/ 100 * ReceivedIn(a, end) < Percent * Expected(a)
    \/ Outdated(Version[a])

-----------------------------------------------------------------------------
(* The interval fires in this minute, or has fired.                        *)
CheckDue == nextCheck < 60 * (minute + 1)

(* Mutant: the window ends with the last full minute, whose metrics may    *)
(* still be on their way.                                                  *)
BeginCheckEarly ==
    /\ check.at = "off"
    /\ CheckDue
    /\ nextCheck' = nextCheck + Interval
    /\ check' = IF Registered = {} THEN [NoCheck EXCEPT !.at = "clean"]
                ELSE [at |-> "judge", end |-> minute, todo |-> Registered,
                      found |-> {}]
    /\ UNCHANGED <<tableVars, minute, cleaning, report>>

(* check_all_agents, to the list of agents.  The window leaves out this    *)
(* minute and the one before it.                                           *)
BeginCheck ==
    /\ check.at = "off"
    /\ CheckDue
    /\ nextCheck' = nextCheck + Interval
    /\ check' = IF Registered = {} THEN [NoCheck EXCEPT !.at = "clean"]
                ELSE [at |-> "judge", end |-> minute - 1, todo |-> Registered,
                      found |-> {}]
    /\ UNCHANGED <<tableVars, minute, cleaning, report>>

(* calculate_health_metrics of one agent.  An agent without configuration  *)
(* is logged and left out.                                                 *)
Judge(a) ==
    /\ check.at = "judge"
    /\ a \in check.todo
    /\ check' = [check EXCEPT
           !.todo = @ \ {a},
           !.found = IF Config[a] = NoConfig THEN @
                     ELSE @ \cup {[agent |-> a, at |-> check.end,
                                   bad |-> Problematic(a, check.end)]}]
    /\ UNCHANGED <<tableVars, minute, cleaning, nextCheck, report>>

(* The verdicts are stored; when an agent is gone by now the check fails   *)
(* as a whole and the report stays as it is.                               *)
StoreVerdicts ==
    /\ check.at = "judge"
    /\ check.todo = {}
    /\ StoreChecks(check.found)
    /\ check' = [check EXCEPT !.at = IF CanStore(check.found) THEN "export" ELSE "clean"]
    /\ UNCHANGED <<minute, lastSeen, errors, stored, cleaning, nextCheck, report>>

(* get_problematic_agents: of the newest checks in the table.              *)
Newest == {c \in checks : \A d \in checks : d.at <= c.at}

(* Mutant: all checks in the table.                                        *)
ExportAll ==
    /\ check.at = "export"
    /\ report' = {c.agent : c \in {d \in checks : d.bad}}
    /\ check' = [check EXCEPT !.at = "clean"]
    /\ UNCHANGED <<tableVars, minute, cleaning, nextCheck>>

(* export_problematic_agents or clear_problematic_agents_file              *)
Export ==
    /\ check.at = "export"
    /\ report' = IF \E c \in check.found : c.bad
                    THEN {c.agent : c \in {d \in Newest : d.bad}}
                    ELSE {}
    /\ check' = [check EXCEPT !.at = "clean"]
    /\ UNCHANGED <<tableVars, minute, cleaning, nextCheck>>

(* cleanup_old_health_data, after every check.                             *)
CleanChecks ==
    /\ check.at = "clean"
    /\ DropChecks(Cutoff(HealthRetention))
    /\ check' = NoCheck
    /\ UNCHANGED <<minute, lastSeen, errors, stored, cleaning, nextCheck, report>>

CheckStep == \/ BeginCheck \/ StoreVerdicts \/ Export \/ CleanChecks
             \/ \E a \in Agents : Judge(a)
=============================================================================
