--------------------------- MODULE ServerDatabase ---------------------------
(***************************************************************************)
(* The server's database (server/src/database.rs, server/src/database/):   *)
(* the agents, their metrics (MetricStore), the configuration errors they  *)
(* reported and the health checks made of them, and the retention.  The    *)
(* last three tables refer to the agents with a foreign key, enforced by   *)
(* SQLite.  Time is counted in minutes.                                    *)
(***************************************************************************)
EXTENDS MetricStore

CONSTANTS
    Agents,         \* ids of the agents
    Retention,      \* data_retention_days
    LastMinute      \* bound: where the clock stops

ASSUME DatabaseAssumption ==
    /\ IsFiniteSet(Agents)
    /\ Retention \in Nat \ {0}
    /\ LastMinute \in Nat \ {0}

VARIABLES
    minute,     \* the clock
    lastSeen,   \* [registered agents -> minute]: the agents table
    errors,     \* config_errors: [agent, at]
    checks,     \* agent_health_checks: [agent, at, bad]
    cleaning    \* the statement cleanup_old_data comes to, and its cutoff

(* The metrics are <<agent, task, minute>>, the minute of period_start.    *)
tableVars == <<lastSeen, errors, checks, stored>>

Minutes    == 1 .. LastMinute
Registered == DOMAIN lastSeen

(* There are rows that keep the row of an agent.                           *)
Referred(a) == \/ \E k \in stored : k[1] = a
               \/ \E e \in errors \cup checks : e.agent = a

DatabaseTypeOK ==
    /\ minute \in Minutes
    /\ Registered \subseteq Agents
    /\ \A a \in Registered : lastSeen[a] \in Minutes
    /\ errors \subseteq [agent : Registered, at : Minutes]
    /\ checks \subseteq [agent : Registered, at : 0 .. LastMinute, bad : BOOLEAN]
    /\ cleaning \in [at : {"delay", "off", "metrics", "errors", "agents"},
                     cutoff : 0 .. LastMinute]

Off     == [at |-> "off", cutoff |-> 0]
Delayed == [at |-> "delay", cutoff |-> 0]

DatabaseInit ==
    /\ StoreInit
    /\ minute = 1
    /\ lastSeen = <<>>
    /\ errors = {}
    /\ checks = {}
    /\ cleaning = Delayed

-----------------------------------------------------------------------------
(* upsert_agent                                                            *)
Upsert(a) ==
    lastSeen' = [b \in Registered \cup {a} |-> IF b = a THEN minute ELSE lastSeen[b]]

(* Mutant: the foreign keys are not enforced.                              *)
LogConfigErrorUnchecked(a) == errors' = errors \cup {[agent |-> a, at |-> minute]}

(* log_config_error fails for an agent that is not registered; the handler *)
(* answers 202 all the same.                                               *)
LogConfigError(a) ==
    errors' = IF a \in Registered
                 THEN errors \cup {[agent |-> a, at |-> minute]}
                 ELSE errors

(* The health checks of one run, in one transaction: all or none.          *)
CanStore(cs) == \A c \in cs : c.agent \in Registered

StoreChecks(cs) == checks' = IF CanStore(cs) THEN checks \cup cs ELSE checks

(* db_agent_health::cleanup_old_data                                       *)
DropChecks(cutoff) == checks' = {c \in checks : c.at >= cutoff}

-----------------------------------------------------------------------------
(* cleanup_old_data, on a connection of its own: each statement commits    *)
(* by itself, and requests and health checks come in between.              *)

Cutoff(retention) == IF minute > retention THEN minute - retention ELSE 0

(* initial_cleanup_delay_seconds have passed: the task comes to its loop.   *)
EndDelay ==
    /\ cleaning.at = "delay"
    /\ cleaning' = Off
    /\ UNCHANGED <<tableVars, minute>>

BeginCleanup ==
    /\ cleaning.at = "off"
    /\ cleaning' = [at |-> "metrics", cutoff |-> Cutoff(Retention)]
    /\ UNCHANGED <<tableVars, minute>>

(* Mutant: what ended within a minute of the cutoff stays.                 *)
CleanMetricsLate ==
    /\ cleaning.at = "metrics"
    /\ stored' = {k \in stored : k[3] + 2 >= cleaning.cutoff}
    /\ cleaning' = [cleaning EXCEPT !.at = "errors"]
    /\ UNCHANGED <<minute, lastSeen, errors, checks>>

(* DELETE ... WHERE period_end < cutoff, of each metric table.             *)
CleanMetrics ==
    /\ cleaning.at = "metrics"
    /\ stored' = {k \in stored : k[3] + 1 >= cleaning.cutoff}
    /\ cleaning' = [cleaning EXCEPT !.at = "errors"]
    /\ UNCHANGED <<minute, lastSeen, errors, checks>>

CleanErrors ==
    /\ cleaning.at = "errors"
    /\ errors' = {e \in errors : e.at >= cleaning.cutoff}
    /\ cleaning' = [cleaning EXCEPT !.at = "agents"]
    /\ UNCHANGED <<minute, lastSeen, checks, stored>>

(* Mutant: an agent goes by the time it has been known.                    *)
CleanAgentsAll ==
    /\ cleaning.at = "agents"
    /\ LET old == {a \in Registered : ~Referred(a)}
       IN  lastSeen' = [a \in Registered \ old |-> lastSeen[a]]
    /\ cleaning' = Off
    /\ UNCHANGED <<minute, errors, checks, stored>>

(* Mutant: one agent that is referred to, old or not, keeps them all.      *)
CleanAgentsUnlessReferred ==
    /\ cleaning.at = "agents"
    /\ LET old == {a \in Registered : lastSeen[a] < cleaning.cutoff}
       IN  lastSeen' = IF \A a \in Registered : ~Referred(a)
                          THEN [a \in Registered \ old |-> lastSeen[a]]
                          ELSE lastSeen
    /\ cleaning' = Off
    /\ UNCHANGED <<minute, errors, checks, stored>>

(* DELETE FROM agents WHERE last_seen < cutoff: one row that is referred   *)
(* to makes the statement fail, and VACUUM is not reached.                 *)
CleanAgents ==
    /\ cleaning.at = "agents"
    /\ LET old == {a \in Registered : lastSeen[a] < cleaning.cutoff}
       IN  lastSeen' = IF \A a \in old : ~Referred(a)
                          THEN [a \in Registered \ old |-> lastSeen[a]]
                          ELSE lastSeen
    /\ cleaning' = Off
    /\ UNCHANGED <<minute, errors, checks, stored>>

CleanupStep == BeginCleanup \/ CleanMetrics \/ CleanErrors \/ CleanAgents
=============================================================================
