---------------------------- MODULE MetricStore ----------------------------
(***************************************************************************)
(* The server's metric tables for one agent (server/src/database.rs and    *)
(* server/src/database/db_*.rs): every table has                           *)
(* UNIQUE(agent_id, task_name, period_start, period_end), the rows of a    *)
(* request are inserted with a plain INSERT inside one transaction.        *)
(***************************************************************************)
EXTENDS Integers, FiniteSets

VARIABLE stored     \* keys of the rows in the server's tables

StoreInit == stored = {}

(* The transaction commits only if no row of the batch is there already.   *)
Acceptable(ks) == ks \cap stored = {}

StoreMetrics(ks) ==
    stored' = IF Acceptable(ks) THEN stored \cup ks ELSE stored
============================================================================
