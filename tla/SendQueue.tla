----------------------------- MODULE SendQueue -----------------------------
(***************************************************************************)
(* The agent's local database as far as delivery is concerned: the table   *)
(* of one-minute aggregates (agent/src/database/db_*.rs) and the send      *)
(* queue that points into it (agent/src/database/db_queue.rs).             *)
(*                                                                         *)
(* Every operator below that primes a variable is one auto-committed SQL   *)
(* statement (or, for Fetch and MarkFailed, a loop of them under the       *)
(* database lock) of the agent; MetricDelivery decides when each runs.     *)
(*                                                                         *)
(* Time is relative: the code compares stored timestamps with the wall     *)
(* clock, the model keeps in every entry the number of minutes that are    *)
(* left until the comparison the code makes turns true.                    *)
(***************************************************************************)
EXTENDS Integers, FiniteSets

CONSTANTS
    Tasks,          \* names of the configured tasks
    LastSample,     \* last minute in which a task takes a sample (a bound)
    MaxRows,        \* bound on the rows ever inserted in the aggregate table
    BatchSize,      \* metrics_batch_size
    MaxRetries,     \* metrics_max_retries
    SentKeep,       \* minutes a sent entry is kept (24 hours in the code)
    FailedKeep      \* minutes a failed entry is kept (7 days in the code)

ASSUME SendQueueAssumption ==
    /\ LastSample \in Nat \ {0}
    /\ MaxRows \in Nat
    /\ BatchSize \in Nat \ {0}
    /\ MaxRetries \in 0 .. 31      \* 2_i32.pow overflows beyond
    /\ SentKeep \in Nat
    /\ FailedKeep \in Nat

(* A metric is identified by its task and its period, here the minute the  *)
(* period starts with: the UNIQUE key of the tables on both sides.         *)
Minutes == 1 .. LastSample
Keys    == Tasks \X Minutes
NoKey   == <<>>

RowIds  == 1 .. MaxRows

Statuses == {"none", "pending", "sending", "sent", "failed"}

Entries == [status : Statuses, key : Keys \cup {NoKey},
            retries : Nat, timer : Nat]
NoEntry == [status |-> "none", key |-> NoKey, retries |-> 0, timer |-> 0]

VARIABLES
    row,        \* row[i]: key of the aggregate row with id i, or NoKey
    nextRow,    \* the id AUTOINCREMENT hands out next
    queue       \* queue[i]: the send-queue entry of row id i, or NoEntry

queueVars == <<row, nextRow, queue>>

QueueTypeOK ==
    /\ row \in [RowIds -> Keys \cup {NoKey}]
    /\ nextRow \in 1 .. MaxRows + 1
    /\ queue \in [RowIds -> Entries]

QueueInit ==
    /\ row = [i \in RowIds |-> NoKey]
    /\ nextRow = 1
    /\ queue = [i \in RowIds |-> NoEntry]

(* An entry as the statements leave it: one that is being sent was due, one *)
(* that waits for its backoff has attempts left, and one that was given up *)
(* on has none.                                                            *)
Fits(e) ==
    /\ e.status = "sending" => e.timer = 0
    /\ e.status = "pending" /\ e.timer > 0 => e.retries \in 1 .. MaxRetries - 1
    /\ e.status = "failed" => e.retries >= MaxRetries

EntriesFit == \A i \in RowIds : Fits(queue[i])

InStatus(s) == {i \in RowIds : queue[i].status = s}

(* Mutant: a plain INSERT, the old row of the key stays.                   *)
StoreAggregateNoReplace(k) ==
    /\ nextRow <= MaxRows
    /\ row' = [row EXCEPT ![nextRow] = k]
    /\ nextRow' = nextRow + 1

(* INSERT OR REPLACE INTO agg_metric_*: the row that holds the key, if any, *)
(* is deleted and the new one gets a new id.                               *)
StoreAggregate(k) ==
    /\ nextRow <= MaxRows
    /\ row' = [i \in RowIds |-> IF i = nextRow THEN k
                                ELSE IF row[i] = k THEN NoKey ELSE row[i]]
    /\ nextRow' = nextRow + 1

(* Mutant: unique by the metric's key, not by its row id.                  *)
EnqueueOncePerKey(i) ==
    queue' = [queue EXCEPT ![i] =
                IF \A j \in RowIds : queue[j].key # row[i]
                THEN [NoEntry EXCEPT !.status = "pending", !.key = row[i]]
                ELSE @]

(* INSERT OR IGNORE INTO metric_send_queue, unique by row id.              *)
Enqueue(i) ==
    queue' = [queue EXCEPT ![i] =
                IF @.status = "none"
                THEN [NoEntry EXCEPT !.status = "pending", !.key = row[i]]
                ELSE @]

(* The oldest n members of a set of row ids: created_at grows with the id. *)
Oldest(S, n) == {i \in S : Cardinality({j \in S : j < i}) < n}

(* SELECT ... WHERE status = 'pending' AND next_retry_at <= now            *)
(* ORDER BY created_at LIMIT batch_size                                    *)
Picked == Oldest({i \in InStatus("pending") : queue[i].timer = 0}, BatchSize)

(* Picked entries whose aggregate row still exists; the others are removed *)
(* from the queue.                                                         *)
Fetched  == {i \in Picked : row[i] # NoKey}
Dangling == Picked \ Fetched

(* An entry as the three UPDATE statements without a condition leave it.   *)
AsSending(e) == [e EXCEPT !.status = "sending"]
AsSent(e)    == [status |-> "sent", key |-> e.key, retries |-> e.retries,
                 timer |-> SentKeep + 1]
Recovered(e) == [status |-> "pending", key |-> e.key,
                 retries |-> e.retries + 1, timer |-> 0]

(* Fetch a batch and mark it as being sent, in one hold of the lock.  When *)
(* marked is FALSE the UPDATE failed, which the code only logs.            *)
FetchBatch(marked) ==
    queue' = [i \in RowIds |->
                IF i \in Dangling THEN NoEntry
                ELSE IF i \in Fetched /\ marked
                     THEN AsSending(queue[i])
                     ELSE queue[i]]

(* Mutant: every 'sending' entry is marked, not those of the batch.        *)
MarkSentAllSending(S) ==
    queue' = [i \in RowIds |->
                IF i \in S \cup InStatus("sending")
                THEN AsSent(queue[i])
                ELSE queue[i]]

MarkSent(S) ==
    queue' = [i \in RowIds |->
                IF i \in S THEN AsSent(queue[i]) ELSE queue[i]]

(* 2^n minutes, capped at 60.                                              *)
Backoff(n) == IF n \in 1 .. 5 THEN <<2, 4, 8, 16, 32>>[n] ELSE 60

(* Mutant: given up one attempt too early.                                 *)
AfterFailureTooEarly(e) ==
    LET n       == e.retries + 1
        giveUp  == n + 1 >= MaxRetries
    IN  [status  |-> IF giveUp THEN "failed" ELSE "pending",
         key     |-> e.key,
         retries |-> n,
         timer   |-> IF giveUp THEN FailedKeep + 1 ELSE Backoff(n)]

(* An entry after a failed attempt: given up at MaxRetries, or else to be  *)
(* retried after the backoff.                                              *)
AfterFailure(e) ==
    LET n       == e.retries + 1
        giveUp  == n >= MaxRetries
    IN  [status  |-> IF giveUp THEN "failed" ELSE "pending",
         key     |-> e.key,
         retries |-> n,
         timer   |-> IF giveUp THEN FailedKeep + 1 ELSE Backoff(n)]

MarkFailed(S) ==
    queue' = [i \in RowIds |->
                IF i \in S THEN AfterFailure(queue[i]) ELSE queue[i]]

(* Mutant: nothing is recovered at startup.                                *)
RecoverSendingForgotten == queue' = queue

(* Entries a previous run of the agent left in 'sending' are retried at    *)
(* once; the attempt counts, and the cap is not looked at.                 *)
RecoverSending ==
    queue' = [i \in RowIds |->
                IF queue[i].status = "sending"
                THEN Recovered(queue[i])
                ELSE queue[i]]

(* Entries whose retention is over: sent for 24 hours, failed for 7 days.  *)
Expired == {i \in InStatus("sent") \cup InStatus("failed") :
                queue[i].timer = 0}

PurgeEntries ==
    queue' = [i \in RowIds |-> IF i \in Expired THEN NoEntry ELSE queue[i]]

(* Mutant: status = 'pending' instead of status != 'sent' protects a row.  *)
DeletableUnlessPending(cutoff) ==
    {i \in RowIds : /\ row[i] # NoKey
                    /\ row[i][2] + 1 < cutoff
                    /\ queue[i].status # "pending"}

(* Rows with period_end before the cutoff are deleted unless the queue     *)
(* still has an entry of theirs that is not 'sent'.                        *)
Deletable(cutoff) ==
    {i \in RowIds : /\ row[i] # NoKey
                    /\ row[i][2] + 1 < cutoff
                    /\ queue[i].status \in {"none", "sent"}}

PurgeRows(cutoff) ==
    row' = [i \in RowIds |-> IF i \in Deletable(cutoff) THEN NoKey ELSE row[i]]

(* One minute passes for every stored timestamp.                           *)
AgeEntries ==
    queue' = [i \in RowIds |->
                [queue[i] EXCEPT !.timer = IF @ > 0 THEN @ - 1 ELSE 0]]
============================================================================
