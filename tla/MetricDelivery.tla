--------------------------- MODULE MetricDelivery ---------------------------
(***************************************************************************)
(* Delivery of one agent's aggregated metrics to the server: the agent's   *)
(* main loop (agent/src/main.rs, agent/src/scheduler.rs) over its database *)
(* (SendQueue), the HTTP exchange, and the server's handler over its       *)
(* tables (MetricStore).                                                   *)
(*                                                                         *)
(* The main loop is one task: it aggregates, sends, cleans up and handles  *)
(* task results one after the other, and while it waits for a response it  *)
(* does nothing else.  What interleaves with it is the server, the clock,  *)
(* and the process being stopped or killed at any point.                   *)
(***************************************************************************)
EXTENDS SendQueue, MetricStore

CONSTANTS
    MaxFaults   \* [FaultKinds -> Nat]: bound on the events of each kind

FaultKinds == {"crash", "timeout", "refusal", "reload", "dberror"}

ASSUME DeliveryAssumption == MaxFaults \in [FaultKinds -> Nat]

VARIABLES
    now,        \* the current minute, LastMinute standing for all later ones
    raw,        \* keys of the raw samples in the agent's database
    up,         \* the agent process is running
    lastAgg,    \* last_aggregation of the scheduler, 0 in a new one
    todo,       \* tasks the running aggregation has still to store
    fresh,      \* row id stored and not yet queued, NoRow if none
    call,       \* the HTTP exchange the main loop is waiting for
    batch,      \* queue_ids of that exchange
    strays,     \* requests the agent no longer waits for, by their keys
    used        \* how many events of each bounded kind have happened

(* History: what was ever produced, what the agent gave up on, and what it *)
(* stored but had not queued when it was killed.                           *)
VARIABLES produced, abandoned, stranded

agentVars   == <<up, lastAgg, todo, fresh, call, batch>>
historyVars == <<produced, abandoned, stranded>>
vars == <<queueVars, stored, now, raw, agentVars, strays, used, historyVars>>

LastMinute == LastSample + 2
NoRow      == 0

Calls == {"idle",       \* no exchange under way
          "sent",       \* request sent, not yet handled by the server
          "accepted",   \* the server stored the batch and answers 200
          "failed"}     \* send_metrics_batch returns an error

(* The keys of the metrics in a batch: the body of the request.            *)
BodyOf(S) == {queue[i].key : i \in S}

VarTypes ==
    /\ QueueTypeOK
    /\ stored \subseteq Keys
    /\ now \in 1 .. LastMinute
    /\ raw \subseteq Keys
    /\ up \in BOOLEAN
    /\ lastAgg \in 0 .. LastMinute
    /\ todo \subseteq Tasks
    /\ fresh \in RowIds \cup {NoRow}
    /\ call \in Calls
    /\ batch \subseteq RowIds
    /\ strays \subseteq SUBSET Keys
    /\ used \in [FaultKinds -> Nat]
    /\ produced \subseteq Keys
    /\ abandoned \subseteq Keys
    /\ stranded \subseteq Keys

(* Every variable has its type, and every entry of the queue is one the    *)
(* agent's statements can leave: no failure, recovery or ageing makes one  *)
(* that is given up with attempts left, or waits with none.                *)
TypeOK == VarTypes /\ EntriesFit

Init ==
    /\ QueueInit
    /\ StoreInit
    /\ now = 1
    /\ raw = {}
    /\ up = TRUE
    /\ lastAgg = 0
    /\ todo = {}
    /\ fresh = NoRow
    /\ call = "idle"
    /\ batch = {}
    /\ strays = {}
    /\ used = [f \in FaultKinds |-> 0]
    /\ produced = {}
    /\ abandoned = {}
    /\ stranded = {}

Spend(kind) ==
    /\ used[kind] < MaxFaults[kind]
    /\ used' = [used EXCEPT ![kind] = @ + 1]

(* The main loop is between two of its steps.                              *)
AtLoop == up /\ call = "idle" /\ todo = {} /\ fresh = NoRow

-----------------------------------------------------------------------------
(* The clock.  It stops counting where no sample can be aggregated any     *)
(* more, but the timers of the queue go on.                                *)
Tick ==
    /\ now' = IF now < LastMinute THEN now + 1 ELSE now
    /\ AgeEntries
    /\ UNCHANGED <<row, nextRow, stored, raw, agentVars, strays, used,
                   historyVars>>

(* A task result is handled and its metric flushed.  Its timestamp may be  *)
(* of the previous minute: results wait in the channel while the loop is   *)
(* sending.  A buffered metric lost in a crash is one never recorded.      *)
RecordSample(t, m) ==
    /\ AtLoop
    /\ m \in {now - 1, now} \cap Minutes
    /\ <<t, m>> \notin raw
    /\ raw' = raw \cup {<<t, m>>}
    /\ UNCHANGED <<queueVars, stored, now, agentVars, strays, used,
                   historyVars>>

-----------------------------------------------------------------------------
(* Mutant: a minute can be aggregated again and again.                     *)
StartAggregationAgain ==
    /\ AtLoop
    /\ now >= lastAgg
    /\ lastAgg' = now
    /\ todo' = {t \in Tasks : <<t, now - 1>> \in raw}
    /\ UNCHANGED <<queueVars, stored, now, raw, up, fresh, call, batch,
                   strays, used, historyVars>>

(* check_and_perform_aggregation: once per minute, the previous minute, of *)
(* every task that has raw samples in it.                                  *)
StartAggregation ==
    /\ AtLoop
    /\ now > lastAgg
    /\ lastAgg' = now
    /\ todo' = {t \in Tasks : <<t, now - 1>> \in raw}
    /\ UNCHANGED <<queueVars, stored, now, raw, up, fresh, call, batch,
                   strays, used, historyVars>>

(* store_and_enqueue_aggregated_metrics, first statement: the row.         *)
StoreOne(t) ==
    /\ up
    /\ t \in todo
    /\ fresh = NoRow
    /\ StoreAggregate(<<t, lastAgg - 1>>)
    /\ fresh' = nextRow
    /\ todo' = todo \ {t}
    /\ produced' = produced \cup {<<t, lastAgg - 1>>}
    /\ UNCHANGED <<queue, stored, now, raw, up, lastAgg, call, batch,
                   strays, used, abandoned, stranded>>

(* store_and_enqueue_aggregated_metrics, second statement: the queue entry. *)
EnqueueOne ==
    /\ up
    /\ fresh # NoRow
    /\ Enqueue(fresh)
    /\ fresh' = NoRow
    /\ UNCHANGED <<row, nextRow, stored, now, raw, up, lastAgg, todo, call,
                   batch, strays, used, historyVars>>

-----------------------------------------------------------------------------
(* send_queued_metrics_to_server_static up to the request: fetch, drop the *)
(* entries without a row, mark as 'sending' (a failure is only logged).    *)
BeginSend ==
    /\ AtLoop
    /\ Picked # {}
    /\ \E marked \in BOOLEAN :
         /\ IF marked THEN UNCHANGED used ELSE Spend("dberror")
         /\ FetchBatch(marked)
    /\ batch' = Fetched
    /\ call' = IF Fetched = {} THEN "idle" ELSE "sent"
    /\ UNCHANGED <<row, nextRow, stored, now, raw, up, lastAgg, todo, fresh,
                   strays, historyVars>>

(* handle_metrics: store the batch in a transaction, answer 500 when it    *)
(* fails and 200 when it commits.                                          *)
ServerHandle ==
    /\ call = "sent"
    /\ StoreMetrics(BodyOf(batch))
    /\ call' = IF Acceptable(BodyOf(batch)) THEN "accepted" ELSE "failed"
    /\ UNCHANGED <<queueVars, now, raw, up, lastAgg, todo, fresh, batch,
                   strays, used, historyVars>>

(* The request is answered with an error before anything is stored: rate   *)
(* limit, whitelist, agent record not updated, a proxy in between.         *)
ServerRefuse ==
    /\ call = "sent"
    /\ Spend("refusal")
    /\ call' = "failed"
    /\ UNCHANGED <<queueVars, stored, now, raw, up, lastAgg, todo, fresh,
                   batch, strays, historyVars>>

(* The client times out, or the response is lost or cannot be parsed.  A   *)
(* request not handled yet goes on without it.                             *)
Timeout ==
    /\ call \in {"sent", "accepted"}
    /\ Spend("timeout")
    /\ call' = "failed"
    /\ strays' = IF call = "sent" THEN strays \cup {BodyOf(batch)} ELSE strays
    /\ UNCHANGED <<queueVars, stored, now, raw, up, lastAgg, todo, fresh,
                   batch, historyVars>>

(* A request whose sender timed out or died reaches the server after all.  *)
(* One that is lost is one this action is never taken for.                 *)
ServerHandleStray(ks) ==
    /\ ks \in strays
    /\ StoreMetrics(ks)
    /\ strays' = strays \ {ks}
    /\ UNCHANGED <<queueVars, now, raw, agentVars, used, historyVars>>

-----------------------------------------------------------------------------
(* download_and_apply_config, when the response says the configuration is  *)
(* stale and the server has a new one: the scheduler is stopped and a new  *)
(* one put in its place, over the same database.                           *)
ReloadScheduler == Spend("reload") /\ lastAgg' = 0

(* The response is 200: mark_as_sent, whose failure is only logged; then   *)
(* the scheduler may be reloaded.                                          *)
HandleAccepted ==
    /\ call = "accepted"
    /\ \/ MarkSent(batch) /\ UNCHANGED <<lastAgg, used>>
       \/ MarkSent(batch) /\ ReloadScheduler
       \/ Spend("dberror") /\ UNCHANGED <<queue, lastAgg>>
    /\ call' = "idle"
    /\ batch' = {}
    /\ UNCHANGED <<row, nextRow, stored, now, raw, up, todo, fresh, strays,
                   historyVars>>

(* Any error: mark_as_failed for each entry of the batch, a statement of   *)
(* its own for each; when one fails that is only logged.                   *)
HandleFailed ==
    /\ call = "failed"
    /\ \E S \in SUBSET batch :
         /\ IF S = batch THEN UNCHANGED used ELSE Spend("dberror")
         /\ MarkFailed(S)
         /\ abandoned' = abandoned \cup
              BodyOf({i \in S : AfterFailure(queue[i]).status = "failed"})
    /\ call' = "idle"
    /\ batch' = {}
    /\ UNCHANGED <<row, nextRow, stored, now, raw, up, lastAgg, todo, fresh,
                   strays, produced, stranded>>

-----------------------------------------------------------------------------
(* cleanup_sent_queue_if_needed: sent entries, then failed ones.           *)
CleanupQueue ==
    /\ AtLoop
    /\ Expired # {}
    /\ PurgeEntries
    /\ UNCHANGED <<row, nextRow, stored, now, raw, agentVars, strays, used,
                   historyVars>>

(* cleanup_data_if_needed: raw samples and aggregate rows older than the   *)
(* retention, whose length is left open.                                   *)
CleanupData ==
    /\ AtLoop
    /\ \E cutoff \in 1 .. now :
         /\ PurgeRows(cutoff)
         /\ raw' = {k \in raw : k[2] >= cutoff}
    /\ UNCHANGED <<nextRow, queue, stored, now, agentVars, strays, used,
                   historyVars>>

-----------------------------------------------------------------------------
(* The process is killed, exits on a database error, or is told to stop:   *)
(* the main loop ends at whatever it was doing, in memory nothing remains. *)
Crash ==
    /\ up
    /\ Spend("crash")
    /\ up' = FALSE
    /\ strays' = IF call = "sent" THEN strays \cup {BodyOf(batch)} ELSE strays
    /\ stranded' = IF fresh = NoRow THEN stranded
                   ELSE stranded \cup {row[fresh]}
    /\ call' = "idle"
    /\ batch' = {}
    /\ todo' = {}
    /\ fresh' = NoRow
    /\ UNCHANGED <<queueVars, stored, now, raw, lastAgg, produced, abandoned>>

(* Agent::new: open the database, recover the 'sending' entries, start a   *)
(* new scheduler.                                                          *)
Restart ==
    /\ ~up
    /\ up' = TRUE
    /\ RecoverSending
    /\ lastAgg' = 0
    /\ UNCHANGED <<row, nextRow, stored, now, raw, todo, fresh, call, batch,
                   strays, used, historyVars>>

-----------------------------------------------------------------------------
Aggregate == StartAggregation \/ (\E t \in Tasks : StoreOne(t)) \/ EnqueueOne

Server == ServerHandle \/ ServerRefuse
          \/ (\E ks \in strays : ServerHandleStray(ks))

Next ==
    \/ Tick
    \/ \E t \in Tasks, m \in Minutes : RecordSample(t, m)
    \/ Aggregate
    \/ BeginSend
    \/ Server
    \/ Timeout
    \/ HandleAccepted
    \/ HandleFailed
    \/ CleanupQueue
    \/ CleanupData
    \/ Crash
    \/ Restart

Spec == Init /\ [][Next]_vars

(* The main loop comes round as long as a task ticks, the server answers   *)
(* the request at hand, the clock goes on, and the agent is started again. *)
Fairness ==
    /\ WF_vars(Tick)
    /\ WF_vars(Aggregate)
    /\ WF_vars(BeginSend)
    /\ WF_vars(ServerHandle)
    /\ WF_vars(HandleAccepted)
    /\ WF_vars(HandleFailed)
    /\ WF_vars(Restart)

FairSpec == Spec /\ Fairness
-----------------------------------------------------------------------------
(* An entry the agent will send some time: its row is there to be fetched. *)
Deliverable(i) ==
    queue[i].status \in {"pending", "sending"} /\ row[i] # NoKey

(* What the agent marks 'sent' the server has stored: no lost response,    *)
(* late request, failed UPDATE, crash or reload makes the agent drop a     *)
(* metric the server does not have (mark_as_sent after the response).      *)
SentWasStored == \A i \in InStatus("sent") : queue[i].key \in stored

(* While the agent runs, the entries in 'sending' are those of the         *)
(* exchange the main loop waits for: none is left over by a timeout, a     *)
(* crash or a reload (recover_sending_entries).  Only an UPDATE of the     *)
(* agent's database that failed can leave one behind, until a restart.     *)
SendingIsInFlight ==
    up /\ used["dberror"] = 0 => InStatus("sending") = batch

(* No request conflicts with itself: the metrics of a batch differ in      *)
(* their key, though a key may have several queue entries, one for every   *)
(* time its minute was aggregated (INSERT OR REPLACE, get_queued_metrics). *)
BatchKeysDiffer ==
    \A i, j \in batch : queue[i].key = queue[j].key => i = j

(* A metric once aggregated is stored by the server, given up on after     *)
(* its retries, or still to be sent, unless the agent was killed between   *)
(* storing the row and queueing it: neither replacing the row, removing    *)
(* entries without a row nor the two cleanups lose it.                     *)
NothingVanishes ==
    \A k \in produced :
        \/ k \in stored \cup abandoned \cup stranded
        \/ \E i \in RowIds : Deliverable(i) /\ queue[i].key = k
        \/ fresh # NoRow /\ row[fresh] = k

(* "No data loss if server is temporarily unavailable" (README.md): what   *)
(* the agent gives up on after its retries is with the server already.     *)
NoDataLoss == abandoned \subseteq stored

(* The agent never sends what the server has: a request for a stored key   *)
(* makes the server reject everything that travels with it.                *)
NeverResent == call = "sent" => Acceptable(BodyOf(batch))

(* Every metric aggregated is in the end stored, given up on, or one the   *)
(* agent was killed over: backoff, recovery and the removal of entries     *)
(* leave none waiting for ever.                                            *)
EventuallySettled ==
    \A k \in Keys :
        k \in produced ~> k \in stored \cup abandoned \cup stranded

-----------------------------------------------------------------------------
(* The metrics the agent has still to send: those of its queue entries     *)
(* that can be fetched, and the one it is about to queue.                  *)
Owed == BodyOf({i \in RowIds : Deliverable(i)})
        \cup IF fresh = NoRow THEN {} ELSE {row[fresh]}

Contract == INSTANCE DeliveryContract WITH
    Metrics <- Keys, aggregated <- produced, owed <- Owed,
    delivered <- stored, dropped <- abandoned, lost <- stranded

(* The agent and the server keep the contract: whatever is lost, late,     *)
(* repeated, failing or killed, no step takes a metric off the agent's     *)
(* debt unless the server has it, the retries are used up, or the agent    *)
(* was killed between the row and its entry; and the server stores only    *)
(* what was aggregated and nothing twice.                                  *)
KeepsContract == Contract!Spec
=============================================================================
