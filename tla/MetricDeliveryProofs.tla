------------------------ MODULE MetricDeliveryProofs ------------------------
(***************************************************************************)
(* Theorems about MetricDelivery, for all values of its constants: the     *)
(* type invariant, and that what the agent marks 'sent' was stored.  Then, *)
(* from how row ids, rows and queue entries belong together (RowInv), that *)
(* the metrics of a request differ in their key and that no aggregated     *)
(* metric vanishes; and that the entries in 'sending' are those of the     *)
(* request under way.                                                      *)
(***************************************************************************)
EXTENDS MetricDelivery, TLAPS

(* Every entry of the queue, and every row about to get one, has a key.    *)
Keyed ==
    /\ \A i \in RowIds : queue[i].status # "none" => queue[i].key \in Keys
    /\ \A i \in batch : queue[i].status # "none"
    /\ fresh # NoRow => row[fresh] \in Keys
    /\ \A t \in todo : <<t, lastAgg - 1>> \in Keys

(* The main loop is one task: it does not aggregate while it waits for a   *)
(* response, and there is no batch unless it waits.  A dead one does none. *)
OneTask ==
    /\ call = "idle" => batch = {}
    /\ call # "idle" => todo = {} /\ fresh = NoRow
    /\ ~up => todo = {} /\ fresh = NoRow /\ call = "idle"

(* The server says 200 of what it has stored.                              *)
AcceptedIsStored ==
    call = "accepted" => \A i \in batch : queue[i].key \in stored

Inv == VarTypes /\ Keyed /\ OneTask /\ SentWasStored /\ AcceptedIsStored

LEMMA NoKeyIsNoKey == NoKey \notin Keys
  BY DEF NoKey, Keys

LEMMA BackoffType == ASSUME NEW n \in Nat PROVE Backoff(n) \in Nat
  BY DEF Backoff

(* A failed attempt leaves an entry an entry, with its key, and never a    *)
(* sent one.                                                               *)
LEMMA AfterFailureType ==
    ASSUME NEW e \in Entries
    PROVE  /\ AfterFailure(e) \in Entries
           /\ AfterFailure(e).key = e.key
           /\ AfterFailure(e).status \in {"pending", "failed"}
  <1>1. e.retries + 1 \in Nat /\ FailedKeep + 1 \in Nat
    BY SendQueueAssumption DEF Entries
  <1>2. Backoff(e.retries + 1) \in Nat
    BY <1>1, BackoffType
  <1> DEFINE t == IF e.retries + 1 >= MaxRetries THEN FailedKeep + 1
                  ELSE Backoff(e.retries + 1)
             s == IF e.retries + 1 >= MaxRetries THEN "failed" ELSE "pending"
  <1>3. t \in Nat /\ s \in {"pending", "failed"}
    BY <1>1, <1>2
  <1>4. AfterFailure(e) = [status |-> s, key |-> e.key,
                           retries |-> e.retries + 1, timer |-> t]
    BY DEF AfterFailure
  <1> HIDE DEF t, s
  <1>5. e.key \in Keys \cup {NoKey}
    BY DEF Entries
  <1> QED
    BY <1>1, <1>3, <1>4, <1>5 DEF Entries, Statuses

(* The other updates of an entry.                                          *)
LEMMA UpdateType ==
    ASSUME NEW e \in Entries
    PROVE  /\ AsSending(e) \in Entries /\ AsSending(e).key = e.key
           /\ AsSending(e).status = "sending"
           /\ AsSent(e) \in Entries /\ AsSent(e).key = e.key
           /\ AsSent(e).status = "sent"
           /\ Recovered(e) \in Entries /\ Recovered(e).key = e.key
           /\ Recovered(e).status = "pending"
           /\ NoEntry \in Entries /\ NoEntry.status = "none"
  <1>1. AsSending(e) \in Entries /\ AsSending(e).key = e.key
        /\ AsSending(e).status = "sending"
    BY DEF AsSending, Entries, Statuses
  <1>2. AsSent(e) \in Entries /\ AsSent(e).key = e.key
        /\ AsSent(e).status = "sent"
    <2>1. e.key \in Keys \cup {NoKey} /\ e.retries \in Nat
      BY DEF Entries
    <2>2. SentKeep + 1 \in Nat /\ "sent" \in Statuses
      BY SendQueueAssumption DEF Statuses
    <2> QED
      BY <2>1, <2>2 DEF AsSent, Entries
  <1>3. Recovered(e) \in Entries /\ Recovered(e).key = e.key
        /\ Recovered(e).status = "pending"
    <2>1. e.key \in Keys \cup {NoKey} /\ e.retries + 1 \in Nat
      BY DEF Entries
    <2>2. "pending" \in Statuses
      BY DEF Statuses
    <2> QED
      BY <2>1, <2>2 DEF Recovered, Entries
  <1>4. NoEntry \in Entries /\ NoEntry.status = "none"
    BY DEF NoEntry, Entries, Statuses
  <1> QED
    BY <1>1, <1>2, <1>3, <1>4

LEMMA InitInv == Init => Inv
  BY SendQueueAssumption, DeliveryAssumption
     DEF Init, Inv, VarTypes, Keyed, OneTask, SentWasStored, AcceptedIsStored,
         QueueInit, StoreInit, QueueTypeOK, Entries, NoEntry, Statuses, Calls,
         InStatus, LastMinute, NoRow, RowIds, FaultKinds

LEMMA TickInv == Inv /\ Tick => Inv'
  <1> SUFFICES ASSUME Inv, Tick PROVE Inv'
    OBVIOUS
  <1> USE DEF Inv, Tick, AgeEntries, agentVars, historyVars
  <1>1. VarTypes'
    <2>1. QueueTypeOK'
      <3>1. ASSUME NEW i \in RowIds PROVE queue'[i] \in Entries
        <4>1. queue[i] \in Entries /\ queue[i].timer \in Nat
          BY DEF VarTypes, QueueTypeOK, Entries
        <4>2. (IF queue[i].timer > 0 THEN queue[i].timer - 1 ELSE 0) \in Nat
          BY <4>1
        <4> QED
          BY <4>1, <4>2 DEF Entries
      <3> QED
        BY <3>1 DEF VarTypes, QueueTypeOK
    <2>2. now' \in 1 .. LastMinute'
      BY SendQueueAssumption DEF VarTypes, LastMinute
    <2> QED
      BY <2>1, <2>2 DEF VarTypes, LastMinute
  <1>2. /\ \A i \in RowIds : queue'[i].status = queue[i].status
        /\ \A i \in RowIds : queue'[i].key = queue[i].key
    BY DEF VarTypes, QueueTypeOK, Entries
  <1>3. Keyed' /\ OneTask'
    BY <1>2 DEF Keyed, OneTask, VarTypes
  <1>4. SentWasStored' /\ AcceptedIsStored'
    BY <1>2 DEF SentWasStored, AcceptedIsStored, InStatus, VarTypes
  <1> QED
    BY <1>1, <1>3, <1>4

LEMMA RecordSampleInv ==
    ASSUME Inv, NEW t \in Tasks, NEW m \in Minutes, RecordSample(t, m)
    PROVE  Inv'
  <1> USE DEF Inv, RecordSample, queueVars, agentVars, historyVars
  <1>1. VarTypes'
    BY DEF VarTypes, QueueTypeOK, Keys
  <1> QED
    BY <1>1 DEF Keyed, OneTask, SentWasStored, AcceptedIsStored, InStatus

LEMMA StartAggregationInv == Inv /\ StartAggregation => Inv'
  <1> SUFFICES ASSUME Inv, StartAggregation PROVE Inv'
    OBVIOUS
  <1> USE DEF Inv, StartAggregation, AtLoop, queueVars, historyVars
  <1>1. VarTypes'
    BY SendQueueAssumption DEF VarTypes, QueueTypeOK, LastMinute
  <1>2. Keyed'
    BY DEF Keyed, VarTypes
  <1> QED
    BY <1>1, <1>2 DEF OneTask, SentWasStored, AcceptedIsStored, InStatus

LEMMA StoreOneInv ==
    ASSUME Inv, NEW t \in Tasks, StoreOne(t)
    PROVE  Inv'
  <1> USE DEF Inv, StoreOne, StoreAggregate
  <1>1. <<t, lastAgg - 1>> \in Keys
    BY DEF Keyed
  <1>2. nextRow \in RowIds
    BY SendQueueAssumption DEF VarTypes, QueueTypeOK, RowIds
  <1>3. row' \in [RowIds -> Keys \cup {NoKey}] /\ row'[nextRow] \in Keys
    BY <1>1, <1>2 DEF VarTypes, QueueTypeOK
  <1>4. nextRow' \in 1 .. MaxRows + 1
    BY SendQueueAssumption DEF VarTypes, QueueTypeOK
  <1>5. VarTypes'
    BY <1>1, <1>2, <1>3, <1>4 DEF VarTypes, QueueTypeOK
  <1>6. Keyed'
    BY <1>3 DEF Keyed
  <1> QED
    BY <1>5, <1>6 DEF OneTask, SentWasStored, AcceptedIsStored, InStatus

LEMMA EnqueueOneInv == Inv /\ EnqueueOne => Inv'
  <1> SUFFICES ASSUME Inv, EnqueueOne PROVE Inv'
    OBVIOUS
  <1> USE DEF Inv, EnqueueOne, Enqueue, historyVars
  <1>1. fresh \in RowIds /\ row[fresh] \in Keys
    BY DEF VarTypes, Keyed
  <1> DEFINE new == [NoEntry EXCEPT !.status = "pending", !.key = row[fresh]]
  <1>2. new \in Entries /\ new.status = "pending" /\ new.key \in Keys
    BY <1>1 DEF NoEntry, Entries, Statuses
  <1> HIDE DEF new
  <1>3. queue' = [queue EXCEPT ![fresh] =
                    IF queue[fresh].status = "none" THEN new ELSE queue[fresh]]
    BY DEF new
  <1>4. queue' \in [RowIds -> Entries]
    BY <1>1, <1>2, <1>3 DEF VarTypes, QueueTypeOK
  <1>5. \A i \in RowIds :
           queue'[i] = queue[i] \/ (queue[i].status = "none" /\ queue'[i] = new)
    BY <1>1, <1>3 DEF VarTypes, QueueTypeOK
  <1>6. VarTypes'
    BY <1>4 DEF VarTypes, QueueTypeOK
  <1>7. Keyed'
    BY <1>2, <1>5 DEF Keyed, VarTypes
  <1>8. SentWasStored' /\ AcceptedIsStored'
    BY <1>2, <1>5 DEF SentWasStored, AcceptedIsStored, InStatus, Keyed, VarTypes
  <1> QED
    BY <1>6, <1>7, <1>8 DEF OneTask

LEMMA BeginSendInv == Inv /\ BeginSend => Inv'
  <1> SUFFICES ASSUME Inv, BeginSend PROVE Inv'
    OBVIOUS
  <1> USE DEF Inv, BeginSend
  <1>1. PICK marked \in BOOLEAN :
          /\ IF marked THEN UNCHANGED used ELSE Spend("dberror")
          /\ FetchBatch(marked)
    OBVIOUS
  <1>2. Picked \subseteq InStatus("pending")
    BY DEF Picked, Oldest
  <1>3. Fetched \subseteq InStatus("pending") /\ InStatus("pending") \subseteq RowIds
    BY <1>2 DEF Fetched, InStatus
  <1>4. \A i \in RowIds :
          \/ queue'[i] = queue[i]
          \/ queue'[i] = NoEntry /\ i \notin Fetched
          \/ queue'[i] = AsSending(queue[i]) /\ i \in Fetched
    BY <1>1 DEF FetchBatch, Dangling
  <1>5. \A i \in RowIds : queue'[i] \in Entries
    BY <1>4, UpdateType DEF VarTypes, QueueTypeOK
  <1>6. queue' \in [RowIds -> Entries]
    BY <1>1, <1>5 DEF FetchBatch
  <1>7. used' \in [FaultKinds -> Nat]
    BY <1>1 DEF Spend, VarTypes, FaultKinds
  <1>8. VarTypes'
    BY <1>3, <1>6, <1>7 DEF VarTypes, QueueTypeOK, Calls, historyVars
  <1>9. \A i \in RowIds :
          /\ queue'[i].status # "none" => queue'[i].key = queue[i].key
                                          /\ queue[i].status # "none"
          /\ queue'[i].status = "sent" => queue[i].status = "sent"
          /\ i \in Fetched => queue'[i].status # "none"
    <2> SUFFICES ASSUME NEW i \in RowIds
                 PROVE  /\ queue'[i].status # "none" =>
                              queue'[i].key = queue[i].key
                              /\ queue[i].status # "none"
                        /\ queue'[i].status = "sent" =>
                              queue[i].status = "sent"
                        /\ i \in Fetched => queue'[i].status # "none"
      OBVIOUS
    <2> USE DEF VarTypes, QueueTypeOK
    <2>1. queue[i] \in Entries
      OBVIOUS
    <2>2. i \in Fetched => queue[i].status = "pending"
      BY <1>3 DEF InStatus
    <2> HIDE DEF Inv, BeginSend, VarTypes, QueueTypeOK
    <2>3. CASE queue'[i] = queue[i]
      BY <2>2, <2>3
    <2>4. CASE queue'[i] = NoEntry /\ i \notin Fetched
      BY <2>4 DEF NoEntry
    <2>5. CASE queue'[i] = AsSending(queue[i]) /\ i \in Fetched
      <3>1. /\ AsSending(queue[i]).key = queue[i].key
            /\ AsSending(queue[i]).status = "sending"
        BY <2>1, UpdateType
      <3> QED
        BY <2>2, <2>5, <3>1
    <2> QED
      BY <1>4, <2>3, <2>4, <2>5
  <1>10. Keyed'
    BY <1>3, <1>9 DEF Keyed
  <1>11. OneTask'
    BY DEF OneTask, AtLoop
  <1>12. SentWasStored' /\ AcceptedIsStored'
    BY <1>9 DEF SentWasStored, AcceptedIsStored, InStatus, VarTypes
  <1> QED
    BY <1>8, <1>10, <1>11, <1>12

LEMMA ServerHandleInv == Inv /\ ServerHandle => Inv'
  <1> SUFFICES ASSUME Inv, ServerHandle PROVE Inv'
    OBVIOUS
  <1> USE DEF Inv, ServerHandle, StoreMetrics, queueVars, historyVars
  <1>1. BodyOf(batch) \subseteq Keys
    BY DEF BodyOf, Keyed, VarTypes
  <1>2. stored' \subseteq Keys /\ stored \subseteq stored'
    BY <1>1 DEF VarTypes
  <1>3. VarTypes'
    BY <1>2 DEF VarTypes, QueueTypeOK, Calls
  <1>4. call' = "accepted" => \A i \in batch : queue[i].key \in stored'
    BY DEF BodyOf
  <1> QED
    BY <1>2, <1>3, <1>4
    DEF Keyed, OneTask, SentWasStored, AcceptedIsStored, InStatus

LEMMA ServerRefuseInv == Inv /\ ServerRefuse => Inv'
  BY DEF Inv, ServerRefuse, Spend, VarTypes, QueueTypeOK, FaultKinds, Calls,
         Keyed, OneTask, SentWasStored, AcceptedIsStored, InStatus, queueVars,
         historyVars

LEMMA TimeoutInv == Inv /\ Timeout => Inv'
  <1> SUFFICES ASSUME Inv, Timeout PROVE Inv'
    OBVIOUS
  <1> USE DEF Inv, Timeout, queueVars, historyVars
  <1>1. BodyOf(batch) \subseteq Keys
    BY DEF BodyOf, Keyed, VarTypes
  <1>2. VarTypes'
    BY <1>1 DEF VarTypes, QueueTypeOK, Calls, Spend, FaultKinds
  <1> QED
    BY <1>2 DEF Keyed, OneTask, SentWasStored, AcceptedIsStored, InStatus

LEMMA ServerHandleStrayInv ==
    ASSUME Inv, NEW ks \in strays, ServerHandleStray(ks)
    PROVE  Inv'
  <1> USE DEF Inv, ServerHandleStray, StoreMetrics, queueVars, agentVars,
              historyVars
  <1>1. stored' \subseteq Keys /\ stored \subseteq stored'
    BY DEF VarTypes
  <1>2. VarTypes'
    BY <1>1 DEF VarTypes, QueueTypeOK
  <1> QED
    BY <1>1, <1>2 DEF Keyed, OneTask, SentWasStored, AcceptedIsStored, InStatus

LEMMA HandleAcceptedInv == Inv /\ HandleAccepted => Inv'
  <1> SUFFICES ASSUME Inv, HandleAccepted PROVE Inv'
    OBVIOUS
  <1> USE DEF Inv, HandleAccepted, ReloadScheduler, historyVars
  <1>1. /\ used' \in [FaultKinds -> Nat]
        /\ lastAgg' \in 0 .. LastMinute
    BY SendQueueAssumption DEF VarTypes, Spend, FaultKinds, LastMinute
  <1>2. queue' = queue \/ MarkSent(batch)
    OBVIOUS
  <1>3. \A i \in RowIds :
          \/ queue'[i] = queue[i]
          \/ i \in batch /\ queue'[i] = AsSent(queue[i])
    BY <1>2 DEF MarkSent
  <1>4. \A i \in RowIds : queue'[i] \in Entries
    BY <1>3, UpdateType DEF VarTypes, QueueTypeOK
  <1>5. queue' \in [RowIds -> Entries]
    BY <1>2, <1>4 DEF MarkSent, VarTypes, QueueTypeOK
  <1>6. VarTypes'
    BY <1>1, <1>5 DEF VarTypes, QueueTypeOK, Calls
  <1>7. \A i \in RowIds :
          /\ queue'[i].key = queue[i].key
          /\ queue'[i].status # "none" =>
                queue[i].status # "none" \/ i \in batch
          /\ queue'[i].status = "sent" =>
                queue[i].status = "sent" \/ i \in batch
    BY <1>3, UpdateType DEF VarTypes, QueueTypeOK
  <1>8. Keyed' /\ OneTask'
    BY <1>7 DEF Keyed, OneTask, VarTypes
  <1>9. SentWasStored' /\ AcceptedIsStored'
    BY <1>7 DEF SentWasStored, AcceptedIsStored, InStatus
  <1> QED
    BY <1>6, <1>8, <1>9

LEMMA HandleFailedInv == Inv /\ HandleFailed => Inv'
  <1> SUFFICES ASSUME Inv, HandleFailed PROVE Inv'
    OBVIOUS
  <1> USE DEF Inv, HandleFailed
  <1>1. PICK S \in SUBSET batch :
          /\ IF S = batch THEN UNCHANGED used ELSE Spend("dberror")
          /\ MarkFailed(S)
          /\ abandoned' = abandoned \cup
               BodyOf({i \in S : AfterFailure(queue[i]).status = "failed"})
    OBVIOUS
  <1>2. \A i \in RowIds : \/ queue'[i] = queue[i]
                          \/ i \in batch /\ queue'[i] = AfterFailure(queue[i])
    BY <1>1 DEF MarkFailed
  <1>3. \A i \in RowIds :
          /\ queue'[i] \in Entries
          /\ queue'[i].key = queue[i].key
          /\ queue'[i].status # "none" =>
                queue[i].status # "none" \/ i \in batch
          /\ queue'[i].status = "sent" => queue[i].status = "sent"
    BY <1>2, AfterFailureType DEF VarTypes, QueueTypeOK
  <1>4. queue' \in [RowIds -> Entries]
    BY <1>1, <1>3 DEF MarkFailed
  <1>5. abandoned' \subseteq Keys
    BY <1>1 DEF BodyOf, Keyed, VarTypes
  <1>6. VarTypes'
    BY <1>1, <1>4, <1>5 DEF VarTypes, QueueTypeOK, Calls, Spend, FaultKinds
  <1>7. Keyed' /\ OneTask'
    BY <1>3 DEF Keyed, OneTask, VarTypes
  <1>8. SentWasStored' /\ AcceptedIsStored'
    BY <1>3 DEF SentWasStored, AcceptedIsStored, InStatus
  <1> QED
    BY <1>6, <1>7, <1>8

LEMMA CleanupQueueInv == Inv /\ CleanupQueue => Inv'
  <1> SUFFICES ASSUME Inv, CleanupQueue PROVE Inv'
    OBVIOUS
  <1> USE DEF Inv, CleanupQueue, PurgeEntries, agentVars, historyVars
  <1>1. \A i \in RowIds : queue'[i] = queue[i] \/ queue'[i] = NoEntry
    OBVIOUS
  <1>2. queue' \in [RowIds -> Entries]
    BY DEF VarTypes, QueueTypeOK, Entries, NoEntry, Statuses
  <1>3. NoEntry.status = "none"
    BY DEF NoEntry
  <1>4. VarTypes'
    BY <1>2 DEF VarTypes, QueueTypeOK
  <1>5. Keyed' /\ OneTask'
    BY <1>1, <1>3 DEF Keyed, OneTask, AtLoop
  <1>6. SentWasStored' /\ AcceptedIsStored'
    BY <1>1, <1>3 DEF SentWasStored, AcceptedIsStored, InStatus, AtLoop
  <1> QED
    BY <1>4, <1>5, <1>6

LEMMA CleanupDataInv == Inv /\ CleanupData => Inv'
  <1> SUFFICES ASSUME Inv, CleanupData PROVE Inv'
    OBVIOUS
  <1> USE DEF Inv, CleanupData, PurgeRows, agentVars, historyVars
  <1>1. row' \in [RowIds -> Keys \cup {NoKey}] /\ raw' \subseteq Keys
    BY DEF VarTypes, QueueTypeOK
  <1>2. VarTypes'
    BY <1>1 DEF VarTypes, QueueTypeOK
  <1>3. Keyed'
    BY DEF Keyed, AtLoop
  <1> QED
    BY <1>2, <1>3 DEF OneTask, SentWasStored, AcceptedIsStored, InStatus

LEMMA CrashInv == Inv /\ Crash => Inv'
  <1> SUFFICES ASSUME Inv, Crash PROVE Inv'
    OBVIOUS
  <1> USE DEF Inv, Crash, queueVars
  <1>1. BodyOf(batch) \subseteq Keys
    BY DEF BodyOf, Keyed, VarTypes
  <1>2. stranded' \subseteq Keys
    BY DEF VarTypes, Keyed
  <1>3. VarTypes'
    <2>1. used' \in [FaultKinds -> Nat]
      BY DEF VarTypes, Spend, FaultKinds
    <2>2. strays' \subseteq SUBSET Keys
      BY <1>1 DEF VarTypes
    <2> QED
      BY <1>2, <2>1, <2>2 DEF VarTypes, QueueTypeOK, Calls
  <1>4. Keyed'
    BY DEF Keyed
  <1> QED
    BY <1>3, <1>4 DEF OneTask, SentWasStored, AcceptedIsStored, InStatus

LEMMA RestartInv == Inv /\ Restart => Inv'
  <1> SUFFICES ASSUME Inv, Restart PROVE Inv'
    OBVIOUS
  <1> USE DEF Inv, Restart, historyVars
  <1>1. \A i \in RowIds :
          \/ queue'[i] = queue[i]
          \/ queue[i].status = "sending" /\ queue'[i] = Recovered(queue[i])
    BY DEF RecoverSending
  <1>2. \A i \in RowIds :
          /\ queue'[i] \in Entries
          /\ queue'[i].key = queue[i].key
          /\ queue'[i].status = "none" <=> queue[i].status = "none"
          /\ queue'[i].status = "sent" => queue[i].status = "sent"
    BY <1>1, UpdateType DEF VarTypes, QueueTypeOK
  <1>3. queue' \in [RowIds -> Entries]
    BY <1>2 DEF RecoverSending
  <1>4. VarTypes'
    BY <1>3, SendQueueAssumption DEF VarTypes, QueueTypeOK, LastMinute
  <1>5. Keyed' /\ OneTask'
    BY <1>2 DEF Keyed, OneTask, VarTypes
  <1>6. SentWasStored' /\ AcceptedIsStored'
    BY <1>2 DEF SentWasStored, AcceptedIsStored, InStatus, VarTypes
  <1> QED
    BY <1>4, <1>5, <1>6

LEMMA StutterInv == Inv /\ UNCHANGED vars => Inv'
  BY DEF Inv, vars, queueVars, agentVars, historyVars, VarTypes, QueueTypeOK,
         Keyed, OneTask, SentWasStored, AcceptedIsStored, InStatus, LastMinute

LEMMA NextInv == Inv /\ [Next]_vars => Inv'
  BY TickInv, RecordSampleInv, StartAggregationInv, StoreOneInv, EnqueueOneInv,
     BeginSendInv, ServerHandleInv, ServerRefuseInv, TimeoutInv,
     ServerHandleStrayInv, HandleAcceptedInv, HandleFailedInv, CleanupQueueInv,
     CleanupDataInv, CrashInv, RestartInv, StutterInv
  DEF Next, Aggregate, Server

LEMMA InvHolds == Spec => []Inv
  BY InitInv, NextInv, PTL DEF Spec

(* An entry the agent marked 'sent' is one the server stored, whatever is  *)
(* lost, late, retried, restarted or reloaded.                             *)
THEOREM SentIsStored == Spec => []SentWasStored
  BY InvHolds, PTL DEF Inv

-----------------------------------------------------------------------------
(* The entries of the queue fit: what a statement leaves of an entry that  *)
(* did.                                                                    *)

LEMMA UpdatesFit ==
    ASSUME NEW e \in Entries, Fits(e)
    PROVE  /\ Fits(AfterFailure(e)) /\ Fits(AsSent(e)) /\ Fits(Recovered(e))
           /\ Fits(NoEntry) /\ Fits([NoEntry EXCEPT !.status = "pending"])
           /\ e.timer = 0 => Fits(AsSending(e))
           /\ Fits([e EXCEPT !.timer = IF @ > 0 THEN @ - 1 ELSE 0])
  <1>1. /\ e.retries \in Nat /\ e.timer \in Nat /\ e.status \in Statuses
        /\ MaxRetries \in Nat
    BY SendQueueAssumption DEF Entries
  <1>2. Fits(AfterFailure(e))
    <2> DEFINE n == e.retries + 1
               f == AfterFailure(e)
    <2>1. CASE n >= MaxRetries
      <3>1. f.status = "failed" /\ f.retries = n
        BY <2>1 DEF AfterFailure
      <3> QED
        BY <2>1, <3>1 DEF Fits
    <2>2. CASE ~ (n >= MaxRetries)
      <3>1. f.status = "pending" /\ f.retries = n
        BY <2>2 DEF AfterFailure
      <3>2. n \in 1 .. MaxRetries - 1
        BY <1>1, <2>2
      <3> QED
        BY <3>1, <3>2 DEF Fits
    <2> QED
      BY <2>1, <2>2
  <1>3. Fits(AsSent(e)) /\ Fits(Recovered(e))
    <2>1. AsSent(e).status = "sent" /\ Recovered(e).status = "pending"
          /\ Recovered(e).timer = 0
      BY DEF AsSent, Recovered
    <2> QED
      BY <2>1 DEF Fits
  <1>4. Fits(NoEntry) /\ Fits([NoEntry EXCEPT !.status = "pending"])
    BY DEF Fits, NoEntry
  <1>5. ASSUME e.timer = 0 PROVE Fits(AsSending(e))
    <2>1. AsSending(e).status = "sending" /\ AsSending(e).timer = 0
      BY <1>5 DEF AsSending, Entries
    <2> QED
      BY <2>1 DEF Fits
  <1>6. Fits([e EXCEPT !.timer = IF @ > 0 THEN @ - 1 ELSE 0])
    <2> DEFINE t == IF e.timer > 0 THEN e.timer - 1 ELSE 0
               g == [e EXCEPT !.timer = t]
    <2>1. t \in Nat /\ (t > 0 => e.timer > 0) /\ (e.timer = 0 => t = 0)
      BY <1>1
    <2>2. g.status = e.status /\ g.retries = e.retries /\ g.timer = t
      BY DEF Entries
    <2> HIDE DEF t, g
    <2>3. Fits(g)
      BY <2>1, <2>2 DEF Fits
    <2> QED
      BY <2>3 DEF t, g
  <1> QED
    BY <1>2, <1>3, <1>4, <1>5, <1>6

LEMMA NextFits == Inv /\ EntriesFit /\ [Next]_vars => EntriesFit'
  <1> SUFFICES ASSUME Inv, EntriesFit, [Next]_vars, NEW i \in RowIds
               PROVE  Fits(queue'[i])
    BY DEF EntriesFit
  <1>1. queue \in [RowIds -> Entries] /\ queue[i] \in Entries /\ Fits(queue[i])
    BY DEF Inv, VarTypes, QueueTypeOK, EntriesFit
  <1> DEFINE e == queue[i]
  <1>2. /\ Fits(AfterFailure(e)) /\ Fits(AsSent(e)) /\ Fits(Recovered(e))
        /\ Fits(NoEntry) /\ Fits([NoEntry EXCEPT !.status = "pending"])
        /\ e.timer = 0 => Fits(AsSending(e))
        /\ Fits([e EXCEPT !.timer = IF @ > 0 THEN @ - 1 ELSE 0])
    BY <1>1, UpdatesFit
  <1>3. CASE UNCHANGED queue
    BY <1>1, <1>3
  <1>4. CASE Tick
    BY <1>2, <1>4 DEF Tick, AgeEntries
  <1>5. CASE EnqueueOne
    <2> DEFINE new == [NoEntry EXCEPT !.status = "pending", !.key = row[fresh]]
    <2>1. queue'[i] = e \/ queue'[i] = new
      BY <1>1, <1>5 DEF EnqueueOne, Enqueue
    <2>2. new.status = "pending" /\ new.timer = 0
      BY DEF NoEntry
    <2> HIDE DEF new
    <2> QED
      BY <1>1, <2>1, <2>2 DEF Fits
  <1>6. CASE BeginSend
    <2>1. PICK marked \in BOOLEAN : FetchBatch(marked)
      BY <1>6 DEF BeginSend
    <2>2. \/ queue'[i] = e \/ queue'[i] = NoEntry
          \/ i \in Fetched /\ queue'[i] = AsSending(e)
      BY <2>1 DEF FetchBatch
    <2>3. i \in Fetched => e.timer = 0
      BY DEF Fetched, Picked, Oldest
    <2> QED
      BY <1>1, <1>2, <2>2, <2>3
  <1>7. CASE HandleAccepted
    <2>1. queue'[i] = e \/ queue'[i] = AsSent(e)
      BY <1>7 DEF HandleAccepted, MarkSent
    <2> QED
      BY <1>1, <1>2, <2>1
  <1>8. CASE HandleFailed
    <2>1. queue'[i] = e \/ queue'[i] = AfterFailure(e)
      BY <1>8 DEF HandleFailed, MarkFailed
    <2> QED
      BY <1>1, <1>2, <2>1
  <1>9. CASE CleanupQueue
    <2>1. queue'[i] = e \/ queue'[i] = NoEntry
      BY <1>9 DEF CleanupQueue, PurgeEntries
    <2> QED
      BY <1>1, <1>2, <2>1
  <1>10. CASE Restart
    <2>1. queue'[i] = e \/ queue'[i] = Recovered(e)
      BY <1>10 DEF Restart, RecoverSending
    <2> QED
      BY <1>1, <1>2, <2>1
  <1>11. CASE StartAggregation \/ (\E t \in Tasks : StoreOne(t))
    BY <1>3, <1>11 DEF StartAggregation, StoreOne, queueVars
  <1>12. CASE (\E t \in Tasks, m \in Minutes : RecordSample(t, m)) \/ CleanupData
    BY <1>3, <1>12 DEF RecordSample, CleanupData, queueVars
  <1>13. CASE ServerHandle \/ ServerRefuse \/ (\E ks \in strays : ServerHandleStray(ks))
    BY <1>3, <1>13 DEF ServerHandle, ServerRefuse, ServerHandleStray, queueVars
  <1>14. CASE Timeout \/ Crash \/ UNCHANGED vars
    BY <1>3, <1>14 DEF Timeout, Crash, vars, queueVars
  <1> QED
    BY <1>4, <1>5, <1>6, <1>7, <1>8, <1>9, <1>10, <1>11, <1>12, <1>13, <1>14
    DEF Next, Aggregate, Server

(* The variables keep their types, and the entries of the queue fit: for   *)
(* any number of attempts, no failure, recovery or ageing leaves one given *)
(* up on with attempts left, or waiting with none.                         *)
THEOREM TypeCorrect == Spec => []TypeOK
  <1>1. Init => EntriesFit
    BY DEF Init, QueueInit, EntriesFit, Fits, NoEntry
  <1> QED
    BY <1>1, InvHolds, NextFits, PTL DEF Spec, Inv, TypeOK

-----------------------------------------------------------------------------
(* Row ids, rows and queue entries                                         *)

(* The UNIQUE constraint of the aggregate table.                           *)
RowKeysDiffer ==
    \A i, j \in RowIds : row[i] # NoKey /\ row[i] = row[j] => i = j

(* An entry whose row exists carries the key of that row: ids are not      *)
(* handed out twice.                                                       *)
EntryOfRow ==
    \A i \in RowIds :
        row[i] # NoKey /\ queue[i].status # "none" => queue[i].key = row[i]

IdsAheadUnused ==
    \A i \in RowIds :
        i >= nextRow => row[i] = NoKey /\ queue[i].status = "none"

FreshUnqueued ==
    fresh # NoRow => fresh < nextRow /\ queue[fresh].status = "none"

(* The rows of a batch stay while the main loop waits for the response.    *)
BatchHasRows == \A i \in batch : row[i] # NoKey

RowInv == RowKeysDiffer /\ EntryOfRow /\ IdsAheadUnused /\ FreshUnqueued
          /\ BatchHasRows

LEMMA InitRowInv == Init => RowInv
  BY DEF Init, RowInv, RowKeysDiffer, EntryOfRow, IdsAheadUnused,
         FreshUnqueued, BatchHasRows, QueueInit, NoEntry

(* What every step but StoreOne and EnqueueOne does to rows and entries:   *)
(* none appears, none changes its key.                                     *)
Quiet ==
    /\ \A i \in RowIds : row'[i] = row[i] \/ row'[i] = NoKey
    /\ nextRow' = nextRow
    /\ \A i \in RowIds :
          queue'[i].status # "none" =>
              queue[i].status # "none" /\ queue'[i].key = queue[i].key
    /\ fresh' = fresh \/ fresh' = NoRow
    /\ \A i \in batch' : row'[i] # NoKey

(* And what those steps do not lose.                                       *)
Keeps ==
    /\ produced' = produced
    /\ stored \subseteq stored'
    /\ abandoned \subseteq abandoned'
    /\ stranded \subseteq stranded'
    /\ \A i \in RowIds : Deliverable(i) =>
          \/ Deliverable(i)' /\ queue'[i].key = queue[i].key
          \/ queue[i].key \in stored' \cup abandoned'
    /\ fresh # NoRow =>
          \/ fresh' = fresh /\ row'[fresh] = row[fresh]
          \/ row[fresh] \in stranded'

LEMMA QuietKeepsRowInv ==
    ASSUME Inv, RowInv, Quiet
    PROVE  RowInv'
  <1>1. RowKeysDiffer'
    BY DEF Quiet, RowInv, RowKeysDiffer
  <1>2. EntryOfRow'
    BY DEF Quiet, RowInv, EntryOfRow
  <1>3. IdsAheadUnused'
    BY DEF Quiet, RowInv, IdsAheadUnused
  <1>4. FreshUnqueued'
    BY DEF Quiet, RowInv, FreshUnqueued, Inv, VarTypes
  <1>5. BatchHasRows'
    BY DEF Quiet, BatchHasRows
  <1> QED
    BY <1>1, <1>2, <1>3, <1>4, <1>5 DEF RowInv

LEMMA KeepsKeepsAll ==
    ASSUME NothingVanishes, Keeps
    PROVE  NothingVanishes'
  <1> SUFFICES ASSUME NEW k \in produced
               PROVE  \/ k \in stored' \cup abandoned' \cup stranded'
                      \/ \E i \in RowIds : Deliverable(i)' /\ queue'[i].key = k
                      \/ fresh' # NoRow /\ row'[fresh'] = k
    BY DEF Keeps, NothingVanishes
  <1>1. CASE k \in stored \cup abandoned \cup stranded
    BY <1>1 DEF Keeps
  <1>2. CASE \E i \in RowIds : Deliverable(i) /\ queue[i].key = k
    BY <1>2 DEF Keeps
  <1>3. CASE fresh # NoRow /\ row[fresh] = k
    BY <1>3 DEF Keeps
  <1> QED
    BY <1>1, <1>2, <1>3 DEF NothingVanishes

-----------------------------------------------------------------------------
(* Steps that touch neither rows nor entries, and may only add to stored.  *)
Aside ==
    /\ UNCHANGED <<queueVars, historyVars>>
    /\ fresh' = fresh
    /\ batch' = batch
    /\ stored \subseteq stored'

LEMMA AsideQuiet ==
    ASSUME RowInv, Aside
    PROVE  Quiet /\ Keeps
  BY DEF Aside, RowInv, BatchHasRows, Quiet, Keeps, Deliverable, queueVars,
         historyVars

LEMMA AsideActions ==
    ASSUME \/ \E t \in Tasks, m \in Minutes : RecordSample(t, m)
           \/ StartAggregation
           \/ Server
           \/ Timeout
           \/ UNCHANGED vars
    PROVE  Aside
  <1>1. CASE \E t \in Tasks, m \in Minutes : RecordSample(t, m)
    BY <1>1 DEF RecordSample, Aside, agentVars
  <1>2. CASE StartAggregation
    BY <1>2 DEF StartAggregation, Aside
  <1>3. CASE Server
    BY <1>3 DEF Server, ServerHandle, ServerRefuse, ServerHandleStray,
                StoreMetrics, Aside, agentVars
  <1>4. CASE Timeout
    BY <1>4 DEF Timeout, Aside
  <1>5. CASE UNCHANGED vars
    BY <1>5 DEF vars, Aside, agentVars
  <1> QED
    BY <1>1, <1>2, <1>3, <1>4, <1>5

(* Steps that rewrite entries and leave the rows alone.                    *)
LEMMA TickQuiet ==
    ASSUME Inv, RowInv, Tick
    PROVE  Quiet /\ Keeps
  <1>1. \A i \in RowIds : /\ queue'[i].status = queue[i].status
                          /\ queue'[i].key = queue[i].key
    BY DEF Tick, AgeEntries, Inv, VarTypes, QueueTypeOK, Entries
  <1> QED
    BY <1>1 DEF Tick, agentVars, historyVars, RowInv, BatchHasRows, Quiet,
                Keeps, Deliverable

LEMMA BeginSendQuiet ==
    ASSUME Inv, RowInv, BeginSend
    PROVE  Quiet /\ Keeps
  <1>1. PICK marked \in BOOLEAN : FetchBatch(marked)
    BY DEF BeginSend
  <1>2. ASSUME NEW i \in RowIds
        PROVE  /\ queue'[i].status # "none" =>
                      queue[i].status # "none" /\ queue'[i].key = queue[i].key
               /\ Deliverable(i) =>
                      queue'[i].key = queue[i].key
                      /\ queue'[i].status \in {"pending", "sending"}
    <2>1. queue[i] \in Entries
      BY DEF Inv, VarTypes, QueueTypeOK
    <2>2. i \in Picked => queue[i].status = "pending"
      BY DEF Picked, Oldest, InStatus
    <2>3. CASE i \in Dangling
      <3>1. queue'[i] = NoEntry /\ row[i] = NoKey
        BY <1>1, <2>3 DEF FetchBatch, Dangling, Fetched
      <3> QED
        BY <3>1 DEF NoEntry, Deliverable
    <2>4. CASE i \in Fetched /\ marked
      <3>1. queue'[i] = AsSending(queue[i])
        BY <1>1, <2>4 DEF FetchBatch, Dangling
      <3> QED
        BY <2>1, <2>2, <2>4, <3>1, UpdateType DEF Fetched
    <2>5. CASE i \notin Dangling /\ ~(i \in Fetched /\ marked)
      <3>1. queue'[i] = queue[i]
        BY <1>1, <2>5 DEF FetchBatch
      <3> QED
        BY <3>1 DEF Deliverable
    <2> QED
      BY <2>3, <2>4, <2>5
  <1>3. \A i \in batch' : row[i] # NoKey
    BY DEF BeginSend, Fetched
  <1>4. UNCHANGED <<row, nextRow, fresh, stored, historyVars>>
    BY DEF BeginSend
  <1>5. Quiet
    BY <1>2, <1>3, <1>4 DEF Quiet
  <1>6. Keeps
    BY <1>2, <1>4 DEF Keeps, Deliverable, historyVars
  <1> QED
    BY <1>5, <1>6

(* A response was 200: the entries that turn 'sent' are of stored metrics. *)
LEMMA HandleAcceptedQuiet ==
    ASSUME Inv, RowInv, HandleAccepted
    PROVE  Quiet /\ Keeps
  <1>1. queue' = queue \/ MarkSent(batch)
    BY DEF HandleAccepted
  <1>2. \A i \in batch : queue[i].status # "none" /\ queue[i].key \in stored
    BY DEF Inv, Keyed, AcceptedIsStored, HandleAccepted
  <1>3. ASSUME NEW i \in RowIds
        PROVE  /\ queue'[i].key = queue[i].key
               /\ queue'[i].status # "none" => queue[i].status # "none"
               /\ queue'[i].status = queue[i].status \/ queue[i].key \in stored
    <2>1. queue[i] \in Entries
      BY DEF Inv, VarTypes, QueueTypeOK
    <2>2. \/ queue'[i] = queue[i]
          \/ i \in batch /\ queue'[i] = AsSent(queue[i])
      BY <1>1 DEF MarkSent
    <2> QED
      BY <1>2, <2>1, <2>2, UpdateType
  <1>4. /\ UNCHANGED <<row, nextRow, fresh, stored, historyVars>>
        /\ batch' = {}
    BY DEF HandleAccepted
  <1>5. Quiet
    BY <1>3, <1>4 DEF Quiet
  <1>6. Keeps
    BY <1>3, <1>4 DEF Keeps, Deliverable, historyVars
  <1> QED
    BY <1>5, <1>6

(* An attempt failed: an entry stays pending or its metric is abandoned.   *)
LEMMA HandleFailedQuiet ==
    ASSUME Inv, RowInv, HandleFailed
    PROVE  Quiet /\ Keeps
  <1>1. PICK S \in SUBSET batch :
          /\ MarkFailed(S)
          /\ abandoned' = abandoned \cup
               BodyOf({i \in S : AfterFailure(queue[i]).status = "failed"})
    BY DEF HandleFailed
  <1>2. ASSUME NEW i \in RowIds
        PROVE  /\ queue'[i].key = queue[i].key
               /\ queue'[i].status # "none" => queue[i].status # "none"
               /\ \/ queue'[i].status = queue[i].status
                  \/ queue'[i].status = "pending"
                  \/ queue[i].key \in abandoned'
    <2>1. queue[i] \in Entries /\ (i \in batch => queue[i].status # "none")
      BY DEF Inv, VarTypes, QueueTypeOK, Keyed
    <2>2. CASE i \in S
      <3>1. queue'[i] = AfterFailure(queue[i])
        BY <1>1, <2>2 DEF MarkFailed
      <3>2. queue'[i].status = "failed" => queue[i].key \in abandoned'
        BY <1>1, <2>2, <3>1 DEF BodyOf
      <3> QED
        BY <2>1, <2>2, <3>1, <3>2, AfterFailureType
    <2>3. CASE i \notin S
      BY <1>1, <2>3 DEF MarkFailed
    <2> QED
      BY <2>2, <2>3
  <1>3. /\ UNCHANGED <<row, nextRow, fresh, stored, produced, stranded>>
        /\ batch' = {}
        /\ abandoned \subseteq abandoned'
    BY <1>1 DEF HandleFailed
  <1>4. Quiet
    BY <1>2, <1>3 DEF Quiet
  <1>5. Keeps
    BY <1>2, <1>3 DEF Keeps, Deliverable
  <1> QED
    BY <1>4, <1>5

(* The cleanup of the queue removes sent and failed entries only.          *)
LEMMA CleanupQueueQuiet ==
    ASSUME Inv, RowInv, CleanupQueue
    PROVE  Quiet /\ Keeps
  <1>1. \A i \in RowIds :
          \/ queue'[i] = queue[i]
          \/ /\ queue'[i].status = "none"
             /\ queue[i].status \in {"sent", "failed"}
    BY DEF CleanupQueue, PurgeEntries, Expired, InStatus, NoEntry
  <1>2. UNCHANGED <<row, nextRow, fresh, batch, stored, historyVars>>
    BY DEF CleanupQueue, agentVars
  <1>3. Quiet
    BY <1>1, <1>2 DEF Quiet, RowInv, BatchHasRows
  <1>4. Keeps
    BY <1>1, <1>2 DEF Keeps, Deliverable, historyVars
  <1> QED
    BY <1>3, <1>4

(* The retention removes no row of an entry that is still to be sent, and  *)
(* it does not run while a batch is out or a row waits to be queued.       *)
LEMMA CleanupDataQuiet ==
    ASSUME Inv, RowInv, CleanupData
    PROVE  Quiet /\ Keeps
  <1>1. PICK cutoff \in 1 .. now : PurgeRows(cutoff)
    BY DEF CleanupData
  <1>2. \A i \in RowIds :
          \/ row'[i] = row[i]
          \/ row'[i] = NoKey /\ queue[i].status \in {"none", "sent"}
    BY <1>1 DEF PurgeRows, Deletable
  <1>3. /\ UNCHANGED <<nextRow, queue, fresh, batch, stored, historyVars>>
        /\ fresh = NoRow /\ batch = {}
    BY DEF CleanupData, agentVars, AtLoop, Inv, OneTask
  <1>4. Quiet
    BY <1>2, <1>3 DEF Quiet
  <1>5. Keeps
    BY <1>2, <1>3 DEF Keeps, Deliverable, historyVars
  <1> QED
    BY <1>4, <1>5

LEMMA CrashQuiet ==
    ASSUME Inv, RowInv, Crash
    PROVE  Quiet /\ Keeps
  BY DEF Crash, queueVars, Quiet, Keeps, Deliverable

LEMMA RestartQuiet ==
    ASSUME Inv, RowInv, Restart
    PROVE  Quiet /\ Keeps
  <1>1. ASSUME NEW i \in RowIds
        PROVE  /\ queue'[i].key = queue[i].key
               /\ \/ queue'[i].status = queue[i].status
                  \/ /\ queue[i].status = "sending"
                     /\ queue'[i].status = "pending"
    <2>1. queue[i] \in Entries
      BY DEF Inv, VarTypes, QueueTypeOK
    <2>2. \/ queue'[i] = queue[i]
          \/ queue[i].status = "sending" /\ queue'[i] = Recovered(queue[i])
      BY DEF Restart, RecoverSending
    <2> QED
      BY <2>1, <2>2, UpdateType
  <1>2. UNCHANGED <<row, nextRow, fresh, batch, stored, historyVars>>
    BY DEF Restart
  <1>3. Quiet
    BY <1>1, <1>2 DEF Quiet, RowInv, BatchHasRows
  <1>4. Keeps
    BY <1>1, <1>2 DEF Keeps, Deliverable, historyVars
  <1> QED
    BY <1>3, <1>4

-----------------------------------------------------------------------------
(* A new row: its id is unused, and the row of the key it replaces goes.   *)
LEMMA StoreOneRowInv ==
    ASSUME Inv, RowInv, NothingVanishes, NEW t \in Tasks, StoreOne(t)
    PROVE  RowInv' /\ NothingVanishes'
  <1> DEFINE k == <<t, lastAgg - 1>>
  <1>1. k \in Keys /\ k # NoKey
    BY NoKeyIsNoKey DEF StoreOne, Inv, Keyed
  <1>2. /\ nextRow \in RowIds
        /\ nextRow' = nextRow + 1
        /\ nextRow \in Nat
        /\ nextRow # NoRow
    BY SendQueueAssumption
       DEF StoreOne, StoreAggregate, RowIds, Inv, VarTypes, QueueTypeOK, NoRow
  <1>3. \A i \in RowIds : row'[i] = IF i = nextRow THEN k
                                    ELSE IF row[i] = k THEN NoKey ELSE row[i]
    BY DEF StoreOne, StoreAggregate
  <1>4. /\ fresh = NoRow /\ fresh' = nextRow
        /\ batch = {} /\ batch' = {}
        /\ produced' = produced \cup {k}
        /\ UNCHANGED <<queue, stored, abandoned, stranded>>
    BY DEF StoreOne, Inv, OneTask
  <1> HIDE DEF k
  <1>5. row[nextRow] = NoKey /\ queue[nextRow].status = "none"
    BY <1>2 DEF RowInv, IdsAheadUnused
  <1>6. RowKeysDiffer'
    BY <1>1, <1>3 DEF RowInv, RowKeysDiffer
  <1>7. EntryOfRow'
    BY <1>3, <1>4, <1>5 DEF RowInv, EntryOfRow
  <1>8. IdsAheadUnused'
    <2> SUFFICES ASSUME NEW i \in RowIds, i >= nextRow + 1
                 PROVE  row'[i] = NoKey /\ queue'[i].status = "none"
      BY <1>2 DEF IdsAheadUnused
    <2>1. i >= nextRow /\ i # nextRow
      BY <1>2 DEF RowIds
    <2> QED
      BY <1>3, <1>4, <2>1 DEF RowInv, IdsAheadUnused
  <1>9. FreshUnqueued' /\ BatchHasRows'
    BY <1>2, <1>4, <1>5 DEF FreshUnqueued, BatchHasRows
  <1>10. NothingVanishes'
    <2> SUFFICES ASSUME NEW l \in produced \cup {k}
                 PROVE  \/ l \in stored \cup abandoned \cup stranded
                        \/ \E i \in RowIds :
                              Deliverable(i)' /\ queue'[i].key = l
                        \/ row'[nextRow] = l
      BY <1>2, <1>4 DEF NothingVanishes
    <2>1. CASE l = k
      BY <1>2, <1>3, <2>1
    <2>2. CASE l # k /\ l \in produced
      <3>1. ASSUME NEW i \in RowIds, Deliverable(i), queue[i].key = l
            PROVE  Deliverable(i)' /\ queue'[i].key = l
        <4>1. row[i] = l
          BY <3>1 DEF Deliverable, RowInv, EntryOfRow
        <4>2. row'[i] = row[i]
          BY <1>3, <1>5, <2>2, <3>1, <4>1 DEF Deliverable
        <4> QED
          BY <1>4, <3>1, <4>2 DEF Deliverable
      <3> QED
        BY <1>4, <2>2, <3>1 DEF NothingVanishes
    <2> QED
      BY <2>1, <2>2
  <1> QED
    BY <1>6, <1>7, <1>8, <1>9, <1>10 DEF RowInv

(* The row gets its entry.                                                 *)
LEMMA EnqueueOneRowInv ==
    ASSUME Inv, RowInv, NothingVanishes, EnqueueOne
    PROVE  RowInv' /\ NothingVanishes'
  <1>1. /\ fresh \in RowIds /\ fresh # NoRow /\ fresh < nextRow
        /\ row[fresh] \in Keys /\ row[fresh] # NoKey
        /\ queue[fresh].status = "none"
    BY NoKeyIsNoKey DEF EnqueueOne, Inv, VarTypes, Keyed, RowInv, FreshUnqueued
  <1>2. \A i \in RowIds : i # fresh => queue'[i] = queue[i]
    BY <1>1 DEF EnqueueOne, Enqueue, Inv, VarTypes, QueueTypeOK
  <1>3. queue'[fresh].status = "pending" /\ queue'[fresh].key = row[fresh]
    BY <1>1 DEF EnqueueOne, Enqueue, Inv, VarTypes, QueueTypeOK, NoEntry
  <1>4. /\ UNCHANGED <<row, nextRow, stored, historyVars>>
        /\ fresh' = NoRow
        /\ batch = {} /\ batch' = {}
    BY <1>1 DEF EnqueueOne, Inv, OneTask
  <1>5. RowKeysDiffer'
    BY <1>4 DEF RowInv, RowKeysDiffer
  <1>6. EntryOfRow'
    BY <1>2, <1>3, <1>4 DEF RowInv, EntryOfRow
  <1>7. IdsAheadUnused'
    <2>1. \A i \in RowIds : i >= nextRow => i # fresh
      BY <1>1 DEF Inv, VarTypes, QueueTypeOK, RowIds
    <2> QED
      BY <1>2, <1>4, <2>1 DEF RowInv, IdsAheadUnused
  <1>8. FreshUnqueued' /\ BatchHasRows'
    BY <1>4 DEF FreshUnqueued, BatchHasRows
  <1>9. NothingVanishes'
    <2>1. ASSUME NEW i \in RowIds, Deliverable(i)
          PROVE  Deliverable(i)' /\ queue'[i].key = queue[i].key
      <3>1. i # fresh
        BY <1>1, <2>1 DEF Deliverable
      <3> QED
        BY <1>2, <1>4, <2>1, <3>1 DEF Deliverable
    <2>2. ASSUME NEW i \in RowIds, i = fresh
          PROVE  Deliverable(i)' /\ queue'[i].key = row[fresh]
      BY <1>1, <1>3, <1>4, <2>2 DEF Deliverable
    <2> QED
      BY <1>1, <1>4, <2>1, <2>2 DEF NothingVanishes, historyVars
  <1> QED
    BY <1>5, <1>6, <1>7, <1>8, <1>9 DEF RowInv

LEMMA NextRowInv ==
    ASSUME Inv, RowInv, NothingVanishes, [Next]_vars
    PROVE  RowInv' /\ NothingVanishes'
  <1>1. CASE Quiet /\ Keeps
    BY <1>1, QuietKeepsRowInv, KeepsKeepsAll
  <1>2. CASE \E t \in Tasks : StoreOne(t)
    BY <1>2, StoreOneRowInv
  <1>3. CASE EnqueueOne
    BY <1>3, EnqueueOneRowInv
  <1>4. CASE ~((\E t \in Tasks : StoreOne(t)) \/ EnqueueOne)
    <2>1. \/ Aside
          \/ Tick \/ BeginSend \/ HandleAccepted \/ HandleFailed
          \/ CleanupQueue \/ CleanupData \/ Crash \/ Restart
      BY <1>4, AsideActions DEF Next, Aggregate
    <2>2. Quiet /\ Keeps
      BY <2>1, AsideQuiet, TickQuiet, BeginSendQuiet, HandleAcceptedQuiet,
         HandleFailedQuiet, CleanupQueueQuiet, CleanupDataQuiet, CrashQuiet,
         RestartQuiet
    <2> QED
      BY <1>1, <2>2
  <1> QED
    BY <1>2, <1>3, <1>4

LEMMA SafetyHolds == Spec => [](RowInv /\ NothingVanishes)
  <1>1. Init => RowInv /\ NothingVanishes
    BY InitRowInv DEF Init, NothingVanishes
  <1>2. Inv /\ RowInv /\ NothingVanishes /\ [Next]_vars
           => (RowInv /\ NothingVanishes)'
    BY NextRowInv
  <1> QED
    BY <1>1, <1>2, InvHolds, PTL DEF Spec

(* No metric that was aggregated vanishes: it is stored, given up on, was  *)
(* not yet queued when the agent was killed, or has an entry that will be  *)
(* sent, whatever rows are replaced, entries removed and data cleaned up.  *)
THEOREM NothingEverVanishes == Spec => []NothingVanishes
  BY SafetyHolds, PTL

(* The metrics of a request differ in their key.                           *)
THEOREM BatchesHaveNoDuplicates == Spec => []BatchKeysDiffer
  <1>1. Inv /\ RowInv => BatchKeysDiffer
    <2> SUFFICES ASSUME Inv, RowInv, NEW i \in batch, NEW j \in batch,
                        queue[i].key = queue[j].key
                 PROVE  i = j
      BY DEF BatchKeysDiffer
    <2>1. /\ i \in RowIds /\ j \in RowIds
          /\ queue[i].status # "none" /\ queue[j].status # "none"
          /\ row[i] # NoKey /\ row[j] # NoKey
      BY DEF Inv, VarTypes, Keyed, RowInv, BatchHasRows
    <2>2. row[i] = row[j]
      BY <2>1 DEF RowInv, EntryOfRow
    <2> QED
      BY <2>1, <2>2 DEF RowInv, RowKeysDiffer
  <1> QED
    BY <1>1, InvHolds, SafetyHolds, PTL

-----------------------------------------------------------------------------
(* Which entries are in 'sending'                                          *)

LEMMA SpendIsForEver ==
    ASSUME Inv, [Next]_vars, used'["dberror"] = 0
    PROVE  used["dberror"] = 0
  <1>1. used \in [FaultKinds -> Nat]
    BY DEF Inv, VarTypes
  <1>2. ASSUME NEW f \in FaultKinds, Spend(f) PROVE used["dberror"] = 0
    BY <1>1, <1>2 DEF Spend, FaultKinds
  <1>3. UNCHANGED used \/ \E f \in FaultKinds : Spend(f)
    BY DEF Next, Tick, RecordSample, Aggregate, StartAggregation, StoreOne,
           EnqueueOne, BeginSend, Server, ServerHandle, ServerRefuse,
           ServerHandleStray, Timeout, HandleAccepted, ReloadScheduler,
           HandleFailed, CleanupQueue, CleanupData, Crash, Restart, vars,
           FaultKinds
  <1> QED
    BY <1>2, <1>3

LEMMA NextSending ==
    ASSUME Inv, SendingIsInFlight, [Next]_vars
    PROVE  SendingIsInFlight'
  <1> SUFFICES ASSUME up', used'["dberror"] = 0
               PROVE  InStatus("sending")' = batch'
    BY DEF SendingIsInFlight
  <1>1. used["dberror"] = 0
    BY SpendIsForEver
  <1>2. ~Spend("dberror")
    BY DEF Spend, Inv, VarTypes, FaultKinds
  <1>3. queue \in [RowIds -> Entries] /\ batch \subseteq RowIds
    BY DEF Inv, VarTypes, QueueTypeOK
  <1>4. CASE Aside /\ up' = up
    BY <1>1, <1>4 DEF Aside, queueVars, SendingIsInFlight, InStatus
  <1>5. CASE Tick
    <2>1. \A i \in RowIds : queue'[i].status = queue[i].status
      BY <1>3, <1>5 DEF Tick, AgeEntries, Entries
    <2> QED
      BY <1>1, <1>5, <2>1 DEF Tick, agentVars, SendingIsInFlight, InStatus
  <1>6. CASE \E t \in Tasks : StoreOne(t)
    BY <1>1, <1>6 DEF StoreOne, SendingIsInFlight, InStatus
  <1>7. CASE EnqueueOne
    <2>1. \A i \in RowIds : queue'[i] = queue[i]
                           \/ /\ queue[i].status = "none"
                              /\ queue'[i].status = "pending"
      BY <1>3, <1>7 DEF EnqueueOne, Enqueue, NoEntry
    <2> QED
      BY <1>1, <1>7, <2>1 DEF EnqueueOne, SendingIsInFlight, InStatus
  <1>8. CASE BeginSend
    <2>1. FetchBatch(TRUE) /\ batch' = Fetched
      BY <1>2, <1>8 DEF BeginSend
    <2>2. InStatus("sending") = {}
      BY <1>1, <1>8 DEF BeginSend, AtLoop, Inv, OneTask, SendingIsInFlight
    <2>3. ASSUME NEW i \in RowIds
          PROVE  queue'[i].status = "sending" <=> i \in Fetched
      <3>1. queue[i] \in Entries /\ queue[i].status # "sending"
        BY <1>3, <2>2 DEF InStatus
      <3>2. CASE i \in Dangling
        BY <2>1, <3>2 DEF FetchBatch, NoEntry, Dangling
      <3>3. CASE i \in Fetched
        BY <2>1, <3>1, <3>3, UpdateType DEF FetchBatch, Dangling
      <3>4. CASE i \notin Dangling /\ i \notin Fetched
        BY <2>1, <3>1, <3>4 DEF FetchBatch
      <3> QED
        BY <3>2, <3>3, <3>4
    <2>4. Fetched \subseteq RowIds
      BY DEF Fetched, Picked, Oldest, InStatus
    <2> QED
      BY <2>1, <2>3, <2>4 DEF InStatus
  <1>9. CASE HandleAccepted
    <2>1. MarkSent(batch) /\ batch' = {} /\ up' = up
      BY <1>2, <1>9 DEF HandleAccepted
    <2>2. \A i \in RowIds : queue'[i].status # "sending"
      BY <1>1, <1>3, <2>1, UpdateType
         DEF MarkSent, SendingIsInFlight, InStatus
    <2> QED
      BY <2>1, <2>2 DEF InStatus
  <1>10. CASE HandleFailed
    <2>1. MarkFailed(batch) /\ batch' = {} /\ up' = up
      BY <1>2, <1>10 DEF HandleFailed
    <2>2. \A i \in RowIds : queue'[i].status # "sending"
      BY <1>1, <1>3, <2>1, AfterFailureType
         DEF MarkFailed, SendingIsInFlight, InStatus
    <2> QED
      BY <2>1, <2>2 DEF InStatus
  <1>11. CASE CleanupQueue
    <2>1. \A i \in RowIds :
            queue'[i].status = "sending" <=> queue[i].status = "sending"
      BY <1>11 DEF CleanupQueue, PurgeEntries, Expired, InStatus, NoEntry
    <2> QED
      BY <1>1, <1>11, <2>1
         DEF CleanupQueue, agentVars, SendingIsInFlight, InStatus
  <1>12. CASE CleanupData
    BY <1>1, <1>12 DEF CleanupData, agentVars, SendingIsInFlight, InStatus
  <1>13. CASE Crash
    BY <1>13 DEF Crash
  <1>14. CASE Restart
    <2>1. batch' = {}
      BY <1>14 DEF Restart, Inv, OneTask
    <2>2. \A i \in RowIds : queue'[i].status # "sending"
      BY <1>3, <1>14, UpdateType DEF Restart, RecoverSending
    <2> QED
      BY <2>1, <2>2 DEF InStatus
  <1>15. CASE Server \/ Timeout \/ UNCHANGED vars \/ StartAggregation
              \/ \E t \in Tasks, m \in Minutes : RecordSample(t, m)
    <2>1. Aside
      BY <1>15, AsideActions
    <2>2. up' = up
      BY <1>15 DEF Server, ServerHandle, ServerRefuse, ServerHandleStray,
                   Timeout, StartAggregation, RecordSample, vars, agentVars
    <2> QED
      BY <1>4, <2>1, <2>2
  <1> QED
    BY <1>5, <1>6, <1>7, <1>8, <1>9, <1>10, <1>11, <1>12, <1>13, <1>14, <1>15
       DEF Next, Aggregate

(* While the agent runs and no UPDATE of its database has failed, the      *)
(* entries in 'sending' are those of the request it waits for.             *)
THEOREM SendingIsAlwaysInFlight == Spec => []SendingIsInFlight
  <1>1. Init => SendingIsInFlight
    BY DEF Init, QueueInit, NoEntry, SendingIsInFlight, InStatus
  <1>2. Inv /\ SendingIsInFlight /\ [Next]_vars => SendingIsInFlight'
    BY NextSending
  <1> QED
    BY <1>1, <1>2, InvHolds, PTL DEF Spec
=============================================================================
