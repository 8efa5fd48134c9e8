----------------------- MODULE DeliveryContractProofs -----------------------
(***************************************************************************)
(* MetricDelivery implements DeliveryContract, for all values of its       *)
(* constants: every step of the agent, of the server and of what comes     *)
(* between them is a step of the contract or leaves its variables alone.   *)
(* And what holds as long as the server is only unavailable: nothing is    *)
(* lost and nothing sent twice.                                            *)
(***************************************************************************)
EXTENDS MetricDeliveryProofs

(* Nothing comes from nowhere: the key of a row, of an entry and of a      *)
(* request under way was aggregated.                                       *)
Sourced ==
    /\ \A i \in RowIds : row[i] # NoKey => row[i] \in produced
    /\ \A i \in RowIds : queue[i].status # "none" => queue[i].key \in produced
    /\ \A ks \in strays : ks \subseteq produced

(* What is being sent is owed: an entry of the batch is pending or sending *)
(* until the answer is handled.                                            *)
BatchOwed == \A i \in batch : queue[i].status \in {"pending", "sending"}

(* The invariant the refinement rests on.                                  *)
ContractInv == Inv /\ RowInv /\ Sourced /\ BatchOwed

(* A key is owed by an entry that can be fetched, or by the fresh row.     *)
LEMMA OwedMembers ==
    ASSUME NEW k
    PROVE  k \in Owed <=>
              \/ \E i \in RowIds : Deliverable(i) /\ queue[i].key = k
              \/ fresh # NoRow /\ row[fresh] = k
  BY DEF Owed, BodyOf

LEMMA OwedMembersNext ==
    ASSUME NEW k
    PROVE  k \in Owed' <=>
              \/ \E i \in RowIds : Deliverable(i)' /\ queue'[i].key = k
              \/ fresh' # NoRow /\ row'[fresh'] = k
  BY DEF Owed, BodyOf

(* The request at hand carries what was aggregated.                        *)
LEMMA BodySourced ==
    ASSUME Inv, Sourced
    PROVE  BodyOf(batch) \subseteq produced
  BY DEF Inv, VarTypes, Keyed, Sourced, BodyOf

-----------------------------------------------------------------------------
(* Sourced is inductive.                                                   *)

LEMMA QuietKeepsSourced ==
    ASSUME Sourced, Quiet, produced \subseteq produced',
           strays' = strays \/ strays' = strays \cup {BodyOf(batch)}
             \/ \E ks \in strays : strays' = strays \ {ks},
           BodyOf(batch) \subseteq produced
    PROVE  Sourced'
  BY DEF Sourced, Quiet

LEMMA StraysAndHistory ==
    ASSUME [Next]_vars
    PROVE  /\ produced \subseteq produced'
           /\ \/ strays' = strays
              \/ strays' = strays \cup {BodyOf(batch)}
              \/ \E ks \in strays : strays' = strays \ {ks}
  BY DEF Next, Tick, RecordSample, Aggregate, StartAggregation, StoreOne,
         EnqueueOne, BeginSend, Server, ServerHandle, ServerRefuse,
         ServerHandleStray, Timeout, HandleAccepted, HandleFailed,
         CleanupQueue, CleanupData, Crash, Restart, vars, historyVars

(* All steps but two are Quiet (MetricDeliveryProofs).                     *)
LEMMA QuietSteps ==
    ASSUME Inv, RowInv, [Next]_vars,
           ~(\E t \in Tasks : StoreOne(t)), ~EnqueueOne
    PROVE  Quiet
  <1>1. \/ Aside
        \/ Tick \/ BeginSend \/ HandleAccepted \/ HandleFailed
        \/ CleanupQueue \/ CleanupData \/ Crash \/ Restart
    BY AsideActions DEF Next, Aggregate
  <1> QED
    BY <1>1, AsideQuiet, TickQuiet, BeginSendQuiet, HandleAcceptedQuiet,
       HandleFailedQuiet, CleanupQueueQuiet, CleanupDataQuiet, CrashQuiet,
       RestartQuiet

LEMMA NextSourced ==
    ASSUME Inv, RowInv, Sourced, [Next]_vars
    PROVE  Sourced'
  <1>1. CASE \E t \in Tasks : StoreOne(t)
    <2>1. PICK t \in Tasks : StoreOne(t)
      BY <1>1
    <2>2. \A i \in RowIds :
             row'[i] \in {row[i], NoKey, <<t, lastAgg - 1>>}
      BY <2>1 DEF StoreOne, StoreAggregate
    <2>3. produced' = produced \cup {<<t, lastAgg - 1>>}
          /\ UNCHANGED <<queue, strays>>
      BY <2>1 DEF StoreOne
    <2> QED
      BY <2>2, <2>3 DEF Sourced
  <1>2. CASE EnqueueOne
    <2>1. /\ fresh \in RowIds /\ row[fresh] # NoKey
      BY <1>2, NoKeyIsNoKey DEF EnqueueOne, Inv, VarTypes, Keyed
    <2>2. \A i \in RowIds :
             \/ queue'[i] = queue[i]
             \/ queue'[i].key = row[fresh]
      BY <1>2 DEF EnqueueOne, Enqueue, Inv, VarTypes, QueueTypeOK, NoEntry
    <2>3. UNCHANGED <<row, strays, produced>>
      BY <1>2 DEF EnqueueOne, historyVars
    <2> QED
      BY <2>1, <2>2, <2>3 DEF Sourced
  <1>3. CASE ~(\E t \in Tasks : StoreOne(t)) /\ ~EnqueueOne
    BY <1>3, QuietSteps, QuietKeepsSourced, StraysAndHistory, BodySourced
  <1> QED
    BY <1>1, <1>2, <1>3

(* While a batch is out nothing but the clock touches its entries.         *)
LEMMA NextBatchOwed ==
    ASSUME Inv, BatchOwed, [Next]_vars
    PROVE  BatchOwed'
  <1>1. CASE batch' = {}
    BY <1>1 DEF BatchOwed
  <1>2. CASE Tick
    <2>1. batch' = batch /\ batch \subseteq RowIds
      BY <1>2 DEF Tick, agentVars, Inv, VarTypes
    <2>2. \A i \in RowIds : queue'[i].status = queue[i].status
      BY <1>2 DEF Tick, AgeEntries, Inv, VarTypes, QueueTypeOK, Entries
    <2> QED
      BY <2>1, <2>2 DEF BatchOwed
  <1>3. CASE BeginSend
    <2>1. PICK marked \in BOOLEAN : FetchBatch(marked)
      BY <1>3 DEF BeginSend
    <2>2. batch' = Fetched
      BY <1>3 DEF BeginSend
    <2>3. ASSUME NEW i \in Fetched
          PROVE  queue'[i].status \in {"pending", "sending"}
      <3>1. i \in RowIds /\ i \notin Dangling /\ queue[i].status = "pending"
        BY DEF Fetched, Dangling, Picked, Oldest, InStatus
      <3>2. queue[i] \in Entries
        BY <3>1 DEF Inv, VarTypes, QueueTypeOK
      <3>3. queue'[i] = queue[i] \/ queue'[i] = AsSending(queue[i])
        BY <2>1, <3>1 DEF FetchBatch
      <3> QED
        BY <3>1, <3>2, <3>3, UpdateType
    <2> QED
      BY <2>2, <2>3 DEF BatchOwed
  <1>4. CASE call = "idle" /\ batch' = batch
    BY <1>1, <1>4 DEF Inv, OneTask
  <1>5. CASE UNCHANGED <<queue, batch>>
    BY <1>5 DEF BatchOwed
  <1>6. \/ batch' = {} \/ Tick \/ BeginSend
        \/ call = "idle" /\ batch' = batch
        \/ UNCHANGED <<queue, batch>>
    BY DEF Next, RecordSample, Aggregate, StartAggregation, StoreOne,
           EnqueueOne, Server, ServerHandle, ServerRefuse,
           ServerHandleStray, Timeout, HandleAccepted, HandleFailed,
           CleanupQueue, CleanupData, Crash, Restart, vars, queueVars,
           agentVars, AtLoop, Inv, OneTask
  <1> QED
    BY <1>1, <1>2, <1>3, <1>4, <1>5, <1>6

LEMMA ContractInvHolds == Spec => []ContractInv
  <1>1. Init => Sourced /\ BatchOwed
    BY DEF Init, QueueInit, NoEntry, Sourced, BatchOwed
  <1>2. Inv /\ RowInv /\ Sourced /\ BatchOwed /\ [Next]_vars
           => (Sourced /\ BatchOwed)'
    BY NextSourced, NextBatchOwed
  <1> QED
    BY <1>1, <1>2, InvHolds, SafetyHolds, PTL DEF Spec, ContractInv

-----------------------------------------------------------------------------
(* The steps, seen through the mapping.                                    *)

(* The entries that can be fetched, with their keys, and the fresh row are *)
(* what they were.                                                         *)
SameDebt ==
    /\ \A i \in RowIds :
          /\ Deliverable(i)' <=> Deliverable(i)
          /\ Deliverable(i) => queue'[i].key = queue[i].key
    /\ fresh' = fresh
    /\ fresh # NoRow => row'[fresh] = row[fresh]

LEMMA SameDebtSameOwed ==
    ASSUME SameDebt
    PROVE  Owed' = Owed
  <1>1. ASSUME NEW k PROVE k \in Owed' <=> k \in Owed
    BY OwedMembers, OwedMembersNext DEF SameDebt
  <1> QED
    BY <1>1

(* Steps of the clock, of the loop and of its cleanups, and a restart: the *)
(* contract does not notice.                                               *)
Unnoticed == SameDebt /\ UNCHANGED <<stored, historyVars>>

LEMMA UnnoticedStutters ==
    ASSUME Unnoticed
    PROVE  UNCHANGED Contract!vars
  BY SameDebtSameOwed DEF Unnoticed, historyVars, Contract!vars

LEMMA TickUnnoticed ==
    ASSUME Inv, Tick
    PROVE  Unnoticed
  <1>1. \A i \in RowIds : /\ queue'[i].status = queue[i].status
                          /\ queue'[i].key = queue[i].key
    BY DEF Tick, AgeEntries, Inv, VarTypes, QueueTypeOK, Entries
  <1> QED
    BY <1>1 DEF Tick, agentVars, Unnoticed, SameDebt, Deliverable

LEMMA LoopUnnoticed ==
    ASSUME \/ \E t \in Tasks, m \in Minutes : RecordSample(t, m)
           \/ StartAggregation
           \/ ServerRefuse
           \/ Timeout
           \/ UNCHANGED vars
    PROVE  Unnoticed
  <1>1. UNCHANGED <<row, queue, fresh, stored, historyVars>>
    BY DEF RecordSample, StartAggregation, ServerRefuse, Timeout, vars,
           queueVars, agentVars, historyVars
  <1> QED
    BY <1>1 DEF Unnoticed, SameDebt, Deliverable

LEMMA BeginSendUnnoticed ==
    ASSUME Inv, BeginSend
    PROVE  Unnoticed
  <1>1. PICK marked \in BOOLEAN : FetchBatch(marked)
    BY DEF BeginSend
  <1>2. UNCHANGED <<row, fresh, stored, historyVars>>
    BY DEF BeginSend
  <1>3. ASSUME NEW i \in RowIds
        PROVE  \/ queue'[i] = queue[i]
               \/ row[i] = NoKey
               \/ /\ queue[i].status = "pending"
                  /\ queue'[i].status = "sending"
                  /\ queue'[i].key = queue[i].key
    <2>1. queue[i] \in Entries
      BY DEF Inv, VarTypes, QueueTypeOK
    <2>2. i \in Picked => queue[i].status = "pending"
      BY DEF Picked, Oldest, InStatus
    <2>3. \/ queue'[i] = queue[i]
          \/ row[i] = NoKey
          \/ i \in Picked /\ queue'[i] = AsSending(queue[i])
      BY <1>1 DEF FetchBatch, Dangling, Fetched
    <2> QED
      BY <2>1, <2>2, <2>3, UpdateType
  <1> QED
    BY <1>2, <1>3 DEF Unnoticed, SameDebt, Deliverable

LEMMA CleanupQueueUnnoticed ==
    ASSUME CleanupQueue
    PROVE  Unnoticed
  <1>1. \A i \in RowIds :
          \/ queue'[i] = queue[i]
          \/ /\ queue'[i].status = "none"
             /\ queue[i].status \in {"sent", "failed"}
    BY DEF CleanupQueue, PurgeEntries, Expired, InStatus, NoEntry
  <1>2. UNCHANGED <<row, fresh, stored, historyVars>>
    BY DEF CleanupQueue, agentVars
  <1> QED
    BY <1>1, <1>2 DEF Unnoticed, SameDebt, Deliverable

LEMMA CleanupDataUnnoticed ==
    ASSUME CleanupData
    PROVE  Unnoticed
  <1>1. PICK cutoff \in 1 .. now : PurgeRows(cutoff)
    BY DEF CleanupData
  <1>2. \A i \in RowIds :
          \/ row'[i] = row[i]
          \/ row'[i] = NoKey /\ queue[i].status \in {"none", "sent"}
    BY <1>1 DEF PurgeRows, Deletable
  <1>3. /\ UNCHANGED <<queue, fresh, stored, historyVars>>
        /\ fresh = NoRow
    BY DEF CleanupData, agentVars, AtLoop
  <1> QED
    BY <1>2, <1>3 DEF Unnoticed, SameDebt, Deliverable

LEMMA RestartUnnoticed ==
    ASSUME Inv, Restart
    PROVE  Unnoticed
  <1>1. ASSUME NEW i \in RowIds
        PROVE  /\ queue'[i].key = queue[i].key
               /\ \/ queue'[i].status = queue[i].status
                  \/ /\ queue[i].status = "sending"
                     /\ queue'[i].status = "pending"
    <2>1. queue[i] \in Entries
      BY DEF Inv, VarTypes, QueueTypeOK
    <2>2. \/ queue'[i] = queue[i]
          \/ queue[i].status = "sending" /\ queue'[i] = Recovered(queue[i])
      BY DEF Restart, RecoverSending
    <2> QED
      BY <2>1, <2>2, UpdateType
  <1>2. UNCHANGED <<row, fresh, stored, historyVars>>
    BY DEF Restart
  <1> QED
    BY <1>1, <1>2 DEF Unnoticed, SameDebt, Deliverable

(* The debt of the fresh row passes to its entry.                          *)
LEMMA EnqueueOneStutters ==
    ASSUME Inv, RowInv, EnqueueOne
    PROVE  UNCHANGED Contract!vars
  <1>1. /\ fresh \in RowIds /\ fresh # NoRow
        /\ row[fresh] # NoKey
        /\ queue[fresh].status = "none"
    BY NoKeyIsNoKey DEF EnqueueOne, Inv, VarTypes, Keyed, RowInv, FreshUnqueued
  <1>2. \A i \in RowIds : i # fresh => queue'[i] = queue[i]
    BY <1>1 DEF EnqueueOne, Enqueue, Inv, VarTypes, QueueTypeOK
  <1>3. queue'[fresh].status = "pending" /\ queue'[fresh].key = row[fresh]
    BY <1>1 DEF EnqueueOne, Enqueue, Inv, VarTypes, QueueTypeOK, NoEntry
  <1>4. UNCHANGED <<row, stored, historyVars>> /\ fresh' = NoRow
    BY DEF EnqueueOne
  <1>5. \A i \in RowIds : i = fresh => ~Deliverable(i) /\ Deliverable(i)'
    BY <1>1, <1>3, <1>4 DEF Deliverable
  <1>6. \A i \in RowIds : i # fresh => (Deliverable(i)' <=> Deliverable(i))
    BY <1>2, <1>4 DEF Deliverable
  <1>7. ASSUME NEW k PROVE k \in Owed' <=> k \in Owed
    BY <1>1, <1>2, <1>3, <1>4, <1>5, <1>6, OwedMembers, OwedMembersNext
  <1> QED
    BY <1>4, <1>7 DEF historyVars, Contract!vars

-----------------------------------------------------------------------------
(* A minute of a task is aggregated: the row it replaces, if any, had the  *)
(* same key, so that no other debt goes with it.                           *)
LEMMA StoreOneAggregates ==
    ASSUME Inv, RowInv, NEW t \in Tasks, StoreOne(t)
    PROVE  \E k \in Keys : Contract!Aggregate(k)
  <1> DEFINE k == <<t, lastAgg - 1>>
  <1>1. k \in Keys /\ k # NoKey
    BY NoKeyIsNoKey DEF StoreOne, Inv, Keyed
  <1>2. nextRow \in RowIds /\ nextRow # NoRow
    BY SendQueueAssumption
       DEF StoreOne, StoreAggregate, RowIds, Inv, VarTypes, QueueTypeOK, NoRow
  <1>3. \A i \in RowIds : row'[i] = IF i = nextRow THEN k
                                    ELSE IF row[i] = k THEN NoKey ELSE row[i]
    BY DEF StoreOne, StoreAggregate
  <1>4. /\ fresh = NoRow /\ fresh' = nextRow
        /\ produced' = produced \cup {k}
        /\ UNCHANGED <<queue, stored, abandoned, stranded>>
    BY DEF StoreOne
  <1> HIDE DEF k
  <1>5. row[nextRow] = NoKey /\ queue[nextRow].status = "none"
    BY <1>2 DEF Inv, VarTypes, QueueTypeOK, RowIds, RowInv, IdsAheadUnused
  <1>6. ASSUME NEW i \in RowIds
        PROVE  /\ Deliverable(i)' => Deliverable(i)
               /\ Deliverable(i) /\ queue[i].key # k => Deliverable(i)'
    BY <1>3, <1>4, <1>5 DEF Deliverable, RowInv, EntryOfRow
  <1>7. ASSUME NEW l PROVE l \in Owed' <=> l \in Owed \cup {k}
    <2>1. CASE l = k
      BY <1>2, <1>3, <1>4, <2>1, OwedMembersNext
    <2>2. CASE l # k
      BY <1>2, <1>3, <1>4, <1>6, <2>2, OwedMembers, OwedMembersNext
    <2> QED
      BY <2>1, <2>2
  <1>8. Owed' = Owed \cup {k}
    BY <1>7
  <1>9. Contract!Aggregate(k)
    BY <1>4, <1>8 DEF Contract!Aggregate
  <1> QED
    BY <1>1, <1>9

(* What a request brings is stored if nothing of it was there.             *)
LEMMA StoreMetricsDelivers ==
    ASSUME NEW ks \in SUBSET Keys, ks \subseteq produced, StoreMetrics(ks),
           Owed' = Owed, UNCHANGED historyVars
    PROVE  [Contract!Next]_(Contract!vars)
  <1>1. CASE stored' = stored
    BY <1>1 DEF historyVars, Contract!vars
  <1>2. CASE stored' # stored
    <2>1. ks # {} /\ ks \subseteq produced \ stored
          /\ stored' = stored \cup ks
      BY <1>2 DEF StoreMetrics, Acceptable
    <2>2. Contract!Deliver(ks)
      BY <2>1 DEF Contract!Deliver, historyVars
    <2> QED
      BY <2>2 DEF Contract!Next
  <1> QED
    BY <1>1, <1>2

LEMMA ServerDelivers ==
    ASSUME Inv, Sourced, ServerHandle \/ \E ks \in strays : ServerHandleStray(ks)
    PROVE  [Contract!Next]_(Contract!vars)
  <1>1. UNCHANGED <<row, queue, fresh, historyVars>>
    BY DEF ServerHandle, ServerHandleStray, queueVars, agentVars
  <1>2. Owed' = Owed
    BY <1>1, SameDebtSameOwed DEF SameDebt, Deliverable
  <1>3. CASE ServerHandle
    <2>1. StoreMetrics(BodyOf(batch)) /\ BodyOf(batch) \subseteq produced
      BY <1>3, BodySourced DEF ServerHandle
    <2>2. BodyOf(batch) \in SUBSET Keys
      BY <2>1 DEF Inv, VarTypes
    <2> QED
      BY <1>1, <1>2, <2>1, <2>2, StoreMetricsDelivers
  <1>4. CASE \E ks \in strays : ServerHandleStray(ks)
    <2>1. PICK ks \in strays : StoreMetrics(ks)
      BY <1>4 DEF ServerHandleStray
    <2>2. ks \in SUBSET Keys /\ ks \subseteq produced
      BY DEF Inv, VarTypes, Sourced
    <2> QED
      BY <1>1, <1>2, <2>1, <2>2, StoreMetricsDelivers
  <1> QED
    BY <1>3, <1>4

(* The response was 200: debts that end are of stored metrics.             *)
LEMMA HandleAcceptedAcknowledges ==
    ASSUME Inv, HandleAccepted
    PROVE  [Contract!Next]_(Contract!vars)
  <1>1. queue' = queue \/ MarkSent(batch)
    BY DEF HandleAccepted
  <1>2. UNCHANGED <<row, fresh, stored, historyVars>>
    BY DEF HandleAccepted
  <1>3. ASSUME NEW i \in RowIds
        PROVE  /\ queue'[i].key = queue[i].key
               /\ \/ queue'[i].status = queue[i].status
                  \/ /\ queue'[i].status = "sent"
                     /\ queue[i].key \in stored
    <2>1. queue[i] \in Entries
      BY DEF Inv, VarTypes, QueueTypeOK
    <2>2. \/ queue'[i] = queue[i]
          \/ i \in batch /\ queue'[i] = AsSent(queue[i])
      BY <1>1 DEF MarkSent
    <2>3. i \in batch => queue[i].key \in stored
      BY DEF Inv, AcceptedIsStored, HandleAccepted
    <2> QED
      BY <2>1, <2>2, <2>3, UpdateType
  <1>4. ASSUME NEW i \in RowIds
        PROVE  /\ Deliverable(i)' => Deliverable(i)
               /\ Deliverable(i) => Deliverable(i)' \/ queue[i].key \in stored
    BY <1>2, <1>3 DEF Deliverable
  <1>5. ASSUME NEW k
        PROVE  /\ k \in Owed' => k \in Owed
               /\ k \in Owed => k \in Owed' \/ k \in stored
    BY <1>2, <1>3, <1>4, OwedMembers, OwedMembersNext
  <1> DEFINE ks == Owed \ Owed'
  <1>6. ks \subseteq stored /\ ks \subseteq Owed /\ Owed' = Owed \ ks
    BY <1>5
  <1>7. ks \in SUBSET Keys
    BY <1>6 DEF Inv, VarTypes
  <1> HIDE DEF ks
  <1>8. CASE ks = {}
    BY <1>2, <1>6, <1>8 DEF historyVars, Contract!vars
  <1>9. CASE ks # {}
    <2>1. Contract!Acknowledge(ks)
      BY <1>2, <1>6, <1>9 DEF Contract!Acknowledge, historyVars
    <2> QED
      BY <1>7, <2>1 DEF Contract!Next
  <1> QED
    BY <1>8, <1>9
(* An attempt failed: the debts that end are among those given up.         *)
LEMMA HandleFailedGivesUp ==
    ASSUME Inv, RowInv, BatchOwed, HandleFailed
    PROVE  [Contract!Next]_(Contract!vars)
  <1>1. PICK S \in SUBSET batch :
          /\ MarkFailed(S)
          /\ abandoned' = abandoned \cup
               BodyOf({i \in S : AfterFailure(queue[i]).status = "failed"})
    BY DEF HandleFailed
  <1> DEFINE ks == BodyOf({i \in S : AfterFailure(queue[i]).status = "failed"})
  <1>2. UNCHANGED <<row, fresh, stored, produced, stranded>>
    BY DEF HandleFailed
  <1>3. \A i \in batch : i \in RowIds /\ Deliverable(i)
    BY DEF Inv, VarTypes, RowInv, BatchHasRows, BatchOwed, Deliverable
  <1>4. ks \subseteq Owed
    BY <1>3 DEF BodyOf, Owed
  <1>5. ASSUME NEW i \in RowIds
        PROVE  /\ queue'[i].key = queue[i].key
               /\ Deliverable(i)' => Deliverable(i)
               /\ Deliverable(i) => Deliverable(i)' \/ queue[i].key \in ks
    <2>1. queue[i] \in Entries
      BY DEF Inv, VarTypes, QueueTypeOK
    <2>2. CASE i \in S
      <3>1. queue'[i] = AfterFailure(queue[i])
        BY <1>1, <2>2 DEF MarkFailed
      <3>2. queue'[i].status = "failed" => queue[i].key \in ks
        BY <2>2, <3>1 DEF BodyOf
      <3> QED
        BY <1>2, <1>3, <2>1, <2>2, <3>1, <3>2, AfterFailureType
           DEF Deliverable
    <2>3. CASE i \notin S
      BY <1>1, <1>2, <2>3 DEF MarkFailed, Deliverable
    <2> QED
      BY <2>2, <2>3
  <1> HIDE DEF ks
  <1>6. ASSUME NEW k
        PROVE  /\ k \in Owed' => k \in Owed
               /\ k \in Owed => k \in Owed' \/ k \in ks
    BY <1>2, <1>5, OwedMembers, OwedMembersNext
  <1> DEFINE settled == Owed \ Owed'
  <1>7. settled \in SUBSET ks /\ Owed' = Owed \ settled
    BY <1>6
  <1> HIDE DEF settled
  <1>8. abandoned' = abandoned \cup ks
    BY <1>1 DEF ks
  <1>9. CASE ks = {}
    BY <1>2, <1>7, <1>8, <1>9 DEF Contract!vars
  <1>10. CASE ks # {}
    <2>1. Contract!GiveUp(ks)
      BY <1>2, <1>4, <1>7, <1>8, <1>10 DEF Contract!GiveUp
    <2>2. ks \in SUBSET Keys
      BY <1>8 DEF HandleFailed, Inv, VarTypes, BodyOf, Keyed, ks
    <2> QED
      BY <2>1, <2>2 DEF Contract!Next
  <1> QED
    BY <1>9, <1>10

(* A kill between the row and its entry loses that debt and no other; any  *)
(* other kill loses none.                                                  *)
LEMMA CrashLoses ==
    ASSUME Inv, RowInv, Crash
    PROVE  [Contract!Next]_(Contract!vars)
  <1>1. UNCHANGED <<row, queue, stored, produced, abandoned>>
        /\ fresh' = NoRow
    BY DEF Crash, queueVars
  <1>2. \A i \in RowIds : Deliverable(i)' <=> Deliverable(i)
    BY <1>1 DEF Deliverable
  <1>3. CASE fresh = NoRow
    <2>1. Unnoticed
      BY <1>1, <1>2, <1>3 DEF Crash, Unnoticed, SameDebt, historyVars
    <2> QED
      BY <2>1, UnnoticedStutters
  <1>4. CASE fresh # NoRow
    <2> DEFINE k == row[fresh]
    <2>1. /\ fresh \in RowIds /\ k \in Keys /\ k # NoKey
          /\ queue[fresh].status = "none"
      BY <1>4, NoKeyIsNoKey
         DEF Inv, VarTypes, Keyed, RowInv, FreshUnqueued
    <2>2. \A i \in RowIds : Deliverable(i) => queue[i].key # k
      <3> SUFFICES ASSUME NEW i \in RowIds, Deliverable(i), queue[i].key = k
                   PROVE  FALSE
        OBVIOUS
      <3>1. row[i] = k /\ row[i] # NoKey
        BY DEF Deliverable, RowInv, EntryOfRow
      <3>2. i = fresh
        BY <2>1, <3>1 DEF RowInv, RowKeysDiffer
      <3> QED
        BY <2>1, <3>2 DEF Deliverable
    <2>3. stranded' = stranded \cup {k} /\ k \in Owed
      BY <1>4, OwedMembers DEF Crash
    <2>4. ASSUME NEW l PROVE l \in Owed' <=> l \in Owed \ {k}
      BY <1>1, <1>2, <1>4, <2>2, OwedMembers, OwedMembersNext
    <2> HIDE DEF k
    <2>5. Owed' = Owed \ {k}
      BY <2>4
    <2>6. Contract!Lose(k)
      BY <1>1, <2>3, <2>5 DEF Contract!Lose
    <2> QED
      BY <2>1, <2>6 DEF Contract!Next
  <1> QED
    BY <1>3, <1>4

-----------------------------------------------------------------------------
LEMMA InitContract == Init => Contract!Init
  <1> SUFFICES ASSUME Init PROVE Contract!Init
    OBVIOUS
  <1>1. Owed = {}
    BY DEF Init, QueueInit, NoEntry, Owed, BodyOf, Deliverable, NoRow
  <1> QED
    BY <1>1 DEF Init, StoreInit, Contract!Init

LEMMA NextContract ==
    ASSUME ContractInv, [Next]_vars
    PROVE  [Contract!Next]_(Contract!vars)
  <1> USE DEF ContractInv
  <1>1. CASE Unnoticed
    BY <1>1, UnnoticedStutters
  <1>2. CASE EnqueueOne
    BY <1>2, EnqueueOneStutters
  <1>3. CASE \E t \in Tasks : StoreOne(t)
    <2>1. \E k \in Keys : Contract!Aggregate(k)
      BY <1>3, StoreOneAggregates
    <2> QED
      BY <2>1 DEF Contract!Next
  <1>4. CASE ServerHandle \/ \E ks \in strays : ServerHandleStray(ks)
    BY <1>4, ServerDelivers
  <1>5. CASE HandleAccepted
    BY <1>5, HandleAcceptedAcknowledges
  <1>6. CASE HandleFailed
    BY <1>6, HandleFailedGivesUp
  <1>7. CASE Crash
    BY <1>7, CrashLoses
  <1> QED
    BY <1>1, <1>2, <1>3, <1>4, <1>5, <1>6, <1>7, TickUnnoticed,
       LoopUnnoticed, BeginSendUnnoticed, CleanupQueueUnnoticed,
       CleanupDataUnnoticed, RestartUnnoticed
       DEF Next, Aggregate, Server

(* The agent and the server keep the contract, for any tasks, batch size,  *)
(* retries, retention and number of faults: what was aggregated stays owed *)
(* until the server has it, the agent gives it up, or is killed between a  *)
(* row and its entry; the server stores nothing that was not aggregated.   *)
THEOREM DeliveryKeepsContract == Spec => KeepsContract
  <1>1. ContractInv /\ [Next]_vars => [Contract!Next]_(Contract!vars)
    BY NextContract
  <1> QED
    BY <1>1, InitContract, ContractInvHolds, PTL
       DEF Spec, KeepsContract, Contract!Spec

-----------------------------------------------------------------------------
(* The server is unavailable for a while, and nothing else goes wrong      *)

(* No kill, no lost answer, no failed UPDATE and no reload so far: what    *)
(* may have happened is that the server refused requests.                  *)
Undisturbed == \A f \in FaultKinds : f # "refusal" => used[f] = 0

(* A minute of a task is aggregated once: there is no second scheduler.    *)
OnceAggregated ==
    /\ up /\ strays = {} /\ lastAgg <= now
    /\ stored \subseteq produced
    /\ \A t \in Tasks, m \in Minutes : <<t, m>> \in produced => m < lastAgg
    /\ \A t \in todo : <<t, lastAgg - 1>> \notin produced
    /\ fresh # NoRow =>
         /\ row[fresh] \notin stored
         /\ \A i \in RowIds :
              queue[i].status # "none" => queue[i].key # row[fresh]

OneEntry ==
    \A i, j \in RowIds :
        /\ queue[i].status # "none" /\ queue[j].status # "none"
        /\ queue[i].key = queue[j].key
        => i = j

(* What is still to be sent the server does not have, but for the answer   *)
(* on its way.                                                             *)
OwedNotStored ==
    \A i \in RowIds :
        queue[i].status \in {"pending", "sending"} /\ queue[i].key \in stored =>
            call = "accepted" /\ i \in batch

(* Every attempt counted was refused, one that has failed included.        *)
AttemptsRefused ==
    /\ \A i \in RowIds : queue[i].retries <= used["refusal"]
    /\ \A i \in batch :
          call = "failed" => queue[i].retries + 1 <= used["refusal"]
    /\ used["refusal"] < MaxRetries => abandoned = {}

OutageInv ==
    Undisturbed =>
        OnceAggregated /\ OneEntry /\ OwedNotStored /\ AttemptsRefused

(* The faults are counted: a state that is undisturbed is reached by steps *)
(* that are.                                                               *)
LEMMA UndisturbedSteps ==
    ASSUME Inv, [Next]_vars, Undisturbed'
    PROVE  /\ Undisturbed
           /\ ~Crash /\ ~Timeout
           /\ \A f \in FaultKinds : f # "refusal" => ~Spend(f)
           /\ used["refusal"] \in Nat /\ used'["refusal"] \in Nat
           /\ used["refusal"] <= used'["refusal"]
  <1>1. used \in [FaultKinds -> Nat]
    BY DEF Inv, VarTypes
  <1>2. UNCHANGED used \/ \E f \in FaultKinds : Spend(f)
    BY DEF Next, Tick, RecordSample, Aggregate, StartAggregation, StoreOne,
           EnqueueOne, BeginSend, Server, ServerHandle, ServerRefuse,
           ServerHandleStray, Timeout, HandleAccepted, ReloadScheduler,
           HandleFailed, CleanupQueue, CleanupData, Crash, Restart, vars,
           FaultKinds
  <1>3. \A f \in FaultKinds : f # "refusal" => ~Spend(f)
    BY <1>1 DEF Spend, Undisturbed
  <1>4. CASE UNCHANGED used
    BY <1>1, <1>3, <1>4 DEF Undisturbed, Crash, Timeout, FaultKinds
  <1>5. CASE Spend("refusal")
    <2>1. /\ used'["refusal"] = used["refusal"] + 1
          /\ \A f \in FaultKinds : f # "refusal" => used'[f] = used[f]
      BY <1>1, <1>5 DEF Spend, FaultKinds
    <2> QED
      BY <1>1, <1>3, <2>1 DEF Undisturbed, Crash, Timeout, FaultKinds
  <1> QED
    BY <1>2, <1>3, <1>4, <1>5

(* What an undisturbed step does.                                          *)
Calm ==
    /\ Inv /\ RowInv /\ Sourced /\ BatchOwed
    /\ OnceAggregated /\ OneEntry /\ OwedNotStored /\ AttemptsRefused
    /\ [Next]_vars /\ Undisturbed'

LEMMA CalmAggregation ==
    ASSUME Calm
    PROVE  OnceAggregated'
  <1>1. /\ lastAgg \in Nat /\ now \in Nat /\ LastMinute \in Nat
        /\ todo \subseteq Tasks
        /\ Minutes \subseteq Nat
    BY SendQueueAssumption DEF Calm, Inv, VarTypes, LastMinute, Minutes
  <1>2. /\ ~Crash /\ ~Timeout /\ ~Restart /\ up
        /\ ~Spend("reload") /\ ~Spend("dberror")
    BY UndisturbedSteps DEF Calm, FaultKinds, Restart, OnceAggregated
  <1>3. up' /\ strays' = {}
    BY <1>2 DEF Calm, OnceAggregated, Next, Tick, RecordSample, Aggregate,
                StartAggregation, StoreOne, EnqueueOne, BeginSend, Server,
                ServerHandle, ServerRefuse, ServerHandleStray,
                HandleAccepted, HandleFailed, CleanupQueue, CleanupData,
                vars, agentVars
  <1>4. stored' \subseteq produced'
    <2>1. stored' \subseteq stored \cup BodyOf(batch)
      BY <1>2 DEF Calm, OnceAggregated, Next, Tick, RecordSample, Aggregate,
                  StartAggregation, StoreOne, EnqueueOne, BeginSend, Server,
                  ServerHandle, ServerRefuse, ServerHandleStray,
                  HandleAccepted, HandleFailed, CleanupQueue, CleanupData,
                  vars, StoreMetrics
    <2> QED
      BY <2>1, BodySourced, StraysAndHistory DEF Calm, OnceAggregated
  <1>5. CASE StartAggregation
    <2>1. /\ now > lastAgg /\ lastAgg' = now /\ now' = now
          /\ todo' \subseteq Tasks
          /\ fresh = NoRow /\ fresh' = NoRow /\ produced' = produced
      BY <1>5 DEF StartAggregation, AtLoop, historyVars
    <2>2. ASSUME NEW t \in todo', <<t, now - 1>> \in produced PROVE FALSE
      <3>1. <<t, now - 1>> \in Keys
        BY <2>2 DEF Calm, Inv, VarTypes
      <3>2. t \in Tasks /\ now - 1 \in Minutes
        BY <3>1 DEF Keys
      <3>3. now - 1 < lastAgg
        BY <2>2, <3>2 DEF Calm, OnceAggregated
      <3> QED
        BY <1>1, <2>1, <3>3
    <2>3. ASSUME NEW t \in Tasks, NEW m \in Minutes, <<t, m>> \in produced
          PROVE  m < now
      <3>1. m < lastAgg
        BY <2>3 DEF Calm, OnceAggregated
      <3> QED
        BY <1>1, <2>1, <3>1
    <2>4. now <= now
      BY <1>1
    <2> QED
      BY <1>3, <1>4, <2>1, <2>2, <2>3, <2>4 DEF OnceAggregated
  <1>6. CASE \E t \in Tasks : StoreOne(t)
    <2>1. PICK t \in Tasks : StoreOne(t)
      BY <1>6
    <2> DEFINE k == <<t, lastAgg - 1>>
    <2>2. /\ t \in todo /\ nextRow \in RowIds
          /\ row' = [i \in RowIds |-> IF i = nextRow THEN k
                                     ELSE IF row[i] = k THEN NoKey ELSE row[i]]
          /\ fresh' = nextRow /\ todo' = todo \ {t}
          /\ produced' = produced \cup {k}
          /\ UNCHANGED <<queue, stored, now, lastAgg>>
      BY <2>1 DEF StoreOne, StoreAggregate, RowIds, Calm, Inv, VarTypes,
                  QueueTypeOK
    <2>3. k \notin produced /\ row'[fresh'] = k
      BY <2>2 DEF Calm, OnceAggregated
    <2>4. \A i \in RowIds : queue[i].status # "none" => queue[i].key # k
      BY <2>3 DEF Calm, Sourced
    <2>5. \A u \in Tasks, m \in Minutes :
             <<u, m>> \in produced' => m < lastAgg
      BY <1>1, <2>2 DEF Calm, OnceAggregated
    <2>6. \A u \in todo' : <<u, lastAgg - 1>> \notin produced'
      BY <2>2 DEF Calm, OnceAggregated
    <2> HIDE DEF k
    <2> QED
      BY <1>3, <1>4, <2>2, <2>3, <2>4, <2>5, <2>6 DEF Calm, OnceAggregated
  <1>7. CASE EnqueueOne
    BY <1>3, <1>4, <1>7 DEF EnqueueOne, historyVars, Calm, OnceAggregated
  <1>8. CASE Tick
    <2>1. \A i \in RowIds : /\ queue'[i].status = queue[i].status
                            /\ queue'[i].key = queue[i].key
      BY <1>8 DEF Tick, AgeEntries, Calm, Inv, VarTypes, QueueTypeOK, Entries
    <2>2. /\ now <= now' /\ now' \in Nat
          /\ UNCHANGED <<row, stored, lastAgg, todo, fresh, produced>>
      BY <1>1, <1>8 DEF Tick, agentVars, historyVars
    <2>3. /\ \A t \in Tasks, m \in Minutes :
                <<t, m>> \in produced => m < lastAgg
          /\ \A t \in todo : <<t, lastAgg - 1>> \notin produced
      BY DEF Calm, OnceAggregated
    <2>4. lastAgg <= now'
      BY <1>1, <2>2 DEF Calm, OnceAggregated
    <2>5. fresh # NoRow =>
            /\ row[fresh] \notin stored
            /\ \A i \in RowIds :
                 queue'[i].status # "none" => queue'[i].key # row[fresh]
      BY <2>1 DEF Calm, OnceAggregated
    <2> QED
      BY <1>3, <1>4, <2>2, <2>3, <2>4, <2>5 DEF OnceAggregated
  <1>9. CASE fresh' = NoRow /\ UNCHANGED <<now, lastAgg, todo, produced>>
    BY <1>3, <1>4, <1>9 DEF Calm, OnceAggregated
  <1>10. CASE UNCHANGED <<now, lastAgg, todo, produced, fresh, row, queue,
                          stored>>
    BY <1>3, <1>4, <1>10 DEF Calm, OnceAggregated
  <1>11. \/ StartAggregation \/ (\E t \in Tasks : StoreOne(t)) \/ EnqueueOne
         \/ Tick
         \/ fresh' = NoRow /\ UNCHANGED <<now, lastAgg, todo, produced>>
         \/ UNCHANGED <<now, lastAgg, todo, produced, fresh, row, queue,
                       stored>>
    BY <1>2 DEF Calm, Inv, OneTask, Next, RecordSample, Aggregate, BeginSend,
                Server, ServerHandle, ServerRefuse, ServerHandleStray,
                HandleAccepted, ReloadScheduler, HandleFailed, CleanupQueue,
                CleanupData, vars, agentVars, queueVars, historyVars, AtLoop,
                OnceAggregated
  <1> QED
    BY <1>5, <1>6, <1>7, <1>8, <1>9, <1>10, <1>11

(* Entries appear only with EnqueueOne, and none twice for a key.          *)
LEMMA CalmEntries ==
    ASSUME Calm
    PROVE  OneEntry'
  <1>1. CASE Quiet
    BY <1>1 DEF Quiet, Calm, OneEntry
  <1>2. CASE \E t \in Tasks : StoreOne(t)
    BY <1>2 DEF StoreOne, Calm, OneEntry
  <1>3. CASE EnqueueOne
    <2>1. fresh \in RowIds /\ queue \in [RowIds -> Entries]
      BY <1>3 DEF EnqueueOne, Calm, Inv, VarTypes, QueueTypeOK
    <2>2. \A i \in RowIds : i # fresh => queue'[i] = queue[i]
      BY <1>3, <2>1 DEF EnqueueOne, Enqueue
    <2>3. queue'[fresh].key = row[fresh]
      BY <1>3, <2>1 DEF EnqueueOne, Enqueue, NoEntry, Calm, RowInv,
                        FreshUnqueued
    <2>4. \A i \in RowIds :
             queue[i].status # "none" => queue[i].key # row[fresh]
      BY <1>3 DEF EnqueueOne, Calm, OnceAggregated
    <2> QED
      BY <2>1, <2>2, <2>3, <2>4 DEF Calm, OneEntry
  <1> QED
    BY <1>1, <1>2, <1>3, QuietSteps DEF Calm

(* The faults a calm step is without.                                      *)
LEMMA CalmFaults ==
    ASSUME Calm
    PROVE  ~Crash /\ ~Timeout /\ ~Restart /\ ~Spend("dberror")
           /\ ~\E ks \in strays : ServerHandleStray(ks)
  BY UndisturbedSteps DEF Calm, FaultKinds, Restart, OnceAggregated

(* Entries that keep status and key, or stop being owed, with the server   *)
(* as it was and no answer on its way.                                     *)
LEMMA OwedStays ==
    ASSUME OwedNotStored, stored' = stored,
           call # "accepted" \/ UNCHANGED <<call, batch>>,
           \A i \in RowIds :
              queue'[i].status \in {"pending", "sending"} =>
                 /\ queue[i].status \in {"pending", "sending"}
                 /\ queue'[i].key = queue[i].key
    PROVE  OwedNotStored'
  BY DEF OwedNotStored

LEMMA CalmOwed ==
    ASSUME Calm
    PROVE  OwedNotStored'
  <1>1. /\ OwedNotStored /\ queue \in [RowIds -> Entries] /\ batch \subseteq RowIds
        /\ \A i \in RowIds : queue[i] \in Entries
    BY DEF Calm, Inv, VarTypes, QueueTypeOK
  <1>2. CASE Tick
    <2>1. \A i \in RowIds : /\ queue'[i].status = queue[i].status
                            /\ queue'[i].key = queue[i].key
      BY <1>1, <1>2 DEF Tick, AgeEntries, Entries
    <2> QED
      BY <1>1, <1>2, <2>1, OwedStays DEF Tick, agentVars
  <1>3. CASE BeginSend
    <2>1. PICK marked \in BOOLEAN : FetchBatch(marked)
      BY <1>3 DEF BeginSend
    <2>2. ASSUME NEW i \in RowIds,
                 queue'[i].status \in {"pending", "sending"}
          PROVE  /\ queue[i].status \in {"pending", "sending"}
                 /\ queue'[i].key = queue[i].key
      <3>1. i \in Picked => queue[i].status = "pending"
        BY DEF Picked, Oldest, InStatus
      <3>2. \/ queue'[i] = NoEntry
            \/ queue'[i] = queue[i]
            \/ i \in Picked /\ queue'[i] = AsSending(queue[i])
        BY <2>1 DEF FetchBatch, Fetched
      <3> QED
        BY <1>1, <2>2, <3>1, <3>2, UpdateType DEF NoEntry
    <2>3. call = "idle" /\ stored' = stored
      BY <1>3 DEF BeginSend, AtLoop
    <2> QED
      BY <1>1, <2>2, <2>3, OwedStays
  <1>4. CASE ServerHandle
    <2>1. /\ call = "sent" /\ StoreMetrics(BodyOf(batch))
          /\ call' = IF Acceptable(BodyOf(batch)) THEN "accepted" ELSE "failed"
          /\ UNCHANGED <<queue, batch>>
      BY <1>4 DEF ServerHandle, queueVars
    <2>2. Acceptable(BodyOf(batch))
      BY <1>1, <2>1 DEF Acceptable, BodyOf, Calm, OwedNotStored, BatchOwed
    <2>3. stored' = stored \cup BodyOf(batch) /\ call' = "accepted"
      BY <2>1, <2>2 DEF StoreMetrics
    <2>4. ASSUME NEW i \in RowIds,
                 queue[i].status \in {"pending", "sending"},
                 queue[i].key \in BodyOf(batch)
          PROVE  i \in batch
      <3>1. PICK j \in batch : queue[j].key = queue[i].key
        BY <2>4 DEF BodyOf
      <3>2. j \in RowIds /\ queue[j].status # "none"
        BY <1>1, <3>1 DEF Calm, BatchOwed
      <3> QED
        BY <2>4, <3>1, <3>2 DEF Calm, OneEntry
    <2> QED
      BY <1>1, <2>1, <2>3, <2>4 DEF OwedNotStored
  <1>5. CASE HandleAccepted
    <2>1. MarkSent(batch) /\ stored' = stored
      BY <1>5, CalmFaults DEF HandleAccepted
    <2>2. ASSUME NEW i \in RowIds,
                 queue'[i].status \in {"pending", "sending"}
          PROVE  /\ queue[i].status \in {"pending", "sending"}
                 /\ queue'[i] = queue[i] /\ i \notin batch
      BY <1>1, <2>1, <2>2, UpdateType DEF MarkSent
    <2> QED
      BY <1>1, <2>1, <2>2 DEF OwedNotStored
  <1>6. CASE HandleFailed
    <2>1. /\ MarkFailed(batch) /\ stored' = stored /\ call = "failed"
      BY <1>6, CalmFaults DEF HandleFailed
    <2>2. ASSUME NEW i \in RowIds,
                 queue'[i].status \in {"pending", "sending"}
          PROVE  /\ queue[i].status \in {"pending", "sending"}
                 /\ queue'[i].key = queue[i].key
      <3>1. CASE i \in batch
        BY <1>1, <2>1, <3>1, AfterFailureType DEF MarkFailed, Calm, BatchOwed
      <3>2. CASE i \notin batch
        BY <2>1, <2>2, <3>2 DEF MarkFailed
      <3> QED
        BY <3>1, <3>2
    <2> QED
      BY <1>1, <2>1, <2>2, OwedStays
  <1>7. CASE EnqueueOne
    <2>1. /\ fresh # NoRow /\ fresh \in RowIds /\ row[fresh] \notin stored
          /\ call = "idle" /\ stored' = stored
          /\ queue[fresh].status = "none"
      BY <1>7 DEF EnqueueOne, Calm, Inv, VarTypes, OneTask, OnceAggregated,
                  RowInv, FreshUnqueued
    <2>2. queue'[fresh].key = row[fresh]
      BY <1>1, <1>7, <2>1 DEF EnqueueOne, Enqueue, NoEntry
    <2>3. \A i \in RowIds : i # fresh => queue'[i] = queue[i]
      BY <1>1, <1>7, <2>1 DEF EnqueueOne, Enqueue
    <2> QED
      BY <1>1, <2>1, <2>2, <2>3 DEF OwedNotStored
  <1>8. CASE CleanupQueue
    <2>1. \A i \in RowIds : queue'[i] = queue[i] \/ queue'[i] = NoEntry
      BY <1>8 DEF CleanupQueue, PurgeEntries
    <2>2. stored' = stored /\ UNCHANGED <<call, batch>>
      BY <1>8 DEF CleanupQueue, agentVars
    <2> QED
      BY <1>1, <2>1, <2>2, OwedStays DEF NoEntry
  <1>9. CASE /\ UNCHANGED <<queue, stored>>
             /\ call # "accepted" \/ UNCHANGED <<call, batch>>
    BY <1>1, <1>9, OwedStays
  <1>10. \/ Tick \/ BeginSend \/ ServerHandle \/ HandleAccepted \/ HandleFailed
         \/ EnqueueOne \/ CleanupQueue
         \/ /\ UNCHANGED <<queue, stored>>
            /\ call # "accepted" \/ UNCHANGED <<call, batch>>
    BY CalmFaults
       DEF Calm, Next, RecordSample, Aggregate, StartAggregation, StoreOne,
           Server, ServerRefuse, CleanupData, vars, agentVars, queueVars
  <1> QED
    BY <1>2, <1>3, <1>4, <1>5, <1>6, <1>7, <1>8, <1>9, <1>10

(* The updates of an entry and its number of attempts.                     *)
LEMMA AttemptsOf ==
    ASSUME NEW e \in Entries
    PROVE  /\ AsSending(e).retries = e.retries
           /\ AsSent(e).retries = e.retries
           /\ AfterFailure(e).retries = e.retries + 1
           /\ e.retries + 1 < MaxRetries => AfterFailure(e).status = "pending"
           /\ NoEntry.retries = 0
  <1>1. e.retries \in Nat /\ MaxRetries \in Nat
    BY SendQueueAssumption DEF Entries
  <1>2. AsSending(e).retries = e.retries
    BY DEF AsSending, Entries
  <1>3. AsSent(e).retries = e.retries /\ NoEntry.retries = 0
    BY DEF AsSent, NoEntry
  <1>4. AfterFailure(e).retries = e.retries + 1
    BY DEF AfterFailure
  <1>5. ASSUME e.retries + 1 < MaxRetries
        PROVE  AfterFailure(e).status = "pending"
    <2>1. ~(e.retries + 1 >= MaxRetries)
      BY <1>1, <1>5
    <2> QED
      BY <2>1 DEF AfterFailure
  <1> QED
    BY <1>2, <1>3, <1>4, <1>5

(* Steps that add no attempt.                                              *)
LEMMA NoAttempt ==
    ASSUME Calm,
           \A i \in RowIds : queue'[i].retries \in {queue[i].retries, 0},
           call' = "failed" => call = "failed" /\ batch' = batch,
           abandoned' = abandoned
    PROVE  AttemptsRefused'
  <1>1. /\ used["refusal"] \in Nat /\ used'["refusal"] \in Nat
        /\ used["refusal"] <= used'["refusal"]
        /\ MaxRetries \in Nat /\ batch \subseteq RowIds
    BY UndisturbedSteps, SendQueueAssumption DEF Calm, Inv, VarTypes
  <1>2. \A i \in RowIds : queue[i].retries \in Nat
    BY DEF Calm, Inv, VarTypes, QueueTypeOK, Entries
  <1>3. ASSUME NEW i \in RowIds PROVE queue'[i].retries <= used'["refusal"]
    <2>1. queue[i].retries <= used["refusal"]
      BY DEF Calm, AttemptsRefused
    <2>2. queue'[i].retries = queue[i].retries \/ queue'[i].retries = 0
      OBVIOUS
    <2> QED
      BY <1>1, <1>2, <2>1, <2>2
  <1>4. ASSUME call' = "failed", NEW i \in batch'
        PROVE  queue'[i].retries + 1 <= used'["refusal"]
    <2>1. i \in batch /\ i \in RowIds
      BY <1>1, <1>4
    <2>2. queue[i].retries + 1 <= used["refusal"]
      BY <1>4, <2>1 DEF Calm, AttemptsRefused
    <2>3. queue'[i].retries = queue[i].retries \/ queue'[i].retries = 0
      BY <2>1
    <2> QED
      BY <1>1, <1>2, <2>1, <2>2, <2>3
  <1>5. used'["refusal"] < MaxRetries => abandoned' = {}
    BY <1>1 DEF Calm, AttemptsRefused
  <1> QED
    BY <1>3, <1>4, <1>5 DEF AttemptsRefused

LEMMA CalmAttempts ==
    ASSUME Calm
    PROVE  AttemptsRefused'
  <1>1. /\ \A i \in RowIds : queue[i] \in Entries
        /\ batch \subseteq RowIds /\ used \in [FaultKinds -> Nat]
    BY DEF Calm, Inv, VarTypes, QueueTypeOK
  <1>2. CASE Tick
    <2>1. \A i \in RowIds : queue'[i].retries = queue[i].retries
      BY <1>1, <1>2 DEF Tick, AgeEntries, Entries
    <2> QED
      BY <1>2, <2>1, NoAttempt DEF Tick, agentVars, historyVars
  <1>3. CASE BeginSend
    <2>1. PICK marked \in BOOLEAN : FetchBatch(marked)
      BY <1>3 DEF BeginSend
    <2>2. \A i \in RowIds : queue'[i].retries \in {queue[i].retries, 0}
      BY <1>1, <2>1, AttemptsOf DEF FetchBatch
    <2> QED
      BY <1>3, <2>2, NoAttempt DEF BeginSend, historyVars
  <1>4. CASE ServerHandle
    <2>1. Acceptable(BodyOf(batch))
      BY <1>1, <1>4
         DEF ServerHandle, Acceptable, BodyOf, Calm, OwedNotStored, BatchOwed
    <2> QED
      BY <1>4, <2>1, NoAttempt DEF ServerHandle, queueVars, historyVars
  <1>5. CASE ServerRefuse
    <2>1. /\ used'["refusal"] = used["refusal"] + 1
          /\ used["refusal"] \in Nat /\ MaxRetries \in Nat
      BY <1>1, <1>5, SendQueueAssumption DEF ServerRefuse, Spend, FaultKinds
    <2>2. UNCHANGED <<queue, batch, abandoned>>
      BY <1>5 DEF ServerRefuse, queueVars, historyVars
    <2>3. \A i \in RowIds : /\ queue[i].retries <= used["refusal"]
                            /\ queue[i].retries \in Nat
      BY <1>1 DEF Calm, AttemptsRefused, Entries
    <2>4. \A i \in RowIds : /\ queue[i].retries <= used'["refusal"]
                            /\ queue[i].retries + 1 <= used'["refusal"]
      BY <2>1, <2>3
    <2>5. used'["refusal"] < MaxRetries => abandoned = {}
      BY <2>1 DEF Calm, AttemptsRefused
    <2> QED
      BY <1>1, <2>2, <2>4, <2>5 DEF AttemptsRefused
  <1>6. CASE HandleAccepted
    <2>1. MarkSent(batch) /\ call' = "idle" /\ abandoned' = abandoned
      BY <1>6, CalmFaults DEF HandleAccepted, historyVars
    <2>2. \A i \in RowIds : queue'[i].retries = queue[i].retries
      BY <1>1, <2>1, AttemptsOf DEF MarkSent
    <2> QED
      BY <2>1, <2>2, NoAttempt
  <1>7. CASE HandleFailed
    <2>1. /\ MarkFailed(batch) /\ UNCHANGED used
          /\ call = "failed" /\ call' = "idle"
          /\ abandoned' = abandoned \cup
               BodyOf({i \in batch : AfterFailure(queue[i]).status = "failed"})
      BY <1>7, CalmFaults DEF HandleFailed
    <2>2. ASSUME NEW i \in RowIds PROVE queue'[i].retries <= used["refusal"]
      <3>1. CASE i \in batch
        BY <1>1, <2>1, <3>1, AttemptsOf DEF MarkFailed, Calm, AttemptsRefused
      <3>2. CASE i \notin batch
        BY <2>1, <3>2 DEF MarkFailed, Calm, AttemptsRefused
      <3> QED
        BY <3>1, <3>2
    <2>3. ASSUME used["refusal"] < MaxRetries PROVE abandoned' = {}
      <3>1. ASSUME NEW i \in batch
            PROVE  AfterFailure(queue[i]).status = "pending"
        <4>1. queue[i].retries + 1 <= used["refusal"] /\ queue[i].retries \in Nat
          BY <1>1, <2>1, <3>1 DEF Calm, AttemptsRefused, Entries
        <4>2. used["refusal"] \in Nat /\ MaxRetries \in Nat
          BY <1>1, SendQueueAssumption DEF FaultKinds
        <4>3. queue[i].retries + 1 < MaxRetries
          BY <2>3, <4>1, <4>2
        <4> QED
          BY <1>1, <3>1, <4>3, AttemptsOf
      <3>2. abandoned = {}
        BY <2>3 DEF Calm, AttemptsRefused
      <3> QED
        BY <2>1, <3>1, <3>2 DEF BodyOf
    <2> QED
      BY <2>1, <2>2, <2>3 DEF AttemptsRefused
  <1>8. CASE EnqueueOne
    <2>1. \A i \in RowIds : queue'[i].retries \in {queue[i].retries, 0}
      BY <1>1, <1>8 DEF EnqueueOne, Enqueue, NoEntry, Calm, Inv, VarTypes,
                        QueueTypeOK
    <2> QED
      BY <1>8, <2>1, NoAttempt DEF EnqueueOne, historyVars
  <1>9. CASE CleanupQueue
    <2>1. \A i \in RowIds : queue'[i].retries \in {queue[i].retries, 0}
      BY <1>9 DEF CleanupQueue, PurgeEntries, NoEntry
    <2> QED
      BY <1>9, <2>1, NoAttempt DEF CleanupQueue, agentVars, historyVars
  <1>10. CASE UNCHANGED <<queue, abandoned, call, batch>>
    BY <1>10, NoAttempt
  <1>11. \/ Tick \/ BeginSend \/ ServerHandle \/ ServerRefuse \/ HandleAccepted
         \/ HandleFailed \/ EnqueueOne \/ CleanupQueue
         \/ UNCHANGED <<queue, abandoned, call, batch>>
    BY CalmFaults
       DEF Calm, Next, RecordSample, Aggregate, StartAggregation, StoreOne,
           Server, CleanupData, vars, agentVars, queueVars, historyVars
  <1> QED
    BY <1>2, <1>3, <1>4, <1>5, <1>6, <1>7, <1>8, <1>9, <1>10, <1>11

LEMMA OutageInvHolds == Spec => []OutageInv
  <1>1. Init => OutageInv
    <2> SUFFICES ASSUME Init PROVE OutageInv
      OBVIOUS
    <2>1. OnceAggregated /\ OneEntry /\ OwedNotStored
      BY DEF Init, QueueInit, StoreInit, NoEntry, NoRow, OnceAggregated,
             OneEntry, OwedNotStored
    <2>2. AttemptsRefused
      BY DEF Init, QueueInit, NoEntry, AttemptsRefused, FaultKinds
    <2> QED
      BY <2>1, <2>2 DEF OutageInv
  <1>2. ContractInv /\ OutageInv /\ [Next]_vars => OutageInv'
    <2> SUFFICES ASSUME ContractInv, OutageInv, [Next]_vars, Undisturbed'
                 PROVE  (OnceAggregated /\ OneEntry /\ OwedNotStored
                           /\ AttemptsRefused)'
      BY DEF OutageInv
    <2>1. Calm
      BY UndisturbedSteps DEF ContractInv, OutageInv, Calm
    <2> QED
      BY <2>1, CalmAggregation, CalmEntries, CalmOwed, CalmAttempts
  <1> QED
    BY <1>1, <1>2, ContractInvHolds, PTL DEF Spec

(* As long as nothing happens but that the server refuses requests, and    *)
(* it does so fewer times than an entry may be tried, the agent gives up   *)
(* nothing that the server does not have: "No data loss if server is       *)
(* temporarily unavailable" (README.md) is true of the unavailability.     *)
THEOREM OutagesLoseNothing ==
    Spec => [](Undisturbed /\ used["refusal"] < MaxRetries => NoDataLoss)
  <1>1. OutageInv =>
           (Undisturbed /\ used["refusal"] < MaxRetries => NoDataLoss)
    BY DEF OutageInv, AttemptsRefused, NoDataLoss
  <1> QED
    BY <1>1, OutageInvHolds, PTL

(* And the agent sends nothing the server has, however often it is         *)
(* refused: only a kill, a lost answer, a failed UPDATE or a reload makes  *)
(* it repeat itself.                                                       *)
THEOREM OutagesRepeatNothing == Spec => [](Undisturbed => NeverResent)
  <1>1. ContractInv /\ OutageInv => (Undisturbed => NeverResent)
    <2> SUFFICES ASSUME ContractInv, OutageInv, Undisturbed, call = "sent"
                 PROVE  Acceptable(BodyOf(batch))
      BY DEF NeverResent
    <2>1. batch \subseteq RowIds
      BY DEF ContractInv, Inv, VarTypes
    <2> QED
      BY <2>1 DEF Acceptable, BodyOf, ContractInv, BatchOwed, OutageInv,
                  OwedNotStored
  <1> QED
    BY <1>1, ContractInvHolds, OutageInvHolds, PTL
=============================================================================
