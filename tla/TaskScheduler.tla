--------------------------- MODULE TaskScheduler ---------------------------
(***************************************************************************)
(* The agent's task scheduler (agent/src/scheduler.rs), the executor that  *)
(* runs one probe (agent/src/tasks.rs), and the agent's main loop around   *)
(* them with its reload and its shutdown (agent/src/main.rs).              *)
(*                                                                         *)
(* Concurrent are: one ticker per task, one tokio task per execution, the  *)
(* main loop, the clock and the shutdown signal.  Tickers and executions   *)
(* reach the main loop over two bounded channels, and block while these    *)
(* are full.  The signal cancels the main loop at whatever it awaits.      *)
(***************************************************************************)
EXTENDS Integers, Sequences, FiniteSets

CONSTANTS
    Tasks,          \* names of the tasks
    NewTasks,       \* the tasks of the configuration a reload installs
    ChannelSize,    \* channel_buffer_size, of both channels
    MaxBuffer,      \* max_metrics_buffer_size
    MaxSamples,     \* bound: probes that succeed
    LastMinute,     \* bound: where the clock stops
    MaxFaults       \* [FaultKinds -> Nat]: bound on the events of each kind

FaultKinds == {"dberror", "reload", "badreload"}

ASSUME SchedulerAssumption ==
    /\ IsFiniteSet(Tasks)
    /\ NewTasks \subseteq Tasks
    /\ ChannelSize \in Nat \ {0}
    /\ MaxBuffer \in Nat \ {0}
    /\ MaxSamples \in Nat
    /\ LastMinute \in Nat \ {0}
    /\ MaxFaults \in [FaultKinds -> Nat]

VARIABLES
    minute,     \* the clock
    pc,         \* where the main loop is
    after,      \* where it goes on when the flush under way is over
    stopFor,    \* what the last stop() was called for
    state,      \* SchedulerState
    gen,        \* which scheduler this is: a reload makes a new one
    tasks,      \* its tasks_config
    handles,    \* names in running_tasks, each with a live ticker
    running,    \* the names whose handle has is_running set
    ready,      \* the channel of task names
    results,    \* the channel of task results
    probing,    \* [task, scheduler -> number of executions under way]
    sending,    \* results that wait for room in the channel, in turn
    buffer,     \* metrics_buffer
    stored,     \* samples in the table of raw metrics
    lastAgg,    \* last_aggregation, 0 in a new scheduler
    period,     \* the minute that ends the period being aggregated
    made,       \* number of samples made so far
    used        \* how many events of each bounded kind have happened

(* History: samples in some aggregate, samples handled before their minute *)
(* was aggregated, samples lost in a flush that failed or was cancelled,   *)
(* schedulers whose stop() missed its deadline, and minutes aggregated.    *)
VARIABLES aggregated, inTime, lost, missed, closed

loopVars    == <<pc, after, stopFor, period>>
handleVars  == <<state, gen, tasks, handles, running>>
execVars    == <<probing, sending, made>>
dataVars    == <<buffer, stored, lastAgg>>
historyVars == <<aggregated, inTime, lost, missed, closed>>
vars == <<minute, loopVars, handleVars, ready, results, execVars, dataVars,
          used, historyVars>>

Gens    == 0 .. MaxFaults["reload"]
Minutes == 1 .. LastMinute
Samples == [id : 1 .. MaxSamples, task : Tasks, gen : Gens, minute : Minutes]
NoSample == [id |-> 0]
Results == [task : Tasks, sample : Samples \cup {NoSample}]

Places == {"top",        \* the periodic checks at the head of the loop
           "flush",      \* writing the metrics taken from the buffer
           "aggregate",  \* aggregating the previous minute
           "wait",       \* sending, or in select!, waiting for a message
           "drain",      \* stop(): waiting for executions
           "renew",      \* reload: making the new scheduler
           "close",      \* shutdown: the scheduler is stopped
           "exited",     \* shutdown is complete
           "failed"}     \* run() returned an error: exit(1)
Ended == {"exited", "failed"}

InRun == pc \in {"top", "flush", "aggregate", "wait", "drain", "renew"}
         /\ stopFor # "shutdown"

Elements(s) == {s[i] : i \in DOMAIN s}

Init ==
    /\ minute = 1
    /\ pc = "top"
    /\ after = "top"
    /\ stopFor = "nothing"
    /\ state = "Running"
    /\ gen = 0
    /\ tasks = Tasks
    /\ handles = Tasks
    /\ running = {}
    /\ ready = <<>>
    /\ results = <<>>
    /\ probing = [e \in Tasks \X Gens |-> 0]
    /\ sending = <<>>
    /\ buffer = <<>>
    /\ stored = {}
    /\ lastAgg = 0
    /\ period = 0
    /\ made = 0
    /\ used = [f \in FaultKinds |-> 0]
    /\ aggregated = {}
    /\ inTime = {}
    /\ lost = {}
    /\ missed = {}
    /\ closed = {}

Spend(kind) ==
    /\ used[kind] < MaxFaults[kind]
    /\ used' = [used EXCEPT ![kind] = @ + 1]

-----------------------------------------------------------------------------
(* Tickers and executions.                                                 *)

ClockTick ==
    /\ pc \notin Ended
    /\ minute < LastMinute
    /\ minute' = minute + 1
    /\ UNCHANGED <<loopVars, handleVars, ready, results, execVars, dataVars,
                   used, historyVars>>

(* The ticker of a task sends its name; it waits while the channel is full *)
(* and then makes up for the ticks it missed.                              *)
Ticker(t) ==
    /\ pc \notin Ended
    /\ t \in handles
    /\ Len(ready) < ChannelSize
    /\ ready' = Append(ready, t)
    /\ UNCHANGED <<minute, loopVars, handleVars, results, execVars, dataVars,
                   used, historyVars>>

(* The probe of an execution is over: with a metric of this minute ...     *)
ProbeSucceeds(t) ==
    /\ pc \notin Ended
    /\ probing[<<t, gen>>] > 0
    /\ made < MaxSamples
    /\ made' = made + 1
    /\ probing' = [probing EXCEPT ![<<t, gen>>] = @ - 1]
    /\ LET s == [id |-> made + 1, task |-> t, gen |-> gen, minute |-> minute]
       IN  sending' = Append(sending, [task |-> t, sample |-> s])
    /\ UNCHANGED <<minute, loopVars, handleVars, ready, results, dataVars,
                   used, historyVars>>

(* ... or with an error, the executor's own timeout among them.            *)
ProbeFails(t) ==
    /\ pc \notin Ended
    /\ probing[<<t, gen>>] > 0
    /\ probing' = [probing EXCEPT ![<<t, gen>>] = @ - 1]
    /\ sending' = Append(sending, [task |-> t, sample |-> NoSample])
    /\ UNCHANGED <<minute, loopVars, handleVars, ready, results, made,
                   dataVars, used, historyVars>>

(* The channel hands its room to the senders in turn.                      *)
SendResult ==
    /\ pc \notin Ended
    /\ sending # <<>>
    /\ Len(results) < ChannelSize
    /\ results' = Append(results, Head(sending))
    /\ sending' = Tail(sending)
    /\ UNCHANGED <<minute, loopVars, handleVars, ready, probing, made,
                   dataVars, used, historyVars>>

(* The result of an execution that outlived its scheduler has no receiver. *)
ProbeOutlived(t, g) ==
    /\ pc \notin Ended
    /\ g # gen
    /\ probing[<<t, g>>] > 0
    /\ probing' = [probing EXCEPT ![<<t, g>>] = @ - 1]
    /\ UNCHANGED <<minute, loopVars, handleVars, ready, results, sending, made,
                   dataVars, used, historyVars>>

-----------------------------------------------------------------------------
(* Flushes.  A flush takes the whole buffer before it writes, so what an   *)
(* error or a cancellation leaves unwritten is in no place any more.       *)

StartFlush(next) ==
    /\ pc' = "flush"
    /\ after' = next

(* The first n metrics of the buffer are written, the rest is lost.        *)
Write(n) ==
    /\ stored' = stored \cup Elements(SubSeq(buffer, 1, n))
    /\ lost' = lost \cup Elements(SubSeq(buffer, n + 1, Len(buffer)))
    /\ buffer' = <<>>

(* Where the loop is once stop() has flushed and aborted the tickers.      *)
Stopped == IF stopFor = "reload" THEN "renew" ELSE "close"

(* stop(), last part.                                                      *)
ClearAndAbort ==
    /\ handles' = {}
    /\ running' = {}
    /\ pc' = Stopped

(* The process ends, and everything in memory with it.                     *)
Halt(how) ==
    /\ pc' = how
    /\ handles' = {}
    /\ running' = {}
    /\ ready' = <<>>
    /\ results' = <<>>
    /\ probing' = [e \in Tasks \X Gens |-> 0]
    /\ sending' = <<>>

Close ==
    /\ pc = "close"
    /\ Halt("exited")
    /\ UNCHANGED <<minute, after, stopFor, period, state, gen, tasks, made,
                   dataVars, used, historyVars>>

FlushDone ==
    /\ pc = "flush"
    /\ Write(Len(buffer))
    /\ IF after = "abort"
          THEN ClearAndAbort
          ELSE /\ pc' = after
               /\ UNCHANGED <<handles, running>>
    /\ after' = "top"
    /\ UNCHANGED <<minute, stopFor, period, state, gen, tasks, ready,
                   results, execVars, lastAgg, used, aggregated, inTime, missed,
                   closed>>

(* A write fails.  The periodic flushes return the error from run(); the   *)
(* flush of a full buffer and that of stop() only log it.  The code that   *)
(* would keep the newer half finds the buffer empty.                       *)
FlushFails ==
    /\ pc = "flush"
    /\ Spend("dberror")
    /\ \E n \in 0 .. Len(buffer) - 1 : Write(n)
    /\ after' = "top"
    /\ IF after \in {"aggregate", "wait"}
          THEN Halt("failed")
          ELSE /\ IF after = "abort"
                     THEN ClearAndAbort
                     ELSE pc' = after /\ UNCHANGED <<handles, running>>
               /\ UNCHANGED <<ready, results, probing, sending>>
    /\ UNCHANGED <<minute, stopFor, period, state, gen, tasks, made, lastAgg,
                   aggregated, inTime, missed, closed>>

-----------------------------------------------------------------------------
(* The head of the loop.                                                   *)

(* Mutant: the aggregation does not flush first.                           *)
StartAggregationUnflushed ==
    /\ pc = "top"
    /\ state = "Running"
    /\ minute > lastAgg
    /\ period' = minute
    /\ pc' = "aggregate"
    /\ UNCHANGED <<minute, after, stopFor, handleVars, ready, results, execVars,
                   dataVars, used, historyVars>>

(* check_and_perform_aggregation, to the end of flush_metrics_now.         *)
StartAggregation ==
    /\ pc = "top"
    /\ state = "Running"
    /\ minute > lastAgg
    /\ period' = minute
    /\ IF buffer = <<>>
          THEN pc' = "aggregate" /\ UNCHANGED after
          ELSE StartFlush("aggregate")
    /\ UNCHANGED <<minute, stopFor, handleVars, ready, results, execVars,
                   dataVars, used, historyVars>>

(* aggregate_task_metrics, of the previous minute and of every task of the *)
(* configuration.                                                          *)
Aggregate ==
    /\ pc = "aggregate"
    /\ aggregated' = aggregated \cup
           {s \in stored : s.minute = period - 1 /\ s.task \in tasks}
    /\ lastAgg' = period
    /\ closed' = closed \cup {period - 1}
    /\ period' = 0
    /\ pc' = "wait"
    /\ UNCHANGED <<minute, after, stopFor, handleVars, ready, results,
                   execVars, buffer, stored, used, inTime, lost, missed>>

(* A query or a write of the aggregation fails: run() returns the error.   *)
AggregateFails ==
    /\ pc = "aggregate"
    /\ Spend("dberror")
    /\ Halt("failed")
    /\ buffer' = <<>>
    /\ UNCHANGED <<minute, after, stopFor, period, state, gen, tasks, made,
                   stored, lastAgg, historyVars>>

(* flush_metrics_if_needed: the flush interval may have passed or not.     *)
FlushIfNeeded ==
    /\ pc = "top"
    /\ state = "Running"
    /\ minute = lastAgg
    /\ \/ buffer # <<>> /\ StartFlush("wait")
       \/ pc' = "wait" /\ UNCHANGED after
    /\ UNCHANGED <<minute, stopFor, period, handleVars, ready, results,
                   execVars, dataVars, used, historyVars>>

-----------------------------------------------------------------------------
(* Messages.                                                               *)

(* Samples whose minute the scheduler has not aggregated.                  *)
Timely == {s \in Samples : s.minute >= lastAgg}

(* Mutant: a full buffer is left to the periodic flushes.                  *)
HandleResultUnbounded(next) ==
    /\ results # <<>>
    /\ running' = running \ {Head(results).task}
    /\ buffer' = IF Head(results).sample = NoSample
                    THEN buffer ELSE Append(buffer, Head(results).sample)
    /\ inTime' = inTime \cup ({Head(results).sample} \cap Timely)
    /\ pc' = next
    /\ results' = Tail(results)
    /\ UNCHANGED <<minute, after, stopFor, period, state, gen, tasks, handles,
                   ready, execVars, stored, lastAgg, used, aggregated, lost,
                   missed, closed>>

(* Mutant: the result of a failed probe is dropped before the flag.        *)
HandleResultOfSuccess(next) ==
    /\ results # <<>>
    /\ LET r == Head(results)
           full == Len(buffer) + 1 >= MaxBuffer
       IN  IF r.sample = NoSample
              THEN pc' = next /\ UNCHANGED <<running, buffer, inTime, after>>
              ELSE /\ running' = running \ {r.task}
                   /\ buffer' = Append(buffer, r.sample)
                   /\ inTime' = inTime \cup ({r.sample} \cap Timely)
                   /\ IF full THEN StartFlush(next)
                              ELSE pc' = next /\ UNCHANGED after
    /\ results' = Tail(results)
    /\ UNCHANGED <<minute, stopFor, period, state, gen, tasks, handles, ready,
                   execVars, stored, lastAgg, used, aggregated, lost, missed,
                   closed>>

(* handle_task_result of the first result, in select! or in stop(), after  *)
(* which the caller goes on at next.                                       *)
HandleResult(next) ==
    /\ results # <<>>
    /\ LET r == Head(results)
           full == r.sample # NoSample /\ Len(buffer) + 1 >= MaxBuffer
       IN  /\ running' = running \ {r.task}
           /\ buffer' = IF r.sample = NoSample
                           THEN buffer ELSE Append(buffer, r.sample)
           /\ inTime' = inTime \cup ({r.sample} \cap Timely)
           /\ IF full THEN StartFlush(next)
                      ELSE pc' = next /\ UNCHANGED after
    /\ results' = Tail(results)
    /\ UNCHANGED <<minute, stopFor, period, state, gen, tasks, handles, ready,
                   execVars, stored, lastAgg, used, aggregated, lost, missed,
                   closed>>

ReceiveResult == pc = "wait" /\ HandleResult("top")

(* execute_single_task: not while the task is running.                     *)
ReceiveReady ==
    /\ pc = "wait"
    /\ ready # <<>>
    /\ LET t == Head(ready)
       IN  IF t \in handles \ running
              THEN /\ running' = running \cup {t}
                   /\ probing' = [probing EXCEPT ![<<t, gen>>] = @ + 1]
              ELSE UNCHANGED <<running, probing>>
    /\ ready' = Tail(ready)
    /\ pc' = "top"
    /\ UNCHANGED <<minute, after, stopFor, period, state, gen, tasks, handles,
                   results, sending, made, dataVars, used, historyVars>>

-----------------------------------------------------------------------------
(* stop(), called by a reload and by the shutdown.                         *)

(* Mutant: stop() does not flush.                                          *)
AbortOnly == ClearAndAbort /\ UNCHANGED after

(* The flush of stop(), or what follows it when there is nothing to write. *)
FlushAndAbort ==
    IF buffer # <<>>
       THEN StartFlush("abort") /\ UNCHANGED <<handles, running>>
       ELSE ClearAndAbort /\ UNCHANGED after

(* stop() up to the wait for executions, which it skips when none runs.    *)
BeginStop(reason) ==
    /\ stopFor' = reason
    /\ state' = "Stopped"
    /\ pc' = "drain"
    /\ after' = "top"
    /\ period' = 0
    /\ UNCHANGED <<handles, running>>

(* A stale configuration has been downloaded: download_and_apply_config.   *)
Reload ==
    /\ pc = "wait"
    /\ state = "Running"
    /\ Spend("reload")
    /\ BeginStop("reload")
    /\ UNCHANGED <<minute, gen, tasks, ready, results, execVars, dataVars,
                   historyVars>>

(* The loop finds the scheduler stopped and leaves run().                  *)
LeaveLoop ==
    /\ pc = "top"
    /\ state = "Stopped"
    /\ BeginStop("shutdown")
    /\ UNCHANGED <<minute, gen, tasks, ready, results, execVars, dataVars,
                   used, historyVars>>

(* The signal: select! drops run() where it is, then shutdown() stops the  *)
(* scheduler.  Of a flush under way some metrics are written.              *)
Signal ==
    /\ InRun
    /\ IF pc = "flush"
          THEN \E n \in 0 .. Len(buffer) : Write(n)
          ELSE UNCHANGED <<buffer, stored, lost>>
    /\ BeginStop("shutdown")
    /\ UNCHANGED <<minute, gen, tasks, ready, results, execVars, lastAgg,
                   used, aggregated, inTime, missed, closed>>

(* Mutant: stop() waits for the flags and handles results after that.      *)
DrainResultAfter ==
    /\ pc = "drain"
    /\ running = {}
    /\ HandleResult("drain")

(* try_recv in the wait of stop().                                         *)
DrainResult ==
    /\ pc = "drain"
    /\ running # {}
    /\ HandleResult("drain")

(* No execution is left to wait for.                                       *)
Drained ==
    /\ pc = "drain"
    /\ running = {}
    /\ FlushAndAbort
    /\ UNCHANGED <<minute, stopFor, period, state, gen, tasks, ready, results,
                   execVars, dataVars, used, historyVars>>

(* The deadline passes with executions under way.                          *)
DeadlineMissed ==
    /\ pc = "drain"
    /\ running # {}
    /\ results = <<>>
    /\ missed' = missed \cup {gen}
    /\ FlushAndAbort
    /\ UNCHANGED <<minute, stopFor, period, state, gen, tasks, ready, results,
                   execVars, dataVars, used, aggregated, inTime, lost, closed>>

(* Mutant: the new scheduler takes over the channel of results.            *)
RenewSharedChannel ==
    /\ pc = "renew"
    /\ gen' = gen + 1
    /\ tasks' = NewTasks
    /\ handles' = NewTasks
    /\ running' = {}
    /\ ready' = <<>>
    /\ buffer' = <<>>
    /\ lastAgg' = 0
    /\ state' = "Running"
    /\ stopFor' = "nothing"
    /\ pc' = "wait"
    /\ UNCHANGED <<minute, after, period, results, sending, probing, made,
                   stored, used, historyVars>>

(* A new scheduler with new channels takes the place of the old one.       *)
Renew ==
    /\ pc = "renew"
    /\ gen' = gen + 1
    /\ tasks' = NewTasks
    /\ handles' = NewTasks
    /\ running' = {}
    /\ ready' = <<>>
    /\ results' = <<>>
    /\ sending' = <<>>
    /\ buffer' = <<>>
    /\ lastAgg' = 0
    /\ state' = "Running"
    /\ stopFor' = "nothing"
    /\ pc' = "wait"
    /\ UNCHANGED <<minute, after, period, probing, made, stored, used,
                   historyVars>>

(* TaskScheduler::new fails: the error is logged and the loop goes on with *)
(* the stopped scheduler.                                                  *)
RenewFails ==
    /\ pc = "renew"
    /\ Spend("badreload")
    /\ stopFor' = "nothing"
    /\ pc' = "wait"
    /\ UNCHANGED <<minute, after, period, handleVars, ready, results, execVars,
                   dataVars, historyVars>>

-----------------------------------------------------------------------------
Flush == FlushDone \/ FlushFails
Aggregation == StartAggregation \/ Aggregate \/ AggregateFails
Message == ReceiveResult \/ ReceiveReady
Stop == DrainResult \/ Drained \/ Renew \/ RenewFails \/ Close

Loop == Flush \/ Aggregation \/ FlushIfNeeded \/ Message \/ LeaveLoop \/ Stop

ProbeEnds(t) == ProbeSucceeds(t) \/ ProbeFails(t)

Next ==
    \/ Loop \/ SendResult \/ ClockTick \/ Reload \/ Signal \/ DeadlineMissed
    \/ \E t \in Tasks :
          Ticker(t) \/ ProbeEnds(t) \/ \E g \in Gens : ProbeOutlived(t, g)

Spec == Init /\ [][Next]_vars

(* Each tokio task that can go on does; select! takes its ready branches   *)
(* in random order; a probe ends, by its timeout at the latest.  Nothing   *)
(* below needs the deadline of stop(), a tick, or the clock.               *)
Fairness ==
    /\ WF_vars(Loop)
    /\ SF_vars(ReceiveResult)
    /\ WF_vars(SendResult)
    /\ \A t \in Tasks : WF_vars(ProbeEnds(t))

FairSpec == Spec /\ Fairness

-----------------------------------------------------------------------------
(* Types.  Between two flushes the buffer is below its limit: each metric  *)
(* that fills it is followed by a flush (max_metrics_buffer_size).         *)
TypeOK ==
    /\ minute \in Minutes
    /\ pc \in Places
    /\ after \in {"top", "aggregate", "wait", "drain", "abort"}
    /\ stopFor \in {"nothing", "reload", "shutdown"}
    /\ state \in {"Running", "Stopped"}
    /\ gen \in Gens
    /\ tasks \subseteq Tasks
    /\ handles \subseteq tasks
    /\ running \subseteq handles
    /\ ready \in Seq(Tasks) /\ Len(ready) <= ChannelSize
    /\ results \in Seq(Results) /\ Len(results) <= ChannelSize
    /\ probing \in [Tasks \X Gens -> Nat]
    /\ sending \in Seq(Results)
    /\ buffer \in Seq(Samples)
    /\ Len(buffer) < MaxBuffer + (IF pc = "flush" THEN 1 ELSE 0)
    /\ stored \subseteq Samples
    /\ lastAgg \in Minutes \cup {0}
    /\ period \in Minutes \cup {0}
    /\ made \in 0 .. MaxSamples
    /\ used \in [FaultKinds -> Nat]
    /\ aggregated \subseteq Samples
    /\ inTime \subseteq Samples
    /\ lost \subseteq Samples
    /\ missed \subseteq Gens
    /\ closed \subseteq Minutes \cup {0}

(* The results on their way to the main loop, first first.                 *)
OnTheWay == results \o sending

(* Executions of t under way for the scheduler, and its unhandled results. *)
Waiting(t) == {i \in DOMAIN OnTheWay : OnTheWay[i].task = t}
Unhandled(t) == probing[<<t, gen>>] + Cardinality(Waiting(t))

(* is_running says exactly whether an execution is under way or its result *)
(* is on the way, for the scheduler's own executions: so a task is never   *)
(* run twice at a time, nor barred from running for ever.  Executions of   *)
(* an older scheduler are left only by a stop() that missed its deadline,  *)
(* and do not touch the flags of the new one.                              *)
OneExecution ==
    \A t \in Tasks :
        /\ gen \notin missed => Unhandled(t) = IF t \in running THEN 1 ELSE 0
        /\ \A g \in Gens \ {gen} : probing[<<t, g>>] > 0 => g \in missed

(* No sample vanishes: it is in its execution's hands, in the channel, in  *)
(* the buffer or in the database, unless a write failed or was cut off, or *)
(* its scheduler's stop() missed its deadline.  So a reload and a shutdown *)
(* in time lose nothing.                                                   *)
SampleAccounted ==
    LET InMemory == Elements(buffer)
                    \cup {r.sample : r \in Elements(OnTheWay)}
    IN  \/ pc = "failed" \/ missed # {}
        \/ \A i \in 1 .. made :
               \E s \in InMemory \cup stored \cup lost : s.id = i

(* A sample handled before its minute is aggregated is in that aggregate,  *)
(* also when it was still in the buffer at the change of the minute, and   *)
(* across a reload.  Excepted are a lost sample, a minute in which the     *)
(* loop never came to the aggregation, and a task the reload removed.      *)
InTimeIsAggregated ==
    \A s \in inTime :
        lastAgg > s.minute =>
            \/ s \in aggregated \cup lost
            \/ s.minute \notin closed
            \/ s.task \notin tasks

(* An execution's result is handled and its task can run again, however    *)
(* full the channels are, as long as the agent runs.                       *)
TaskCompletes ==
    \A t \in Tasks : t \in running ~> t \notin running \/ pc \in Ended

(* A stop comes to its end: the reload installs a scheduler (or the agent  *)
(* ends first), the shutdown exits.                                        *)
StopCompletes ==
    /\ stopFor = "reload" ~> stopFor # "reload" \/ pc \in Ended
    /\ stopFor = "shutdown" ~> pc = "exited"
=============================================================================
