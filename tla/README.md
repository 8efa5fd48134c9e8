# LinkSense in TLA+

A verification project for LinkSense, the network monitor in this repository:
agents that probe, aggregate and deliver measurements, and a central server
that stores them, hands out configurations and watches the agents' health.
TLC checks the modules on small instances; TLAPS proves most of the safety
properties that TLC checks, and the refinement of delivery, for every instance.

Run inside this directory, for instance
`tlc -config DeliveryFaults.cfg MCMetricDelivery.tla`,
`tlc -config ConfigSync.cfg MCConfigSync.tla`,
`tlapm MetricDeliveryProofs.tla`. `PROJECT.json` lists the runs with what each
checks, the theorems, the hazards the properties are for, and the source lines
every definition stands for.

## 1. The system

| Component | Source | State it keeps | Operations |
|---|---|---|---|
| Agent main loop | `agent/src/main.rs` | times of last send, cleanup, refresh | one loop: aggregate, flush, clean up, send, then one task event |
| Send queue and local tables | `agent/src/database.rs`, `agent/src/database/*.rs` | raw rows, aggregate rows, `metric_send_queue` | store, enqueue, fetch, mark sending / sent / failed, recover, clean up |
| Task scheduler | `agent/src/scheduler.rs` | tickers, `running_tasks`, buffer, `last_aggregation` | start, stop, execute, handle result, flush, aggregate |
| Task executor | `agent/src/tasks.rs` | none that lasts | run one probe under a timeout, send the result |
| Probes | `agent/src/task_*.rs` | none | ping, TCP, HTTP, TLS, DNS, SNMP, SQL, bandwidth |
| Agent configuration | `agent/src/config.rs` | `agent.toml`, `tasks.toml`, their parsed form | load, reload, update from the server, hash |
| Server API | `server/src/api.rs` | rate limiter windows | metrics, configs, errors, verify, upload, bandwidth |
| Server database | `server/src/database.rs`, `server/src/database/*.rs` | agents, metrics, configuration errors, health checks | upsert, store in one transaction, clean up |
| Bandwidth manager | `server/src/bandwidth_state.rs` | current test, waiting queue | request, complete, expire |
| Server configuration | `server/src/config.rs` | files per agent, cache, file watcher | read through the cache, reload, update on a file event |
| Reconfiguration | `server/src/reconfigure.rs` | drop folder, backups | validate, back up, apply to the listed agents |
| Health monitor | `server/src/health_monitor.rs` | checks in the database | compare expected and received metrics, export, clean up |
| Server main | `server/src/main.rs` | background tasks, shutdown signal | start, run, shut down with timeouts |
| Shared types and validation | `shared/src/*.rs` | none | parse and validate configurations, metric types, hashes |

**How they interact.** Probes send results over a bounded channel to the
scheduler, which buffers them, writes them to SQLite and, once a minute,
aggregates the previous minute and queues the aggregates. The main loop posts
batches of them to `/api/v1/metrics` with the hash of `tasks.toml`; the server
stores a batch in one transaction and answers whether the hash is the one it
has. On a stale answer the agent asks `/config/verify` and replaces its tasks
file and its scheduler. Bandwidth probes ask the server for the one test slot
and download from it. The server's own tasks (clean up, rate-limiter sweep,
drop folder, health monitor, file watcher) run beside the handlers and share
the database, the cache and the files with them.

**What is hard, and what makes each part correct.**

* *Delivery*: lost and late responses, kills between two statements, retries
  with backoff, a minute aggregated twice after a restart or a reload, batches
  rejected as a whole. Correct when nothing is marked sent that is not stored,
  nothing disappears from the queue unless it was stored or given up on, and
  everything is settled in the end.
* *Scheduler*: tickers, executions and results are concurrent; a stop waits
  for running executions up to a deadline, a reload starts new tickers while
  old executions run. Correct when one task never runs twice at once and every
  sample handled reaches the minute it belongs to.
* *Bandwidth slot*: requests, downloads, time-outs and the queue interleave.
  Correct when no agent waits twice or while it holds the slot, nobody ends
  another's test, and an agent that is gone does not keep the slot.
* *Configuration*: the agent's file, memory and hash, the server's file and
  cache change at different moments. Correct when both sides converge and an
  agent that reports the server's hash runs the server's tasks.
* *Reconfiguration*: several agents are changed one after the other and any
  may fail. Correct when a request is applied once and a backup of what was
  there remains.
* *Server retention*: rows of several tables with foreign keys are deleted one
  table after the other. Correct when an agent that is gone is removed, and
  rows within the retention are not.
* *Health monitor*: compares what arrived in a window of minutes with what the
  tasks should have produced. Correct when a healthy agent is not reported.
* *Validation, aggregation, backoff, delay, version comparison*: pure
  functions whose boundaries matter.

## 2. Modules and what is left

| Part | Modules | Proofs | Section |
|---|---|---|---|
| Delivery of metrics | `SendQueue`, `MetricStore`, composed by `MetricDelivery`; the abstract `DeliveryContract`; `MCMetricDelivery` | `MetricDeliveryProofs`, `DeliveryContractProofs` | 3 |
| Bandwidth tests | `Retain`; `BandwidthSlot`, extended by `BandwidthTest`; `MCBandwidthTest` | `BandwidthTestProofs` | 4 |
| Configurations | `ServerConfigs` (files, cache, drop folder), extended by `ConfigSync` (agents, exchanges); `MCConfigSync` | `ConfigSyncProofs` | 5 |
| Task scheduler | `TaskScheduler`; `MCTaskScheduler` | `TaskSchedulerProofs` | 6 |
| Server process | `MetricStore`, extended by `ServerDatabase`, `HealthMonitor` and `ServerProcess` in turn; `MCServerProcess` | `ServerProcessProofs` | 7 |
| Rate limiter | `RateLimiter`; `MCRateLimiter` | `RateLimiterProofs` | 7 |
| Settings | `Settings` (functions), extended by `ProgramSettings`; `MCProgramSettings` | `ProgramSettingsProofs` | 8 |

The MC modules give the constants their values for TLC; an operator whose comment
begins with `Mutant:` is a plausible bug in the definition that follows it, there to
show that a property of the run would notice.

Proved for all values of the constants are every type invariant, every other
invariant of a passing run, the refinement `KeepsContract`, and the action
properties `OnlyOwnTestEnds`, `ReportIsThisCheck`, `NoFalseAlarm`, `SilentIsReported`,
`WindowLimit` and `ShutdownCutsNothing`: every safety property of a passing run. Only
checked by TLC are the properties that hold under fairness (`EventuallySettled`,
`GoneAgentReleases`, `EventuallyInSync`, `TaskCompletes`, `StopCompletes`, `OldMetricsGo`,
`DeadAgentsGo`, `ShutdownCompletes`), which the prover has no rules for.

The modules declare no RECURSIVE operator. The proofs assume what the modules
assume of their constants and nothing else; where a theorem needs more, as
`OutagesLoseNothing` (a bound on refusals), `AlarmsAreJustified` and
`SilentAgentsAreReported` do, its statement says so.

## 3. Delivery

### Modules and their correspondence with the code

`SendQueue` is the agent's database. `row[i]` is the aggregate row with id `i`
(the pair of metric type and row id in the code, which has one table per
type); `queue[i]` is the entry `metric_send_queue` has for it. Its operators
are the statements of `db_queue.rs` and `db_ping.rs` (the other `db_*.rs` files
have the same shape). Timestamps are kept as the minutes left until the
comparison the code makes turns true: `timer` is the time to `next_retry_at` of
a pending entry, the retention left of a sent or failed one. Ids stand for
`created_at` in the order of a batch.

`MetricStore` is the server's tables for one agent, with their `UNIQUE` key and
the transaction of `store_metrics`.

`MetricDelivery` is the agent's main loop over the first, the server's handler
over the second, and the exchange between them. Each action is one step of the
loop (`AtLoop` says it is between two): `StartAggregation`, then `StoreOne` and
`EnqueueOne` for every task, the two separate statements of
`store_and_enqueue_aggregated_metrics`; `BeginSend` up to the request; then
`HandleAccepted` or `HandleFailed`; the two cleanups. `ServerHandle` and
`ServerRefuse` answer the request at hand. `Timeout` ends the wait without the
answer and leaves the request to `strays`, from where `ServerHandleStray` may
still deliver it, in any order with later ones, or never. `Crash` is a kill, an
exit on an error or a shutdown (which drops the loop's future at its await)
and may come between any two steps; `Restart` recovers the entries left in
`sending`. `ReloadScheduler` is the part of `download_and_apply_config` that
matters here: the new scheduler has `last_aggregation = 0`. An `UPDATE` of the
queue that fails (`dberror`) is only logged by the code: the entries stay as
they were.

`produced`, `abandoned` and `stranded` are history variables: every key ever
stored as an aggregate, every key an entry of which became `failed`, and every
key whose row was stored but not queued when the agent was killed.

### Runs

| Run | Instance | Shows |
|---|---|---|
| `delivery_faults` | 2 tasks, 1 minute of samples, batch 2, 2 attempts, one crash, timeout, reload and database error each | the safety invariants, and that the whole implements `DeliveryContract` |
| `delivery_outage` | 2 tasks, 2 minutes, 3 attempts, 2 refused requests, nothing else | `NoDataLoss` and `NeverResent` hold as long as no minute is aggregated twice and the outage is shorter than the retries |
| `delivery_liveness` | 1 task, 2 minutes, batch 1, one crash and one timeout | `EventuallySettled` |
| `delivery_reload` | as `delivery_outage`, one reload and no fault | a counterexample to `NoDataLoss` |

*Bounds.* `LastSample` bounds the minutes in which samples are taken; the clock
stops counting two minutes later, when nothing is left to aggregate, while the
timers run on. Every minute is aggregated at most once more per crash or reload,
so that `MaxRows` is never reached, except in `delivery_faults`, where its 5 rows
let one of the two metrics be aggregated three times and the other twice. Two tasks and batches of two
are the least that lets one rejected metric take another with it; two attempts
are the least with a backoff between them. `SentKeep` and `FailedKeep` (24 hours
and 7 days in the code) are short so that both cleanups happen; the length of
the retention of rows is left open. `MaxFaults` bounds each kind of event.

*Refinement.* `DeliveryContract` is what delivery promises without saying how: a
metric that was aggregated is owed, and a debt ends by the server having the
metric, by giving it up, or by a kill. `KeepsContract` is that specification with
`owed` mapped to the keys of the entries that can still be fetched and of the row
about to be queued, and the other variables to the history and the server's
tables. It says more than `NothingVanishes`: it is about every step, also those
that take a metric off the queue which an older or newer entry of the same key
still owes.

*Fairness.* Weak fairness of the clock, of the loop's own steps, of the server
for the request at hand, and of the restart. The loop's steps come round
because `run` loops for ever and its `select!` wakes on every tick of a task; a
configuration with no task would never wake it. `Timeout` and `ServerHandleStray`
have no fairness: a request may be lost. With the bound on timeouts spent the
server does answer.

### What the counterexample shows

`delivery_reload`: a stale answer makes the agent reload in the minute in which
it has just sent the aggregates of the previous one. The new scheduler
aggregates that minute again; `INSERT OR REPLACE` gives the row a new id, so the
queue takes a second entry for a key the server has. The server's plain
`INSERT` fails, the transaction is rolled back and the whole batch gets a 500.
The metrics in that batch share retry count and backoff with the duplicate
from then on and are given up on with it.

A second way to lose a metric is named as an exception in the properties (`stranded`): when
the agent is killed between storing a row and queueing it, and comes back in a later
minute, no statement queues that row any more.

### Proofs

`MetricDeliveryProofs` proves, for all values of the constants, that the types
are kept (`TypeCorrect`) and that an entry marked sent is stored
(`SentIsStored`). `SentWasStored` is not inductive: marking the batch needs to
know that a server that answered 200 has stored it (`AcceptedIsStored`), that
entries of the batch keep their keys while the loop waits (`Keyed`), and that
nothing else of the loop runs meanwhile (`OneTask`). Their conjunction with
`TypeOK` is the inductive invariant `Inv`; each action has a lemma.
The assumptions are those on the constants (`SendQueueAssumption`,
`DeliveryAssumption`), among them `metrics_max_retries <= 31`, beyond which the
code's `2_i32.pow` overflows.

`MetricDeliveryProofs` goes on from `Inv` and proves the other three invariants
of `delivery_faults`.

* `NothingEverVanishes` and `BatchesHaveNoDuplicates` need to know how ids, rows
  and entries belong together. `RowInv` says it: two rows never have one key
  (`RowKeysDiffer`, the table's `UNIQUE`), an entry has the key of its row as long
  as the row exists (`EntryOfRow`; afterwards `INSERT OR REPLACE` may have given
  the key to another row), ids not yet handed out have neither row nor entry
  (`IdsAheadUnused`), the row just stored has no entry (`FreshUnqueued`), and the
  rows of a batch survive the wait for the answer (`BatchHasRows`, because the
  loop that would delete them is the one that waits). Without the last, two
  entries of a batch could share a key through a row since replaced.
  `Quiet` and `Keeps` say what a step may do to rows, entries and history; all
  actions but `StoreOne` and `EnqueueOne` are shown to be such steps, and these
  two have proofs of their own.
* `SendingIsAlwaysInFlight`: every action either leaves the statuses `sending`
  alone or sets them together with `batch` (`NextSending`).

`DeliveryContractProofs` proves `KeepsContract`. `ContractInv` adds to `Inv` and
`RowInv` that keys come from what was aggregated (`Sourced`) and that the entries
of a batch are owed until the answer is handled (`BatchOwed`). Steps of the clock,
of the cleanups and of the loop between its exchanges are stutters of the contract
(`Unnoticed`: the same entries are deliverable, with the same keys). `EnqueueOne`
is one too, because the debt of the fresh row passes to its entry. `StoreOne`,
the server's transaction, a 200, a failed attempt and a kill map to the contract's
steps of the same kind.

Its second part is about an outage. `NoDataLoss` is false of the system as a whole
(`delivery_reload`), and so is `NeverResent` (after a lost answer, say); both are true while
nothing has happened but that the server refused requests (`Undisturbed`: no kill, lost answer, failed
`UPDATE` or reload so far). `OutagesRepeatNothing` states it so, and
`OutagesLoseNothing` in addition that there were fewer refusals than
`metrics_max_retries`. `OutageInv` is what an undisturbed history keeps: a minute
of a task is aggregated once (`OnceAggregated`), a key has one entry
(`OneEntry`), what is still to be sent the server does not have unless its answer is
on the way (`OwedNotStored`), and every attempt counted was a refusal
(`AttemptsRefused`).

## 4. Bandwidth tests

### Modules and their correspondence with the code

`BandwidthSlot` is `BandwidthTestManager` (`server/src/bandwidth_state.rs`):
`current` and `slotAge` are `current_test`, `waiting` is `waiting_queue`. Instants
are kept as ages that stop growing where the code's comparison no longer
changes. `RequestTest` and `CompleteTest` are `request_test` and `complete_test`,
each one hold of the write lock. `cleanup_expired_tests` is part of
`RequestTest`, as the code runs it there and nowhere else: a test that timed out
keeps the slot until somebody asks, and then passes to whoever asks, not to the
head of the queue.

`BandwidthTest` adds the agents' retry loop (`agent/src/task_bandwidth.rs`, under
the executor's timeout) and the two handlers of `server/src/api.rs`. `phase[a]` is
where the execution of agent `a` is; `elapsed`, `tries` and `delay` are the loop's
variables and are zero outside it, where nothing reads them. The download
handler holds the lock twice: `CheckDownload` compares the holder, and
`StartStreaming` completes the test and passes the slot on before the first byte
is sent. Anything may happen between them; `serving[a]` counts the handlers that
are there, as a download whose client has gone may be there beside a
new one, and `DropDownload` is the end of one whose connection was closed. `End`
ends an execution at any point (result, error, executor timeout, stop); its
request may then be handled later (`late`) or never.

### Runs

| Run | Instance | Shows |
|---|---|---|
| `bandwidth_slot` | 3 agents, one late request at a time, no fairness | `InOnePlace`, `OldestFirst`, `OnlyOwnTestEnds` |
| `bandwidth_gone` | 2 agents, one of them regular; one late request, two download handlers of one agent at a time | `GoneAgentReleases` |
| `bandwidth_concurrent` | 2 agents, no late request | a counterexample to `OneDownload` |

*Bounds.* A unit of time is about 60 seconds with the default values, so the
test's timeout is one or two units and the largest delay two or three. Three
agents are the least with an order among two that wait; agents are
interchangeable where no fairness tells them apart, hence the symmetry of
the first and third run. Two tries of the loop are the least with a retry; `bandwidth_slot`
has one, as an agent that asks again in its next execution does to the queue
what a retry does. `MaxLate` and `MaxServing` bound what is under way at one
time, not over the run.

*Fairness.* Time passes; the ticker of a regular agent starts its task again
(weak fairness of `Begin`), the executor's timeout ends each execution (weak
fairness of `End`), and not every request is lost (strong fairness of
`HandleRequest`, as an execution may end before it is handled). Nothing is
assumed of the other agents: that they may fall silent is the point of
`GoneAgentReleases`, and since clean-up happens on requests only, it would not
hold if no agent asked.

### What the counterexample and the runs show

`bandwidth_concurrent`: `a` is granted the slot and asks for the download; the
handler completes the test and then starts to stream. `b` asks, is granted the
free slot and streams too. Both transfers share the link, and both measure less than
it carries. The timeout of the slot does the same to a download that is slow
to be asked for.

`OldestFirst` is the order the code keeps: by the time of the *last*
request. An agent that is told to wait and asks again goes to the back, so the
queue is not first come first served over a whole execution, and it serves an
agent that does not listen any more as well as one that does.

### Proofs

`BandwidthTestProofs` proves the four properties of `bandwidth_slot` for any number
of agents and all delays. `OnlyOwnTestEnds` needs no invariant: `RequestKeeps` is
for the requests (the slot is only taken from a holder whose test timed out),
`CompletionKeeps` for the downloads, `OthersKeep` for the rest.

`TypeOK`, `InOnePlace` and `OldestFirst` come from one invariant, `Inv`, whose core is
`Behind(waiting, current)`: no agent is in the queue twice, ages do not increase along
it, and the holder is not in it. It is inductive as it stands, as each operation of
the manager takes a part of the queue, removes its head or adds the agent that asks
at its end, after removing it. That a part of the queue is as orderly as the whole rests on
the lemmas before it: the manager's `retain` is the function `Retained`, and
`RetainedInOrder` shows that its result is the image of an increasing map into the
queue. The induction over the sequence is by the least prefix for which
a fact would fail (`UpTo`), since the library's induction theorems cannot be instantiated.
The one assumption beyond the code's numbers is `AgentsAssumption`: no agent's id
is the value that stands for `None`.

## 5. Configurations

### Modules and their correspondence with the code

A text stands for the contents of a `tasks.toml`, for its hash and for its
compressed form: all that the code compares is whether two are equal. A text is
valid, or it parses and does not validate (`Unsound`), or it is what a reader finds
between the truncation and the write of a file (`Torn`, an empty file, which parses
to no configuration the code accepts).

`ServerConfigs` is the server's side. `file[a]` is the file of an agent in
`agent_configs_dir`, `cache[a]` its entry in `config_cache`. `events` is the
channel between the file watcher and `spawn_cache_updater`, which reads a file
(`UpdaterRead`) and then locks the cache (`UpdaterInsert`); `get_agent_config` does
the same on a miss (`LookupRead`, `LookupInsert`). The server starts by filling the
cache (`LoadAll`) and only then starts the watcher (`StartWatcher`); a file changed
in between is not noticed. `job` is `check_and_process` over the drop folder: read
the tasks, read the list, and for each agent back up, truncate, write; then remove
the request, or write `error.txt` and try again at the next interval. The operator
edits files and puts requests into the folder at any time.

`ConfigSync` adds the agents. `conf[a]` is `tasks.toml`, `running[a]` the text its
scheduler was made from, `doing[a]` what its main loop waits for: the upload at the
start, the answer to metrics, to a verify or to an upload, or the steps of applying
a text (`ApplyWrite`, `ApplyLoad`, `ApplyStart`), with a kill possible between any
two. The handlers answer from the cache.

Three history variables say what the code cannot know: `overtaken`, the agents
whose cache entry was read before the last change of the file; `origin`, what an
agent had before a request was applied; `tries`, how often that was tried.

### Run `config_sync`

One running agent, and a second id that a request may name and that has no file at
first. The events are an edit (two at most), a request, a kill of the server, a kill
of the agent, a timeout; `MaxCost` bounds their sum (a request 3, an edit 2, the others 1
of 4), so that a request meets a fault, two edits meet each other, and an edit
meets two faults. `MaxBackups` is 2 (10 in the code): the least for which a
retry must keep an older backup beside a newer one, and few enough for a retry too many
to push the original out. The requests are one for all agents, one for
both agents, one for one agent, one with tasks that do not validate and one without a list.

* `CacheFollowsFile`: what the cache has is what the file has, or an event is still
  to be handled. The exception, `overtaken`, is real: a lookup that read the file
  before a change and inserts after the updater has handled it leaves the old text
  in the cache until the next change, and so does a change during the start.
* `OriginalKept`: the text an agent had before a request is among its backups for
  as many attempts as there are backups. Each attempt of a request that keeps
  failing for another agent backs up what the attempt before it wrote, so that
  after `MAX_BACKUP_FILES` of them the original is gone.
* `RemovedOnlyWhenApplied`, `AgentRecoverable`: see the modules.
* `ReportsWhatItRuns`: the hash an agent sends is that of the tasks it runs, except
  for a text that parses but does not validate: `update_tasks_config` checks only
  the former before it replaces the file.
* `EventuallyInSync`: the agent ends up running what the file says. Excepted are
  the states the code cannot leave by itself: an overtaken entry, an unsound or torn file
  on either side, and an agent that runs a configuration without tasks, whose loop is never
  woken and which therefore never asks again. Whether a request names an agent over and
  over (`job.agent = a` again and again) is excluded as well: a request that fails for another
  agent rewrites this one's file for ever.

*Fairness.* Weak fairness of the server's start, updater, reconfiguration and
handlers, of the agent's loop and its restart; none of the operator, of faults, or
of the removal of a request.

*Left out.* The `configs` handler, which no agent calls; names of backups that
collide within a millisecond; events the operating system drops when its queue
overflows.

### Proofs

`ConfigSyncProofs` proves the six invariants of the run.

* `TypesHold`, `AgentsReportWhatTheyRun` and `AgentsAreRecoverable` rest on `TypeInv`.
  `TypeOK` is not inductive by itself: that the texts agents run are valid depends on
  what they are doing. `Good` says of an agent in each phase how its file, its
  earlier files and its running tasks belong together: during its first upload the
  file is what it is about to run; in the loop and in an exchange it is what runs, or is
  unsound; while a text is applied the file is torn, then the text; and whenever the
  file is not valid an earlier valid one is kept. `Named` says whom the updater, a
  lookup and a job are about. Each action of an agent is shown to be a `GoodStep`.
* `CacheIsTheFile`: `CacheInv` also covers what the updater has read and not yet inserted:
  it is the file's text, or an event of that file is still to come, and extends the property to
  the start of the server, before the watcher.
* `RequestsAreApplied`: `JobInv`, that an agent no longer left has been written unless the
  job has failed.
* `OriginalsAreKept`: `BackupInv` counts. After `tries` attempts the original is among the last
  `tries` backups of an agent (`Recent`), or one less for an agent that this attempt
  has not come to (`Awaiting`), so that it is there as long as `tries <= MaxBackups`.

## 6. Task scheduler

### Module and its correspondence with the code

`TaskScheduler` is `agent/src/scheduler.rs` with the part of `agent/src/tasks.rs`
that starts an execution and sends its result, and the main loop around it.
Concurrent are one ticker per task, the executions, the main loop and the
shutdown signal. `ready` and `results` are the two bounded channels; `sending`
is the line of executions that wait for room in the second. `pc` is where the main
loop is: at its head, in a flush, in the aggregation, waiting (sending, or in
`select!`), in the wait of `stop()`, making the new scheduler of a reload, or
closing. The signal cancels the loop at any of these, as dropping a future does:
of a flush under way some metrics have been written. `gen` numbers the schedulers, because
executions that outlive a `stop()` go on beside those of the next.

`lost`, `missed` and `closed` are history: samples of a failed or cancelled flush,
schedulers whose stop missed its deadline, minutes that were aggregated.

### Run `task_scheduler`

Two tasks, a reload that removes one of them, channels of one place, a buffer of
two, two samples, two minutes; one database error, one reload, one reload that
fails. A channel of one place is the least, and blocks soonest; a buffer of two is
the least that is neither always full nor always empty; two minutes let a sample
be handled in its own or in the next.

* `OneExecution`: `is_running` agrees with the execution and its result, over two
  channels and a reload.
* `SampleAccounted`, `InTimeIsAggregated`: no sample vanishes but for a write that
  failed, a flush that was cut off by the signal, or a missed deadline; one that is handled in
  time is in its minute's aggregate. The exceptions are the code's: a minute in
  which the loop never came to the aggregation is skipped for good, samples of
  stragglers are stored and never aggregated, and those of the last minute of a task
  that a reload removes are not aggregated either. `handle_task_result` means to keep the newer half
  of a buffer that could not be flushed; the flush has emptied it by then.
* `TaskCompletes`, `StopCompletes`: no task stays barred and no stop hangs, with both
  channels full. The deadline of `stop()` is not needed for this.

A reload whose new scheduler cannot be made (`RenewFails`) leaves the loop with the
stopped scheduler. A tick or a result still in a channel wakes it once more, and it
then ends as in a shutdown; without one nothing wakes it before the signal.

*Fairness.* Weak fairness of the loop, of the line of senders and of the end of each
probe (which has a timeout); strong fairness of `ReceiveResult`, because `select!`
chooses among its ready branches at random. None of the clock, of tickers or of the
deadline.

*Left out.* The staggered start of the tickers and the refresh of HTTP clients. The
periodic cleanups are in `MetricDelivery`. `max_concurrent_tasks`, the "Maximum number
of concurrent tasks" of `README_AGENT.md`, is validated and logged, and nothing else
reads it: the executions of different tasks are limited neither in the code nor here.

### Proofs

`TaskSchedulerProofs` proves the four invariants of the run, in layers that each use
those before: the main loop (`LoopInv`: only minutes that are over are aggregated,
later ones each time), the schedulers (`GenInv`), the channels (`ChannelInv`), the
buffer and tables (`DataInv`: the buffer is below its limit outside a flush, and
empty once the loop aggregates or has stopped). Together they give `TypesHold`.

* `OneAtATime` relates a flag, a count and two queues. `FlagsInv`: as long as the
  scheduler has not missed a deadline, a task is flagged exactly if one execution of it is under
  way or one result of it is on its way (`Busy`), and otherwise neither (`Idle`). A
  reload keeps it because the executions of older schedulers are exactly those
  whose stop missed its deadline (`OldInv`), and because nothing is under way when a stop
  ends in time (`AbortInv`). Steps are first classified by what they do to these
  variables (`Keeps`, `Begins`, `Finishes`, `Frees`, ...), so that the invariant is
  proved for eight kinds of step.
* `SamplesAreAccounted` and `SamplesInTimeCount` do the same for the samples
  (`Rests`, `Writes`, `Probes`, `Collects`, `Closes`, `Drops`). `SampleInv` says that every
  number handed out is somewhere, `AggInv` where a sample handled in time is from
  then on, and that a sample still in the channel, of a minute already
  aggregated, is too late. The new scheduler drops the channel of the old:
  `NothingLeft` shows, from `ExecInv`, that it is empty unless a deadline was missed.

The model was changed in one place for the proof: executions are counted in a function
(`probing`) and those on their way are one sequence (`OnTheWay`).

## 7. Server process

### Modules and their correspondence with the code

`ServerDatabase` is the server's database beyond `MetricStore`: agents, errors and
health checks, which refer to the agents by foreign keys that SQLite enforces, and
`cleanup_old_data`, each of whose statements commits by itself. `HealthMonitor` is
one check after the other: list the agents, judge each, store the verdicts in one
transaction, write the report from what the table then has, remove old checks; the
locks are taken anew for each step. `ServerProcess` puts the handlers of metrics and of
configuration errors, the cleanup and the monitor beside each other, and adds the start
and the shutdown, which waits for one task after the other with a timeout.

The metrics of an agent are counted by the minute, as the code aggregates them, and the
clock goes by the minute: a request, a cleanup and a check that is due end in the minute
they begin in, though in any order of their steps. What the monitor computes is in seconds,
as `validate` takes any: `Interval` and `Schedule`, the window (`InWindow`, which need not
begin with a minute), the entries expected of it (`ExpectedOf`), and when the interval
fires (`nextCheck`, from the second `StartSecond` of the minute the server starts in). A task
runs in the seconds `Phase` modulo its schedule, and so is due in some minutes and not
in others (`DueIn`); a run is taken to end in the minute it begins in, and an agent to keep
the phases of its tasks. Requests begin while the server is up and
may end during a shutdown, which does not wait for them. The watcher of
the drop folder and the WAL checkpoints change none of this state and are left out
of the tasks waited for, and so is the sweep of the limiter.

`RateLimiter` is `AgentRateLimiter`, which the handlers of metrics and of verify ask before
anything else; a request it turns away changes nothing in `ServerProcess`. It is a module of
its own as it shares no state with the rest. `check_rate_limit` reads the clock and then waits
for the lock, two steps (`Ask`, then `LetThrough` or `TurnAway`) between which other
requests, later ones too, and the sweep may have the lock; the sweep reads the clock under it.

### Run `server_process`

Two agents, one with a configuration of one task every 25 seconds and one every 90, one
without configuration; retention of metrics and of checks of two minutes, an interval
of 120 seconds, five minutes, two requests, one shutdown or kill. Five minutes are the least in which a metric can be stored, expire and be
removed after a restart.

* `RequestKeepsAgent`: between `upsert_agent` and `store_metrics` the cleanup does
  not remove the agent, because it was just seen.
* `NoFalseAlarm`, `SilentIsReported`, `ReportIsThisCheck`: the window leaves out the
  minutes that may be on their way; a slow task is expected as often as it surely
  ran; the report is this check's, except that two checks in one minute, after a
  restart or with an interval below a minute, share their timestamp. `validate` accepts
  intervals for which the first two are not so, and the properties name them. With one that
  is no number of whole minutes the window holds fewer minutes than it is long, and a slow
  task may be expected more often than that (`Overcounted`): with 90 seconds and a task that
  runs every 90, one entry is expected of the one minute in the window, in which the
  task does not run every third time, and a healthy agent is reported. With less than 60
  seconds nothing is expected of anybody, and no agent is ever reported as silent. (TLC
  finds both with `Interval` 90 or 45 when the exceptions are left out, and nothing
  else with `Interval` 45, 90 or 150.)
* `OldMetricsGo`, `DeadAgentsGo`: the retention. The second has a large exception:
  `DELETE FROM agents` is one statement, and one old agent that is still referred to
  makes it fail for all. A monitored agent is judged at every interval, alive or not, so
  its checks refer to it for ever: with monitoring on such an agent is never removed,
  and neither is any other, nor is the `VACUUM` after it reached.
* `ShutdownCutsNothing`, `ShutdownCompletes`: a cleanup or a check under way is not
  cut off unless its wait times out, and the cleanup in its initial delay, which does not
  listen, does not hold the shutdown up. (A task whose wait timed out is logged as
  aborted and in fact left alone.)

*Fairness.* Weak fairness of the cleanup, of the shutdown's steps and of the start.

### Run `rate_limiter`

Five requests of two agents, a window of two ticks and two requests in it, five instants.
Two in a window are the least with an order among them; with five, one agent can fill its
window twice and have one more. Requests of one agent are interchangeable, and so are
agents, hence the symmetry.

* `WindowLimit`: of the requests of an agent that came within the window before the present no
  more than `MaxRequests` were let through, several in one tick counted severally, and nobody is
  turned away for less. The present is what it holds for: a request that has waited for the
  lock is judged by the time it came at, from entries that a later one or the sweep has
  cleaned by a later clock, so that a window that ended in the past may hold more.
  Nothing bounds the wait, but nothing is served before it ends either.

### Proofs

`ServerProcessProofs` proves the types and all safety properties of `server_process`,
`RateLimiterProofs` that of `rate_limiter`.

* `TablesHold`: no metric, error or check without its agent (`ForeignKeys`), for any
  interleaving of handlers, cleanup and checks; the other proofs use it.
* `RequestsKeepAgents`: between its two steps a request has its agent's row at the present
  minute, and the cutoff of a cleanup is never later than now (`RequestInv`).
* `ReportsAreOfTheirCheck`: while a report is to be written the verdicts are in the table
  and no row is newer (`CheckInv`).
* `AlarmsAreJustified`, for agents that run the tasks of the configuration the server has of
  them (`ConfigsRun`; one that has not got it yet may well be reported) and are not
  `Overcounted`: the entries expected are pairs of a task and a number, and `RunOf` sends
  the i-th of a fast task to the i-th minute of the window, of a slow one to the minute of its
  i-th run in the window's seconds (`IsNthOf`). That there are so many runs is the rounding
  of the quotient (`RunsInWindow`), and that two of them are in different minutes is
  the schedule of 60 seconds or more (`MinutesDiffer`). No two entries go to one row
  (`RunsDiffer`), so a window whose due rows are all stored has as many rows as are
  expected (`EnoughReceived`), and no ratio up to 1 makes that a failure.
* `SilentAgentsAreReported`, with a ratio above 0 and an interval no longer than the
  retention (and, in the property, of a minute at least). `validate` accepts a ratio of 0, which reports nobody, and compares the two
  lengths nowhere: with an interval beyond the retention the cleanup may
  remove between the verdict and the report the rows an agent was found well by. With the
  hypotheses, a verdict that is not bad rests on a row that stays until
  the report (`VerdictInv`), as no cutoff reaches into the window (`CutoffInv`).
  Both hypotheses hold in the run.
* `WindowIsLimited`: the limiter forgets, so the invariant (`EntryInv`) says that what it
  has of an agent are requests let through, at most `MaxRequests`, among them all
  of the window before the present. A request drops only what is out of its window,
  which began no later than the present one as its clock is no later (`LimiterInv`), and
  a sweep what is out of the present one.
* `ShutdownsCutNothing`: a task ends at its `select!`, and the phase goes on when it has
  or its wait has timed out (`TaskInv`).

## 8. Settings

### Modules and their correspondence with the code

`Settings` is `shared/src/config.rs` as functions: what `validate` accepts of an
agent, of a server, of a list of tasks, and, beside it, what the programs need
(`CanProbe`, `AgentImpaired`, `ServerImpaired`): an execution, for instance, has a timeout
(`EffectiveTimeout`), and so has the probe in it (`ProbeTimeout`), read from the parameters of
the task even if the task has one of its own. Numbers are the code's; a text is the
class of its content, told apart as far as the code does. `ProgramSettings` is
the life of the settings in either program: `load_config`, the parts made from it in
`Agent::new` or `Server::new`, the overrides of the command line, which are validated and
written back, the parts made in `run`, and, in an agent, `update_tasks_config`,
which loads `agent.toml` again as well. Operators edit both files meanwhile.

### Run `program_settings`

The example configurations, and from there one edit of any field to each value
around its limits (or of the pairs of fields of which one makes the other matter), two
starts, any override, accepted, refused or torn by a kill, and one update of the
tasks with any of some fifty lists: tasks of every type with parameters right and
wrong, of which each wrong one breaks one rule. One edit at a time is enough as the
rules are about one field, or about a pair given as one edit.

* `ValidRuns`: with settings that were accepted every part works. The exceptions are the
  fields that are not looked at: `cleanup_interval_hours` and
  `wal_checkpoint_interval_seconds`, and with limiting off
  `rate_limit_window_seconds`, whose zero makes `tokio::time::interval` panic, which ends that
  background task and nothing else; a `health_check_interval_seconds` below 60, with
  which nobody is found silent; `bandwidth_test_timeout_seconds` and
  `bandwidth_max_delay_seconds` of 0, with which a test gives way at once and nobody is
  queued; `metrics_max_retries` over 31, which overflows the
  backoff; `http_client_timeout_seconds` of 0; an `agent_id` with hyphens at its ends
  or longer than the server takes; timeouts of 0, a task's own or the one in its `params`
  (which `timeout = 10` does not replace), and hosts, addresses and object
  ids that do not parse.
* `PartsAgree`: all parts have the same settings, except that those made before the overrides
  keep the old ones until the next start. An agent started with `--local-only true`
  on a configuration that was not still registers, and its scheduler keeps the
  server for bandwidth tests; a server given another `agent_configs_dir` reconfigures
  the files in the old one. (The guides say that arguments "take precedence over"
  the file: `README_AGENT.md` and `README_SERVER.md`.) An agent that finds
  `agent.toml` edited when its tasks are updated gives its scheduler the settings from
  before the edit.
* `StartsAgain`: a program that started can start again, whatever it was given on the
  command line. Its own write cut short and others' writes may prevent it, and one
  thing the agent does by itself: `update_tasks_config` parses what the server sent, writes it
  (`agent/src/config.rs:463`) and validates it only as it loads both files again (line 470).
  Tasks that parse and are not valid, such as two with one name in a file edited at the server,
  are then on the agent's disk: it goes on with the old ones, and does not start again until
  somebody repairs `tasks.toml` (`unvalidated`; its settings are still good, and the
  former tasks are among the backups, as section 5 has it). By `README_AGENT.md:314` the agent
  is to "Validate new config" before it writes. An override writes the whole
  of what was loaded, and so undoes an edit made since.

No fairness: the run has safety properties only. *Left out:* `reload_config` of both
programs, which nothing calls, and the round trip of writing and reading a file, which is taken to be exact.

### Proofs

`ProgramSettingsProofs` proves the three invariants of the run, for any environment that
offers the edits, overrides and tasks.

* `ProgramsStartAgain`: what is in memory is valid, and so are the files until somebody else
  writes to them or a write is cut short (`FileInv`): of its settings the program writes only
  what it has validated, and the tasks are valid unless the agent has refused those it
  wrote last. When it refuses valid tasks, because of the settings it loads with them,
  others have written these.
* `AllPartsAgree`: the parts made so far have the settings in memory, but for those that
  lag (`PartsInv`; `Made` are the parts that exist in a phase).
* `ValidSettingsRun`: the list of tasks that runs is one that was offered and passed the
  validation (`RunInv`); `ValidTasksProbe` is the fact about `Settings` behind it, that
  what `validate` accepts has what each probe needs. `TasksAssumption` says that the lists
  on offer are lists of tasks.

## 9. Not modelled

The probes' network protocols and what they measure, the values and formulas of the
aggregates, logging, the parsing of the command line, the sleep server used for
manual tests, the build and release workflow: no state of the system depends on
their order. The types of `shared/src/metrics.rs` and `shared/src/api.rs` have no
behaviour. Of the main loop, the refresh of HTTP clients and the `VACUUM`s. In
delivery: a changed set of tasks after a reload (which section 6 has), and the
server's retention (months against the hours a metric can be under way, and section 7 has it).
Hazards listed without a property are explained where they are listed in `PROJECT.json`.
