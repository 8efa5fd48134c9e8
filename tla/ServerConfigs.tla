--------------------------- MODULE ServerConfigs ---------------------------
(***************************************************************************)
(* The agents' configuration files on the server: the files themselves,    *)
(* the cache in front of them with its watcher and updater                 *)
(* (server/src/config.rs), and the reconfiguration of many agents through  *)
(* the drop folder (server/src/reconfigure.rs).                            *)
(*                                                                         *)
(* A text stands for the contents of a tasks.toml, its hash and its        *)
(* compressed form: they are equal when the texts are.  Every write is two *)
(* steps, the truncation and the write, and a reader may come between.     *)
(***************************************************************************)
EXTENDS Naturals, Sequences, FiniteSets

CONSTANTS
    Agents,     \* agent ids
    Valid,      \* texts that parse and validate
    Unsound,    \* texts that parse and do not validate
    Torn,       \* what is read of a file between truncation and write
    None,       \* no file, no cache entry, nobody
    MaxBackups, \* MAX_BACKUP_FILES
    Installed,  \* agents that may have a file from the start
    Initial,    \* texts they may have then
    Drops,      \* what the operator may put in the drop folder
    MaxEvents,  \* [EventKinds -> Nat]: bound on the events of each kind
    Cost,       \* [EventKinds -> Nat]: what an event of a kind counts
    MaxCost     \* bound on the events of all kinds together

(* edit: the operator changes a file.  request: the operator puts files in *)
(* the drop folder.  restart: the server is killed.  crash: an agent is    *)
(* killed.  timeout: an agent gives up waiting.                            *)
EventKinds == {"edit", "request", "restart", "crash", "timeout"}

Texts == Valid \cup Unsound \cup {Torn}
Maybe == Texts \cup {None}

Parses(t) == t \in Valid \cup Unsound
Validates(t) == t \in Valid

VARIABLES
    phase,      \* of the server: "down", "loading" (cache filled), "up"
    file,       \* the files in agent_configs_dir
    cache,      \* config_cache
    events,     \* agents whose file changed, in the watcher's channel
    updater,    \* what the updater has loaded and not yet inserted
    lookup,     \* the same of get_agent_config, one at a time (its lock)
    saving,     \* uploads past the test for an existing file
    job,        \* the reconfiguration being processed
    folder,     \* the drop folder
    backups,    \* per agent the texts backed up, oldest first
    used        \* how many events of each bounded kind have happened

(* History: agents whose cache entry was read before the last change of    *)
(* the file that the updater has handled; how often requests were applied  *)
(* since the last that succeeded, and what each agent had before.          *)
VARIABLES overtaken, tries, origin

cacheVars  == <<cache, updater, lookup>>
folderVars == <<job, folder, backups, tries, origin>>
serverVars == <<phase, file, cacheVars, events, saving, folderVars, used,
                overtaken>>

Steps == {"idle", "list", "apply", "write", "open", "clean"}

Nothing == [agent |-> None, text |-> None]
NoSave  == [step |-> "none", text |-> None]
NoJob   == [step |-> "idle", text |-> None, agent |-> None, left |-> {},
            targets |-> {}, written |-> {}, failed |-> FALSE]

Loaded == [agent : Agents \cup {None}, text : Maybe]
Saves  == [step : {"none", "checked", "open"}, text : Maybe]
Jobs   == [step : Steps, text : Maybe, agent : Agents \cup {None},
           left : SUBSET Agents, targets : SUBSET Agents,
           written : SUBSET Agents, failed : BOOLEAN]

(* What the operator may put in agent_list.txt: agents, or ALL AGENTS.     *)
Lists == [all : BOOLEAN, agents : SUBSET Agents]
NoList == [all |-> FALSE, agents |-> {}]
Folders == [tasks : Maybe, list : Lists, error : BOOLEAN]
NoFolder == [tasks |-> None, list |-> NoList, error |-> FALSE]

ASSUME ConfigAssumption ==
    /\ Torn \notin Valid \cup Unsound
    /\ None \notin Texts \cup Agents
    /\ Valid \cap Unsound = {}
    /\ MaxBackups \in Nat \ {0}
    /\ Installed \subseteq Agents
    /\ Initial \subseteq Valid
    /\ Drops \subseteq Folders
    /\ MaxEvents \in [EventKinds -> Nat]
    /\ Cost \in [EventKinds -> Nat]
    /\ MaxCost \in Nat

ServerTypeOK ==
    /\ phase \in {"down", "loading", "up"}
    /\ file \in [Agents -> Maybe]
    /\ cache \in [Agents -> Maybe]
    /\ events \subseteq Agents
    /\ updater \in Loaded
    /\ lookup \in Loaded
    /\ saving \in [Agents -> Saves]
    /\ job \in Jobs
    /\ folder \in Folders
    /\ backups \in [Agents -> Seq(Texts)]
    /\ \A a \in Agents : Len(backups[a]) <= MaxBackups
    /\ used \in [EventKinds -> Nat]
    /\ overtaken \subseteq Agents
    /\ tries \in 0 .. MaxBackups + 1
    /\ origin \in [Agents -> Maybe]

NoText == [a \in Agents |-> None]

ServerInit ==
    /\ phase = "down"
    /\ file \in [Agents -> Initial \cup {None}]
    /\ \A a \in Agents \ Installed : file[a] = None
    /\ cache = NoText
    /\ events = {}
    /\ updater = Nothing
    /\ lookup = Nothing
    /\ saving = [a \in Agents |-> NoSave]
    /\ job = NoJob
    /\ folder = NoFolder
    /\ backups = [a \in Agents |-> <<>>]
    /\ used = [k \in EventKinds |-> 0]
    /\ overtaken = {}
    /\ tries = 0
    /\ origin = NoText

CostOf(kind) == used[kind] * Cost[kind]

Spent == CostOf("edit") + CostOf("request") + CostOf("restart")
         + CostOf("crash") + CostOf("timeout")

Spend(kind) ==
    /\ used[kind] < MaxEvents[kind]
    /\ Spent + Cost[kind] <= MaxCost
    /\ used' = [used EXCEPT ![kind] = @ + 1]

(* The file of an agent becomes t; the watcher, when it runs, tells the    *)
(* updater of every creation, modification and removal.  A change after    *)
(* the cache was filled and before the watcher runs is seen by nobody.     *)
Put(a, t) ==
    /\ file' = [file EXCEPT ![a] = t]
    /\ events' = IF phase = "up" THEN events \cup {a} ELSE events
    /\ overtaken' = IF phase = "loading" THEN overtaken \cup {a}
                    ELSE overtaken
-----------------------------------------------------------------------------
(* Server::run up to load_all_agent_configs: the cache is what the         *)
(* directory holds.                                                        *)
LoadAll ==
    /\ phase = "down"
    /\ phase' = "loading"
    /\ cache' = file
    /\ overtaken' = {}
    /\ UNCHANGED <<file, events, updater, lookup, saving, folderVars, used>>

(* start_config_watcher and spawn_cache_updater; after this the server     *)
(* takes requests and looks into the drop folder.                          *)
StartWatcher ==
    /\ phase = "loading"
    /\ phase' = "up"
    /\ UNCHANGED <<file, cacheVars, events, saving, folderVars, used,
                   overtaken>>

(* The server is killed: what it was doing stays as far as it had come.    *)
KillServer ==
    /\ phase # "down"
    /\ Spend("restart")
    /\ phase' = "down"
    /\ cache' = NoText
    /\ events' = {}
    /\ updater' = Nothing
    /\ lookup' = Nothing
    /\ saving' = [a \in Agents |-> NoSave]
    /\ job' = NoJob
    /\ UNCHANGED <<file, folder, backups, tries, origin, overtaken>>

(* spawn_cache_updater: an event is taken and the file read ...            *)
UpdaterRead(a) ==
    /\ phase = "up"
    /\ updater = Nothing
    /\ a \in events
    /\ events' = events \ {a}
    /\ updater' = [agent |-> a, text |-> file[a]]
    /\ UNCHANGED <<phase, file, cache, lookup, saving, folderVars, used,
                   overtaken>>

(* Mutant: a file that is gone leaves its entry in the cache.              *)
UpdaterInsertOnly ==
    /\ updater # Nothing
    /\ cache' = IF updater.text = None THEN cache
                ELSE [cache EXCEPT ![updater.agent] = updater.text]
    /\ updater' = Nothing
    /\ overtaken' = overtaken \ {updater.agent}
    /\ UNCHANGED <<phase, file, events, lookup, saving, folderVars, used>>

(* ... and, with the cache locked, inserted, or removed if there is none.  *)
UpdaterInsert ==
    /\ updater # Nothing
    /\ cache' = [cache EXCEPT ![updater.agent] = updater.text]
    /\ updater' = Nothing
    /\ overtaken' = overtaken \ {updater.agent}
    /\ UNCHANGED <<phase, file, events, lookup, saving, folderVars, used>>

(* get_agent_config on a miss: the file is read without the cache's lock.  *)
LookupRead(a) ==
    /\ cache[a] = None
    /\ file[a] # None
    /\ lookup' = [agent |-> a, text |-> file[a]]
    /\ UNCHANGED <<phase, file, cache, events, updater, saving, folderVars,
                   used, overtaken>>

(* ... and inserted afterwards, whatever happened in between.              *)
LookupInsert ==
    /\ lookup # Nothing
    /\ cache' = [cache EXCEPT ![lookup.agent] = lookup.text]
    /\ lookup' = Nothing
    /\ overtaken' = IF lookup.text = file[lookup.agent] THEN overtaken
                    ELSE overtaken \cup {lookup.agent}
    /\ UNCHANGED <<phase, file, events, updater, saving, folderVars, used>>

-----------------------------------------------------------------------------
(* handle_config_upload once the test found no file: tokio::fs::write      *)
(* creates or truncates the file ...                                       *)
SaveOpen(a) ==
    /\ saving[a].step = "checked"
    /\ Put(a, Torn)
    /\ saving' = [saving EXCEPT ![a].step = "open"]
    /\ UNCHANGED <<phase, cacheVars, folderVars, used>>

(* ... and writes it.                                                      *)
SaveWrite(a) ==
    /\ saving[a].step = "open"
    /\ Put(a, saving[a].text)
    /\ saving' = [saving EXCEPT ![a] = NoSave]
    /\ UNCHANGED <<phase, cacheVars, folderVars, used>>

-----------------------------------------------------------------------------
(* The operator: edits, creates or removes an agent's file in one step, as *)
(* an editor or mv does; puts one or both of the files of a request in the *)
(* folder, in the place of those there; takes a request back.              *)
EditFile(a, t) ==
    /\ t # file[a]
    /\ Spend("edit")
    /\ Put(a, t)
    /\ UNCHANGED <<phase, cacheVars, saving, folderVars>>

NewRequest(f) ==
    /\ folder' = f
    /\ UNCHANGED <<phase, file, cacheVars, events, saving, job, backups,
                   tries, origin, overtaken>>

Drop(f) == Spend("request") /\ NewRequest([f EXCEPT !.error = folder.error])

Withdraw ==
    folder # NoFolder /\ UNCHANGED used /\ NewRequest(NoFolder)

-----------------------------------------------------------------------------
Proceed(j) ==
    /\ job' = j
    /\ UNCHANGED <<phase, cacheVars, saving, used>>

Untouched == UNCHANGED <<file, events, overtaken, backups, tries, origin>>

(* Any error of process_reconfiguration: it is written to error.txt and    *)
(* the request stays, to be tried again at the next interval.              *)
FailJob ==
    /\ Proceed(NoJob)
    /\ folder' = [folder EXCEPT !.error = TRUE]
    /\ Untouched

(* check_and_process with something in the folder: error.txt is removed,   *)
(* tasks.toml read and validated.                                          *)
JobReadTasks ==
    /\ phase = "up"
    /\ job.step = "idle"
    /\ folder # NoFolder
    /\ IF Validates(folder.tasks)
       THEN /\ Proceed([NoJob EXCEPT !.step = "list", !.text = folder.tasks])
            /\ folder' = [folder EXCEPT !.error = FALSE]
            /\ Untouched
       ELSE FailJob

(* read_and_validate_agent_list, get_all_agent_ids: ALL AGENTS are those   *)
(* with a file.                                                            *)
Listed == IF folder.list.all THEN {a \in Agents : file[a] # None}
          ELSE folder.list.agents

JobReadList ==
    /\ job.step = "list"
    /\ IF Listed # {}
       THEN /\ Proceed([job EXCEPT !.step = "apply", !.left = Listed,
                                   !.targets = Listed])
            /\ tries' = IF tries <= MaxBackups THEN tries + 1 ELSE tries
            /\ UNCHANGED <<file, events, overtaken, backups, folder, origin>>
       ELSE FailJob

(* Mutants: a backup too many is removed; none ever is.                    *)
KeptShort(b) == IF Len(b) >= MaxBackups
                THEN SubSeq(b, Len(b) - MaxBackups + 2, Len(b)) ELSE b
KeptAll(b) == b

(* cleanup_old_backups: the newest MAX_BACKUP_FILES are kept.              *)
Kept(b) == IF Len(b) > MaxBackups
           THEN SubSeq(b, Len(b) - MaxBackups + 1, Len(b)) ELSE b

(* apply_configuration_to_agent: an agent without a file is an error; the  *)
(* next agents are tried all the same.                                     *)
JobBackup(a) ==
    /\ job.step = "apply"
    /\ a \in job.left
    /\ IF file[a] = None
       THEN /\ Proceed([job EXCEPT !.left = @ \ {a}, !.failed = TRUE])
            /\ UNCHANGED <<backups, origin>>
       ELSE /\ Proceed([job EXCEPT !.step = "write", !.agent = a])
            /\ backups' = [backups EXCEPT ![a] = Kept(Append(@, file[a]))]
            /\ origin' = [origin EXCEPT ![a] = IF @ = None THEN file[a] ELSE @]
    /\ UNCHANGED <<file, events, overtaken, folder, tries>>

JobOpen ==
    /\ job.step = "write"
    /\ Proceed([job EXCEPT !.step = "open"])
    /\ Put(job.agent, Torn)
    /\ UNCHANGED <<backups, folder, tries, origin>>

JobWrite ==
    /\ job.step = "open"
    /\ Proceed([job EXCEPT !.step = "apply", !.agent = None,
                           !.left = @ \ {job.agent},
                           !.written = @ \cup {job.agent}])
    /\ Put(job.agent, job.text)
    /\ UNCHANGED <<backups, folder, tries, origin>>

(* Mutant: an agent that failed does not keep the request.                 *)
JobEndAlways ==
    /\ job.step = "apply"
    /\ job.left = {}
    /\ Proceed([job EXCEPT !.step = "clean"])
    /\ folder' = [folder EXCEPT !.list = NoList]
    /\ Untouched

(* All agents done: an error if one failed, else agent_list.txt is removed *)
(* and then tasks.toml, whatever they hold by now.                         *)
JobEnd ==
    /\ job.step = "apply"
    /\ job.left = {}
    /\ IF job.failed THEN FailJob
       ELSE /\ Proceed([job EXCEPT !.step = "clean"])
            /\ folder' = [folder EXCEPT !.list = NoList]
            /\ Untouched

JobClean ==
    /\ job.step = "clean"
    /\ Proceed(NoJob)
    /\ folder' = [folder EXCEPT !.tasks = None]
    /\ tries' = 0
    /\ origin' = NoText
    /\ UNCHANGED <<file, events, overtaken, backups>>

Reconfigure ==
    JobReadTasks \/ JobReadList \/ (\E a \in Agents : JobBackup(a))
    \/ JobOpen \/ JobWrite \/ JobEnd \/ JobClean

Updater == (\E a \in Agents : UpdaterRead(a)) \/ UpdaterInsert

Operator ==
    \/ \E a \in Agents, t \in Valid \cup Unsound \cup {None} : EditFile(a, t)
    \/ \E f \in Drops : Drop(f)
    \/ Withdraw
-----------------------------------------------------------------------------
(* What the cache holds of an agent is what its file holds, unless the     *)
(* updater has a change to handle: an edit, an upload, a reconfiguration   *)
(* and a removal all reach the cache, whatever lookups fill it meanwhile.  *)
(* Only an entry overtaken may be older, until the next event of its file: *)
(* one a lookup inserted after its file had changed (get_agent_config      *)
(* reads without the lock), or one that changed while the server started.  *)
CacheFollowsFile ==
    \A a \in Agents :
        phase = "up" /\ cache[a] \notin {None, file[a]} =>
            a \in events \/ updater.agent = a \/ a \in overtaken

(* "Automatic configuration backups prevent data loss during updates"      *)
(* (README.md): what an agent had before a request was applied to it is    *)
(* among its backups, through failures of other agents, kills and retries, *)
(* as long as it did not take more than MAX_BACKUP_FILES attempts: every   *)
(* attempt backs up the text the one before it wrote.                      *)
OriginalKept ==
    \A a \in Agents :
        origin[a] # None /\ tries <= MaxBackups =>
            \E i \in DOMAIN backups[a] : backups[a][i] = origin[a]

(* The server takes a request out of the folder only when every agent it   *)
(* was read for got its text: one that failed keeps the request there (the *)
(* errors apply_configuration_to_agents collects).                         *)
RemovedOnlyWhenApplied ==
    job.step = "clean" =>
        job.targets # {} /\ job.targets \subseteq job.written
=============================================================================
