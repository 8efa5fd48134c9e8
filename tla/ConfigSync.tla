----------------------------- MODULE ConfigSync -----------------------------
(***************************************************************************)
(* How agents come to run what the server's operator wants: every agent's  *)
(* tasks.toml, its scheduler and its main loop (agent/src/config.rs,       *)
(* agent/src/main.rs), the exchanges that carry configurations and the     *)
(* server's handlers for them (server/src/api.rs), over the server's files *)
(* and cache (ServerConfigs).                                              *)
(***************************************************************************)
EXTENDS ServerConfigs

CONSTANTS
    Clients,    \* agents that run somewhere
    Taskless,   \* valid texts without a task
    AutoUpdate  \* agents with auto_update_tasks

ASSUME ClientAssumption ==
    /\ Clients \subseteq Agents
    /\ Taskless \subseteq Valid
    /\ AutoUpdate \subseteq Clients

VARIABLES
    conf,       \* an agent's tasks.toml
    previous,   \* texts in its previous_configs
    running,    \* the text its scheduler was built from, None if stopped
    doing       \* what its main loop is waiting for

clientVars == <<conf, previous, running, doing>>
vars == <<serverVars, clientVars>>

(* The exchanges of the main loop, and the steps of applying an answer.    *)
Kinds == {"down", "loop", "register", "metrics", "verify", "upload", "apply"}
Phases == {"none", "sent", "filling", "saving", "answered",
           "open", "written", "loaded"}

(* text: what the request carries or is the hash of, or what is applied.   *)
(* answer: what the server has, None if nothing; it is stale for the agent *)
(* when it is not the text.                                                *)
Activities == [kind : Kinds, phase : Phases, text : Maybe, answer : Maybe]

At(k) == [kind |-> k, phase |-> "none", text |-> None, answer |-> None]
Request(k, t) == [kind |-> k, phase |-> "sent", text |-> t, answer |-> None]
Answered(d, t) == [d EXCEPT !.phase = "answered", !.answer = t]
Applying(p, t) == [kind |-> "apply", phase |-> p, text |-> t, answer |-> None]

TypeOK ==
    /\ ServerTypeOK
    /\ conf \in [Clients -> Texts]
    /\ previous \in [Clients -> SUBSET Texts]
    /\ running \in [Clients -> Valid \cup {None}]
    /\ doing \in [Clients -> Activities]

Init ==
    /\ ServerInit
    /\ conf \in [Clients -> Initial]
    /\ previous = [a \in Clients |-> {}]
    /\ running = [a \in Clients |-> None]
    /\ doing = [a \in Clients |-> At("down")]

Is(a, kind, phi) == doing[a].kind = kind /\ doing[a].phase = phi
Do(a, d) == doing' = [doing EXCEPT ![a] = d]

-----------------------------------------------------------------------------
(* Agent::new: the files are loaded and must validate, or the process      *)
(* exits; the configuration is uploaded before the scheduler starts.       *)
StartAgent(a) ==
    /\ Is(a, "down", "none")
    /\ Validates(conf[a])
    /\ Do(a, Request("register", conf[a]))
    /\ UNCHANGED <<serverVars, conf, previous, running>>

(* Whatever the upload came to, the scheduler is built from the tasks      *)
(* loaded and the main loop begins.                                        *)
Registered(a) ==
    /\ Is(a, "register", "answered")
    /\ running' = [running EXCEPT ![a] = doing[a].text]
    /\ Do(a, At("loop"))
    /\ UNCHANGED <<serverVars, conf, previous>>

(* send_metrics_if_needed with metrics to send, and the hash of the file   *)
(* as it is now.  Without a task the loop waits in select! for ever.       *)
SendMetrics(a) ==
    /\ Is(a, "loop", "none")
    /\ running[a] \notin Taskless
    /\ Do(a, Request("metrics", conf[a]))
    /\ UNCHANGED <<serverVars, conf, previous, running>>

(* Anything the server says is stale is followed by a request for it, if   *)
(* the agent may update its tasks.                                         *)
MetricsAnswered(a) ==
    /\ Is(a, "metrics", "answered")
    /\ Do(a, IF doing[a].answer # doing[a].text /\ a \in AutoUpdate
             THEN Request("verify", conf[a]) ELSE At("loop"))
    /\ UNCHANGED <<serverVars, conf, previous, running>>

(* Mutant: what is backed up is the text that arrived.                     *)
BackUpNew(a) == previous' = [previous EXCEPT ![a] = @ \cup {doing[a].answer}]

(* The file as it is goes to previous_configs.                             *)
BackUp(a) == previous' = [previous EXCEPT ![a] = @ \cup {conf[a]}]

(* download_and_apply_config on the answer: nothing new, nothing there (so *)
(* the agent uploads its own), or a new text.  update_tasks_config only    *)
(* parses it; then it backs up the file and begins to write.               *)
VerifyAnswered(a) ==
    /\ Is(a, "verify", "answered")
    /\ LET new == doing[a].answer
       IN \/ /\ new = doing[a].text \/ (new # None /\ ~Parses(new))
             /\ Do(a, At("loop"))
             /\ UNCHANGED <<conf, previous>>
          \/ /\ new = None
             /\ Do(a, Request("upload", conf[a]))
             /\ UNCHANGED <<conf, previous>>
          \/ /\ new # doing[a].text
             /\ Parses(new)
             /\ Do(a, Applying("open", new))
             /\ BackUp(a)
             /\ conf' = [conf EXCEPT ![a] = Torn]
    /\ UNCHANGED <<serverVars, running>>

ApplyWrite(a) ==
    /\ Is(a, "apply", "open")
    /\ conf' = [conf EXCEPT ![a] = doing[a].text]
    /\ Do(a, Applying("written", doing[a].text))
    /\ UNCHANGED <<serverVars, previous, running>>

(* Mutant: the scheduler is stopped before the text is validated.          *)
ApplyStopFirst(a) ==
    /\ Is(a, "apply", "written")
    /\ running' = [running EXCEPT ![a] = None]
    /\ Do(a, IF Validates(doing[a].text) THEN Applying("loaded", doing[a].text)
             ELSE At("loop"))
    /\ UNCHANGED <<serverVars, conf, previous>>

(* load_config: a text that does not validate is an error, with the file   *)
(* already replaced; otherwise the scheduler is stopped.                   *)
ApplyLoad(a) ==
    /\ Is(a, "apply", "written")
    /\ IF Validates(doing[a].text)
       THEN /\ running' = [running EXCEPT ![a] = None]
            /\ Do(a, Applying("loaded", doing[a].text))
       ELSE /\ Do(a, At("loop"))
            /\ UNCHANGED running
    /\ UNCHANGED <<serverVars, conf, previous>>

ApplyStart(a) ==
    /\ Is(a, "apply", "loaded")
    /\ running' = [running EXCEPT ![a] = doing[a].text]
    /\ Do(a, At("loop"))
    /\ UNCHANGED <<serverVars, conf, previous>>

(* An upload of the main loop is over, accepted or not.                    *)
Uploaded(a) ==
    /\ Is(a, "upload", "answered")
    /\ Do(a, At("loop"))
    /\ UNCHANGED <<serverVars, conf, previous, running>>

(* No answer.  Every error leads back to the loop, or from the             *)
(* registration on to it.                                                  *)
GiveUp(a) ==
    /\ doing[a].phase \in {"sent", "filling", "saving"}
    /\ running' = IF doing[a].kind = "register"
                  THEN [running EXCEPT ![a] = doing[a].text] ELSE running
    /\ Do(a, At("loop"))
    /\ UNCHANGED <<phase, file, cacheVars, events, saving, folderVars,
                   overtaken, conf, previous>>

(* A timeout, a refusal, a lost answer.                                    *)
NoAnswer(a) == Spend("timeout") /\ GiveUp(a)

(* The server, or the handler with it, is gone: the connection is closed.  *)
Disconnected(a) ==
    /\ \/ phase # "up"
       \/ doing[a].phase = "filling" /\ lookup.agent # a
       \/ doing[a].phase = "saving" /\ saving[a] = NoSave
    /\ UNCHANGED used
    /\ GiveUp(a)

(* The agent is killed, or ends because its old scheduler could not be     *)
(* stopped or its new one not built.                                       *)
KillAgent(a) ==
    /\ doing[a].kind # "down"
    /\ Spend("crash")
    /\ running' = [running EXCEPT ![a] = None]
    /\ Do(a, At("down"))
    /\ UNCHANGED <<phase, file, cacheVars, events, saving, folderVars,
                   overtaken, conf, previous>>

-----------------------------------------------------------------------------
(* handle_metrics and handle_config_verify ask get_agent_config, which     *)
(* holds the configuration manager's lock until it is done: a hit, nothing *)
(* anywhere, or a miss with a file to read.                                *)
HandleLookup(a) ==
    /\ phase = "up"
    /\ doing[a].kind \in {"metrics", "verify"} /\ doing[a].phase = "sent"
    /\ lookup = Nothing
    /\ IF cache[a] = None /\ file[a] # None
       THEN /\ LookupRead(a)
            /\ Do(a, [doing[a] EXCEPT !.phase = "filling"])
       ELSE /\ Do(a, Answered(doing[a], cache[a]))
            /\ UNCHANGED serverVars
    /\ UNCHANGED <<conf, previous, running>>

HandleFilled ==
    /\ lookup # Nothing
    /\ LookupInsert
    /\ doing' = [a \in Clients |->
                   IF a = lookup.agent /\ doing[a].phase = "filling"
                   THEN Answered(doing[a], lookup.text) ELSE doing[a]]
    /\ UNCHANGED <<conf, previous, running>>

(* handle_config_upload: a text that does not validate is refused, a file  *)
(* that exists is left alone, otherwise it is going to be written.         *)
HandleUpload(a) ==
    /\ phase = "up"
    /\ doing[a].kind \in {"register", "upload"} /\ doing[a].phase = "sent"
    /\ saving[a] = NoSave
    /\ IF Validates(doing[a].text) /\ file[a] = None
       THEN /\ saving' = [saving EXCEPT ![a] =
                            [step |-> "checked", text |-> doing[a].text]]
            /\ Do(a, [doing[a] EXCEPT !.phase = "saving"])
       ELSE /\ Do(a, Answered(doing[a], None))
            /\ UNCHANGED saving
    /\ UNCHANGED <<phase, file, cacheVars, events, folderVars, used,
                   overtaken, conf, previous, running>>

(* tokio::fs::write runs on a thread of its own: it ends whether or not    *)
(* the agent still waits.                                                  *)
HandleSaved(a) ==
    /\ SaveWrite(a)
    /\ Do(a, IF doing[a].phase = "saving" THEN Answered(doing[a], None)
             ELSE doing[a])
    /\ UNCHANGED <<conf, previous, running>>

-----------------------------------------------------------------------------
ServerStep ==
    /\ LoadAll \/ StartWatcher \/ KillServer \/ Updater \/ Reconfigure
       \/ Operator \/ (\E a \in Clients : SaveOpen(a))
    /\ UNCHANGED clientVars

Handler(a) == HandleLookup(a) \/ HandleUpload(a) \/ HandleSaved(a)

Apply(a) == ApplyWrite(a) \/ ApplyLoad(a) \/ ApplyStart(a)

MainLoop(a) ==
    \/ Registered(a) \/ SendMetrics(a) \/ MetricsAnswered(a)
    \/ VerifyAnswered(a) \/ Apply(a) \/ Uploaded(a)

Next ==
    \/ ServerStep
    \/ HandleFilled
    \/ \E a \in Clients :
         StartAgent(a) \/ MainLoop(a) \/ NoAnswer(a) \/ Disconnected(a)
         \/ KillAgent(a) \/ Handler(a)

Spec == Init /\ [][Next]_vars

(* The server and the agents are started again, the tasks of either go on: *)
(* metrics keep coming while a task runs, the updater takes its events,    *)
(* handlers and the reconfiguration finish.                                *)
Fairness ==
    /\ WF_vars(LoadAll /\ UNCHANGED clientVars)
    /\ WF_vars(StartWatcher /\ UNCHANGED clientVars)
    /\ WF_vars(Updater /\ UNCHANGED clientVars)
    /\ WF_vars(Reconfigure /\ UNCHANGED clientVars)
    /\ WF_vars(HandleFilled)
    /\ \A a \in Clients :
         /\ WF_vars(StartAgent(a))
         /\ WF_vars(MainLoop(a))
         /\ WF_vars(Disconnected(a))
         /\ WF_vars(SaveOpen(a) /\ UNCHANGED clientVars)
         /\ WF_vars(Handler(a))

FairSpec == Spec /\ Fairness
-----------------------------------------------------------------------------
(* The hash an agent reports is that of the tasks it runs: between two     *)
(* exchanges its file is the text its scheduler was built from, through    *)
(* updates, failed ones too, kills and restarts.  Only a text that parses  *)
(* and does not validate is adopted on disk and not run: update_tasks_     *)
(* config parses it before it writes, load_config validates afterwards.    *)
ReportsWhatItRuns ==
    \A a \in Clients :
        doing[a].kind \in {"loop", "metrics", "verify", "upload"} =>
            running[a] # None /\ (running[a] = conf[a] \/ conf[a] \in Unsound)

(* An agent that cannot start with its tasks.toml, torn by a kill or not   *)
(* valid, has a valid one in previous_configs.                             *)
AgentRecoverable ==
    \A a \in Clients :
        conf[a] \notin Valid => \E t \in previous[a] : Validates(t)

(* In the end an agent that may update runs what the operator wants of it, *)
(* if that validates, or the server has the agent's own tasks, whatever    *)
(* was lost, killed or half written on the way.  The exceptions are the    *)
(* code's: a cache entry overtaken and never repaired, an agent whose file *)
(* a kill or an unsound text left useless, one that runs no task and so    *)
(* never asks again, and a request that fails for some other agent and is  *)
(* retried for ever, each time rewriting the file as the agent asks.       *)
Settled(a) ==
    \/ file[a] \in Valid /\ running[a] = file[a]
    \/ file[a] \in Unsound \cup {Torn}
    \/ a \in overtaken
    \/ conf[a] \notin Valid
    \/ running[a] \in Taskless

EventuallyInSync ==
    \A a \in AutoUpdate : <>[](job.agent # a) => <>[]Settled(a)
=============================================================================
