-------------------------- MODULE ProgramSettings --------------------------
(***************************************************************************)
(* The life of the settings in a program: read from its files when it      *)
(* starts, overridden from the command line, written back, copied into the *)
(* parts that work with them, and, in an agent, read again when the server *)
(* sends new tasks.  The program is an agent (agent/src/main.rs,           *)
(* agent/src/config.rs) or the server (server/src/main.rs,                 *)
(* server/src/config.rs); the behaviours of both are behaviours of this    *)
(* module.  Operators edit the files at any time.                          *)
(***************************************************************************)
EXTENDS Settings

CONSTANTS
    Programs,       \* subset of {"agent", "server"}
    Given,          \* [Programs -> settings of the files at first]
    GivenTasks,     \* and their tasks
    Edits,          \* [Programs -> changes operators write]
    Overrides,      \* [Programs -> changes given on the command line]
    TaskLists,      \* contents operators and the server write to tasks.toml
    NoSettings,
    MaxEvents       \* [EventKinds -> Nat]: bound on the events of each kind

EventKinds == {"edit", "start", "update"}

ASSUME SettingsAssumption ==
    /\ Programs \subseteq {"agent", "server"}
    /\ MaxEvents \in [EventKinds -> Nat]
    /\ ValidTasks(GivenTasks)
    /\ \A p \in Programs : DOMAIN Given[p] # {}
    /\ "agent" \in Programs => ValidAgent(Given["agent"])
    /\ "server" \in Programs => ValidServer(Given["server"])

(* The deserializer lets no other type through, and timeouts are unsigned. *)
ASSUME TasksAssumption ==
    \A ts \in TaskLists \cup {GivenTasks} : \A i \in DOMAIN ts :
        /\ ts[i].type \in TaskTypes
        /\ EffectiveTimeout(ts[i]) \in Nat
        /\ ProbeTimeout(ts[i]) \in Nat

VARIABLES
    program,    \* which program this is
    file,       \* content of agent.toml or server.toml
    tasksFile,  \* content of tasks.toml
    phase,      \* "down", "made", "ready" or "up"
    memory,     \* the settings the program has loaded
    part,       \* [parts that keep settings of their own -> those settings]
    scheduled,  \* the tasks the agent's scheduler runs
    used        \* how many events of each bounded kind have happened

(* History: whether others wrote the files, or a write of the program was  *)
(* cut short, since it loaded them; whether the agent itself has written   *)
(* tasks since then that it then refused to load; and what changed the     *)
(* program's settings since it started.                                    *)
VARIABLES tampered, unvalidated, altered

(* A file whose write was cut short: it has no settings.                   *)
Torn == <<>>

fileVars    == <<file, tasksFile>>
writes      == <<tampered, unvalidated>>
programVars == <<phase, memory, part, scheduled>>
vars == <<program, fileVars, programVars, used, writes, altered>>

(* The parts that keep a copy: of the agent the registration at the server *)
(* and the scheduler, made in Agent::new, and the HTTP client, made in     *)
(* run(); of the server the ReconfigureManager and the address, made in    *)
(* Server::new, and the handlers and background tasks, made in run().      *)
Parts == IF program = "agent" THEN {"registration", "scheduler", "client"}
         ELSE {"reconfiguration", "address", "handlers", "tasks"}

Valid(c) == IF program = "agent" THEN ValidAgent(c) ELSE ValidServer(c)

(* load_config gets through.                                               *)
Loadable == /\ file # Torn
            /\ Valid(file)
            /\ program = "agent" => ValidTasks(tasksFile)

Init ==
    /\ program \in Programs
    /\ file = Given[program]
    /\ tasksFile = GivenTasks
    /\ phase = "down"
    /\ memory = NoSettings
    /\ part = [p \in Parts |-> NoSettings]
    /\ scheduled = <<>>
    /\ used = [k \in EventKinds |-> 0]
    /\ tampered = FALSE
    /\ unvalidated = FALSE
    /\ altered = "no"

Spend(kind) ==
    /\ used[kind] < MaxEvents[kind]
    /\ used' = [used EXCEPT ![kind] = @ + 1]

(* A change is a function from some of the fields to their new values.     *)
With(c, change) == [f \in DOMAIN c |-> IF f \in DOMAIN change THEN change[f] ELSE c[f]]

-----------------------------------------------------------------------------
(* Operators.                                                              *)

EditSettings(change) ==
    /\ file # Torn
    /\ Spend("edit")
    /\ file' = With(file, change)
    /\ tampered' = TRUE
    /\ UNCHANGED <<program, tasksFile, programVars, altered, unvalidated>>

Repair ==
    /\ file = Torn
    /\ file' = Given[program]
    /\ tampered' = TRUE
    /\ UNCHANGED <<program, tasksFile, programVars, used, altered, unvalidated>>

EditTasks(ts) ==
    /\ program = "agent"
    /\ Spend("edit")
    /\ tasksFile' = ts
    /\ tampered' = TRUE
    /\ UNCHANGED <<program, file, programVars, altered, unvalidated>>

-----------------------------------------------------------------------------
(* The start: Agent::new or Server::new, the overrides, run().             *)

(* A local agent does not register, and its scheduler gets no server.      *)
Identity(c) == IF c.local_only THEN NoSettings ELSE c

MadeParts(c) ==
    IF program = "agent"
    THEN [part EXCEPT !["registration"] = Identity(c), !["scheduler"] = Identity(c)]
    ELSE [part EXCEPT !["reconfiguration"] = c, !["address"] = c]

Create ==
    /\ phase = "down"
    /\ Loadable
    /\ Spend("start")
    /\ phase' = "made"
    /\ memory' = file
    /\ part' = MadeParts(file)
    /\ scheduled' = IF program = "agent" THEN tasksFile ELSE <<>>
    /\ tampered' = FALSE
    /\ unvalidated' = FALSE
    /\ altered' = "no"
    /\ UNCHANGED <<program, fileVars>>

(* The process exits; an agent has not written anything by then.           *)
RefuseToStart ==
    /\ phase = "down"
    /\ ~Loadable
    /\ Spend("start")
    /\ UNCHANGED <<program, fileVars, programVars, writes, altered>>

NoOverride ==
    /\ phase = "made"
    /\ phase' = "ready"
    /\ UNCHANGED <<program, fileVars, memory, part, scheduled, used, writes, altered>>

Exit ==
    /\ phase' = "down"
    /\ memory' = NoSettings
    /\ part' = [p \in Parts |-> NoSettings]
    /\ scheduled' = <<>>
    /\ altered' = "no"

(* Mutant: the file is written before the settings are validated.          *)
OverrideRefusedLate(change) ==
    /\ phase = "made"
    /\ ~Valid(With(memory, change))
    /\ file' = With(memory, change)
    /\ Exit
    /\ UNCHANGED <<program, tasksFile, used, writes>>

OverrideRefused(change) ==
    /\ phase = "made"
    /\ ~Valid(With(memory, change))
    /\ Exit
    /\ UNCHANGED <<program, fileVars, used, writes>>

(* override_and_persist_*: the settings in memory, changed, become the     *)
(* file, over whatever was written to it since it was read.                *)
Override(change) ==
    LET new == With(memory, change)
    IN  /\ phase = "made"
        /\ new # memory
        /\ Valid(new)
        /\ phase' = "ready"
        /\ file' = new
        /\ memory' = new
        /\ part' = IF program = "server" THEN [part EXCEPT !["address"] = new] ELSE part
        /\ altered' = "override"
        /\ UNCHANGED <<program, tasksFile, scheduled, used, writes>>

(* The process is killed while it writes the file.                         *)
OverrideTorn(change) ==
    /\ phase = "made"
    /\ With(memory, change) # memory
    /\ Valid(With(memory, change))
    /\ file' = Torn
    /\ tampered' = TRUE
    /\ Exit
    /\ UNCHANGED <<program, tasksFile, used, unvalidated>>

(* Mutant: the server's tasks and handlers get the settings of the start.  *)
RunWithOld ==
    /\ phase = "ready"
    /\ phase' = "up"
    /\ part' = IF program = "agent" THEN [part EXCEPT !["client"] = Identity(memory)]
               ELSE [part EXCEPT !["handlers"] = part["reconfiguration"],
                                 !["tasks"] = part["reconfiguration"]]
    /\ UNCHANGED <<program, fileVars, memory, scheduled, used, writes, altered>>

Run ==
    /\ phase = "ready"
    /\ phase' = "up"
    /\ part' = IF program = "agent" THEN [part EXCEPT !["client"] = Identity(memory)]
               ELSE [part EXCEPT !["handlers"] = memory, !["tasks"] = memory]
    /\ UNCHANGED <<program, fileVars, memory, scheduled, used, writes, altered>>

Stop ==
    /\ phase # "down"
    /\ Exit
    /\ UNCHANGED <<program, fileVars, used, writes>>

-----------------------------------------------------------------------------
(* download_and_apply_config with tasks from the server: update_tasks_config *)
(* writes them and loads both files again; the new scheduler gets the new  *)
(* tasks, but of the agent's settings those from before.                   *)

Connected == /\ phase = "up"
             /\ program = "agent"
             /\ ~memory.local_only
             /\ part["client"] # NoSettings
             /\ memory.auto_update_tasks

UpdateTasks(ts) ==
    /\ Connected
    /\ Spend("update")
    /\ tasksFile' = ts
    /\ file # Torn /\ Valid(file) /\ ValidTasks(ts)
    /\ memory' = file
    /\ part' = [part EXCEPT !["scheduler"] = Identity(memory)]
    /\ scheduled' = ts
    /\ tampered' = FALSE
    /\ unvalidated' = FALSE
    /\ altered' = IF file # memory THEN "edit" ELSE altered
    /\ UNCHANGED <<program, file, phase>>

(* What the server sends is parsed before it is written, but validated     *)
(* only when the files are loaded again.                                   *)
UpdateFails(ts) ==
    /\ Connected
    /\ Spend("update")
    /\ tasksFile' = ts
    /\ file = Torn \/ ~Valid(file) \/ ~ValidTasks(ts)
    /\ unvalidated' = ~ValidTasks(ts)
    /\ UNCHANGED <<program, file, programVars, tampered, altered>>

-----------------------------------------------------------------------------
Next ==
    \/ \E e \in Edits[program] : EditSettings(e)
    \/ Repair
    \/ \E ts \in TaskLists : EditTasks(ts) \/ UpdateTasks(ts) \/ UpdateFails(ts)
    \/ Create \/ RefuseToStart \/ NoOverride
    \/ \E o \in Overrides[program] : OverrideRefused(o) \/ Override(o) \/ OverrideTorn(o)
    \/ Run \/ Stop

Spec == Init /\ [][Next]_vars

-----------------------------------------------------------------------------
(* With settings that were accepted every part of the program can work.    *)
(* Excepted is what the validation does not look at: the timers of the     *)
(* cleanup, of the checkpoints, and of the limiter while limiting is off;  *)
(* the minute that a health check has to look back at least; the timeout   *)
(* and the maximum delay of the bandwidth tests; the number of retries and *)
(* the timeout of the agent's client, and the length and the ends of its   *)
(* id; the form of hosts, addresses and object ids of a task, and a        *)
(* timeout of zero, the task's own or that in its params.                  *)
Unchecked == IF program = "agent" THEN {"backoff", "client", "identity"}
             ELSE {"cleanup", "wal", "verdicts", "slot", "queue"}
                  \cup IF memory.rate_limit_enabled THEN {} ELSE {"limiter"}

UncheckedTask(t) ==
    \/ EffectiveTimeout(t) = 0
    \/ ProbeTimeout(t) = 0
    \/ \E f \in Required(t.type) \ {"regexp", "url", "server_url"} :
          t.params[f] = "malformed"

ValidRuns ==
    phase = "up" =>
        /\ (IF program = "agent" THEN AgentImpaired(memory) ELSE ServerImpaired(memory))
              \subseteq Unchecked
        /\ \A i \in DOMAIN scheduled : CanProbe(scheduled[i]) \/ UncheckedTask(scheduled[i])

(* All parts work with the same settings.  Excepted are the parts made     *)
(* before the overrides are applied, until the next start, and those of an *)
(* agent whose agent.toml was edited before an update of its tasks.        *)
Lagging == CASE altered = "no"       -> {}
             [] altered = "override" -> {"registration", "scheduler", "reconfiguration"}
             [] altered = "edit"     -> {"registration", "scheduler", "client"}

Own(p) == IF program = "agent" THEN Identity(memory) ELSE memory

PartsAgree == phase = "up" => \A p \in Parts \ Lagging : part[p] = Own(p)

(* A program that started can start again from its files, whatever it was  *)
(* given on the command line, unless others wrote them or its own write    *)
(* was cut short.  The exception in the code is an agent that was sent     *)
(* tasks that parse but are not valid: it has written them by the time it  *)
(* refuses them, keeps running with the old ones, and its next start       *)
(* fails on tasks.toml, but on nothing else.                               *)
StartsAgain ==
    ~tampered => /\ file # Torn /\ Valid(file)
                 /\ Loadable \/ unvalidated
=============================================================================
