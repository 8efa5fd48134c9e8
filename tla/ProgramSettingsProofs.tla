------------------------ MODULE ProgramSettingsProofs ------------------------
(***************************************************************************)
(* Theorems about ProgramSettings, for all values of its constants: what   *)
(* the validation accepts can run, the parts of a program work with the    *)
(* same settings, and a program that started can start again.              *)
(***************************************************************************)
EXTENDS ProgramSettings, TLAPS

Phases == {"down", "made", "ready", "up"}

LEMMA ProgramsKnown == Programs \subseteq {"agent", "server"}
  BY SettingsAssumption

LEMMA WithSettings ==
    ASSUME NEW c, NEW change, DOMAIN c # {}
    PROVE  DOMAIN With(c, change) # {} /\ With(c, change) # Torn
  <1>1. DOMAIN With(c, change) = DOMAIN c
    BY DEF With
  <1>2. DOMAIN Torn = {}
    BY DEF Torn
  <1> QED
    BY <1>1, <1>2

-----------------------------------------------------------------------------
(* Starting again                                                          *)

(* What a program has loaded is valid, and so are the files until others   *)
(* write to them: of its settings the program writes only what it has      *)
(* validated.  The tasks are valid unless the agent has refused those it   *)
(* wrote last; when it refuses the tasks because of its settings, which it *)
(* loads together with them, others have written the settings.             *)
FileInv ==
    /\ program \in Programs
    /\ phase \in Phases
    /\ file = Torn \/ DOMAIN file # {}
    /\ phase # "down" => Valid(memory) /\ DOMAIN memory # {}
    /\ ~tampered => file # Torn /\ Valid(file)
    /\ ~tampered /\ ~unvalidated => Loadable

LEMMA InitFile == Init => FileInv
  <1> SUFFICES ASSUME Init PROVE FileInv
    OBVIOUS
  <1>1. program \in Programs /\ program \in {"agent", "server"}
    BY ProgramsKnown DEF Init
  <1>2. Valid(file) /\ DOMAIN file # {} /\ ValidTasks(tasksFile)
    BY <1>1, SettingsAssumption DEF Init, Valid
  <1>3. file # Torn
    BY <1>2 DEF Torn
  <1> QED
    BY <1>1, <1>2, <1>3 DEF Init, FileInv, Loadable, Phases

LEMMA NextFile ==
    ASSUME FileInv, [Next]_vars
    PROVE  FileInv'
  <1>1. program' = program
    BY DEF Next, EditSettings, Repair, EditTasks, Create, RefuseToStart,
           NoOverride, OverrideRefused, Override, OverrideTorn, Run, Stop,
           UpdateTasks, UpdateFails, vars
  <1>2. ASSUME UNCHANGED <<phase, memory>>, file' = Torn \/ DOMAIN file' # {},
               tampered'
        PROVE  FileInv'
    BY <1>1, <1>2 DEF FileInv, Valid
  <1>3. ASSUME phase' \in Phases, UNCHANGED <<fileVars, writes>>,
               \/ phase' = "down"
               \/ phase # "down" /\ memory' = memory
        PROVE  FileInv'
    BY <1>1, <1>3 DEF FileInv, Loadable, Valid, fileVars, writes
  <1>4. ASSUME NEW e, EditSettings(e)
        PROVE  FileInv'
    <2>1. DOMAIN file # {}
      BY <1>4 DEF EditSettings, FileInv
    <2> QED
      BY <1>2, <1>4, <2>1, WithSettings DEF EditSettings, programVars
  <1>5. CASE Repair
    <2>1. DOMAIN file' # {}
      BY <1>5, SettingsAssumption DEF Repair, FileInv
    <2> QED
      BY <1>2, <1>5, <2>1 DEF Repair, programVars
  <1>6. ASSUME NEW ts, EditTasks(ts)
        PROVE  FileInv'
    BY <1>2, <1>6 DEF EditTasks, programVars, FileInv
  <1>7. CASE Create
    <2>1. Loadable /\ Valid(file) /\ DOMAIN file # {}
      BY <1>7 DEF Create, Loadable, FileInv
    <2>2. phase' = "made" /\ memory' = file /\ UNCHANGED fileVars
      BY <1>7 DEF Create
    <2> QED
      BY <1>1, <2>1, <2>2 DEF FileInv, Loadable, Valid, Phases, fileVars
  <1>8. CASE RefuseToStart
    BY <1>3, <1>8 DEF RefuseToStart, programVars, FileInv
  <1>9. CASE NoOverride \/ Run
    BY <1>3, <1>9 DEF NoOverride, Run, Phases
  <1>10. ASSUME NEW o, OverrideRefused(o)
         PROVE  FileInv'
    BY <1>3, <1>10 DEF OverrideRefused, Exit, Phases
  <1>11. ASSUME NEW o, Override(o)
         PROVE  FileInv'
    <2> DEFINE new == With(memory, o)
    <2>1. /\ Valid(new) /\ phase = "made" /\ phase' = "ready"
          /\ file' = new /\ memory' = new
          /\ UNCHANGED <<tasksFile, tampered, unvalidated>>
      BY <1>11 DEF Override, writes
    <2>2. new # Torn /\ DOMAIN new # {}
      BY <2>1, WithSettings DEF FileInv
    <2> HIDE DEF new
    <2>3. Valid(memory)' /\ Valid(file)'
      BY <1>1, <2>1 DEF Valid
    <2>4. ~tampered' /\ ~unvalidated' => Loadable'
      BY <1>1, <2>1, <2>2, <2>3 DEF FileInv, Loadable
    <2> QED
      BY <1>1, <2>1, <2>2, <2>3, <2>4 DEF FileInv, Phases
  <1>12. ASSUME NEW o, OverrideTorn(o)
         PROVE  FileInv'
    BY <1>1, <1>12 DEF OverrideTorn, Exit, FileInv, Phases
  <1>13. CASE Stop
    BY <1>3, <1>13 DEF Stop, Exit, Phases
  <1>14. ASSUME NEW ts, UpdateTasks(ts)
         PROVE  FileInv'
    <2>1. /\ file # Torn /\ Valid(file) /\ ValidTasks(ts)
          /\ tasksFile' = ts /\ memory' = file /\ UNCHANGED <<file, phase>>
      BY <1>14 DEF UpdateTasks
    <2> QED
      BY <1>1, <2>1 DEF FileInv, Loadable, Valid
  <1>15. ASSUME NEW ts, UpdateFails(ts)
         PROVE  FileInv'
    <2>1. /\ tasksFile' = ts /\ unvalidated' = ~ValidTasks(ts)
          /\ file = Torn \/ ~Valid(file) \/ ~ValidTasks(ts)
          /\ UNCHANGED <<file, phase, memory, tampered>>
      BY <1>15 DEF UpdateFails, programVars
    <2>2. tampered \/ unvalidated'
      BY <2>1 DEF FileInv
    <2> QED
      BY <1>1, <2>1, <2>2 DEF FileInv, Valid
  <1>16. CASE UNCHANGED vars
    BY <1>16 DEF vars, fileVars, programVars, writes, FileInv, Loadable, Valid
  <1> QED
    BY <1>4, <1>5, <1>6, <1>7, <1>8, <1>9, <1>10, <1>11, <1>12, <1>13, <1>14,
       <1>15, <1>16 DEF Next

LEMMA FilesHold == Spec => []FileInv
  BY InitFile, NextFile, PTL DEF Spec

(* A program that started can start again from its files, as far as only   *)
(* it has written them: override_and_persist_* write what was validated    *)
(* and nothing else.  update_tasks_config does not: what it has written    *)
(* and then refused keeps the agent from starting, the settings beside it  *)
(* do not.                                                                 *)
THEOREM ProgramsStartAgain == Spec => []StartsAgain
  <1>1. FileInv => StartsAgain
    BY DEF FileInv, StartsAgain
  <1> QED
    BY <1>1, FilesHold, PTL

-----------------------------------------------------------------------------
(* The parts agree                                                         *)

(* Before run() only the parts that Agent::new and Server::new make have   *)
(* settings.                                                               *)
Made == IF phase = "up" THEN Parts
        ELSE Parts \cap {"registration", "scheduler", "reconfiguration", "address"}

PartsInv ==
    /\ program \in Programs
    /\ part = [p \in Parts |-> part[p]]
    /\ altered \in {"no", "override", "edit"}
    /\ phase = "made" => altered = "no"
    /\ phase \in {"made", "ready", "up"} =>
          \A p \in Made \ Lagging : part[p] = Own(p)

LEMMA InitParts == Init => PartsInv
  BY DEF Init, PartsInv

LEMMA PartsUntouched ==
    ASSUME PartsInv, UNCHANGED <<program, programVars, altered>>
    PROVE  PartsInv'
  BY DEF programVars, PartsInv, Parts, Made, Lagging, Own

LEMMA ExitParts ==
    ASSUME PartsInv, Exit, UNCHANGED program
    PROVE  PartsInv'
  BY DEF Exit, PartsInv, Parts

LEMMA NextParts ==
    ASSUME PartsInv, [Next]_vars
    PROVE  PartsInv'
  <1>1. /\ program \in {"agent", "server"}
        /\ part = [p \in Parts |-> part[p]]
    BY ProgramsKnown DEF PartsInv
  <1>2. CASE \/ \E e \in Edits[program] : EditSettings(e)
             \/ Repair \/ RefuseToStart
             \/ \E ts \in TaskLists : EditTasks(ts) \/ UpdateFails(ts)
             \/ UNCHANGED vars
    BY <1>2, PartsUntouched
       DEF EditSettings, Repair, RefuseToStart, EditTasks, UpdateFails, vars
  <1>3. CASE \/ Stop
             \/ \E o \in Overrides[program] : OverrideRefused(o) \/ OverrideTorn(o)
    BY <1>3, ExitParts DEF Stop, OverrideRefused, OverrideTorn
  <1>4. CASE Create
    <2>1. /\ program' = program /\ phase' = "made" /\ altered' = "no"
          /\ memory' = file
      BY <1>4 DEF Create
    <2>2. part' = MadeParts(file)
      BY <1>4 DEF Create
    <2>3. CASE program = "agent"
      <3>1. part' = [part EXCEPT !["registration"] = Identity(file),
                                 !["scheduler"] = Identity(file)]
        BY <2>2, <2>3 DEF MadeParts
      <3>2. Identity(file) = Identity(memory)'
        BY <2>1 DEF Identity
      <3> QED
        BY <1>1, <2>1, <2>3, <3>1, <3>2 DEF PartsInv, Parts, Made, Own
    <2>4. CASE program = "server"
      <3>1. part' = [part EXCEPT !["reconfiguration"] = file, !["address"] = file]
        BY <2>2, <2>4 DEF MadeParts
      <3> QED
        BY <1>1, <2>1, <2>4, <3>1 DEF PartsInv, Parts, Made, Own
    <2> QED
      BY <1>1, <2>3, <2>4
  <1>5. CASE NoOverride
    BY <1>5 DEF NoOverride, PartsInv, Parts, Made, Lagging, Own, Identity
  <1>6. ASSUME NEW o \in Overrides[program], Override(o)
        PROVE  PartsInv'
    <2> DEFINE new == With(memory, o)
    <2>1. /\ phase = "made" /\ phase' = "ready" /\ memory' = new
          /\ part' = IF program = "server" THEN [part EXCEPT !["address"] = new]
                     ELSE part
          /\ altered' = "override" /\ program' = program
      BY <1>6 DEF Override
    <2> HIDE DEF new
    <2>2. (Made \ Lagging)' = Parts \cap {"address"}
      BY <1>1, <2>1 DEF Made, Lagging, Parts
    <2> QED
      BY <1>1, <2>1, <2>2 DEF PartsInv, Parts, Own
  <1>7. CASE Run
    <2>1. /\ phase = "ready" /\ phase' = "up"
          /\ UNCHANGED <<program, memory, altered>>
      BY <1>7 DEF Run
    <2>2. \A p \in Parts \cap {"registration", "scheduler", "reconfiguration",
                               "address"} :
              p \notin Lagging => part[p] = Own(p)
      BY <2>1 DEF PartsInv, Made
    <2>3. CASE program = "agent"
      <3>1. part' = [part EXCEPT !["client"] = Identity(memory)]
        BY <1>7, <2>3 DEF Run
      <3> QED
        BY <1>1, <2>1, <2>2, <2>3, <3>1
           DEF PartsInv, Parts, Made, Lagging, Own, Identity
    <2>4. CASE program = "server"
      <3>1. part' = [part EXCEPT !["handlers"] = memory, !["tasks"] = memory]
        BY <1>7, <2>4 DEF Run
      <3> QED
        BY <1>1, <2>1, <2>2, <2>4, <3>1 DEF PartsInv, Parts, Made, Lagging, Own
    <2> QED
      BY <1>1, <2>3, <2>4
  <1>8. ASSUME NEW ts \in TaskLists, UpdateTasks(ts)
        PROVE  PartsInv'
    <2>1. /\ phase = "up" /\ phase' = "up" /\ program = "agent"
          /\ program' = program /\ memory' = file
          /\ part' = [part EXCEPT !["scheduler"] = Identity(memory)]
          /\ altered' = IF file # memory THEN "edit" ELSE altered
      BY <1>8 DEF UpdateTasks, Connected
    <2>2. Parts = {"registration", "scheduler", "client"} /\ Parts' = Parts
      BY <2>1 DEF Parts
    <2>3. part' = [p \in Parts |-> part'[p]]
      BY <1>1, <2>1
    <2>4. CASE file # memory
      <3>1. Lagging' = Parts
        BY <2>1, <2>2, <2>4 DEF Lagging
      <3> QED
        BY <2>1, <2>2, <2>3, <2>4, <3>1 DEF PartsInv, Made
    <2>5. CASE file = memory
      <3>1. Lagging' = Lagging /\ Identity(memory)' = Identity(memory)
        BY <2>1, <2>5 DEF Lagging, Identity
      <3>2. \A p \in Parts \ Lagging : part[p] = Identity(memory)
        BY <2>1 DEF PartsInv, Made, Own
      <3>3. \A p \in Parts \ Lagging : part'[p] = Identity(memory)
        BY <1>1, <2>1, <2>2, <3>2
      <3> QED
        BY <2>1, <2>2, <2>3, <2>5, <3>1, <3>3 DEF PartsInv, Made, Own
    <2> QED
      BY <2>4, <2>5
  <1> QED
    BY <1>2, <1>3, <1>4, <1>5, <1>6, <1>7, <1>8 DEF Next

(* The copies of the settings that the parts of a program keep are those   *)
(* the program has loaded, but for the ones named in Lagging.              *)
THEOREM AllPartsAgree == Spec => []PartsAgree
  <1>1. PartsInv => PartsAgree
    BY DEF PartsInv, PartsAgree, Made
  <1> QED
    BY <1>1, InitParts, NextParts, PTL DEF Spec

-----------------------------------------------------------------------------
(* What is valid runs                                                      *)

(* Tasks come from the files the environment writes.                       *)
Known == TaskLists \cup {GivenTasks}

RunInv ==
    /\ program \in {"agent", "server"}
    /\ tasksFile \in Known
    /\ phase # "down" =>
          /\ Valid(memory)
          /\ scheduled # <<>> => scheduled \in Known /\ ValidTasks(scheduled)

LEMMA InitRun == Init => RunInv
  BY ProgramsKnown DEF Init, RunInv, Known

LEMMA NextRun ==
    ASSUME RunInv, [Next]_vars
    PROVE  RunInv'
  <1>1. program' = program
    BY DEF Next, EditSettings, Repair, EditTasks, Create, RefuseToStart,
           NoOverride, OverrideRefused, Override, OverrideTorn, Run, Stop,
           UpdateTasks, UpdateFails, vars
  <1>2. ASSUME UNCHANGED <<memory, scheduled>>, phase' # "down" => phase # "down",
               tasksFile' \in Known
        PROVE  RunInv'
    BY <1>1, <1>2 DEF RunInv, Valid
  <1>3. ASSUME phase' = "down", tasksFile' = tasksFile
        PROVE  RunInv'
    BY <1>1, <1>3 DEF RunInv
  <1>4. CASE \/ \E e \in Edits[program] : EditSettings(e)
             \/ Repair \/ RefuseToStart \/ NoOverride \/ Run
             \/ \E ts \in TaskLists : EditTasks(ts) \/ UpdateFails(ts)
             \/ UNCHANGED vars
    <2>1. /\ UNCHANGED <<memory, scheduled>>
          /\ phase' # "down" => phase # "down"
          /\ tasksFile' = tasksFile \/ tasksFile' \in TaskLists
      BY <1>4
         DEF EditSettings, Repair, RefuseToStart, NoOverride, Run, EditTasks,
             UpdateFails, vars, programVars, fileVars
    <2> QED
      BY <1>2, <2>1 DEF RunInv, Known
  <1>5. CASE \/ Stop
             \/ \E o \in Overrides[program] : OverrideRefused(o) \/ OverrideTorn(o)
    BY <1>3, <1>5 DEF Stop, OverrideRefused, OverrideTorn, Exit, fileVars
  <1>6. CASE Create
    <2>1. /\ Valid(file)
          /\ program = "agent" => ValidTasks(tasksFile)
          /\ memory' = file /\ tasksFile' = tasksFile
          /\ scheduled' = IF program = "agent" THEN tasksFile ELSE <<>>
      BY <1>6 DEF Create, Loadable, fileVars
    <2> QED
      BY <1>1, <2>1 DEF RunInv, Valid
  <1>7. ASSUME NEW o \in Overrides[program], Override(o)
        PROVE  RunInv'
    <2>1. /\ Valid(With(memory, o)) /\ memory' = With(memory, o)
          /\ phase = "made" /\ UNCHANGED <<tasksFile, scheduled>>
      BY <1>7 DEF Override
    <2> QED
      BY <1>1, <2>1 DEF RunInv, Valid
  <1>8. ASSUME NEW ts \in TaskLists, UpdateTasks(ts)
        PROVE  RunInv'
    <2>1. /\ Valid(file) /\ ValidTasks(ts) /\ memory' = file
          /\ tasksFile' = ts /\ scheduled' = ts
      BY <1>8 DEF UpdateTasks
    <2> QED
      BY <1>1, <2>1 DEF RunInv, Valid, Known
  <1> QED
    BY <1>4, <1>5, <1>6, <1>7, <1>8 DEF Next

(* What TaskConfig::validate accepts gets as far as the network.           *)
LEMMA ValidTasksProbe ==
    ASSUME NEW t, t.type \in TaskTypes, EffectiveTimeout(t) \in Nat,
           ProbeTimeout(t) \in Nat, ValidTask(t), ~UncheckedTask(t)
    PROVE  CanProbe(t)
  <1>1. EffectiveTimeout(t) > 0 /\ ProbeTimeout(t) > 0
    BY DEF UncheckedTask
  <1>2. ValidParams(t.type, t.params)
    BY DEF ValidTask
  <1>3. ASSUME NEW f \in Required(t.type)
        PROVE  t.params[f] # "" /\ t.params[f] # "malformed"
    <2>1. t.params[f] # ""
      BY <1>2 DEF ValidParams
    <2>2. CASE f \notin {"regexp", "url", "server_url"}
      BY <2>1, <2>2 DEF UncheckedTask
    <2>3. CASE f = "regexp"
      <3>1. t.type = "http_content"
        BY <2>3 DEF Required, TaskTypes
      <3> QED
        BY <1>2, <2>1, <2>3, <3>1 DEF ValidParams
    <2>4. CASE f = "url"
      <3>1. t.type \in {"http_get", "http_content"}
        BY <2>4 DEF Required, TaskTypes
      <3> QED
        BY <1>2, <2>1, <2>4, <3>1 DEF ValidParams, ValidUrl, Web
    <2>5. CASE f = "server_url"
      <3>1. t.type = "dns_query_doh"
        BY <2>5 DEF Required, TaskTypes
      <3> QED
        BY <1>2, <2>1, <2>5, <3>1 DEF ValidParams, ValidUrl
    <2> QED
      BY <2>2, <2>3, <2>4, <2>5
  <1>4. t.type = "snmp" => ValidSnmp(t.params)
    BY <1>2 DEF ValidParams
  <1> QED
    BY <1>1, <1>3, <1>4 DEF CanProbe, ValidSnmp

(* With settings that load_config accepted every part of the program can   *)
(* work and every task can run, but for what the validation leaves out.    *)
THEOREM ValidSettingsRun == Spec => []ValidRuns
  <1>1. ASSUME RunInv, phase = "up"
        PROVE  (IF program = "agent" THEN AgentImpaired(memory)
                ELSE ServerImpaired(memory)) \subseteq Unchecked
    <2>1. Valid(memory)
      BY <1>1 DEF RunInv
    <2>2. CASE program = "agent"
      <3>1. memory.channel_buffer_size > 0 /\ memory.metrics_batch_size > 0
        BY <2>1, <2>2 DEF Valid, ValidAgent
      <3>2. memory.channel_buffer_size # 0 /\ memory.metrics_batch_size # 0
        BY <3>1
      <3> QED
        BY <2>2, <3>2 DEF AgentImpaired, Unchecked
    <2>3. CASE program = "server"
      <3>1. ValidLimits(memory)
        BY <2>1, <2>3 DEF Valid, ValidServer
      <3>2. /\ memory.reconfigure_check_interval_seconds \in 1 .. 300
            /\ memory.rate_limit_enabled =>
                  memory.rate_limit_window_seconds \in 1 .. Hour
            /\ memory.health_check_interval_seconds > 0
        BY <3>1 DEF ValidLimits
      <3>3. /\ memory.reconfigure_check_interval_seconds # 0
            /\ memory.rate_limit_enabled => memory.rate_limit_window_seconds # 0
            /\ memory.health_check_interval_seconds # 0
        <4>1. Hour \in Nat
          BY DEF Hour
        <4> QED
          BY <3>2, <4>1
      <3> QED
        BY <2>3, <3>3 DEF ServerImpaired, Periods, Unchecked
    <2> QED
      BY <1>1, <2>2, <2>3 DEF RunInv
  <1>2. ASSUME RunInv, phase = "up", NEW i \in DOMAIN scheduled
        PROVE  CanProbe(scheduled[i]) \/ UncheckedTask(scheduled[i])
    <2>1. scheduled \in Known /\ ValidTasks(scheduled)
      BY <1>2 DEF RunInv
    <2>2. /\ scheduled[i].type \in TaskTypes
          /\ EffectiveTimeout(scheduled[i]) \in Nat
          /\ ProbeTimeout(scheduled[i]) \in Nat
      BY <2>1, TasksAssumption DEF Known
    <2>3. ValidTask(scheduled[i])
      BY <2>1 DEF ValidTasks
    <2> QED
      BY <2>2, <2>3, ValidTasksProbe
  <1>3. RunInv => ValidRuns
    BY <1>1, <1>2 DEF ValidRuns
  <1> QED
    BY <1>3, InitRun, NextRun, PTL DEF Spec
=============================================================================
