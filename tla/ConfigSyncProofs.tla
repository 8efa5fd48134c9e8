-------------------------- MODULE ConfigSyncProofs --------------------------
(***************************************************************************)
(* Theorems about ConfigSync, for all values of its constants: the types,  *)
(* the cache and the files, the reconfiguration and its backups, and what  *)
(* an agent reports, runs and can recover.                                 *)
(***************************************************************************)
EXTENDS ConfigSync, SequenceTheorems, TLAPS

LEMMA ConstantFacts ==
    /\ None \notin Agents /\ None \notin Texts
    /\ Torn \in Texts /\ Torn \notin Valid /\ Torn \notin Unsound
    /\ Valid \subseteq Texts /\ Unsound \subseteq Texts
    /\ Valid \cap Unsound = {}
    /\ Texts \subseteq Maybe /\ None \in Maybe
    /\ Maybe = Texts \cup {None}
    /\ Clients \subseteq Agents
    /\ MaxBackups \in Nat /\ MaxBackups >= 1
  BY ConfigAssumption, ClientAssumption DEF Texts, Maybe

LEMMA SpendType ==
    ASSUME NEW kind \in EventKinds, used \in [EventKinds -> Nat], Spend(kind)
    PROVE  used' \in [EventKinds -> Nat]
  BY DEF Spend

(* The values the actions assign.                                          *)
LEMMA RecordTypes ==
    /\ Nothing \in Loaded /\ NoSave \in Saves /\ NoJob \in Jobs
    /\ NoFolder \in Folders
    /\ \A k \in Kinds : At(k) \in Activities
    /\ \A k \in Kinds, t \in Maybe : Request(k, t) \in Activities
    /\ \A p \in Phases, t \in Maybe : Applying(p, t) \in Activities
    /\ \A d \in Activities, t \in Maybe : Answered(d, t) \in Activities
  <1> USE ConstantFacts
  <1>1. Nothing \in Loaded /\ NoSave \in Saves
    BY DEF Nothing, Loaded, NoSave, Saves
  <1>2. NoJob \in Jobs
    BY DEF NoJob, Jobs, Steps
  <1>3. NoFolder \in Folders
    BY DEF NoFolder, Folders, NoList, Lists
  <1>4. /\ \A k \in Kinds : At(k) \in Activities
        /\ \A k \in Kinds, t \in Maybe : Request(k, t) \in Activities
    BY DEF At, Request, Activities, Phases
  <1>5. \A p \in Phases, t \in Maybe : Applying(p, t) \in Activities
    BY DEF Applying, Activities, Kinds
  <1>6. \A d \in Activities, t \in Maybe : Answered(d, t) \in Activities
    BY DEF Answered, Activities, Phases
  <1> QED
    BY <1>1, <1>2, <1>3, <1>4, <1>5, <1>6

(* c is b with t at its end: what was in b is there still if there is room *)
(* for what came after it.                                                 *)
Rotated(b, t, c) ==
    /\ c \in Seq(Texts) /\ Len(c) \in 1 .. MaxBackups
    /\ c[Len(c)] = t
    /\ \A i \in 1 .. Len(b) :
          Len(b) - i + 2 <= MaxBackups =>
             \E j \in 1 .. Len(c) :
                c[j] = b[i] /\ Len(c) - j = Len(b) - i + 1

(* cleanup_old_backups after a backup.                                     *)
LEMMA KeptProperties ==
    ASSUME NEW b \in Seq(Texts), Len(b) <= MaxBackups, NEW t \in Texts,
           NEW c, c = Kept(Append(b, t))
    PROVE  Rotated(b, t, c)
  <1> DEFINE e == Append(b, t)
             n == Len(b)
  <1>1. n \in Nat /\ MaxBackups \in Nat /\ MaxBackups >= 1
    BY ConstantFacts
  <1>2. /\ e \in Seq(Texts) /\ Len(e) = n + 1 /\ e[n + 1] = t
        /\ \A i \in 1 .. n : e[i] = b[i]
    BY AppendProperties
  <1> HIDE DEF e, n
  <1>3. CASE n + 1 > MaxBackups
    <2>1. n = MaxBackups
      BY <1>1, <1>3 DEF n
    <2>2. c = SubSeq(e, 2, n + 1)
      BY <1>1, <1>2, <2>1 DEF Kept, e
    <2>3. /\ c \in Seq(Texts) /\ Len(c) = n
          /\ \A j \in 1 .. n : c[j] = e[j + 1]
      BY <1>1, <1>2, <2>1, <2>2, SubSeqProperties
    <2>4. c[n] = t
      BY <1>1, <1>2, <2>1, <2>3
    <2>5. ASSUME NEW i \in 1 .. n, n - i + 2 <= MaxBackups
          PROVE  \E j \in 1 .. Len(c) : c[j] = b[i] /\ Len(c) - j = n - i + 1
      <3>1. i - 1 \in 1 .. n /\ (i - 1) + 1 = i
        BY <1>1, <2>1, <2>5
      <3>2. c[i - 1] = b[i]
        BY <1>2, <2>3, <3>1
      <3> QED
        BY <1>1, <2>3, <3>1, <3>2
    <2> QED
      BY <1>1, <2>1, <2>3, <2>4, <2>5 DEF n, Rotated
  <1>4. CASE ~(n + 1 > MaxBackups)
    <2>1. c = e
      BY <1>2, <1>4 DEF Kept, e
    <2>2. \A i \in 1 .. n : i \in 1 .. n + 1 /\ (n + 1) - i = n - i + 1
      BY <1>1
    <2> QED
      BY <1>1, <1>2, <1>4, <2>1, <2>2 DEF n, Rotated
  <1> QED
    BY <1>3, <1>4

-----------------------------------------------------------------------------
(* Types                                                                   *)

(* What is loaded is loaded for an agent; so is what is written.           *)
Named ==
    /\ updater # Nothing => updater.agent \in Agents
    /\ lookup # Nothing => lookup.agent \in Agents
    /\ job.step \in {"write", "open"} => job.agent \in Agents

ClientTypeOK ==
    /\ conf \in [Clients -> Texts]
    /\ previous \in [Clients -> SUBSET Texts]
    /\ running \in [Clients -> Valid \cup {None}]
    /\ doing \in [Clients -> Activities]

LEMMA InitTypes == Init => TypeOK
  <1> SUFFICES ASSUME Init PROVE TypeOK
    OBVIOUS
  <1> USE ConstantFacts, RecordTypes DEF Init, ServerInit
  <1>1. file \in [Agents -> Maybe] /\ conf \in [Clients -> Texts]
    BY ConfigAssumption
  <1>2. /\ cache \in [Agents -> Maybe] /\ origin \in [Agents -> Maybe]
        /\ saving \in [Agents -> Saves]
        /\ previous \in [Clients -> SUBSET Texts]
        /\ running \in [Clients -> Valid \cup {None}]
    BY DEF NoText
  <1>3. doing \in [Clients -> Activities]
    BY DEF Kinds
  <1>4. /\ backups \in [Agents -> Seq(Texts)]
        /\ \A a \in Agents : Len(backups[a]) <= MaxBackups
    BY EmptySeq
  <1>5. used \in [EventKinds -> Nat] /\ tries \in 0 .. MaxBackups + 1
    BY DEF EventKinds
  <1> QED
    BY <1>1, <1>2, <1>3, <1>4, <1>5 DEF TypeOK, ServerTypeOK

LEMMA PutTypes ==
    ASSUME ServerTypeOK, NEW a \in Agents, NEW t \in Maybe, Put(a, t)
    PROVE  /\ file' \in [Agents -> Maybe]
           /\ events' \subseteq Agents
           /\ overtaken' \subseteq Agents
  BY DEF ServerTypeOK, Put

(* The server's start and end, its updater and lookups.                    *)
LEMMA ProcessTypes ==
    ASSUME ServerTypeOK, LoadAll \/ StartWatcher \/ KillServer
    PROVE  ServerTypeOK'
  <1>1. CASE LoadAll
    BY <1>1 DEF LoadAll, ServerTypeOK, folderVars
  <1>2. CASE StartWatcher
    BY <1>2 DEF StartWatcher, ServerTypeOK, cacheVars, folderVars
  <1>3. CASE KillServer
    <2>1. used' \in [EventKinds -> Nat]
      BY <1>3, SpendType DEF KillServer, ServerTypeOK, EventKinds
    <2>2. cache' \in [Agents -> Maybe] /\ saving' \in [Agents -> Saves]
      BY <1>3, ConstantFacts, RecordTypes DEF KillServer, NoText
    <2> QED
      BY <1>3, <2>1, <2>2, RecordTypes DEF KillServer, ServerTypeOK
  <1> QED
    BY <1>1, <1>2, <1>3

LEMMA CacheTypes ==
    ASSUME ServerTypeOK, Named,
           Updater \/ LookupInsert \/ \E a \in Agents : LookupRead(a)
    PROVE  ServerTypeOK'
  <1>1. CASE \E a \in Agents : UpdaterRead(a)
    <2>1. PICK a \in Agents : UpdaterRead(a)
      BY <1>1
    <2>2. updater' \in Loaded
      BY <2>1 DEF UpdaterRead, ServerTypeOK, Loaded
    <2> QED
      BY <2>1, <2>2 DEF UpdaterRead, ServerTypeOK, folderVars
  <1>2. CASE UpdaterInsert
    <2>1. cache' \in [Agents -> Maybe]
      BY <1>2 DEF UpdaterInsert, ServerTypeOK, Loaded
    <2> QED
      BY <1>2, <2>1, RecordTypes DEF UpdaterInsert, ServerTypeOK, folderVars
  <1>3. CASE \E a \in Agents : LookupRead(a)
    <2>1. PICK a \in Agents : LookupRead(a)
      BY <1>3
    <2>2. lookup' \in Loaded
      BY <2>1 DEF LookupRead, ServerTypeOK, Loaded
    <2> QED
      BY <2>1, <2>2 DEF LookupRead, ServerTypeOK, folderVars
  <1>4. CASE LookupInsert
    <2>1. cache' \in [Agents -> Maybe]
      BY <1>4 DEF LookupInsert, ServerTypeOK, Loaded
    <2>2. overtaken' \subseteq Agents
      BY <1>4 DEF LookupInsert, ServerTypeOK, Named
    <2> QED
      BY <1>4, <2>1, <2>2, RecordTypes
         DEF LookupInsert, ServerTypeOK, folderVars
  <1> QED
    BY <1>1, <1>2, <1>3, <1>4 DEF Updater

LEMMA SaveTypes ==
    ASSUME ServerTypeOK, NEW a \in Agents, SaveOpen(a) \/ SaveWrite(a)
    PROVE  ServerTypeOK'
  <1>1. saving[a] \in Saves
    BY DEF ServerTypeOK
  <1>2. CASE SaveOpen(a)
    <2>1. Put(a, Torn) /\ Torn \in Maybe
      BY <1>2, ConstantFacts DEF SaveOpen
    <2>2. saving' \in [Agents -> Saves]
      BY <1>1, <1>2 DEF SaveOpen, Saves, ServerTypeOK
    <2> QED
      BY <1>2, <2>1, <2>2, PutTypes
         DEF SaveOpen, ServerTypeOK, cacheVars, folderVars
  <1>3. CASE SaveWrite(a)
    <2>1. Put(a, saving[a].text) /\ saving[a].text \in Maybe
      BY <1>1, <1>3 DEF SaveWrite, Saves
    <2>2. saving' \in [Agents -> Saves]
      BY <1>3, RecordTypes DEF SaveWrite, ServerTypeOK
    <2> QED
      BY <1>3, <2>1, <2>2, PutTypes
         DEF SaveWrite, ServerTypeOK, cacheVars, folderVars
  <1> QED
    BY <1>2, <1>3

LEMMA OperatorTypes ==
    ASSUME ServerTypeOK, Operator
    PROVE  ServerTypeOK'
  <1>1. CASE \E a \in Agents, t \in Valid \cup Unsound \cup {None} :
                EditFile(a, t)
    <2>1. PICK a \in Agents, t \in Valid \cup Unsound \cup {None} :
             EditFile(a, t)
      BY <1>1
    <2>2. t \in Maybe
      BY ConstantFacts
    <2>3. used' \in [EventKinds -> Nat]
      BY <2>1, SpendType DEF EditFile, ServerTypeOK, EventKinds
    <2> QED
      BY <2>1, <2>2, <2>3, PutTypes
         DEF EditFile, ServerTypeOK, cacheVars, folderVars
  <1>2. CASE \E f \in Drops : Drop(f)
    <2>1. PICK f \in Drops : Drop(f)
      BY <1>2
    <2>2. f \in Folders /\ folder \in Folders
      BY ConfigAssumption DEF ServerTypeOK
    <2>3. folder' \in Folders
      BY <2>1, <2>2 DEF Drop, NewRequest, Folders
    <2>4. used' \in [EventKinds -> Nat]
      BY <2>1, SpendType DEF Drop, ServerTypeOK, EventKinds
    <2> QED
      BY <2>1, <2>3, <2>4 DEF Drop, NewRequest, ServerTypeOK, cacheVars
  <1>3. CASE Withdraw
    BY <1>3, RecordTypes DEF Withdraw, NewRequest, ServerTypeOK, cacheVars
  <1> QED
    BY <1>1, <1>2, <1>3 DEF Operator

-----------------------------------------------------------------------------
(* What the steps of a reconfiguration do to the job, field by field.      *)

LEMMA FailJobTypes ==
    ASSUME ServerTypeOK, FailJob
    PROVE  ServerTypeOK'
  <1>1. folder' \in Folders
    BY DEF FailJob, ServerTypeOK, Folders
  <1> QED
    BY <1>1, RecordTypes
       DEF FailJob, Proceed, Untouched, ServerTypeOK, cacheVars

LEMMA JobReadTasksTypes ==
    ASSUME ServerTypeOK, JobReadTasks
    PROVE  ServerTypeOK'
  <1>1. CASE Validates(folder.tasks)
    <2>1. folder \in Folders
      BY DEF ServerTypeOK
    <2>2. job' \in Jobs
      BY <1>1, <2>1, ConstantFacts
         DEF JobReadTasks, Proceed, NoJob, Jobs, Steps, Folders
    <2>3. folder' \in Folders
      BY <1>1, <2>1 DEF JobReadTasks, Folders
    <2> QED
      BY <1>1, <2>2, <2>3
         DEF JobReadTasks, Proceed, Untouched, ServerTypeOK, cacheVars
  <1>2. CASE ~Validates(folder.tasks)
    BY <1>2, FailJobTypes DEF JobReadTasks
  <1> QED
    BY <1>1, <1>2

LEMMA ListedType == ServerTypeOK => Listed \subseteq Agents
  BY DEF Listed, ServerTypeOK, Folders, Lists

LEMMA JobReadListTypes ==
    ASSUME ServerTypeOK, JobReadList
    PROVE  ServerTypeOK'
  <1>1. CASE Listed # {}
    <2>1. job \in Jobs /\ Listed \subseteq Agents
      BY ListedType DEF ServerTypeOK
    <2>2. job' \in Jobs
      BY <1>1, <2>1 DEF JobReadList, Proceed, Jobs, Steps
    <2>3. tries' \in 0 .. MaxBackups + 1
      BY <1>1, ConstantFacts DEF JobReadList, ServerTypeOK
    <2> QED
      BY <1>1, <2>2, <2>3
         DEF JobReadList, Proceed, ServerTypeOK, cacheVars
  <1>2. CASE Listed = {}
    BY <1>2, FailJobTypes DEF JobReadList
  <1> QED
    BY <1>1, <1>2

LEMMA JobBackupTypes ==
    ASSUME ServerTypeOK, NEW a \in Agents, JobBackup(a)
    PROVE  ServerTypeOK'
  <1>1. job \in Jobs /\ file[a] \in Maybe
    BY DEF ServerTypeOK
  <1>2. CASE file[a] = None
    <2>1. job' \in Jobs
      <3>1. job' = [job EXCEPT !.left = @ \ {a}, !.failed = TRUE]
        BY <1>2 DEF JobBackup, Proceed
      <3> QED
        BY <1>1, <3>1 DEF Jobs
    <2> QED
      BY <1>2, <2>1 DEF JobBackup, Proceed, ServerTypeOK, cacheVars
  <1>3. CASE file[a] # None
    <2>1. job' \in Jobs
      <3>1. job' = [job EXCEPT !.step = "write", !.agent = a]
        BY <1>3 DEF JobBackup, Proceed
      <3> QED
        BY <1>1, <3>1 DEF Jobs, Steps
    <2>2. file[a] \in Texts
      BY <1>1, <1>3, ConstantFacts
    <2>3. /\ backups[a] \in Seq(Texts) /\ Len(backups[a]) <= MaxBackups
      BY DEF ServerTypeOK
    <2> DEFINE c == Kept(Append(backups[a], file[a]))
    <2>4. c = Kept(Append(backups[a], file[a]))
          /\ backups' = [backups EXCEPT ![a] = c]
      BY <1>3 DEF JobBackup
    <2> HIDE DEF c
    <2>5. c \in Seq(Texts) /\ Len(c) <= MaxBackups
      <3>1. Rotated(backups[a], file[a], c)
        BY <2>2, <2>3, <2>4, KeptProperties, Zenon
      <3> QED
        BY <3>1, ConstantFacts DEF Rotated
    <2>6. /\ backups' \in [Agents -> Seq(Texts)]
          /\ \A b \in Agents : Len(backups'[b]) <= MaxBackups
      BY <2>4, <2>5 DEF ServerTypeOK
    <2>7. origin' \in [Agents -> Maybe]
      BY <1>1, <1>3 DEF JobBackup, ServerTypeOK
    <2> QED
      BY <1>3, <2>1, <2>6, <2>7
         DEF JobBackup, Proceed, ServerTypeOK, cacheVars
  <1> QED
    BY <1>2, <1>3

LEMMA JobWritingTypes ==
    ASSUME ServerTypeOK, Named, JobOpen \/ JobWrite
    PROVE  ServerTypeOK'
  <1>1. job \in Jobs
    BY DEF ServerTypeOK
  <1>2. job.agent \in Agents /\ job.text \in Maybe
    BY <1>1 DEF JobOpen, JobWrite, Named, Jobs
  <1>3. CASE JobOpen
    <2>1. job' = [job EXCEPT !.step = "open"]
      BY <1>3 DEF JobOpen, Proceed
    <2>2. job' \in Jobs
      BY <1>1, <2>1 DEF Jobs, Steps
    <2>3. Put(job.agent, Torn) /\ Torn \in Maybe
      BY <1>3, ConstantFacts DEF JobOpen
    <2> QED
      BY <1>2, <1>3, <2>2, <2>3, PutTypes
         DEF JobOpen, Proceed, ServerTypeOK, cacheVars
  <1>4. CASE JobWrite
    <2>1. job' = [job EXCEPT !.step = "apply", !.agent = None,
                             !.left = @ \ {job.agent},
                             !.written = @ \cup {job.agent}]
      BY <1>4 DEF JobWrite, Proceed
    <2>2. job' \in Jobs
      BY <1>1, <1>2, <2>1 DEF Jobs, Steps
    <2> QED
      BY <1>2, <1>4, <2>2, PutTypes
         DEF JobWrite, Proceed, ServerTypeOK, cacheVars
  <1> QED
    BY <1>3, <1>4

LEMMA JobEndTypes ==
    ASSUME ServerTypeOK, JobEnd \/ JobClean
    PROVE  ServerTypeOK'
  <1>1. job \in Jobs /\ folder \in Folders
    BY DEF ServerTypeOK
  <1>2. CASE JobEnd /\ job.failed
    BY <1>2, FailJobTypes DEF JobEnd
  <1>3. CASE JobEnd /\ ~job.failed
    <2>1. job' = [job EXCEPT !.step = "clean"]
          /\ folder' = [folder EXCEPT !.list = NoList]
      BY <1>3 DEF JobEnd, Proceed
    <2>2. job' \in Jobs
      BY <1>1, <2>1 DEF Jobs, Steps
    <2>3. folder' \in Folders
      BY <1>1, <2>1 DEF Folders, NoList, Lists
    <2> QED
      BY <1>3, <2>2, <2>3
         DEF JobEnd, Proceed, Untouched, ServerTypeOK, cacheVars
  <1>4. CASE JobClean
    <2>1. folder' \in Folders
      BY <1>1, <1>4, ConstantFacts DEF JobClean, Folders
    <2>2. origin' \in [Agents -> Maybe] /\ tries' \in 0 .. MaxBackups + 1
      BY <1>4, ConstantFacts DEF JobClean, NoText
    <2> QED
      BY <1>4, <2>1, <2>2, RecordTypes
         DEF JobClean, Proceed, ServerTypeOK, cacheVars
  <1> QED
    BY <1>2, <1>3, <1>4

LEMMA ReconfigureTypes ==
    ASSUME ServerTypeOK, Named, Reconfigure
    PROVE  ServerTypeOK'
  BY JobReadTasksTypes, JobReadListTypes, JobBackupTypes, JobWritingTypes,
     JobEndTypes DEF Reconfigure

-----------------------------------------------------------------------------
(* The agents' side                                                        *)

Exchanges == {"metrics", "verify", "upload"}

(* What holds of an agent that does d, has c as tasks.toml, p in           *)
(* previous_configs and runs r: while it uploads for the first time it is  *)
(* going to run its file, in the loop it runs its file, and a text on its  *)
(* way to the scheduler is in the file from the moment it is written.      *)
Good(d, c, p, r) ==
    /\ d.phase \in {"sent", "filling", "saving"} =>
          d.kind \in Exchanges \cup {"register"}
    /\ d.kind = "register" => d.text \in Valid /\ c = d.text
    /\ d.kind \in Exchanges \cup {"loop"} =>
          r # None /\ (r = c \/ c \in Unsound)
    /\ d.kind = "apply" /\ d.phase = "open" =>
          Parses(d.text) /\ c = Torn /\ r # None
    /\ d.kind = "apply" /\ d.phase = "written" =>
          Parses(d.text) /\ c = d.text /\ r # None
    /\ d.kind = "apply" /\ d.phase = "loaded" => d.text \in Valid /\ c = d.text
    /\ c \notin Valid => \E t \in p : Validates(t)

Sound == \A a \in Clients : Good(doing[a], conf[a], previous[a], running[a])

(* Agent a goes on to d with c, p and r; the others do not move.           *)
Becomes(a, d, c, p, r) ==
    /\ doing' = [doing EXCEPT ![a] = d]
    /\ conf' = [conf EXCEPT ![a] = c]
    /\ previous' = [previous EXCEPT ![a] = p]
    /\ running' = [running EXCEPT ![a] = r]

GoodStep(a) ==
    \E d \in Activities, c \in Texts, p \in SUBSET Texts,
       r \in Valid \cup {None} :
        Good(d, c, p, r) /\ Becomes(a, d, c, p, r)

LEMMA GoodStepKeeps ==
    ASSUME ClientTypeOK, Sound, NEW a \in Clients, GoodStep(a)
    PROVE  ClientTypeOK' /\ Sound'
  <1>1. PICK d \in Activities, c \in Texts, p \in SUBSET Texts,
             r \in Valid \cup {None} :
                Good(d, c, p, r) /\ Becomes(a, d, c, p, r)
    BY DEF GoodStep
  <1>2. ClientTypeOK'
    BY <1>1 DEF Becomes, ClientTypeOK
  <1>3. ASSUME NEW b \in Clients
        PROVE  Good(doing'[b], conf'[b], previous'[b], running'[b])
    <2>1. CASE b = a
      <3>1. /\ doing'[b] = d /\ conf'[b] = c
            /\ previous'[b] = p /\ running'[b] = r
        BY <1>1, <2>1 DEF Becomes, ClientTypeOK
      <3> QED
        BY <1>1, <3>1
    <2>2. CASE b # a
      <3>1. /\ doing'[b] = doing[b] /\ conf'[b] = conf[b]
            /\ previous'[b] = previous[b] /\ running'[b] = running[b]
        BY <1>1, <2>2 DEF Becomes, ClientTypeOK
      <3> QED
        BY <3>1 DEF Sound
    <2> QED
      BY <2>1, <2>2
  <1> QED
    BY <1>2, <1>3 DEF Sound

(* The fields of what the actions make an agent do.                        *)
LEMMA Fields ==
    /\ \A k : At(k).kind = k /\ At(k).phase = "none"
    /\ \A k, t : /\ Request(k, t).kind = k /\ Request(k, t).phase = "sent"
                 /\ Request(k, t).text = t
    /\ \A q, t : /\ Applying(q, t).kind = "apply" /\ Applying(q, t).phase = q
                 /\ Applying(q, t).text = t
    /\ \A t : \A d \in Activities :
          /\ Answered(d, t).kind = d.kind /\ Answered(d, t).text = d.text
          /\ Answered(d, t).phase = "answered"
  BY DEF At, Request, Applying, Answered, Activities

(* From one exchange to another, or to the loop and back.                  *)
LEMMA StaysInLoop ==
    ASSUME NEW d, NEW c, NEW p, NEW r, NEW e, Good(d, c, p, r),
           d.kind \in Exchanges \cup {"loop"},
           \/ e.kind \in Exchanges
           \/ e.kind = "loop" /\ e.phase = "none"
    PROVE  Good(e, c, p, r)
  BY DEF Good, Exchanges

(* An exchange that goes on keeps what it is about.                        *)
LEMMA GoesOn ==
    ASSUME NEW d, NEW c, NEW p, NEW r, NEW e, Good(d, c, p, r),
           e.kind = d.kind, e.text = d.text,
           d.phase \in {"sent", "filling", "saving"},
           e.phase \in {"filling", "saving", "answered"}
    PROVE  Good(e, c, p, r)
  BY DEF Good, Exchanges

(* Steps of an agent that leave the server alone.                          *)
LEMMA LoopSteps ==
    ASSUME ClientTypeOK, Sound, NEW a \in Clients, StartAgent(a) \/ MainLoop(a)
    PROVE  GoodStep(a) /\ UNCHANGED serverVars
  <1> DEFINE d == doing[a]
             c == conf[a]
             p == previous[a]
             r == running[a]
  <1>1. UNCHANGED serverVars
    BY DEF StartAgent, MainLoop, Registered, SendMetrics, MetricsAnswered,
           VerifyAnswered, Apply, ApplyWrite, ApplyLoad, ApplyStart, Uploaded
  <1>2. /\ d \in Activities /\ d.text \in Maybe /\ d.answer \in Maybe
        /\ c \in Texts /\ c \in Maybe /\ p \in SUBSET Texts
        /\ r \in Valid \cup {None}
        /\ Good(d, c, p, r)
    BY ConstantFacts DEF ClientTypeOK, Activities, Sound
  <1>3. /\ conf = [conf EXCEPT ![a] = c]
        /\ previous = [previous EXCEPT ![a] = p]
        /\ running = [running EXCEPT ![a] = r]
    BY DEF ClientTypeOK
  <1>4. CASE StartAgent(a)
    <2>1. Becomes(a, Request("register", c), c, p, r) /\ Validates(c)
      BY <1>3, <1>4 DEF StartAgent, Do, Becomes
    <2>2. Good(Request("register", c), c, p, r)
      BY <2>1, Fields DEF Good, Validates, Exchanges
    <2>3. Request("register", c) \in Activities
      BY <1>2, RecordTypes DEF Kinds
    <2> QED
      BY <1>2, <2>1, <2>2, <2>3, <1>1 DEF GoodStep
  <1>5. CASE Registered(a)
    <2>1. Becomes(a, At("loop"), c, p, d.text) /\ d.kind = "register"
      BY <1>3, <1>5 DEF Registered, Is, Do, Becomes
    <2>2. d.text \in Valid /\ c = d.text
      BY <1>2, <2>1 DEF Good
    <2>3. Good(At("loop"), c, p, d.text)
      BY <1>2, <2>2, Fields, ConstantFacts DEF Good, Exchanges
    <2>4. At("loop") \in Activities
      BY RecordTypes DEF Kinds
    <2> QED
      BY <1>1, <1>2, <2>1, <2>2, <2>3, <2>4 DEF GoodStep
  <1>6. CASE SendMetrics(a) \/ Uploaded(a)
    <2>1. PICK e \in {At("loop"), Request("metrics", c)} :
             Becomes(a, e, c, p, r)
      BY <1>3, <1>6 DEF SendMetrics, Uploaded, Do, Becomes
    <2>2. d.kind \in Exchanges \cup {"loop"}
      BY <1>6 DEF SendMetrics, Uploaded, Is, Exchanges
    <2>3. Good(e, c, p, r)
      BY <1>2, <2>1, <2>2, Fields, StaysInLoop DEF Exchanges
    <2>4. e \in Activities
      BY <1>2, RecordTypes DEF Kinds
    <2> QED
      BY <1>1, <1>2, <2>1, <2>3, <2>4 DEF GoodStep
  <1>7. CASE MetricsAnswered(a)
    <2>1. PICK e \in {At("loop"), Request("verify", c)} :
             Becomes(a, e, c, p, r)
      BY <1>3, <1>7 DEF MetricsAnswered, Do, Becomes
    <2>2. d.kind \in Exchanges \cup {"loop"}
      BY <1>7 DEF MetricsAnswered, Is, Exchanges
    <2>3. Good(e, c, p, r)
      BY <1>2, <2>1, <2>2, Fields, StaysInLoop DEF Exchanges
    <2>4. e \in Activities
      BY <1>2, RecordTypes DEF Kinds
    <2> QED
      BY <1>1, <1>2, <2>1, <2>3, <2>4 DEF GoodStep
  <1>8. CASE VerifyAnswered(a)
    <2>1. d.kind = "verify"
      BY <1>8 DEF VerifyAnswered, Is
    <2>2. \/ \E e \in {At("loop"), Request("upload", c)} :
                Becomes(a, e, c, p, r)
          \/ /\ Parses(d.answer)
             /\ Becomes(a, Applying("open", d.answer), Torn, p \cup {c}, r)
      BY <1>3, <1>8 DEF VerifyAnswered, Do, BackUp, Becomes
    <2>3. CASE \E e \in {At("loop"), Request("upload", c)} :
                  Becomes(a, e, c, p, r)
      <3>1. PICK e \in {At("loop"), Request("upload", c)} :
               Becomes(a, e, c, p, r)
        BY <2>3
      <3>2. Good(e, c, p, r)
        BY <1>2, <2>1, Fields, StaysInLoop DEF Exchanges
      <3>3. e \in Activities
        BY <1>2, RecordTypes DEF Kinds
      <3> QED
        BY <1>1, <1>2, <3>1, <3>2, <3>3 DEF GoodStep
    <2>4. CASE /\ Parses(d.answer)
               /\ Becomes(a, Applying("open", d.answer), Torn, p \cup {c}, r)
      <3>1. r # None /\ \E t \in p \cup {c} : Validates(t)
        BY <1>2, <2>1 DEF Good, Exchanges, Validates
      <3>2. Good(Applying("open", d.answer), Torn, p \cup {c}, r)
        BY <2>4, <3>1, Fields DEF Good, Exchanges
      <3>3. /\ Applying("open", d.answer) \in Activities
            /\ Torn \in Texts /\ p \cup {c} \in SUBSET Texts
        BY <1>2, RecordTypes, ConstantFacts DEF Phases
      <3> QED
        BY <1>1, <1>2, <2>4, <3>2, <3>3 DEF GoodStep
    <2> QED
      BY <2>2, <2>3, <2>4
  <1>9. CASE ApplyWrite(a)
    <2>1. /\ d.kind = "apply" /\ d.phase = "open"
          /\ Becomes(a, Applying("written", d.text), d.text, p, r)
      BY <1>3, <1>9 DEF ApplyWrite, Is, Do, Becomes
    <2>2. Parses(d.text) /\ r # None /\ \E t \in p : Validates(t)
      BY <1>2, <2>1, ConstantFacts DEF Good
    <2>3. Good(Applying("written", d.text), d.text, p, r)
      BY <2>2, Fields DEF Good, Exchanges
    <2>4. Applying("written", d.text) \in Activities /\ d.text \in Texts
      BY <1>2, <2>2, RecordTypes, ConstantFacts DEF Phases, Parses
    <2> QED
      BY <1>1, <1>2, <2>1, <2>3, <2>4 DEF GoodStep
  <1>10. CASE ApplyLoad(a) /\ Validates(d.text)
    <2>1. /\ d.kind = "apply" /\ d.phase = "written"
          /\ Becomes(a, Applying("loaded", d.text), c, p, None)
      BY <1>3, <1>10 DEF ApplyLoad, Is, Do, Becomes
    <2>2. c = d.text /\ d.text \in Valid
      BY <1>2, <1>10, <2>1 DEF Good, Validates
    <2>3. Good(Applying("loaded", d.text), c, p, None)
      BY <1>2, <2>2, Fields DEF Good, Exchanges
    <2>4. Applying("loaded", d.text) \in Activities
      BY <1>2, RecordTypes DEF Phases
    <2> QED
      BY <1>1, <1>2, <2>1, <2>3, <2>4 DEF GoodStep
  <1>11. CASE ApplyLoad(a) /\ ~Validates(d.text)
    <2>1. /\ d.kind = "apply" /\ d.phase = "written"
          /\ Becomes(a, At("loop"), c, p, r)
      BY <1>3, <1>11 DEF ApplyLoad, Is, Do, Becomes
    <2>2. c \in Unsound /\ r # None /\ (c \notin Valid => \E t \in p : Validates(t))
      BY <1>2, <1>11, <2>1 DEF Good, Validates, Parses
    <2>3. Good(At("loop"), c, p, r)
      BY <2>2, Fields DEF Good, Exchanges
    <2>4. At("loop") \in Activities
      BY RecordTypes DEF Kinds
    <2> QED
      BY <1>1, <1>2, <2>1, <2>3, <2>4 DEF GoodStep
  <1>12. CASE ApplyStart(a)
    <2>1. /\ d.kind = "apply" /\ d.phase = "loaded"
          /\ Becomes(a, At("loop"), c, p, d.text)
      BY <1>3, <1>12 DEF ApplyStart, Is, Do, Becomes
    <2>2. c = d.text /\ d.text \in Valid
      BY <1>2, <2>1 DEF Good
    <2>3. Good(At("loop"), c, p, d.text)
      BY <1>2, <2>2, Fields, ConstantFacts DEF Good, Exchanges
    <2>4. At("loop") \in Activities
      BY RecordTypes DEF Kinds
    <2> QED
      BY <1>1, <1>2, <2>1, <2>2, <2>3, <2>4 DEF GoodStep
  <1> QED
    BY <1>4, <1>5, <1>6, <1>7, <1>8, <1>9, <1>10, <1>11, <1>12
       DEF MainLoop, Apply

(* No answer, or no agent any more: the server's tables are left alone.    *)
LEMMA EndSteps ==
    ASSUME ClientTypeOK, Sound, NEW a \in Clients, GiveUp(a) \/ KillAgent(a)
    PROVE  GoodStep(a)
  <1> DEFINE d == doing[a]
             c == conf[a]
             p == previous[a]
             r == running[a]
  <1>1. /\ d \in Activities /\ c \in Texts /\ p \in SUBSET Texts
        /\ r \in Valid \cup {None}
        /\ Good(d, c, p, r)
    BY DEF ClientTypeOK, Sound
  <1>2. /\ conf = [conf EXCEPT ![a] = c]
        /\ previous = [previous EXCEPT ![a] = p]
        /\ running = [running EXCEPT ![a] = r]
    BY DEF ClientTypeOK
  <1>3. At("loop") \in Activities /\ At("down") \in Activities
    BY RecordTypes DEF Kinds
  <1>4. CASE GiveUp(a) /\ d.kind = "register"
    <2>1. Becomes(a, At("loop"), c, p, d.text)
      BY <1>2, <1>4 DEF GiveUp, Do, Becomes
    <2>2. d.text \in Valid /\ c = d.text
      BY <1>1, <1>4 DEF Good
    <2>3. Good(At("loop"), c, p, d.text)
      BY <1>1, <2>2, Fields, ConstantFacts DEF Good, Exchanges
    <2> QED
      BY <1>1, <1>3, <2>1, <2>2, <2>3 DEF GoodStep
  <1>5. CASE GiveUp(a) /\ d.kind # "register"
    <2>1. Becomes(a, At("loop"), c, p, r)
      BY <1>2, <1>5 DEF GiveUp, Do, Becomes
    <2>2. d.kind \in Exchanges
      BY <1>1, <1>5 DEF GiveUp, Good
    <2>3. Good(At("loop"), c, p, r)
      BY <1>1, <2>2, Fields, StaysInLoop
    <2> QED
      BY <1>1, <1>3, <2>1, <2>3 DEF GoodStep
  <1>6. CASE KillAgent(a)
    <2>1. Becomes(a, At("down"), c, p, None)
      BY <1>2, <1>6 DEF KillAgent, Do, Becomes
    <2>2. Good(At("down"), c, p, None)
      BY <1>1, Fields DEF Good, Exchanges
    <2> QED
      BY <1>1, <1>3, <2>1, <2>2 DEF GoodStep
  <1> QED
    BY <1>4, <1>5, <1>6

(* The server's handlers: the exchange goes on or has its answer.          *)
LEMMA HandlerSteps ==
    ASSUME ClientTypeOK, Sound, NEW a \in Clients,
           doing[a].phase \in {"sent", "filling", "saving"},
           NEW e \in Activities, e.kind = doing[a].kind,
           e.text = doing[a].text, e.phase \in {"filling", "saving", "answered"},
           Do(a, e), UNCHANGED <<conf, previous, running>>
    PROVE  GoodStep(a)
  <1>1. Becomes(a, e, conf[a], previous[a], running[a])
    BY DEF Do, Becomes, ClientTypeOK
  <1>2. Good(e, conf[a], previous[a], running[a])
    BY GoesOn DEF Sound
  <1> QED
    BY <1>1, <1>2 DEF GoodStep, ClientTypeOK

LEMMA HandleLookupSteps ==
    ASSUME TypeOK, Named, Sound, NEW a \in Clients, HandleLookup(a)
    PROVE  GoodStep(a) /\ ServerTypeOK' /\ Named'
  <1> DEFINE d == doing[a]
  <1>1. /\ ClientTypeOK /\ ServerTypeOK /\ a \in Agents
        /\ d \in Activities /\ cache[a] \in Maybe
        /\ d.phase = "sent" /\ UNCHANGED <<conf, previous, running>>
    BY ConstantFacts DEF TypeOK, ClientTypeOK, ServerTypeOK, HandleLookup
  <1>2. CASE cache[a] = None /\ file[a] # None
    <2> DEFINE e == [d EXCEPT !.phase = "filling"]
    <2>1. LookupRead(a) /\ Do(a, e)
      BY <1>2 DEF HandleLookup
    <2>2. /\ e \in Activities /\ e.kind = d.kind
          /\ e.text = d.text /\ e.phase = "filling"
      BY <1>1 DEF Activities, Phases
    <2> HIDE DEF e
    <2>3. GoodStep(a)
      BY <1>1, <2>1, <2>2, HandlerSteps
    <2>4. ServerTypeOK'
      BY <1>1, <2>1, CacheTypes
    <2>5. Named'
      BY <1>1, <2>1 DEF LookupRead, Named, folderVars
    <2> QED
      BY <2>3, <2>4, <2>5
  <1>3. CASE ~(cache[a] = None /\ file[a] # None)
    <2> DEFINE e == Answered(d, cache[a])
    <2>1. Do(a, e) /\ UNCHANGED serverVars
      BY <1>3 DEF HandleLookup
    <2>2. /\ e \in Activities /\ e.kind = d.kind
          /\ e.text = d.text /\ e.phase = "answered"
      BY <1>1, RecordTypes, Fields
    <2> HIDE DEF e
    <2>3. GoodStep(a)
      BY <1>1, <2>1, <2>2, HandlerSteps
    <2>4. ServerTypeOK' /\ Named'
      BY <1>1, <2>1
         DEF serverVars, cacheVars, folderVars, ServerTypeOK, Named
    <2> QED
      BY <2>3, <2>4
  <1> QED
    BY <1>2, <1>3

LEMMA HandleUploadSteps ==
    ASSUME TypeOK, Named, Sound, NEW a \in Clients, HandleUpload(a)
    PROVE  GoodStep(a) /\ ServerTypeOK' /\ Named'
  <1> DEFINE d == doing[a]
  <1>1. /\ ClientTypeOK /\ ServerTypeOK /\ a \in Agents
        /\ d \in Activities /\ d.text \in Maybe
        /\ d.phase = "sent" /\ UNCHANGED <<conf, previous, running>>
    BY ConstantFacts
       DEF TypeOK, ClientTypeOK, ServerTypeOK, HandleUpload, Activities
  <1>2. Named'
    BY DEF HandleUpload, cacheVars, folderVars, Named
  <1>3. CASE Validates(d.text) /\ file[a] = None
    <2> DEFINE e == [d EXCEPT !.phase = "saving"]
               v == [step |-> "checked", text |-> d.text]
    <2>1. Do(a, e) /\ saving' = [saving EXCEPT ![a] = v]
      BY <1>3 DEF HandleUpload
    <2>2. /\ e \in Activities /\ e.kind = d.kind
          /\ e.text = d.text /\ e.phase = "saving"
      BY <1>1 DEF Activities, Phases
    <2>3. v \in Saves
      BY <1>1 DEF Saves
    <2> HIDE DEF e, v
    <2>4. GoodStep(a)
      BY <1>1, <2>1, <2>2, HandlerSteps
    <2>5. ServerTypeOK'
      BY <1>1, <2>1, <2>3
         DEF HandleUpload, cacheVars, folderVars, ServerTypeOK
    <2> QED
      BY <1>2, <2>4, <2>5
  <1>4. CASE ~(Validates(d.text) /\ file[a] = None)
    <2> DEFINE e == Answered(d, None)
    <2>1. Do(a, e) /\ UNCHANGED saving
      BY <1>4 DEF HandleUpload
    <2>2. /\ e \in Activities /\ e.kind = d.kind
          /\ e.text = d.text /\ e.phase = "answered"
      BY <1>1, RecordTypes, Fields, ConstantFacts
    <2> HIDE DEF e
    <2>3. GoodStep(a)
      BY <1>1, <2>1, <2>2, HandlerSteps
    <2>4. ServerTypeOK'
      BY <1>1, <2>1
         DEF HandleUpload, cacheVars, folderVars, ServerTypeOK
    <2> QED
      BY <1>2, <2>3, <2>4
  <1> QED
    BY <1>3, <1>4

LEMMA NothingChanges ==
    ASSUME Sound, UNCHANGED clientVars
    PROVE  (ClientTypeOK => ClientTypeOK') /\ Sound'
  BY DEF clientVars, ClientTypeOK, Sound

LEMMA HandleSavedSteps ==
    ASSUME TypeOK, Named, Sound, NEW a \in Clients, HandleSaved(a)
    PROVE  ClientTypeOK' /\ Sound' /\ ServerTypeOK' /\ Named'
  <1> DEFINE d == doing[a]
  <1>1. /\ ClientTypeOK /\ ServerTypeOK /\ a \in Agents
        /\ d \in Activities /\ UNCHANGED <<conf, previous, running>>
    BY ConstantFacts DEF TypeOK, ClientTypeOK, ServerTypeOK, HandleSaved
  <1>2. ServerTypeOK'
    BY <1>1, SaveTypes DEF HandleSaved
  <1>3. Named'
    BY DEF HandleSaved, SaveWrite, cacheVars, folderVars, Named
  <1>4. CASE d.phase = "saving"
    <2> DEFINE e == Answered(d, None)
    <2>1. Do(a, e)
      BY <1>4 DEF HandleSaved
    <2>2. /\ e \in Activities /\ e.kind = d.kind
          /\ e.text = d.text /\ e.phase = "answered"
      BY <1>1, RecordTypes, Fields, ConstantFacts
    <2> HIDE DEF e
    <2>3. GoodStep(a)
      BY <1>1, <1>4, <2>1, <2>2, HandlerSteps
    <2> QED
      BY <1>1, <1>2, <1>3, <2>3, GoodStepKeeps
  <1>5. CASE d.phase # "saving"
    <2>1. UNCHANGED clientVars
      BY <1>1, <1>5 DEF HandleSaved, Do, clientVars, ClientTypeOK
    <2> QED
      BY <1>1, <1>2, <1>3, <2>1, NothingChanges
  <1> QED
    BY <1>4, <1>5

LEMMA HandleFilledSteps ==
    ASSUME TypeOK, Named, Sound, HandleFilled
    PROVE  ClientTypeOK' /\ Sound' /\ ServerTypeOK' /\ Named'
  <1>1. /\ ClientTypeOK /\ ServerTypeOK /\ lookup \in Loaded
        /\ UNCHANGED <<conf, previous, running>> /\ LookupInsert
    BY DEF TypeOK, ClientTypeOK, ServerTypeOK, HandleFilled
  <1>2. ServerTypeOK'
    BY <1>1, CacheTypes
  <1>3. Named'
    BY <1>1 DEF LookupInsert, folderVars, Named
  <1>4. CASE lookup.agent \in Clients /\ doing[lookup.agent].phase = "filling"
    <2> DEFINE a == lookup.agent
               e == Answered(doing[a], lookup.text)
    <2>1. Do(a, e)
      BY <1>1, <1>4 DEF HandleFilled, Do, ClientTypeOK
    <2>2. doing[a] \in Activities /\ lookup.text \in Maybe
      BY <1>1, <1>4 DEF ClientTypeOK, Loaded
    <2>3. /\ e \in Activities /\ e.kind = doing[a].kind
          /\ e.text = doing[a].text /\ e.phase = "answered"
      BY <2>2, RecordTypes, Fields
    <2> HIDE DEF e
    <2>4. GoodStep(a)
      BY <1>1, <1>4, <2>1, <2>3, HandlerSteps
    <2> QED
      BY <1>1, <1>2, <1>3, <1>4, <2>4, GoodStepKeeps
  <1>5. CASE ~(lookup.agent \in Clients /\ doing[lookup.agent].phase = "filling")
    <2>1. UNCHANGED clientVars
      BY <1>1, <1>5 DEF HandleFilled, clientVars, ClientTypeOK
    <2> QED
      BY <1>1, <1>2, <1>3, <2>1, NothingChanges
  <1> QED
    BY <1>4, <1>5

LEMMA ServerSteps ==
    ASSUME TypeOK, Named, ServerStep
    PROVE  ServerTypeOK' /\ Named'
  <1>1. ServerTypeOK
    BY DEF TypeOK
  <1>2. CASE LoadAll \/ StartWatcher \/ KillServer
    <2>1. ServerTypeOK'
      BY <1>1, <1>2, ProcessTypes
    <2>2. Named'
      BY <1>2 DEF LoadAll, StartWatcher, KillServer, cacheVars, folderVars,
                  Named, NoJob
    <2> QED
      BY <2>1, <2>2
  <1>3. CASE Updater
    <2>1. ServerTypeOK'
      BY <1>1, <1>3, CacheTypes
    <2>2. Named'
      BY <1>3 DEF Updater, UpdaterRead, UpdaterInsert, folderVars, Named
    <2> QED
      BY <2>1, <2>2
  <1>4. CASE Reconfigure
    <2>1. ServerTypeOK'
      BY <1>1, <1>4, ReconfigureTypes
    <2>2. UNCHANGED cacheVars
      BY <1>4 DEF Reconfigure, JobReadTasks, JobReadList, JobBackup, JobOpen,
                  JobWrite, JobEnd, JobClean, FailJob, Proceed
    <2>3. job'.step \in {"write", "open"} => job'.agent \in Agents
      <3>1. job \in Jobs
        BY <1>1 DEF ServerTypeOK
      <3>2. CASE \E a \in Agents : JobBackup(a)
        <4>1. PICK a \in Agents : JobBackup(a)
          BY <3>2
        <4>2. \/ job' = [job EXCEPT !.left = @ \ {a}, !.failed = TRUE]
              \/ job' = [job EXCEPT !.step = "write", !.agent = a]
          BY <4>1 DEF JobBackup, Proceed
        <4> QED
          BY <3>1, <4>1, <4>2 DEF JobBackup, Jobs
      <3>3. CASE JobOpen
        BY <3>1, <3>3 DEF JobOpen, Proceed, Named, Jobs
      <3>4. CASE JobReadTasks \/ JobReadList \/ JobWrite \/ JobEnd \/ JobClean
        <4>1. CASE job' = NoJob
          BY <4>1 DEF NoJob
        <4>2. CASE JobReadTasks /\ Validates(folder.tasks)
          <5>1. job' = [NoJob EXCEPT !.step = "list", !.text = folder.tasks]
            BY <4>2 DEF JobReadTasks, Proceed
          <5> QED
            BY <5>1 DEF NoJob
        <4>3. CASE JobReadList /\ Listed # {}
          <5>1. job' = [job EXCEPT !.step = "apply", !.left = Listed,
                                   !.targets = Listed]
            BY <4>3 DEF JobReadList, Proceed
          <5> QED
            BY <3>1, <5>1 DEF Jobs
        <4>4. CASE JobWrite
          <5>1. job' = [job EXCEPT !.step = "apply", !.agent = None,
                                   !.left = @ \ {job.agent},
                                   !.written = @ \cup {job.agent}]
            BY <4>4 DEF JobWrite, Proceed
          <5> QED
            BY <3>1, <5>1 DEF Jobs
        <4>5. CASE JobEnd /\ ~job.failed
          <5>1. job' = [job EXCEPT !.step = "clean"]
            BY <4>5 DEF JobEnd, Proceed
          <5> QED
            BY <3>1, <5>1 DEF Jobs
        <4> QED
          BY <3>4, <4>1, <4>2, <4>3, <4>4, <4>5
             DEF JobReadTasks, JobReadList, JobEnd, JobClean, FailJob, Proceed
      <3> QED
        BY <1>4, <3>2, <3>3, <3>4 DEF Reconfigure
    <2> QED
      BY <2>1, <2>2, <2>3 DEF Named, cacheVars
  <1>5. CASE Operator
    <2>1. ServerTypeOK'
      BY <1>1, <1>5, OperatorTypes
    <2>2. UNCHANGED <<updater, lookup, job>>
      BY <1>5 DEF Operator, EditFile, Drop, Withdraw, NewRequest, cacheVars,
                  folderVars
    <2> QED
      BY <2>1, <2>2 DEF Named
  <1>6. CASE \E a \in Clients : SaveOpen(a)
    <2>1. ServerTypeOK'
      BY <1>1, <1>6, SaveTypes, ConstantFacts
    <2>2. UNCHANGED <<updater, lookup, job>>
      BY <1>6 DEF SaveOpen, cacheVars, folderVars
    <2> QED
      BY <2>1, <2>2 DEF Named
  <1> QED
    BY <1>2, <1>3, <1>4, <1>5, <1>6 DEF ServerStep

(* The inductive invariant of the types.                                   *)
TypeInv == TypeOK /\ Named /\ Sound

LEMMA NextTypeInv ==
    ASSUME TypeInv, [Next]_vars
    PROVE  TypeInv'
  <1> USE DEF TypeInv
  <1>1. ClientTypeOK /\ ServerTypeOK /\ (TypeOK' <=> ServerTypeOK' /\ ClientTypeOK')
    BY DEF TypeOK, ClientTypeOK
  <1>2. CASE ServerStep
    BY <1>1, <1>2, ServerSteps, NothingChanges DEF ServerStep
  <1>3. CASE HandleFilled
    BY <1>1, <1>3, HandleFilledSteps
  <1>4. ASSUME NEW a \in Clients, StartAgent(a) \/ MainLoop(a)
        PROVE  TypeInv'
    <2>1. GoodStep(a) /\ UNCHANGED serverVars
      BY <1>1, <1>4, LoopSteps
    <2>2. ClientTypeOK' /\ Sound'
      BY <1>1, <2>1, GoodStepKeeps
    <2>3. ServerTypeOK' /\ Named'
      BY <1>1, <2>1
         DEF serverVars, cacheVars, folderVars, ServerTypeOK, Named
    <2> QED
      BY <1>1, <2>2, <2>3
  <1>5. ASSUME NEW a \in Clients, NoAnswer(a) \/ Disconnected(a) \/ KillAgent(a)
        PROVE  TypeInv'
    <2>1. GoodStep(a)
      BY <1>1, <1>5, EndSteps DEF NoAnswer, Disconnected
    <2>2. ClientTypeOK' /\ Sound'
      BY <1>1, <2>1, GoodStepKeeps
    <2>3. used' \in [EventKinds -> Nat]
      BY <1>1, <1>5, SpendType
         DEF NoAnswer, Disconnected, KillAgent, ServerTypeOK, EventKinds
    <2>4. UNCHANGED <<phase, file, cacheVars, events, saving, folderVars,
                      overtaken>>
      BY <1>5 DEF NoAnswer, Disconnected, KillAgent, GiveUp
    <2>5. ServerTypeOK' /\ Named'
      BY <1>1, <2>3, <2>4 DEF cacheVars, folderVars, ServerTypeOK, Named
    <2> QED
      BY <1>1, <2>2, <2>5
  <1>6. ASSUME NEW a \in Clients, Handler(a)
        PROVE  TypeInv'
    <2>1. CASE HandleLookup(a) \/ HandleUpload(a)
      BY <1>1, <2>1, HandleLookupSteps, HandleUploadSteps, GoodStepKeeps
    <2>2. CASE HandleSaved(a)
      BY <1>1, <2>2, HandleSavedSteps
    <2> QED
      BY <1>6, <2>1, <2>2 DEF Handler
  <1>7. CASE UNCHANGED vars
    BY <1>1, <1>7, NothingChanges
       DEF vars, serverVars, cacheVars, folderVars, ServerTypeOK, Named
  <1> QED
    BY <1>2, <1>3, <1>4, <1>5, <1>6, <1>7 DEF Next

LEMMA TypeInvHolds == Spec => []TypeInv
  <1>1. Init => TypeInv
    <2> SUFFICES ASSUME Init PROVE TypeInv
      OBVIOUS
    <2>1. Named
      BY DEF Init, ServerInit, Named, NoJob
    <2>2. Sound
      BY ConfigAssumption, Fields DEF Init, Sound, Good, Exchanges
    <2> QED
      BY <2>1, <2>2, InitTypes DEF TypeInv
  <1>2. TypeInv /\ [Next]_vars => TypeInv'
    BY NextTypeInv
  <1> QED
    BY <1>1, <1>2, PTL DEF Spec

(* Every variable keeps its type, in every step of agents, server and      *)
(* operator; in particular no more backups are kept than MAX_BACKUP_FILES. *)
THEOREM TypesHold == Spec => []TypeOK
  <1>1. TypeInv => TypeOK
    BY DEF TypeInv
  <1> QED
    BY <1>1, TypeInvHolds, PTL

(* The hash an agent reports between two exchanges is that of the tasks it *)
(* runs, but for a text that parses and does not validate.                 *)
THEOREM AgentsReportWhatTheyRun == Spec => []ReportsWhatItRuns
  <1>1. TypeInv => ReportsWhatItRuns
    BY DEF TypeInv, Sound, Good, Exchanges, ReportsWhatItRuns
  <1> QED
    BY <1>1, TypeInvHolds, PTL

(* An agent whose tasks.toml is torn or not valid has a valid one among    *)
(* its previous_configs.                                                   *)
THEOREM AgentsAreRecoverable == Spec => []AgentRecoverable
  <1>1. TypeInv => AgentRecoverable
    BY DEF TypeInv, Sound, Good, AgentRecoverable
  <1> QED
    BY <1>1, TypeInvHolds, PTL

-----------------------------------------------------------------------------
(* The cache and the files                                                 *)

(* CacheFollowsFile also while the server starts; and what the updater has *)
(* loaded is what the file holds, or the file has an event to come.        *)
CacheInv ==
    /\ updater # Nothing =>
         /\ phase = "up"
         /\ updater.text = file[updater.agent] \/ updater.agent \in events
    /\ phase # "down" =>
         \A a \in Agents :
            cache[a] \notin {None, file[a]} =>
                a \in events \/ updater.agent = a \/ a \in overtaken

LEMMA PutKeepsCache ==
    ASSUME TypeInv, CacheInv, NEW a \in Agents, NEW t \in Maybe, Put(a, t),
           UNCHANGED <<phase, cacheVars>>
    PROVE  CacheInv'
  <1>1. /\ file \in [Agents -> Maybe]
        /\ updater # Nothing => updater.agent \in Agents
    BY DEF TypeInv, TypeOK, ServerTypeOK, Named
  <1>2. UNCHANGED <<phase, cache, updater>>
    BY DEF cacheVars
  <1>3. /\ \A b \in Agents : b # a => file'[b] = file[b]
        /\ events \subseteq events' /\ overtaken \subseteq overtaken'
        /\ phase = "up" => a \in events'
        /\ phase = "loading" => a \in overtaken'
    BY <1>1 DEF Put
  <1>4. phase \in {"down", "loading", "up"}
    BY DEF TypeInv, TypeOK, ServerTypeOK
  <1>5. (updater # Nothing =>
           /\ phase = "up"
           /\ updater.text = file[updater.agent] \/ updater.agent \in events)'
    BY <1>1, <1>2, <1>3 DEF CacheInv
  <1>6. ASSUME (phase # "down")', NEW b \in Agents,
               (cache[b] \notin {None, file[b]})'
        PROVE  (b \in events \/ updater.agent = b \/ b \in overtaken)'
    BY <1>2, <1>3, <1>4, <1>6 DEF CacheInv
  <1> QED
    BY <1>5, <1>6 DEF CacheInv

(* The steps of the server, the updater and the lookups.                   *)
LEMMA CacheSteps ==
    ASSUME TypeInv, CacheInv,
           \/ LoadAll \/ StartWatcher \/ KillServer \/ Updater
           \/ LookupInsert \/ \E a \in Agents : LookupRead(a)
    PROVE  CacheInv'
  <1>1. /\ cache \in [Agents -> Maybe]
        /\ updater # Nothing => updater.agent \in Agents
        /\ lookup # Nothing => lookup.agent \in Agents
        /\ Nothing.agent \notin Agents
    BY ConstantFacts DEF TypeInv, TypeOK, ServerTypeOK, Named, Nothing
  <1>2. CASE LoadAll
    BY <1>1, <1>2 DEF LoadAll, CacheInv
  <1>3. CASE StartWatcher
    BY <1>3 DEF StartWatcher, cacheVars, CacheInv
  <1>4. CASE KillServer
    BY <1>4 DEF KillServer, CacheInv
  <1>5. CASE \E a \in Agents : UpdaterRead(a)
    <2>1. PICK a \in Agents : UpdaterRead(a)
      BY <1>5
    <2>2. /\ phase = "up" /\ updater = Nothing
          /\ updater'.agent = a /\ updater'.text = file[a]
          /\ events' = events \ {a}
          /\ UNCHANGED <<phase, file, cache, overtaken>>
      BY <2>1 DEF UpdaterRead
    <2> QED
      BY <1>1, <2>2 DEF CacheInv
  <1>6. CASE UpdaterInsert
    <2>1. /\ updater # Nothing /\ updater' = Nothing
          /\ cache' = [cache EXCEPT ![updater.agent] = updater.text]
          /\ overtaken' = overtaken \ {updater.agent}
          /\ UNCHANGED <<phase, file, events>>
      BY <1>6 DEF UpdaterInsert
    <2>2. ASSUME NEW b \in Agents, cache'[b] \notin {None, file[b]},
                 phase # "down"
          PROVE  b \in events \/ b \in overtaken'
      <3>1. CASE b = updater.agent
        BY <1>1, <2>1, <2>2, <3>1 DEF CacheInv
      <3>2. CASE b # updater.agent
        BY <1>1, <2>1, <2>2, <3>2 DEF CacheInv
      <3> QED
        BY <3>1, <3>2
    <2> QED
      BY <2>1, <2>2 DEF CacheInv
  <1>7. CASE \E a \in Agents : LookupRead(a)
    BY <1>7 DEF LookupRead, CacheInv
  <1>8. CASE LookupInsert
    <2>1. /\ lookup # Nothing
          /\ cache' = [cache EXCEPT ![lookup.agent] = lookup.text]
          /\ overtaken' = IF lookup.text = file[lookup.agent] THEN overtaken
                          ELSE overtaken \cup {lookup.agent}
          /\ UNCHANGED <<phase, file, events, updater>>
      BY <1>8 DEF LookupInsert
    <2>2. ASSUME NEW b \in Agents, cache'[b] \notin {None, file[b]},
                 phase # "down"
          PROVE  b \in events \/ updater.agent = b \/ b \in overtaken'
      <3>1. CASE b = lookup.agent
        BY <1>1, <2>1, <2>2, <3>1
      <3>2. CASE b # lookup.agent
        BY <1>1, <2>1, <2>2, <3>2 DEF CacheInv
      <3> QED
        BY <3>1, <3>2
    <2> QED
      BY <2>1, <2>2 DEF CacheInv
  <1> QED
    BY <1>2, <1>3, <1>4, <1>5, <1>6, <1>7, <1>8 DEF Updater

CacheView == <<phase, file, cache, events, updater, overtaken>>

LEMMA CacheUntouched ==
    ASSUME CacheInv, UNCHANGED CacheView
    PROVE  CacheInv'
  BY DEF CacheInv, CacheView

(* The steps that write files, or nothing the cache depends on.            *)
LEMMA FileSteps ==
    ASSUME TypeInv, CacheInv,
           \/ Reconfigure \/ Operator
           \/ \E a \in Clients : SaveOpen(a) \/ SaveWrite(a)
    PROVE  CacheInv'
  <1>1. /\ job \in Jobs /\ saving \in [Agents -> Saves]
        /\ job.step \in {"write", "open"} => job.agent \in Agents
    BY DEF TypeInv, TypeOK, ServerTypeOK, Named
  <1>2. CASE JobOpen
    BY <1>1, <1>2, PutKeepsCache, ConstantFacts DEF JobOpen, Proceed
  <1>3. CASE JobWrite
    <2>1. job.text \in Maybe
      BY <1>1 DEF Jobs
    <2> QED
      BY <1>1, <1>3, <2>1, PutKeepsCache DEF JobWrite, Proceed
  <1>4. CASE \/ JobReadTasks \/ JobReadList \/ JobEnd \/ JobClean
             \/ \E a \in Agents : JobBackup(a)
    <2>1. UNCHANGED CacheView
      BY <1>4 DEF JobReadTasks, JobReadList, JobEnd, JobClean, JobBackup,
                  FailJob, Proceed, Untouched, cacheVars, CacheView
    <2> QED
      BY <2>1, CacheUntouched
  <1>5. CASE \E a \in Agents, t \in Valid \cup Unsound \cup {None} :
                EditFile(a, t)
    BY <1>5, PutKeepsCache, ConstantFacts DEF EditFile
  <1>6. CASE (\E f \in Drops : Drop(f)) \/ Withdraw
    <2>1. UNCHANGED CacheView
      BY <1>6 DEF Drop, Withdraw, NewRequest, cacheVars, CacheView
    <2> QED
      BY <2>1, CacheUntouched
  <1>7. ASSUME NEW a \in Clients, SaveOpen(a)
        PROVE  CacheInv'
    BY <1>7, PutKeepsCache, ConstantFacts DEF SaveOpen
  <1>8. ASSUME NEW a \in Clients, SaveWrite(a)
        PROVE  CacheInv'
    <2>1. saving[a].text \in Maybe /\ a \in Agents
      BY <1>1, ConstantFacts DEF Saves
    <2> QED
      BY <1>8, <2>1, PutKeepsCache DEF SaveWrite
  <1> QED
    BY <1>2, <1>3, <1>4, <1>5, <1>6, <1>7, <1>8 DEF Reconfigure, Operator

LEMMA NextCacheInv ==
    ASSUME TypeInv, CacheInv, [Next]_vars
    PROVE  CacheInv'
  <1>1. CASE ServerStep
    BY <1>1, CacheSteps, FileSteps DEF ServerStep
  <1>2. CASE HandleFilled
    BY <1>2, CacheSteps DEF HandleFilled
  <1>3. ASSUME NEW a \in Clients, StartAgent(a) \/ MainLoop(a)
        PROVE  CacheInv'
    <2>1. UNCHANGED serverVars
      BY <1>3 DEF StartAgent, MainLoop, Registered, SendMetrics,
                  MetricsAnswered, VerifyAnswered, Apply, ApplyWrite,
                  ApplyLoad, ApplyStart, Uploaded
    <2> QED
      BY <2>1, CacheUntouched DEF serverVars, cacheVars, CacheView
  <1>4. ASSUME NEW a \in Clients, NoAnswer(a) \/ Disconnected(a) \/ KillAgent(a)
        PROVE  CacheInv'
    BY <1>4, CacheUntouched
       DEF NoAnswer, Disconnected, GiveUp, KillAgent, cacheVars, CacheView
  <1>5. ASSUME NEW a \in Clients, Handler(a)
        PROVE  CacheInv'
    <2>1. CASE HandleLookup(a)
      <3>1. a \in Agents
        BY ConstantFacts
      <3>2. LookupRead(a) \/ UNCHANGED serverVars
        BY <2>1 DEF HandleLookup
      <3> QED
        BY <3>1, <3>2, CacheSteps, CacheUntouched
           DEF serverVars, cacheVars, CacheView
    <2>2. CASE HandleUpload(a)
      BY <2>2, CacheUntouched DEF HandleUpload, cacheVars, CacheView
    <2>3. CASE HandleSaved(a)
      BY <2>3, FileSteps DEF HandleSaved
    <2> QED
      BY <1>5, <2>1, <2>2, <2>3 DEF Handler
  <1>6. CASE UNCHANGED vars
    BY <1>6, CacheUntouched DEF vars, serverVars, cacheVars, CacheView
  <1> QED
    BY <1>1, <1>2, <1>3, <1>4, <1>5, <1>6 DEF Next

(* In every interleaving of lookups, uploads, edits, reconfigurations,     *)
(* watcher and updater, what the cache holds of an agent is what its file  *)
(* holds, unless an event of the file is yet to be handled or the entry    *)
(* was overtaken.                                                          *)
THEOREM CacheIsTheFile == Spec => []CacheFollowsFile
  <1>1. Init => CacheInv
    BY DEF Init, ServerInit, CacheInv
  <1>2. TypeInv /\ CacheInv /\ [Next]_vars => CacheInv'
    BY NextCacheInv
  <1>3. CacheInv => CacheFollowsFile
    BY DEF CacheInv, CacheFollowsFile
  <1> QED
    BY <1>1, <1>2, <1>3, TypeInvHolds, PTL DEF Spec

-----------------------------------------------------------------------------
(* The reconfiguration and the backups                                     *)

(* An agent that is no longer left has its text, or the job has failed.    *)
JobInv ==
    /\ job.step \in {"apply", "write", "open", "clean"} => job.targets # {}
    /\ job.step \in {"apply", "write", "open"} /\ ~job.failed =>
         job.targets \ job.left \subseteq job.written
    /\ job.step = "clean" => job.targets \subseteq job.written

(* This attempt has not backed up the agent yet.                           *)
Awaiting(a) ==
    a \in job.left /\ ~(job.step \in {"write", "open"} /\ job.agent = a)

(* One of the last n backups is t.                                         *)
Recent(b, t, n) == \E i \in 1 .. Len(b) : b[i] = t /\ Len(b) - i < n

(* Every attempt adds at most one backup of an agent: what the agent had   *)
(* is no deeper among them than there were attempts that came to it.       *)
BackupInv ==
    /\ job.step \in {"apply", "write", "open"} => tries >= 1
    /\ \A a \in Agents :
         origin[a] # None /\ tries <= MaxBackups =>
            Recent(backups[a], origin[a],
                   IF Awaiting(a) THEN tries - 1 ELSE tries)

JobView == <<job, backups, tries, origin>>

LEMMA RecentDeeper ==
    ASSUME NEW b \in Seq(Texts), NEW t, NEW m \in Int, NEW n \in Int,
           m <= n, Recent(b, t, m)
    PROVE  Recent(b, t, n)
  <1>1. Len(b) \in Nat
    BY LenProperties
  <1>2. PICK i \in 1 .. Len(b) : b[i] = t /\ Len(b) - i < m
    BY DEF Recent
  <1> QED
    BY <1>1, <1>2 DEF Recent

(* A step that makes no backup and no attempt, and after which no more     *)
(* agents are awaited than before.                                         *)
LEMMA FewerAwaited ==
    ASSUME TypeInv, BackupInv, TypeOK', UNCHANGED <<backups, tries, origin>>,
           job'.step \in {"apply", "write", "open"} =>
               job.step \in {"apply", "write", "open"},
           \A a \in Agents : Awaiting(a)' => Awaiting(a)
    PROVE  BackupInv'
  <1>1. tries \in Nat /\ backups \in [Agents -> Seq(Texts)]
    BY ConstantFacts DEF TypeInv, TypeOK, ServerTypeOK
  <1>2. ASSUME NEW a \in Agents, origin[a] # None, tries <= MaxBackups
        PROVE  Recent(backups[a], origin[a],
                      IF Awaiting(a)' THEN tries - 1 ELSE tries)
    <2>1. CASE Awaiting(a)'
      <3>1. Awaiting(a)
        BY <2>1
      <3> QED
        BY <1>2, <2>1, <3>1 DEF BackupInv
    <2>2. CASE ~Awaiting(a)'
      <3>1. CASE Awaiting(a)
        <4>1. Recent(backups[a], origin[a], tries - 1)
          BY <1>2, <3>1 DEF BackupInv
        <4> QED
          BY <1>1, <2>2, <4>1, RecentDeeper
      <3>2. CASE ~Awaiting(a)
        BY <1>2, <2>2, <3>2 DEF BackupInv
      <3> QED
        BY <3>1, <3>2
    <2> QED
      BY <2>1, <2>2
  <1> QED
    BY <1>2 DEF BackupInv, Recent

(* A step after which there is nothing left, or no reconfiguration.        *)
LEMMA JobOver ==
    ASSUME TypeInv, JobInv, BackupInv, TypeOK',
           UNCHANGED <<backups, tries, origin>>,
           job'.left = {}, job'.step \in {"idle", "list"}
    PROVE  JobInv' /\ BackupInv'
  <1>1. \A a \in Agents : Awaiting(a)' => Awaiting(a)
    BY DEF Awaiting
  <1> QED
    BY <1>1, FewerAwaited DEF JobInv

LEMMA JobReadSteps ==
    ASSUME TypeInv, JobInv, BackupInv, TypeOK', JobReadTasks \/ JobReadList
    PROVE  JobInv' /\ BackupInv'
  <1>1. /\ job \in Jobs /\ backups \in [Agents -> Seq(Texts)]
        /\ tries \in 0 .. MaxBackups + 1 /\ MaxBackups \in Nat
        /\ MaxBackups >= 1
    BY ConstantFacts DEF TypeInv, TypeOK, ServerTypeOK
  <1>2. CASE FailJob
    BY <1>2, JobOver DEF FailJob, Proceed, Untouched, NoJob
  <1>3. CASE JobReadTasks /\ Validates(folder.tasks)
    <2>1. job' = [NoJob EXCEPT !.step = "list", !.text = folder.tasks]
      BY <1>3 DEF JobReadTasks, Proceed
    <2>2. job'.left = {} /\ job'.step = "list"
      BY <2>1 DEF NoJob
    <2> QED
      BY <1>3, <2>2, JobOver DEF JobReadTasks, Untouched
  <1>4. CASE JobReadList /\ Listed # {}
    <2>1. job' = [job EXCEPT !.step = "apply", !.left = Listed,
                             !.targets = Listed]
      BY <1>4 DEF JobReadList, Proceed
    <2>2. /\ job'.step = "apply" /\ job'.left = Listed
          /\ job'.targets = Listed
      BY <1>1, <2>1 DEF Jobs
    <2>3. JobInv'
      BY <1>4, <2>2 DEF JobInv
    <2>4. /\ UNCHANGED <<backups, origin>>
          /\ tries' = IF tries <= MaxBackups THEN tries + 1 ELSE tries
      BY <1>4 DEF JobReadList
    <2>5. tries' >= 1
      BY <1>1, <2>4
    <2>6. ASSUME NEW a \in Agents, (origin[a] # None /\ tries <= MaxBackups)'
          PROVE  Recent(backups[a], origin[a],
                        IF Awaiting(a)' THEN tries' - 1 ELSE tries')
      <3>1. tries <= MaxBackups /\ tries' = tries + 1
        BY <1>1, <2>4, <2>6
      <3>2. PICK m \in {tries - 1, tries} :
               Recent(backups[a], origin[a], m)
        BY <2>4, <2>6, <3>1 DEF BackupInv
      <3>3. backups[a] \in Seq(Texts) /\ m \in Int
        BY <1>1, <3>2
      <3>4. Recent(backups[a], origin[a], tries)
        BY <1>1, <3>2, <3>3, RecentDeeper
      <3>5. Recent(backups[a], origin[a], tries + 1)
        BY <1>1, <3>3, <3>4, RecentDeeper
      <3> QED
        BY <1>1, <3>1, <3>4, <3>5
    <2>7. BackupInv'
      BY <2>4, <2>5, <2>6 DEF BackupInv, Recent
    <2> QED
      BY <2>3, <2>7
  <1> QED
    BY <1>2, <1>3, <1>4 DEF JobReadTasks, JobReadList

LEMMA JobBackupSteps ==
    ASSUME TypeInv, JobInv, BackupInv, TypeOK', NEW a \in Agents, JobBackup(a)
    PROVE  JobInv' /\ BackupInv'
  <1>1. /\ job \in Jobs /\ backups \in [Agents -> Seq(Texts)]
        /\ Len(backups[a]) <= MaxBackups
        /\ tries \in 0 .. MaxBackups + 1 /\ MaxBackups \in Nat
        /\ origin \in [Agents -> Maybe] /\ file[a] \in Maybe
    BY ConstantFacts DEF TypeInv, TypeOK, ServerTypeOK
  <1>2. job.step = "apply" /\ a \in job.left
    BY DEF JobBackup
  <1>3. CASE file[a] = None
    <2>1. job' = [job EXCEPT !.left = @ \ {a}, !.failed = TRUE]
      BY <1>3 DEF JobBackup, Proceed
    <2>2. /\ job'.step = "apply" /\ job'.failed /\ job'.left = job.left \ {a}
          /\ job'.targets = job.targets
      BY <1>1, <1>2, <2>1 DEF Jobs
    <2>3. JobInv'
      BY <1>2, <2>2 DEF JobInv
    <2>4. UNCHANGED <<backups, tries, origin>>
      BY <1>3 DEF JobBackup
    <2>5. \A b \in Agents : Awaiting(b)' => Awaiting(b)
      BY <1>2, <2>2 DEF Awaiting
    <2> QED
      BY <1>2, <2>3, <2>4, <2>5, FewerAwaited
  <1>4. CASE file[a] # None
    <2>1. job' = [job EXCEPT !.step = "write", !.agent = a]
      BY <1>4 DEF JobBackup, Proceed
    <2>2. /\ job'.step = "write" /\ job'.agent = a /\ job'.left = job.left
          /\ job'.targets = job.targets /\ job'.written = job.written
          /\ job'.failed = job.failed
      BY <1>1, <2>1 DEF Jobs
    <2>3. JobInv'
      BY <1>2, <2>2 DEF JobInv
    <2>4. /\ ~Awaiting(a)' /\ Awaiting(a)
          /\ \A b \in Agents : b # a /\ Awaiting(b)' => Awaiting(b)
          /\ \A b \in Agents : b # a /\ Awaiting(b) => Awaiting(b)'
      BY <1>2, <2>2 DEF Awaiting
    <2> DEFINE c == Kept(Append(backups[a], file[a]))
    <2>5. /\ c = Kept(Append(backups[a], file[a]))
          /\ backups' = [backups EXCEPT ![a] = c]
      BY <1>4 DEF JobBackup
    <2> HIDE DEF c
    <2>6. /\ origin' = [origin EXCEPT ![a] = IF @ = None THEN file[a] ELSE @]
          /\ tries' = tries
      BY <1>4 DEF JobBackup
    <2>7. file[a] \in Texts /\ backups[a] \in Seq(Texts)
      BY <1>1, <1>4, ConstantFacts
    <2>8. Rotated(backups[a], file[a], c)
      BY <1>1, <2>5, <2>7, KeptProperties, Zenon
    <2>9. tries >= 1
      BY <1>2 DEF BackupInv
    <2>10. backups'[a] = c
      BY <1>1, <2>5
    <2>11. ASSUME tries <= MaxBackups
           PROVE  Recent(c, origin'[a], tries)
      <3>1. CASE origin[a] = None
        <4>1. origin'[a] = file[a]
          BY <1>1, <2>6, <3>1
        <4>2. Len(c) \in 1 .. Len(c) /\ Len(c) - Len(c) < tries
          BY <1>1, <2>8, <2>9 DEF Rotated
        <4> QED
          BY <2>8, <4>1, <4>2 DEF Recent, Rotated
      <3>2. CASE origin[a] # None
        <4>1. origin'[a] = origin[a]
          BY <1>1, <2>6, <3>2
        <4>2. PICK i \in 1 .. Len(backups[a]) :
                 /\ backups[a][i] = origin[a]
                 /\ Len(backups[a]) - i < tries - 1
          BY <2>4, <2>11, <3>2 DEF BackupInv, Recent
        <4>3. Len(backups[a]) \in Nat
          BY <2>7, LenProperties
        <4>4. Len(backups[a]) - i + 2 <= MaxBackups
          BY <1>1, <2>11, <4>2, <4>3
        <4>5. PICK j \in 1 .. Len(c) :
                 /\ c[j] = backups[a][i]
                 /\ Len(c) - j = Len(backups[a]) - i + 1
          BY <2>8, <4>4 DEF Rotated
        <4>6. Len(c) - j < tries
          BY <1>1, <2>8, <4>2, <4>3, <4>5 DEF Rotated
        <4> QED
          BY <4>1, <4>2, <4>5, <4>6 DEF Recent
      <3> QED
        BY <3>1, <3>2
    <2>12. ASSUME NEW b \in Agents, (origin[b] # None /\ tries <= MaxBackups)'
           PROVE  Recent(backups'[b], origin'[b],
                         IF Awaiting(b)' THEN tries' - 1 ELSE tries')
      <3>1. CASE b = a
        BY <2>4, <2>6, <2>10, <2>11, <2>12, <3>1
      <3>2. CASE b # a
        <4>1. backups'[b] = backups[b] /\ origin'[b] = origin[b]
          BY <1>1, <2>5, <2>6, <3>2
        <4>2. Awaiting(b)' <=> Awaiting(b)
          BY <2>4, <3>2
        <4> QED
          BY <2>6, <2>12, <4>1, <4>2 DEF BackupInv
      <3> QED
        BY <3>1, <3>2
    <2>13. BackupInv'
      BY <2>6, <2>9, <2>12 DEF BackupInv, Recent
    <2> QED
      BY <2>3, <2>13
  <1> QED
    BY <1>3, <1>4

LEMMA JobWriteSteps ==
    ASSUME TypeInv, JobInv, BackupInv, TypeOK',
           JobOpen \/ JobWrite \/ JobEnd \/ JobClean
    PROVE  JobInv' /\ BackupInv'
  <1>1. /\ job \in Jobs /\ job.step \in {"write", "open"} => job.agent \in Agents
    BY DEF TypeInv, TypeOK, ServerTypeOK, Named
  <1>2. CASE JobOpen
    <2>1. job.step = "write" /\ job' = [job EXCEPT !.step = "open"]
      BY <1>2 DEF JobOpen, Proceed
    <2>2. /\ job'.step = "open" /\ job'.left = job.left
          /\ job'.agent = job.agent /\ job'.targets = job.targets
          /\ job'.written = job.written /\ job'.failed = job.failed
      BY <1>1, <2>1 DEF Jobs
    <2>3. JobInv' /\ \A a \in Agents : Awaiting(a)' => Awaiting(a)
      BY <2>1, <2>2 DEF JobInv, Awaiting
    <2> QED
      BY <1>2, <2>1, <2>3, FewerAwaited DEF JobOpen
  <1>3. CASE JobWrite
    <2>1. /\ job.step = "open"
          /\ job' = [job EXCEPT !.step = "apply", !.agent = None,
                                !.left = @ \ {job.agent},
                                !.written = @ \cup {job.agent}]
      BY <1>3 DEF JobWrite, Proceed
    <2>2. /\ job'.step = "apply" /\ job'.left = job.left \ {job.agent}
          /\ job'.targets = job.targets /\ job'.failed = job.failed
          /\ job'.written = job.written \cup {job.agent}
      BY <1>1, <2>1 DEF Jobs
    <2>3. JobInv' /\ \A a \in Agents : Awaiting(a)' => Awaiting(a)
      BY <2>1, <2>2 DEF JobInv, Awaiting
    <2> QED
      BY <1>3, <2>1, <2>3, FewerAwaited DEF JobWrite
  <1>4. CASE JobEnd /\ job.failed
    BY <1>4, JobOver DEF JobEnd, FailJob, Proceed, Untouched, NoJob
  <1>5. CASE JobEnd /\ ~job.failed
    <2>1. /\ job.step = "apply" /\ job.left = {}
          /\ job' = [job EXCEPT !.step = "clean"]
      BY <1>5 DEF JobEnd, Proceed
    <2>2. /\ job'.step = "clean" /\ job'.left = {}
          /\ job'.targets = job.targets /\ job'.written = job.written
      BY <1>1, <2>1 DEF Jobs
    <2>3. JobInv' /\ \A a \in Agents : Awaiting(a)' => Awaiting(a)
      BY <1>5, <2>1, <2>2 DEF JobInv, Awaiting
    <2> QED
      BY <1>5, <2>2, <2>3, FewerAwaited DEF JobEnd, Untouched
  <1>6. CASE JobClean
    <2>1. job' = NoJob /\ \A a \in Agents : origin'[a] = None
      BY <1>6 DEF JobClean, Proceed, NoText
    <2> QED
      BY <2>1 DEF JobInv, BackupInv, NoJob
  <1> QED
    BY <1>2, <1>3, <1>4, <1>5, <1>6

LEMMA JobUntouched ==
    ASSUME JobInv, BackupInv, UNCHANGED JobView
    PROVE  JobInv' /\ BackupInv'
  BY DEF JobInv, BackupInv, Recent, Awaiting, JobView

LEMMA NextJobInv ==
    ASSUME TypeInv, JobInv, BackupInv, [Next]_vars
    PROVE  JobInv' /\ BackupInv'
  <1>1. TypeOK'
    BY NextTypeInv DEF TypeInv
  <1>2. CASE Reconfigure
    BY <1>1, <1>2, JobReadSteps, JobBackupSteps, JobWriteSteps
       DEF Reconfigure
  <1>3. CASE KillServer
    BY <1>1, <1>3, JobOver DEF KillServer, NoJob
  <1>4. CASE \/ LoadAll \/ StartWatcher \/ Updater \/ Operator
             \/ (\E a \in Clients : SaveOpen(a))
    <2>1. UNCHANGED JobView
      BY <1>4 DEF LoadAll, StartWatcher, Updater, UpdaterRead, UpdaterInsert,
                  Operator, EditFile, Drop, Withdraw, NewRequest, SaveOpen,
                  folderVars, JobView
    <2> QED
      BY <2>1, JobUntouched
  <1>5. CASE HandleFilled
    BY <1>5, JobUntouched DEF HandleFilled, LookupInsert, folderVars, JobView
  <1>6. ASSUME NEW a \in Clients, StartAgent(a) \/ MainLoop(a)
        PROVE  UNCHANGED JobView
    BY <1>6 DEF StartAgent, MainLoop, Registered, SendMetrics,
                MetricsAnswered, VerifyAnswered, Apply, ApplyWrite, ApplyLoad,
                ApplyStart, Uploaded, serverVars, folderVars, JobView
  <1>7. ASSUME NEW a \in Clients,
               NoAnswer(a) \/ Disconnected(a) \/ KillAgent(a) \/ Handler(a)
        PROVE  UNCHANGED JobView
    BY <1>7 DEF NoAnswer, Disconnected, GiveUp, KillAgent, Handler,
                HandleLookup, LookupRead, HandleUpload, HandleSaved,
                SaveWrite, serverVars, folderVars, JobView
  <1>8. CASE UNCHANGED vars
    BY <1>8, JobUntouched DEF vars, serverVars, folderVars, JobView
  <1> QED
    BY <1>2, <1>3, <1>4, <1>5, <1>6, <1>7, <1>8, JobUntouched
       DEF Next, ServerStep

LEMMA JobInvsHold == Spec => [](JobInv /\ BackupInv)
  <1>1. Init => JobInv /\ BackupInv
    BY DEF Init, ServerInit, JobInv, BackupInv, NoJob, NoText
  <1>2. TypeInv /\ (JobInv /\ BackupInv) /\ [Next]_vars => (JobInv /\ BackupInv)'
    BY NextJobInv
  <1> QED
    BY <1>1, <1>2, TypeInvHolds, PTL DEF Spec

(* A request leaves the drop folder only when every agent it was read for  *)
(* has got its text, whatever fails, is killed or dropped meanwhile.       *)
THEOREM RequestsAreApplied == Spec => []RemovedOnlyWhenApplied
  <1>1. JobInv => RemovedOnlyWhenApplied
    BY DEF JobInv, RemovedOnlyWhenApplied
  <1> QED
    BY <1>1, JobInvsHold, PTL

(* What an agent had before a request was applied to it is among its       *)
(* backups for as many attempts as there are backups.                      *)
THEOREM OriginalsAreKept == Spec => []OriginalKept
  <1>1. TypeInv /\ BackupInv => OriginalKept
    <2> SUFFICES ASSUME TypeInv, BackupInv, NEW a \in Agents,
                        origin[a] # None, tries <= MaxBackups
                 PROVE  \E i \in DOMAIN backups[a] : backups[a][i] = origin[a]
      BY DEF OriginalKept
    <2>1. backups[a] \in Seq(Texts)
      BY DEF TypeInv, TypeOK, ServerTypeOK
    <2>2. DOMAIN backups[a] = 1 .. Len(backups[a])
      BY <2>1, LenProperties
    <2>3. \E i \in 1 .. Len(backups[a]) : backups[a][i] = origin[a]
      BY DEF BackupInv, Recent
    <2> QED
      BY <2>2, <2>3
  <1> QED
    BY <1>1, TypeInvHolds, JobInvsHold, PTL
=============================================================================
