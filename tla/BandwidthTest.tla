--------------------------- MODULE BandwidthTest ---------------------------
(***************************************************************************)
(* Bandwidth tests of several agents against one server: the retry loop of *)
(* execute_bandwidth_task (agent/src/task_bandwidth.rs), run by the        *)
(* executor under the task's timeout, and the two handlers of              *)
(* server/src/api.rs over the manager's state (BandwidthSlot).             *)
(*                                                                         *)
(* The download handler takes the manager's lock twice, once to see who    *)
(* holds the slot and once to complete the test, so requests of others may *)
(* come between.  A request whose sender has given up may still be         *)
(* handled.                                                                *)
(***************************************************************************)
EXTENDS BandwidthSlot

CONSTANTS
    Regular,        \* agents whose task keeps being scheduled
    TaskTimeout,    \* timeout_seconds of the task
    MaxRetries,     \* max_retries of the task
    MaxLate,        \* bound on the requests without a sender at one time
    MaxServing      \* bound on one agent's downloads between the two locks

ASSUME TestAssumption ==
    /\ Regular \subseteq Agents
    /\ \A n \in {TaskTimeout, MaxRetries, MaxLate, MaxServing} : n \in Nat

Phases == {"idle",          \* no execution of the task
           "asking",        \* permission requested
           "told",          \* the server answered Delay
           "sleeping",      \* waiting that delay
           "granted",       \* the server answered Proceed, download requested
           "serving",       \* the server found that the agent has the slot
           "streaming"}     \* the body of the download is on its way

VARIABLES
    phase,      \* phase[a]: where the agent's execution is
    elapsed,    \* elapsed[a]: in the loop, time since it started, up to
                \* TaskTimeout
    tries,      \* tries[a]: in the loop, retry_count
    delay,      \* delay[a]: what is left of the delay the server asked for
    serving,    \* serving[a]: download handlers for a between their two locks
    late        \* requests whose sender has given up

agentVars == <<phase, elapsed, tries, delay>>
vars == <<slotVars, agentVars, serving, late>>

TypeOK ==
    /\ SlotTypeOK
    /\ phase \in [Agents -> Phases]
    /\ elapsed \in [Agents -> 0 .. TaskTimeout]
    /\ tries \in [Agents -> 0 .. MaxRetries]
    /\ delay \in [Agents -> 0 .. MaxDelay]
    /\ serving \in [Agents -> 0 .. MaxServing]
    /\ late \subseteq Agents \X {"asking", "granted"}

Init ==
    /\ SlotInit
    /\ phase = [a \in Agents |-> "idle"]
    /\ elapsed = [a \in Agents |-> 0]
    /\ tries = [a \in Agents |-> 0]
    /\ delay = [a \in Agents |-> 0]
    /\ serving = [a \in Agents |-> 0]
    /\ late = {}

(* The retry loop; after it the code compares no time and no count.        *)
InLoop(a) == phase[a] \in {"asking", "told", "sleeping"}

Tick ==
    /\ AgeSlot
    /\ elapsed' = [a \in Agents |-> IF InLoop(a)
                                    THEN Earlier(elapsed[a] + 1, TaskTimeout)
                                    ELSE elapsed[a]]
    /\ delay' = [a \in Agents |-> IF phase[a] = "sleeping" /\ delay[a] > 0
                                  THEN delay[a] - 1 ELSE delay[a]]
    /\ UNCHANGED <<phase, tries, serving, late>>

-----------------------------------------------------------------------------
(* The execution of the task                                               *)

Becomes(a, p) == phase' = [phase EXCEPT ![a] = p]

LeaveLoop(a) ==
    /\ elapsed' = [elapsed EXCEPT ![a] = 0]
    /\ tries' = [tries EXCEPT ![a] = 0]
    /\ delay' = [delay EXCEPT ![a] = 0]

(* The execution is over, whatever its result.                             *)
Over(a) == Becomes(a, "idle") /\ LeaveLoop(a)

Begin(a) ==
    /\ phase[a] = "idle"
    /\ TaskTimeout > 0 /\ MaxRetries > 0
    /\ Becomes(a, "asking")
    /\ UNCHANGED <<slotVars, elapsed, tries, delay, serving, late>>

(* Told to wait: only if the delay ends before the task's timeout.         *)
HandleDelay(a) ==
    /\ phase[a] = "told"
    /\ IF elapsed[a] + delay[a] >= TaskTimeout
       THEN Over(a)
       ELSE Becomes(a, "sleeping") /\ UNCHANGED <<elapsed, tries, delay>>
    /\ UNCHANGED <<slotVars, serving, late>>

(* The delay is over: back to the top of the loop with its two checks.     *)
Wake(a) ==
    /\ phase[a] = "sleeping"
    /\ delay[a] = 0
    /\ IF elapsed[a] >= TaskTimeout \/ tries[a] + 1 >= MaxRetries
       THEN Over(a)
       ELSE /\ Becomes(a, "asking")
            /\ tries' = [tries EXCEPT ![a] = @ + 1]
            /\ UNCHANGED <<elapsed, delay>>
    /\ UNCHANGED <<slotVars, serving, late>>

(* The execution ends: the body has arrived, a request failed, the         *)
(* executor's timeout struck, or the agent was stopped.  A request under   *)
(* way is lost or goes on alone.                                           *)
End(a) ==
    /\ phase[a] # "idle"
    /\ Over(a)
    /\ \/ UNCHANGED late
       \/ /\ phase[a] \in {"asking", "granted"}
          /\ Cardinality(late) < MaxLate
          /\ late' = late \cup {<<a, phase[a]>>}
    /\ UNCHANGED <<slotVars, serving>>

-----------------------------------------------------------------------------
(* The handlers                                                            *)

(* handle_bandwidth_test                                                   *)
HandleRequest(a) ==
    /\ phase[a] = "asking"
    /\ RequestTest(a)
    /\ IF Proceeds(a)
       THEN Becomes(a, "granted") /\ LeaveLoop(a)
       ELSE /\ Becomes(a, "told")
            /\ delay' = [delay EXCEPT ![a] = DelayBehind(OthersAhead(a))]
            /\ UNCHANGED <<elapsed, tries>>
    /\ UNCHANGED <<serving, late>>

HandleLateRequest(a) ==
    /\ <<a, "asking">> \in late
    /\ RequestTest(a)
    /\ late' = late \ {<<a, "asking">>}
    /\ UNCHANGED <<agentVars, serving>>

Admit(a) ==
    /\ serving[a] < MaxServing
    /\ serving' = IF current = a THEN [serving EXCEPT ![a] = @ + 1] ELSE serving

(* handle_bandwidth_download up to the end of its first lock: a request of *)
(* an agent without the slot is answered with 400 and fails the execution. *)
CheckDownload(a) ==
    /\ phase[a] = "granted"
    /\ Admit(a)
    /\ IF current = a
       THEN Becomes(a, "serving") /\ UNCHANGED <<elapsed, tries, delay>>
       ELSE Over(a)
    /\ UNCHANGED <<slotVars, late>>

CheckLateDownload(a) ==
    /\ <<a, "granted">> \in late
    /\ Admit(a)
    /\ late' = late \ {<<a, "granted">>}
    /\ UNCHANGED <<slotVars, agentVars>>

(* Some handler for a has no client any more.                              *)
Orphaned(a) == serving[a] > (IF phase[a] = "serving" THEN 1 ELSE 0)

Leave(a) == serving' = [serving EXCEPT ![a] = @ - 1]

(* The second lock: the test is complete before the first byte is sent.    *)
StartStreaming(a) ==
    /\ serving[a] > 0
    /\ CompleteTest(a)
    /\ Leave(a)
    /\ \/ phase[a] = "serving" /\ Becomes(a, "streaming")
       \/ Orphaned(a) /\ UNCHANGED phase
    /\ UNCHANGED <<elapsed, tries, delay, late>>

(* A handler whose client has closed the connection is dropped at the      *)
(* await of its second lock.                                               *)
DropDownload(a) ==
    /\ Orphaned(a)
    /\ Leave(a)
    /\ UNCHANGED <<slotVars, agentVars, late>>

-----------------------------------------------------------------------------
Agent(a) == Begin(a) \/ HandleDelay(a) \/ Wake(a) \/ End(a)

Server(a) == \/ HandleRequest(a) \/ HandleLateRequest(a)
             \/ CheckDownload(a) \/ CheckLateDownload(a)
             \/ StartStreaming(a) \/ DropDownload(a)

Next == Tick \/ \E a \in Agents : Agent(a) \/ Server(a)

Spec == Init /\ [][Next]_vars

(* Time passes; a regular agent's ticker starts the task again and again,  *)
(* the task's timeout ends every execution, and not every request for      *)
(* permission is lost.  Nothing is assumed of the other agents.            *)
Fairness ==
    /\ WF_vars(Tick)
    /\ \A a \in Regular : /\ WF_vars(Begin(a))
                          /\ WF_vars(End(a))
                          /\ SF_vars(HandleRequest(a))

FairSpec == Spec /\ Fairness
-----------------------------------------------------------------------------
(* An agent is in one place only: waiting at most once, and not while it   *)
(* holds the slot, though it may ask any number of times, be promoted by   *)
(* another's complete_test, or have requests of dead executions handled.   *)
InOnePlace ==
    \A i \in DOMAIN waiting :
        /\ waiting[i].agent # current
        /\ \A j \in DOMAIN waiting :
              waiting[i].agent = waiting[j].agent => i = j

(* "FIFO ordering ensures fairness" (docs of the bandwidth task) in the    *)
(* only sense in which it is so: complete_test promotes the agent whose    *)
(* last request is the oldest.                                             *)
OldestFirst ==
    \A i, j \in DOMAIN waiting : i < j => waiting[i].age >= waiting[j].age

(* Nobody ends another agent's test: the slot is taken from its holder     *)
(* when the holder's own download is served, or when the test timed out    *)
(* (the two locks of the download handler, late requests).                 *)
OnlyOwnTestEnds ==
    [][current # NoAgent /\ current' # current =>
         slotAge > TestTimeout \/ serving[current] > 0]_vars

(* An agent that never runs the task again does not keep the slot, whether *)
(* it was granted it, was promoted while nobody listened, or a request it  *)
(* had given up on was handled: some request of another frees it.          *)
GoneAgentReleases ==
    \A a \in Agents : <>[](phase[a] = "idle") => <>[](current # a)

(* "Only one agent can download test file at a time" (docs of the          *)
(* bandwidth task, server/src/bandwidth_state.rs).                         *)
OneDownload ==
    \A a, b \in Agents :
        phase[a] = "streaming" /\ phase[b] = "streaming" => a = b
=============================================================================
