--------------------------- MODULE BandwidthSlot ---------------------------
(***************************************************************************)
(* The server's BandwidthTestManager (server/src/bandwidth_state.rs): one  *)
(* agent holds the slot for a bandwidth test, others wait in a queue.      *)
(* Each operator that primes a variable is one hold of the write lock.     *)
(*                                                                         *)
(* Instants are kept as ages, in whole units of time, and an age stops     *)
(* growing where the code's comparison no longer changes its answer.       *)
(***************************************************************************)
EXTENDS Retain, FiniteSets

CONSTANTS
    Agents,
    TestTimeout,    \* bandwidth_test_timeout_seconds
    MaxDelay,       \* bandwidth_max_delay_seconds
    BaseDelay,      \* bandwidth_queue_base_delay_seconds
    TestDelay,      \* bandwidth_queue_current_test_delay_seconds
    PositionDelay   \* bandwidth_queue_position_multiplier_seconds

ASSUME SlotAssumption ==
    \A d \in {TestTimeout, MaxDelay, BaseDelay, TestDelay, PositionDelay} :
        d \in Nat

NoAgent == "no agent"

ASSUME AgentsAssumption == NoAgent \notin Agents

VARIABLES
    current,    \* the agent of current_test, or NoAgent
    slotAge,    \* time since current_test was set
    waiting     \* waiting_queue: agents with the time since they asked

slotVars == <<current, slotAge, waiting>>

Waiters == [agent : Agents, age : 0 .. MaxDelay]

SlotTypeOK ==
    /\ current \in Agents \cup {NoAgent}
    /\ slotAge \in 0 .. TestTimeout + 1
    /\ waiting \in Seq(Waiters)

SlotInit ==
    /\ current = NoAgent
    /\ slotAge = 0
    /\ waiting = <<>>

Earlier(x, y) == IF x <= y THEN x ELSE y

AgeSlot ==
    /\ UNCHANGED current
    /\ slotAge' = IF current = NoAgent THEN 0
                  ELSE Earlier(slotAge + 1, TestTimeout + 1)
    /\ waiting' = [i \in DOMAIN waiting |->
                     [waiting[i] EXCEPT !.age = Earlier(@ + 1, MaxDelay)]]

(* Mutant: a test never times out.                                         *)
HolderKeptForever == current

(* cleanup_expired_tests, run by every request and by nothing else: the    *)
(* test that timed out is dropped, and so are agents that asked too long   *)
(* ago.  Nobody is promoted.                                               *)
HolderKept  == IF slotAge > TestTimeout THEN NoAgent ELSE current
WaitersKept == Retained(waiting, {w \in Waiters : w.age < MaxDelay})

(* Mutant: the agent is not removed before it is queued.                   *)
WithoutNobody(q, a) == q

(* The queue without the agent that asks: queued once at most.             *)
Without(q, a) == Retained(q, {w \in Waiters : w.agent # a})

(* Mutant: the cap is left out.                                            *)
DelayBehindUncapped(q) ==
    (IF HolderKept # NoAgent THEN TestDelay ELSE BaseDelay)
    + Len(q) * PositionDelay

(* calculate_delay for an agent that is about to join the queue q.         *)
DelayBehind(q) ==
    LET base == IF HolderKept # NoAgent THEN TestDelay ELSE BaseDelay
    IN  Earlier(base + Len(q) * PositionDelay, MaxDelay)

Proceeds(a)    == HolderKept \in {a, NoAgent}
OthersAhead(a) == Without(WaitersKept, a)

(* Mutant: an agent that asks again goes to the head of the queue.         *)
RequestTestFirst(a) ==
    /\ current' = IF Proceeds(a) THEN a ELSE HolderKept
    /\ slotAge' = IF HolderKept = NoAgent THEN 0 ELSE slotAge
    /\ waiting' = CASE HolderKept = a       -> WaitersKept
                    [] HolderKept = NoAgent -> OthersAhead(a)
                    [] OTHER -> <<[agent |-> a, age |-> 0]>> \o OthersAhead(a)

(* request_test: the holder may go on, a free slot is taken whoever waits, *)
(* and otherwise the agent is queued, behind all others even if it was in  *)
(* the queue already.                                                      *)
RequestTest(a) ==
    /\ current' = IF Proceeds(a) THEN a ELSE HolderKept
    /\ slotAge' = IF HolderKept = NoAgent THEN 0 ELSE slotAge
    /\ waiting' = CASE HolderKept = a       -> WaitersKept
                    [] HolderKept = NoAgent -> OthersAhead(a)
                    [] OTHER -> Append(OthersAhead(a), [agent |-> a, age |-> 0])

(* Mutant: whoever finishes ends the test of whoever holds the slot.       *)
CompleteTestOfAny(a) ==
    /\ current' = IF waiting = <<>> THEN NoAgent ELSE Head(waiting).agent
    /\ slotAge' = 0
    /\ waiting' = IF waiting = <<>> THEN <<>> ELSE Tail(waiting)

(* complete_test: the slot of the holder, and only of the holder, passes   *)
(* to the first agent that waits, however long ago it asked.               *)
CompleteTest(a) ==
    IF current = a
    THEN /\ current' = IF waiting = <<>> THEN NoAgent ELSE Head(waiting).agent
         /\ slotAge' = 0
         /\ waiting' = IF waiting = <<>> THEN <<>> ELSE Tail(waiting)
    ELSE UNCHANGED slotVars
=============================================================================
