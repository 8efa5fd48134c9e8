---------------------------- MODULE RateLimiter ----------------------------
(***************************************************************************)
(* AgentRateLimiter (server/src/api.rs): per agent the times of the        *)
(* requests it let through, over a sliding window.  handle_metrics and     *)
(* handle_verify_config ask it first.  A request reads the clock, and only *)
(* then waits for the lock: others that came later, and the sweep of idle  *)
(* agents, may have it before.  Whoever holds the lock does all it does in *)
(* one go.                                                                 *)
(*                                                                         *)
(* The code keeps times; the model keeps the requests, whose times are     *)
(* known: two requests of one instant are two entries.  Only the number of *)
(* the entries and their times matter, not their order, so a set will do.  *)
(***************************************************************************)
EXTENDS Integers, FiniteSets

CONSTANTS
    Agents,         \* the agents
    Requests,       \* the requests that ever come (a bound)
    Window,         \* rate_limit_window_seconds, in ticks of the clock
    MaxRequests,    \* rate_limit_max_requests
    LastTick        \* the clock stops there (a bound)

ASSUME LimiterAssumption ==
    /\ IsFiniteSet(Requests)
    /\ Window \in Nat \ {0}
    /\ MaxRequests \in Nat \ {0}
    /\ LastTick \in Nat

VARIABLES
    now,        \* the monotonic clock
    limits,     \* [tracked agents -> requests whose times are kept]
    agent,      \* [Requests -> the agent it is of]
    asked,      \* [Requests -> when it read the clock]
    stage       \* [Requests -> "none", "waiting", and "in" or "out" for good]

vars == <<now, limits, agent, asked, stage>>

TypeOK ==
    /\ now \in Nat
    /\ DOMAIN limits \subseteq Agents
    /\ \A a \in DOMAIN limits : limits[a] \subseteq Requests
    /\ agent \in [Requests -> Agents]
    /\ asked \in [Requests -> Nat]
    /\ stage \in [Requests -> {"none", "waiting", "in", "out"}]

Init ==
    /\ now = 0
    /\ limits = <<>>
    /\ agent \in [Requests -> Agents]
    /\ asked = [r \in Requests |-> 0]
    /\ stage = [r \in Requests |-> "none"]

-----------------------------------------------------------------------------
(* Those of a set of requests that lie within the window before a time; a  *)
(* request that came after it does (duration_since is 0 then).             *)
Recent(S, time) == {r \in S : time - asked[r] < Window}

Tracked(a) == IF a \in DOMAIN limits THEN limits[a] ELSE {}

(* The entry of the agent, created if missing, once retain() is done.      *)
Kept(r) == Recent(Tracked(agent[r]), asked[r])

WithEntry(a, S) ==
    [b \in DOMAIN limits \cup {a} |-> IF b = a THEN S ELSE limits[b]]

Allowed(r) == Cardinality(Kept(r)) < MaxRequests

ClockTick ==
    /\ now < LastTick
    /\ now' = now + 1
    /\ UNCHANGED <<limits, agent, asked, stage>>

(* check_rate_limit to the lock: the clock is read before.                 *)
Ask(r) ==
    /\ stage[r] = "none"
    /\ stage' = [stage EXCEPT ![r] = "waiting"]
    /\ asked' = [asked EXCEPT ![r] = now]
    /\ UNCHANGED <<now, limits, agent>>

(* check_rate_limit under the lock, of a request that is let through, and  *)
(* of one that is answered with 429.                                       *)
LetThrough(r) ==
    /\ stage[r] = "waiting"
    /\ Allowed(r)
    /\ limits' = WithEntry(agent[r], Kept(r) \cup {r})
    /\ stage' = [stage EXCEPT ![r] = "in"]
    /\ UNCHANGED <<now, agent, asked>>

TurnAway(r) ==
    /\ stage[r] = "waiting"
    /\ ~Allowed(r)
    /\ limits' = WithEntry(agent[r], Kept(r))
    /\ stage' = [stage EXCEPT ![r] = "out"]
    /\ UNCHANGED <<now, agent, asked>>

(* Mutant: an agent is dropped when any of its times is old.               *)
SweepAnyOld ==
    /\ limits' = [a \in {b \in DOMAIN limits : Recent(limits[b], now) = limits[b]} |->
                     limits[a]]
    /\ UNCHANGED <<now, agent, asked, stage>>

(* cleanup_stale_entries, which reads the clock under the lock.            *)
Sweep ==
    /\ limits' = [a \in {b \in DOMAIN limits : Recent(limits[b], now) # {}} |->
                     Recent(limits[a], now)]
    /\ UNCHANGED <<now, agent, asked, stage>>

Next ==
    \/ ClockTick \/ Sweep
    \/ \E r \in Requests : Ask(r) \/ LetThrough(r) \/ TurnAway(r)

Spec == Init /\ [][Next]_vars

-----------------------------------------------------------------------------
(* The requests of an agent that were let through and came within the      *)
(* window before a time.                                                   *)
PassedIn(a, time) == Recent({r \in Requests : stage[r] = "in" /\ agent[r] = a}, time)

(* Of the requests of an agent that came within the window before the      *)
(* present at most MaxRequests were let through, in whatever order the     *)
(* requests and the sweeps got the lock; and one is turned away only if    *)
(* that many, of the window before it or since, were let through.  (Of a   *)
(* window that ended earlier this does not hold: a request that waited for *)
(* the lock is counted against what is left of its window by then.)        *)
WindowLimit ==
    [][/\ \A a \in Agents : Cardinality(PassedIn(a, now)') <= MaxRequests
       /\ \A r \in Requests :
             stage[r] = "waiting" /\ stage'[r] = "out" =>
                 Cardinality(PassedIn(agent[r], asked[r])) >= MaxRequests]_vars
=============================================================================
