------------------------- MODULE RateLimiterProofs -------------------------
(***************************************************************************)
(* That the limit over the sliding window holds for every number of        *)
(* agents and requests, window and limit.  The invariant: what is kept of  *)
(* an agent are requests let through, at most MaxRequests, and among them  *)
(* all those of the present window.  A request that waited for the lock    *)
(* measures by an older clock than the present one, and so forgets none of *)
(* these.                                                                  *)
(***************************************************************************)
EXTENDS RateLimiter, FiniteSetTheorems, TLAPS

EntryInv(a) ==
    /\ Tracked(a) \subseteq {r \in Requests : stage[r] = "in" /\ agent[r] = a}
    /\ PassedIn(a, now) \subseteq Tracked(a)
    /\ Cardinality(Tracked(a)) <= MaxRequests

LimiterInv ==
    /\ TypeOK
    /\ \A r \in Requests : asked[r] <= now
    /\ \A a \in Agents : EntryInv(a)

(* A set of requests that is part of another is no larger.                 *)
LEMMA NoLarger ==
    ASSUME NEW S \in SUBSET Requests, NEW T \in SUBSET S
    PROVE  /\ Cardinality(T) <= Cardinality(S)
           /\ Cardinality(S) \in Nat /\ Cardinality(T) \in Nat
  <1>1. IsFiniteSet(S)
    BY LimiterAssumption, FS_Subset
  <1> QED
    BY <1>1, FS_Subset, FS_CardinalityType

(* What an entry becomes when it is written.                               *)
LEMMA EntryWritten ==
    ASSUME NEW a \in Agents, NEW S, DOMAIN limits \subseteq Agents,
           limits' = WithEntry(a, S)
    PROVE  /\ DOMAIN limits' \subseteq Agents
           /\ Tracked(a)' = S
           /\ \A b \in Agents : b # a => Tracked(b)' = Tracked(b)
  BY DEF WithEntry, Tracked

LEMMA InitLimiter == Init => LimiterInv
  <1> SUFFICES ASSUME Init PROVE LimiterInv
    OBVIOUS
  <1>1. DOMAIN limits = {} /\ now = 0 /\ agent \in [Requests -> Agents]
    BY DEF Init
  <1>2. /\ \A r \in Requests : asked[r] = 0 /\ stage[r] = "none"
        /\ asked \in [Requests -> Nat]
        /\ stage \in [Requests -> {"none", "waiting", "in", "out"}]
    BY DEF Init
  <1>3. TypeOK /\ \A r \in Requests : asked[r] <= now
    BY <1>1, <1>2 DEF TypeOK
  <1>4. ASSUME NEW a \in Agents PROVE EntryInv(a)
    <2>1. Tracked(a) = {} /\ PassedIn(a, now) = {}
      BY <1>1, <1>2 DEF Tracked, PassedIn, Recent
    <2> QED
      BY <2>1, FS_EmptySet, LimiterAssumption DEF EntryInv
  <1> QED
    BY <1>3, <1>4 DEF LimiterInv

LEMMA TickLimiter ==
    ASSUME LimiterInv, ClockTick
    PROVE  LimiterInv'
  <1>1. now' = now + 1 /\ UNCHANGED <<limits, agent, asked, stage>> /\ now \in Nat
    BY DEF ClockTick, LimiterInv, TypeOK
  <1>2. TypeOK' /\ \A r \in Requests : asked[r]' <= now'
    BY <1>1 DEF LimiterInv, TypeOK
  <1>3. ASSUME NEW a \in Agents PROVE EntryInv(a)'
    <2>1. Tracked(a)' = Tracked(a)
      BY <1>1 DEF Tracked
    <2>2. asked \in [Requests -> Nat] /\ Window \in Nat
      BY LimiterAssumption DEF LimiterInv, TypeOK
    <2>3. PassedIn(a, now)' \subseteq PassedIn(a, now)
      BY <1>1, <2>2 DEF PassedIn, Recent
    <2> QED
      BY <1>1, <1>3, <2>1, <2>3 DEF EntryInv, LimiterInv
  <1> QED
    BY <1>2, <1>3 DEF LimiterInv

LEMMA AskLimiter ==
    ASSUME LimiterInv, NEW r \in Requests, Ask(r)
    PROVE  LimiterInv'
  <1>1. /\ stage[r] = "none"
        /\ stage' = [stage EXCEPT ![r] = "waiting"]
        /\ asked' = [asked EXCEPT ![r] = now]
        /\ UNCHANGED <<now, limits, agent>>
    BY DEF Ask
  <1>2. TypeOK' /\ \A q \in Requests : asked'[q] <= now'
    BY <1>1 DEF LimiterInv, TypeOK
  <1>3. ASSUME NEW a \in Agents PROVE EntryInv(a)'
    <2>1. Tracked(a)' = Tracked(a)
      BY <1>1 DEF Tracked
    <2>2. \A q \in Requests :
             /\ stage'[q] = "in" <=> stage[q] = "in"
             /\ stage[q] = "in" => asked'[q] = asked[q]
      BY <1>1 DEF LimiterInv, TypeOK
    <2>3. PassedIn(a, now)' = PassedIn(a, now)
      BY <1>1, <2>2 DEF PassedIn, Recent
    <2>4. {q \in Requests : stage[q] = "in" /\ agent[q] = a}'
             = {q \in Requests : stage[q] = "in" /\ agent[q] = a}
      BY <1>1, <2>2
    <2> QED
      BY <1>1, <1>3, <2>1, <2>3, <2>4 DEF EntryInv, LimiterInv
  <1> QED
    BY <1>2, <1>3 DEF LimiterInv

(* What is kept for a request: part of what was there, with all of the     *)
(* present window.                                                         *)
LEMMA KeptFacts ==
    ASSUME LimiterInv, NEW r \in Requests
    PROVE  /\ agent[r] \in Agents
           /\ Kept(r) \subseteq Tracked(agent[r])
           /\ Tracked(agent[r]) \subseteq Requests
           /\ PassedIn(agent[r], now) \subseteq Kept(r)
           /\ Kept(r) \subseteq PassedIn(agent[r], asked[r])
           /\ Cardinality(Kept(r)) <= MaxRequests
  <1>1. /\ agent[r] \in Agents /\ EntryInv(agent[r])
        /\ asked[r] \in Nat /\ now \in Nat /\ asked[r] <= now
        /\ \A q \in Requests : asked[q] \in Nat
    BY DEF LimiterInv, TypeOK
  <1>2. Kept(r) \subseteq Tracked(agent[r])
    BY DEF Kept, Recent
  <1>3. Tracked(agent[r]) \subseteq Requests
    BY <1>1 DEF EntryInv
  <1>4. PassedIn(agent[r], now) \subseteq Kept(r)
    <2>1. ASSUME NEW q \in PassedIn(agent[r], now) PROVE q \in Kept(r)
      <3>1. q \in Tracked(agent[r]) /\ q \in Requests /\ now - asked[q] < Window
        BY <1>1, <2>1 DEF EntryInv, PassedIn, Recent
      <3>2. asked[r] - asked[q] < Window
        BY <1>1, <3>1, LimiterAssumption
      <3> QED
        BY <3>1, <3>2 DEF Kept, Recent
    <2> QED
      BY <2>1
  <1>5. Kept(r) \subseteq PassedIn(agent[r], asked[r])
    BY <1>1 DEF EntryInv, Kept, PassedIn, Recent
  <1>6. Cardinality(Kept(r)) <= MaxRequests
    <2>1. /\ Cardinality(Kept(r)) <= Cardinality(Tracked(agent[r]))
          /\ Cardinality(Kept(r)) \in Nat /\ Cardinality(Tracked(agent[r])) \in Nat
      BY <1>2, <1>3, NoLarger
    <2> QED
      BY <1>1, <2>1, LimiterAssumption DEF EntryInv
  <1> QED
    BY <1>1, <1>2, <1>3, <1>4, <1>5, <1>6

LEMMA LetThroughLimiter ==
    ASSUME LimiterInv, NEW r \in Requests, LetThrough(r)
    PROVE  LimiterInv'
  <1> DEFINE a == agent[r]
             S == Kept(r) \cup {r}
  <1>1. /\ stage[r] = "waiting" /\ Allowed(r)
        /\ limits' = WithEntry(a, S)
        /\ stage' = [stage EXCEPT ![r] = "in"]
        /\ UNCHANGED <<now, agent, asked>>
    BY DEF LetThrough
  <1>2. /\ a \in Agents /\ Kept(r) \subseteq Tracked(a) /\ Tracked(a) \subseteq Requests
        /\ PassedIn(a, now) \subseteq Kept(r)
    BY KeptFacts
  <1>3. /\ DOMAIN limits' \subseteq Agents /\ Tracked(a)' = S
        /\ \A b \in Agents : b # a => Tracked(b)' = Tracked(b)
    BY <1>1, <1>2, EntryWritten DEF LimiterInv, TypeOK
  <1>4. \A q \in Requests : stage'[q] = (IF q = r THEN "in" ELSE stage[q])
    BY <1>1 DEF LimiterInv, TypeOK
  <1>5. Cardinality(S) <= MaxRequests
    <2>1. IsFiniteSet(Kept(r)) /\ Cardinality(Kept(r)) < MaxRequests
      BY <1>1, <1>2, LimiterAssumption, FS_Subset DEF Allowed
    <2>2. r \notin Kept(r)
      BY <1>1, <1>2 DEF EntryInv, LimiterInv
    <2>3. Cardinality(S) = Cardinality(Kept(r)) + 1 /\ Cardinality(Kept(r)) \in Nat
      BY <2>1, <2>2, FS_AddElement, FS_CardinalityType
    <2> QED
      BY <2>1, <2>3, LimiterAssumption
  <1>6. ASSUME NEW b \in Agents PROVE EntryInv(b)'
    <2>0. EntryInv(b)
      BY DEF LimiterInv
    <2>1. CASE b = a
      <3>1. S \subseteq {q \in Requests : stage'[q] = "in" /\ agent'[q] = a}
        BY <1>1, <1>2, <1>4, <2>0, <2>1 DEF EntryInv
      <3>2. PassedIn(a, now)' \subseteq S
        BY <1>1, <1>2, <1>4 DEF PassedIn, Recent
      <3>3. a' = a
        BY <1>1
      <3> QED
        BY <1>3, <1>5, <2>1, <3>1, <3>2, <3>3 DEF EntryInv
    <2>2. CASE b # a
      <3>1. PassedIn(b, now)' = PassedIn(b, now)
        BY <1>1, <1>4, <2>2 DEF PassedIn, Recent
      <3>2. Tracked(b) \subseteq {q \in Requests : stage'[q] = "in" /\ agent'[q] = b}
        BY <1>1, <1>4, <2>0 DEF EntryInv
      <3> QED
        BY <1>3, <2>0, <2>2, <3>1, <3>2 DEF EntryInv
    <2> QED
      BY <2>1, <2>2
  <1>7. TypeOK' /\ \A q \in Requests : asked'[q] <= now'
    <2>1. \A b \in Agents : Tracked(b)' \subseteq Requests
      BY <1>6 DEF EntryInv
    <2>2. \A b \in DOMAIN limits' : limits'[b] \subseteq Requests
      BY <1>3, <2>1 DEF Tracked
    <2> QED
      BY <1>1, <1>3, <2>2 DEF LimiterInv, TypeOK
  <1> QED
    BY <1>6, <1>7 DEF LimiterInv

(* Steps that let none through only forget requests, and of the present    *)
(* window none.                                                            *)
LEMMA ForgettingLimiter ==
    ASSUME LimiterInv, UNCHANGED <<now, agent, asked>>,
           \A q \in Requests : stage'[q] = "in" <=> stage[q] = "in",
           stage' \in [Requests -> {"none", "waiting", "in", "out"}],
           DOMAIN limits' \subseteq Agents,
           \A b \in Agents : /\ Tracked(b)' \subseteq Tracked(b)
                             /\ PassedIn(b, now) \subseteq Tracked(b)'
    PROVE  LimiterInv'
  <1>1. ASSUME NEW b \in Agents PROVE EntryInv(b)'
    <2>1. EntryInv(b)
      BY DEF LimiterInv
    <2>2. PassedIn(b, now)' = PassedIn(b, now)
      BY DEF PassedIn, Recent
    <2>3. Tracked(b)' \subseteq {q \in Requests : stage'[q] = "in" /\ agent'[q] = b}
      BY <2>1 DEF EntryInv
    <2>4. Cardinality(Tracked(b)') <= MaxRequests
      <3>1. Tracked(b)' \subseteq Tracked(b) /\ Tracked(b) \subseteq Requests
        BY <2>1 DEF EntryInv
      <3>2. /\ Cardinality(Tracked(b)') <= Cardinality(Tracked(b))
            /\ Cardinality(Tracked(b)') \in Nat /\ Cardinality(Tracked(b)) \in Nat
        BY <3>1, NoLarger
      <3> QED
        BY <2>1, <3>2, LimiterAssumption DEF EntryInv
    <2> QED
      BY <2>2, <2>3, <2>4 DEF EntryInv
  <1>2. \A b \in DOMAIN limits' : limits'[b] \subseteq Requests
    BY <1>1 DEF EntryInv, Tracked
  <1> QED
    BY <1>1, <1>2 DEF LimiterInv, TypeOK

LEMMA TurnAwayLimiter ==
    ASSUME LimiterInv, NEW r \in Requests, TurnAway(r)
    PROVE  LimiterInv'
  <1>1. /\ stage[r] = "waiting"
        /\ limits' = WithEntry(agent[r], Kept(r))
        /\ stage' = [stage EXCEPT ![r] = "out"]
        /\ UNCHANGED <<now, agent, asked>>
    BY DEF TurnAway
  <1>2. /\ agent[r] \in Agents /\ Kept(r) \subseteq Tracked(agent[r])
        /\ PassedIn(agent[r], now) \subseteq Kept(r)
    BY KeptFacts
  <1>3. /\ DOMAIN limits' \subseteq Agents /\ Tracked(agent[r])' = Kept(r)
        /\ \A b \in Agents : b # agent[r] => Tracked(b)' = Tracked(b)
    BY <1>1, <1>2, EntryWritten DEF LimiterInv, TypeOK
  <1>4. /\ \A q \in Requests : stage'[q] = "in" <=> stage[q] = "in"
        /\ stage' \in [Requests -> {"none", "waiting", "in", "out"}]
    BY <1>1 DEF LimiterInv, TypeOK
  <1>5. ASSUME NEW b \in Agents
        PROVE  Tracked(b)' \subseteq Tracked(b) /\ PassedIn(b, now) \subseteq Tracked(b)'
    <2>1. PassedIn(b, now) \subseteq Tracked(b)
      BY DEF LimiterInv, EntryInv
    <2>2. CASE b = agent[r]
      <3>1. Tracked(b)' = Kept(r)
        BY <1>1, <1>3, <2>2
      <3> QED
        BY <1>2, <2>2, <3>1
    <2>3. CASE b # agent[r]
      BY <1>3, <2>1, <2>3
    <2> QED
      BY <2>2, <2>3
  <1> QED
    BY <1>1, <1>3, <1>4, <1>5, ForgettingLimiter

LEMMA SweepLimiter ==
    ASSUME LimiterInv, Sweep
    PROVE  LimiterInv'
  <1> DEFINE D == {b \in DOMAIN limits : Recent(limits[b], now) # {}}
  <1>1. limits' = [a \in D |-> Recent(limits[a], now)] /\ UNCHANGED <<now, agent, asked, stage>>
    BY DEF Sweep
  <1>2. DOMAIN limits' = D /\ D \subseteq Agents
    BY <1>1 DEF LimiterInv, TypeOK
  <1>3. ASSUME NEW b \in Agents
        PROVE  Tracked(b)' \subseteq Tracked(b) /\ PassedIn(b, now) \subseteq Tracked(b)'
    <2>1. Tracked(b)' = Recent(Tracked(b), now)
      BY <1>1, <1>2 DEF Tracked, Recent
    <2>2. PassedIn(b, now) \subseteq Tracked(b)
      BY DEF LimiterInv, EntryInv
    <2> QED
      BY <2>1, <2>2 DEF Recent, PassedIn
  <1>4. stage' \in [Requests -> {"none", "waiting", "in", "out"}]
    BY <1>1 DEF LimiterInv, TypeOK
  <1> QED
    BY <1>1, <1>2, <1>3, <1>4, ForgettingLimiter

LEMMA NextLimiter == LimiterInv /\ [Next]_vars => LimiterInv'
  <1> SUFFICES ASSUME LimiterInv, [Next]_vars PROVE LimiterInv'
    OBVIOUS
  <1>1. CASE ClockTick
    BY <1>1, TickLimiter
  <1>2. CASE Sweep
    BY <1>2, SweepLimiter
  <1>3. ASSUME NEW r \in Requests, Ask(r) PROVE LimiterInv'
    BY <1>3, AskLimiter
  <1>4. ASSUME NEW r \in Requests, LetThrough(r) PROVE LimiterInv'
    BY <1>4, LetThroughLimiter
  <1>5. ASSUME NEW r \in Requests, TurnAway(r) PROVE LimiterInv'
    BY <1>5, TurnAwayLimiter
  <1>6. CASE UNCHANGED vars
    BY <1>6 DEF vars, LimiterInv, TypeOK, EntryInv, Tracked, PassedIn, Recent
  <1> QED
    BY <1>1, <1>2, <1>3, <1>4, <1>5, <1>6 DEF Next

(* For any agents, requests, window and limit, and in whatever order the   *)
(* requests and the sweeps get the lock after the clock was read: at most  *)
(* MaxRequests requests of the window before the present were let through, *)
(* and one is turned away only when that many were, of the window before   *)
(* it or since.                                                            *)
THEOREM WindowIsLimited == Spec => WindowLimit
  <1> DEFINE Limited ==
        /\ \A a \in Agents : Cardinality(PassedIn(a, now)') <= MaxRequests
        /\ \A r \in Requests :
              stage[r] = "waiting" /\ stage'[r] = "out" =>
                  Cardinality(PassedIn(agent[r], asked[r])) >= MaxRequests
  <1>1. LimiterInv /\ LimiterInv' /\ [Next]_vars => Limited
    <2> SUFFICES ASSUME LimiterInv, LimiterInv', [Next]_vars PROVE Limited
      OBVIOUS
    <2>1. ASSUME NEW a \in Agents PROVE Cardinality(PassedIn(a, now)') <= MaxRequests
      <3>1. EntryInv(a)'
        BY DEF LimiterInv
      <3>2. PassedIn(a, now)' \subseteq Tracked(a)' /\ Tracked(a)' \subseteq Requests
        BY <3>1 DEF EntryInv
      <3>3. /\ Cardinality(PassedIn(a, now)') <= Cardinality(Tracked(a)')
            /\ Cardinality(PassedIn(a, now)') \in Nat /\ Cardinality(Tracked(a)') \in Nat
        BY <3>2, NoLarger
      <3> QED
        BY <3>1, <3>3, LimiterAssumption DEF EntryInv
    <2>2. ASSUME NEW r \in Requests, stage[r] = "waiting", stage'[r] = "out"
          PROVE  Cardinality(PassedIn(agent[r], asked[r])) >= MaxRequests
      <3>1. stage \in [Requests -> {"none", "waiting", "in", "out"}]
        BY DEF LimiterInv, TypeOK
      <3>2. TurnAway(r)
        BY <2>2, <3>1 DEF Next, vars, ClockTick, Sweep, Ask, LetThrough, TurnAway
      <3>3. /\ Kept(r) \subseteq PassedIn(agent[r], asked[r])
            /\ PassedIn(agent[r], asked[r]) \subseteq Requests
        BY KeptFacts DEF PassedIn, Recent
      <3>4. /\ Cardinality(Kept(r)) <= Cardinality(PassedIn(agent[r], asked[r]))
            /\ Cardinality(Kept(r)) \in Nat
            /\ Cardinality(PassedIn(agent[r], asked[r])) \in Nat
        BY <3>3, NoLarger
      <3>5. ~ (Cardinality(Kept(r)) < MaxRequests)
        BY <3>2 DEF TurnAway, Allowed
      <3> QED
        BY <3>4, <3>5, LimiterAssumption
    <2> QED
      BY <2>1, <2>2
  <1>2. Spec => []LimiterInv
    BY InitLimiter, NextLimiter, PTL DEF Spec
  <1> QED
    BY <1>1, <1>2, PTL DEF Spec, WindowLimit
=============================================================================
