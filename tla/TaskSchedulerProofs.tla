------------------------- MODULE TaskSchedulerProofs -------------------------
(***************************************************************************)
(* Theorems about TaskScheduler, for all values of its constants: types,   *)
(* one execution of a task at a time, and where the samples go, through    *)
(* flushes, aggregations, failures, reloads and the shutdown.              *)
(***************************************************************************)
EXTENDS TaskScheduler, SequenceTheorems, FiniteSetTheorems, TLAPS

Afters  == {"top", "aggregate", "wait", "drain", "abort"}
Reasons == {"nothing", "reload", "shutdown"}

LEMMA ConstantFacts ==
    /\ LastMinute \in Nat /\ LastMinute >= 1
    /\ 1 \in Minutes /\ Minutes \subseteq Nat
    /\ MaxBuffer \in Nat /\ MaxBuffer >= 1
    /\ ChannelSize \in Nat /\ ChannelSize >= 1
    /\ MaxSamples \in Nat /\ NewTasks \subseteq Tasks
    /\ "reload" \in FaultKinds /\ MaxFaults["reload"] \in Nat
    /\ 0 \in Gens
  BY SchedulerAssumption DEF Minutes, FaultKinds, Gens

LEMMA SpendType ==
    ASSUME NEW kind \in FaultKinds, used \in [FaultKinds -> Nat], Spend(kind)
    PROVE  /\ used' \in [FaultKinds -> Nat]
           /\ kind # "reload" => used'["reload"] = used["reload"]
           /\ kind = "reload" => /\ used'["reload"] = used["reload"] + 1
                                 /\ used["reload"] < MaxFaults["reload"]
  BY ConstantFacts DEF Spend

-----------------------------------------------------------------------------
(* The main loop                                                           *)

(* The minute before period is being aggregated, or the flush before that  *)
(* is under way.                                                           *)
Aggregating == pc = "aggregate" \/ (pc = "flush" /\ after = "aggregate")

(* Only minutes that are over are aggregated, and later ones each time.    *)
LoopInv ==
    /\ minute \in Minutes
    /\ pc \in Places /\ after \in Afters /\ stopFor \in Reasons
    /\ state \in {"Running", "Stopped"}
    /\ pc # "flush" => after = "top"
    /\ period \in Minutes \cup {0} /\ lastAgg \in Minutes \cup {0}
    /\ closed \subseteq Minutes \cup {0}
    /\ \A c \in closed : c < minute
    /\ Aggregating => period \in Minutes /\ lastAgg < period /\ period <= minute

LEMMA InitLoop == Init => LoopInv
  BY ConstantFacts DEF Init, LoopInv, Places, Afters, Reasons, Aggregating

(* Steps that leave the loop where it is, or take it to a place that is no *)
(* aggregation.                                                            *)
LEMMA LoopKept ==
    ASSUME LoopInv, UNCHANGED <<minute, loopVars, state, lastAgg, closed>>
    PROVE  LoopInv'
  BY DEF LoopInv, loopVars, Aggregating

LEMMA LoopMoved ==
    ASSUME LoopInv, UNCHANGED <<minute, closed>>,
           lastAgg' = lastAgg \/ lastAgg' = 0,
           \/ pc' \in Places \ {"flush", "aggregate"} /\ after' = "top"
           \/ pc' = "flush" /\ after' \in Afters \ {"aggregate"},
           stopFor' \in Reasons, state' \in {"Running", "Stopped"},
           period' = period \/ period' = 0
    PROVE  LoopInv'
  BY DEF LoopInv, Aggregating, Places, Afters

LEMMA NextLoop ==
    ASSUME LoopInv, [Next]_vars
    PROVE  LoopInv'
  <1>1. /\ pc \in Places /\ after \in Afters /\ stopFor \in Reasons
        /\ state \in {"Running", "Stopped"}
        /\ pc # "flush" => after = "top"
    BY DEF LoopInv
  <1>2. CASE \/ SendResult \/ UNCHANGED vars
             \/ \E t \in Tasks :
                   Ticker(t) \/ ProbeEnds(t) \/ \E g \in Gens : ProbeOutlived(t, g)
    BY <1>2, LoopKept
       DEF SendResult, Ticker, ProbeEnds, ProbeSucceeds, ProbeFails,
           ProbeOutlived, vars, handleVars, execVars, dataVars, historyVars
  <1>3. CASE ClockTick
    <2>1. /\ minute < LastMinute /\ minute' = minute + 1
          /\ UNCHANGED <<loopVars, state, lastAgg, closed>>
      BY <1>3 DEF ClockTick, handleVars, dataVars, historyVars
    <2>2. minute \in Nat /\ minute' \in Minutes
      BY <2>1, ConstantFacts DEF LoopInv, Minutes
    <2>3. \A c \in closed' : c < minute'
      <3>1. \A c \in closed : c \in Nat /\ c < minute
        BY ConstantFacts DEF LoopInv
      <3> QED
        BY <2>1, <2>2, <3>1
    <2>4. Aggregating' => period' \in Minutes /\ lastAgg' < period' /\ period' <= minute'
      <3>1. Aggregating' => Aggregating
        BY <2>1 DEF Aggregating, loopVars
      <3>2. Aggregating => period \in Nat /\ period <= minute
        BY ConstantFacts DEF LoopInv
      <3>3. Aggregating => period' \in Minutes /\ lastAgg' < period'
        BY <2>1 DEF LoopInv, loopVars
      <3> QED
        BY <2>1, <2>2, <3>1, <3>2, <3>3 DEF loopVars
    <2> QED
      BY <2>1, <2>2, <2>3, <2>4 DEF LoopInv, loopVars
  <1>4. CASE Close
    BY <1>1, <1>4, LoopMoved
       DEF Close, Halt, dataVars, historyVars, Places
  <1>5. CASE FlushDone
    <2>1. CASE after = "aggregate"
      <3>1. /\ pc = "flush" /\ pc' = "aggregate" /\ after' = "top"
            /\ UNCHANGED <<minute, stopFor, period, state, lastAgg, closed>>
        BY <1>5, <2>1 DEF FlushDone
      <3> QED
        BY <2>1, <3>1 DEF LoopInv, Aggregating, Places, Afters
    <2>2. CASE after # "aggregate"
      <3>1. /\ pc' \in {"top", "wait", "drain", "renew", "close"} /\ after' = "top"
            /\ UNCHANGED <<minute, stopFor, period, state, lastAgg, closed>>
        BY <1>1, <1>5, <2>2 DEF FlushDone, ClearAndAbort, Stopped, Afters
      <3> QED
        BY <1>1, <3>1, LoopMoved DEF Places
    <2> QED
      BY <2>1, <2>2
  <1>6. CASE FlushFails
    <2>1. /\ pc' \in {"top", "drain", "renew", "close", "failed"}
          /\ after' = "top"
          /\ UNCHANGED <<minute, stopFor, period, state, lastAgg, closed>>
      BY <1>1, <1>6 DEF FlushFails, ClearAndAbort, Stopped, Halt, Afters
    <2> QED
      BY <1>1, <2>1, LoopMoved DEF Places
  <1>7. CASE StartAggregation
    <2>1. /\ pc = "top" /\ minute > lastAgg /\ period' = minute
          /\ \/ pc' = "aggregate" /\ after' = after
             \/ pc' = "flush" /\ after' = "aggregate"
          /\ UNCHANGED <<minute, stopFor, state, lastAgg, closed>>
      BY <1>7 DEF StartAggregation, StartFlush, handleVars, dataVars, historyVars
    <2>2. minute \in Nat /\ lastAgg \in Nat
      BY ConstantFacts DEF LoopInv
    <2> QED
      BY <1>1, <2>1, <2>2 DEF LoopInv, Aggregating, Places, Afters
  <1>8. CASE Aggregate
    <2>1. /\ pc = "aggregate" /\ pc' = "wait" /\ lastAgg' = period
          /\ closed' = closed \cup {period - 1} /\ period' = 0
          /\ UNCHANGED <<minute, after, stopFor, state>>
      BY <1>8 DEF Aggregate, handleVars
    <2>2. period \in Minutes /\ period <= minute /\ minute \in Nat
      BY <2>1, ConstantFacts DEF LoopInv, Aggregating
    <2>3. period - 1 \in Minutes \cup {0} /\ period - 1 < minute
      BY <2>2, ConstantFacts DEF Minutes
    <2> QED
      BY <1>1, <2>1, <2>2, <2>3 DEF LoopInv, Aggregating, Places
  <1>9. CASE AggregateFails
    BY <1>1, <1>9, LoopMoved DEF AggregateFails, Halt, historyVars, Places
  <1>10. CASE FlushIfNeeded
    <2>1. /\ \/ pc' = "wait" /\ after' = "top"
             \/ pc' = "flush" /\ after' = "wait"
          /\ UNCHANGED <<minute, stopFor, period, state, lastAgg, closed>>
      BY <1>1, <1>10
         DEF FlushIfNeeded, StartFlush, handleVars, dataVars, historyVars
    <2> QED
      BY <1>1, <2>1, LoopMoved DEF Places, Afters
  <1>11. CASE ReceiveResult \/ DrainResult
    <2>1. PICK next \in {"top", "drain"} : pc # "flush" /\ HandleResult(next)
      BY <1>11 DEF ReceiveResult, DrainResult
    <2>2. /\ \/ pc' = next /\ after' = "top"
             \/ pc' = "flush" /\ after' = next
          /\ UNCHANGED <<minute, stopFor, period, state, lastAgg, closed>>
      BY <1>1, <2>1 DEF HandleResult, StartFlush
    <2> QED
      BY <1>1, <2>2, LoopMoved DEF Places, Afters
  <1>12. CASE ReceiveReady
    <2>1. /\ pc' = "top" /\ after' = "top"
          /\ UNCHANGED <<minute, stopFor, period, state, lastAgg, closed>>
      BY <1>1, <1>12 DEF ReceiveReady, dataVars, historyVars
    <2> QED
      BY <1>1, <2>1, LoopMoved DEF Places
  <1>13. CASE Reload \/ LeaveLoop \/ Signal
    <2>1. /\ pc' = "drain" /\ after' = "top" /\ stopFor' \in Reasons
          /\ state' = "Stopped" /\ period' = 0
          /\ UNCHANGED <<minute, lastAgg, closed>>
      BY <1>13
         DEF Reload, LeaveLoop, Signal, BeginStop, dataVars, historyVars, Reasons
    <2> QED
      BY <2>1, LoopMoved DEF Places
  <1>14. CASE Drained \/ DeadlineMissed
    <2>1. /\ \/ pc' \in {"renew", "close"} /\ after' = "top"
             \/ pc' = "flush" /\ after' = "abort"
          /\ UNCHANGED <<minute, stopFor, period, state, lastAgg, closed>>
      BY <1>1, <1>14
         DEF Drained, DeadlineMissed, FlushAndAbort, StartFlush, ClearAndAbort,
             Stopped, dataVars, historyVars
    <2> QED
      BY <1>1, <2>1, LoopMoved DEF Places, Afters
  <1>15. CASE Renew
    <2>1. /\ pc' = "wait" /\ after' = "top" /\ stopFor' = "nothing"
          /\ state' = "Running" /\ lastAgg' = 0
          /\ UNCHANGED <<minute, period, closed>>
      BY <1>1, <1>15 DEF Renew, historyVars
    <2> QED
      BY <2>1, LoopMoved DEF Places, Reasons
  <1>16. CASE RenewFails
    <2>1. /\ pc' = "wait" /\ after' = "top" /\ stopFor' = "nothing"
          /\ UNCHANGED <<minute, period, state, lastAgg, closed>>
      BY <1>1, <1>16 DEF RenewFails, handleVars, dataVars, historyVars
    <2> QED
      BY <1>1, <2>1, LoopMoved DEF Places, Reasons
  <1> QED
    BY <1>2, <1>3, <1>4, <1>5, <1>6, <1>7, <1>8, <1>9, <1>10, <1>11, <1>12,
       <1>13, <1>14, <1>15, <1>16
       DEF Next, Loop, Flush, Aggregation, Message, Stop

LEMMA LoopHolds == Spec => []LoopInv
  BY InitLoop, NextLoop, PTL DEF Spec

-----------------------------------------------------------------------------
(* Schedulers                                                              *)

(* Each reload that was begun makes at most one scheduler, and its tasks   *)
(* are among those of the one before.                                      *)
GenInv ==
    /\ used \in [FaultKinds -> Nat] /\ used["reload"] <= MaxFaults["reload"]
    /\ gen \in Nat /\ gen <= used["reload"]
    /\ stopFor = "reload" => gen < used["reload"]
    /\ pc = "renew" => stopFor = "reload"
    /\ tasks \subseteq Tasks /\ NewTasks \subseteq tasks
    /\ handles \subseteq tasks /\ running \subseteq handles

LEMMA GenType == GenInv => gen \in Gens
  BY ConstantFacts DEF GenInv, Gens

LEMMA InitGen == Init => GenInv
  BY ConstantFacts DEF Init, GenInv

LEMMA GenMoved ==
    ASSUME GenInv, UNCHANGED <<gen, tasks>>,
           used' \in [FaultKinds -> Nat], used'["reload"] = used["reload"],
           stopFor' = stopFor \/ stopFor' = "nothing" \/ stopFor' = "shutdown",
           pc' = "renew" => stopFor' = "reload",
           \/ handles' = handles /\ running' \subseteq handles
           \/ handles' = {} /\ running' = {}
    PROVE  GenInv'
  BY DEF GenInv

LEMMA SpendOther ==
    ASSUME GenInv, NEW kind \in FaultKinds \ {"reload"},
           Spend(kind) \/ UNCHANGED used
    PROVE  used' \in [FaultKinds -> Nat] /\ used'["reload"] = used["reload"]
  BY SpendType DEF GenInv

LEMMA NextGen ==
    ASSUME LoopInv, GenInv, [Next]_vars
    PROVE  GenInv'
  <1>1. /\ used \in [FaultKinds -> Nat] /\ running \subseteq handles
        /\ pc = "renew" => stopFor = "reload"
        /\ stopFor \in Reasons /\ after \in Afters
        /\ "dberror" \in FaultKinds \ {"reload"}
        /\ "badreload" \in FaultKinds \ {"reload"}
    BY DEF GenInv, LoopInv, FaultKinds
  <1>2. CASE \/ SendResult \/ ClockTick \/ UNCHANGED vars
             \/ \E t \in Tasks :
                   Ticker(t) \/ ProbeEnds(t) \/ \E g \in Gens : ProbeOutlived(t, g)
    BY <1>1, <1>2, GenMoved
       DEF SendResult, ClockTick, Ticker, ProbeEnds, ProbeSucceeds, ProbeFails,
           ProbeOutlived, vars, loopVars, handleVars
  <1>3. CASE Close
    BY <1>1, <1>3, GenMoved DEF Close, Halt
  <1>4. CASE FlushDone \/ Drained \/ DeadlineMissed
    <2>1. /\ UNCHANGED <<gen, tasks, used, stopFor>>
          /\ pc' = "renew" => stopFor = "reload"
          /\ \/ handles' = handles /\ running' = running
             \/ handles' = {} /\ running' = {}
      BY <1>1, <1>4
         DEF FlushDone, Drained, DeadlineMissed, FlushAndAbort, StartFlush,
             ClearAndAbort, Stopped, Afters
    <2> QED
      BY <1>1, <2>1, GenMoved
  <1>5. CASE FlushFails
    <2>1. /\ UNCHANGED <<gen, tasks, stopFor>>
          /\ pc' = "renew" => stopFor = "reload"
          /\ \/ handles' = handles /\ running' = running
             \/ handles' = {} /\ running' = {}
      BY <1>1, <1>5 DEF FlushFails, ClearAndAbort, Stopped, Afters, Halt
    <2>2. Spend("dberror")
      BY <1>5 DEF FlushFails
    <2> QED
      BY <1>1, <2>1, <2>2, SpendOther, GenMoved
  <1>6. CASE StartAggregation \/ Aggregate \/ FlushIfNeeded
    BY <1>1, <1>6, GenMoved
       DEF StartAggregation, Aggregate, FlushIfNeeded, StartFlush, handleVars
  <1>7. CASE AggregateFails
    <2>1. /\ UNCHANGED <<gen, tasks, stopFor>> /\ pc' = "failed"
          /\ handles' = {} /\ running' = {} /\ Spend("dberror")
      BY <1>7 DEF AggregateFails, Halt
    <2> QED
      BY <1>1, <2>1, SpendOther, GenMoved
  <1>8. CASE ReceiveResult \/ DrainResult
    <2>1. PICK next \in {"top", "drain"} : HandleResult(next)
      BY <1>8 DEF ReceiveResult, DrainResult
    <2>2. /\ UNCHANGED <<gen, tasks, used, stopFor, handles>>
          /\ pc' # "renew" /\ running' \subseteq running
      BY <2>1 DEF HandleResult, StartFlush
    <2> QED
      BY <1>1, <2>2, GenMoved
  <1>9. CASE ReceiveReady
    <2>1. /\ UNCHANGED <<gen, tasks, used, stopFor, handles>>
          /\ pc' = "top" /\ running' \subseteq handles
      BY <1>1, <1>9 DEF ReceiveReady
    <2> QED
      BY <1>1, <2>1, GenMoved
  <1>10. CASE LeaveLoop \/ Signal
    BY <1>1, <1>10, GenMoved DEF LeaveLoop, Signal, BeginStop
  <1>11. CASE Reload
    <2>1. /\ Spend("reload") /\ stopFor' = "reload" /\ pc' = "drain"
          /\ UNCHANGED <<gen, tasks, handles, running>>
      BY <1>11 DEF Reload, BeginStop
    <2>2. /\ used' \in [FaultKinds -> Nat]
          /\ used'["reload"] = used["reload"] + 1
          /\ used["reload"] < MaxFaults["reload"]
          /\ used["reload"] \in Nat /\ MaxFaults["reload"] \in Nat
      BY <1>1, <2>1, SpendType, ConstantFacts
    <2> QED
      BY <2>1, <2>2 DEF GenInv
  <1>12. CASE Renew
    <2>1. /\ pc = "renew" /\ pc' = "wait" /\ stopFor' = "nothing"
          /\ gen' = gen + 1 /\ tasks' = NewTasks /\ handles' = NewTasks
          /\ running' = {} /\ used' = used
      BY <1>12 DEF Renew
    <2>2. gen < used["reload"] /\ used["reload"] \in Nat
      BY <1>1, <2>1, ConstantFacts DEF GenInv
    <2> QED
      BY <2>1, <2>2, ConstantFacts DEF GenInv
  <1>13. CASE RenewFails
    <2>1. /\ UNCHANGED <<gen, tasks, handles, running>> /\ pc' = "wait"
          /\ stopFor' = "nothing" /\ Spend("badreload")
      BY <1>13 DEF RenewFails, handleVars
    <2> QED
      BY <1>1, <2>1, SpendOther, GenMoved
  <1> QED
    BY <1>2, <1>3, <1>4, <1>5, <1>6, <1>7, <1>8, <1>9, <1>10, <1>11, <1>12,
       <1>13
       DEF Next, Loop, Flush, Aggregation, Message, Stop

LEMMA GensHold == Spec => []GenInv
  BY InitGen, NextGen, LoopHolds, PTL DEF Spec

-----------------------------------------------------------------------------
(* Sequences and their elements                                            *)

LEMMA NoElements == Elements(<<>>) = {}
  BY DEF Elements

LEMMA ElementsType ==
    ASSUME NEW S, NEW s \in Seq(S)
    PROVE  Elements(s) \subseteq S
  BY DEF Elements

LEMMA ElementsOfAppend ==
    ASSUME NEW S, NEW s \in Seq(S), NEW x \in S
    PROVE  Elements(Append(s, x)) = Elements(s) \cup {x}
  <1> DEFINE e == Append(s, x)
             n == Len(s)
  <1>1. n \in Nat /\ DOMAIN s = 1 .. n
    OBVIOUS
  <1>2. /\ DOMAIN e = 1 .. n + 1 /\ e[n + 1] = x
        /\ \A i \in 1 .. n : e[i] = s[i]
    BY AppendProperties
  <1> HIDE DEF e, n
  <1>3. \A i \in 1 .. n + 1 : i \in 1 .. n \/ i = n + 1
    BY <1>1
  <1>4. \A i \in 1 .. n : i \in 1 .. n + 1
    BY <1>1
  <1>5. Elements(e) = Elements(s) \cup {x}
    BY <1>1, <1>2, <1>3, <1>4 DEF Elements
  <1> QED
    BY <1>5 DEF e

LEMMA ElementsOfTail ==
    ASSUME NEW S, NEW s \in Seq(S), s # <<>>
    PROVE  /\ Head(s) \in S /\ Tail(s) \in Seq(S) /\ Len(Tail(s)) = Len(s) - 1
           /\ Elements(s) = {Head(s)} \cup Elements(Tail(s))
  <1> DEFINE e == Tail(s)
             n == Len(s)
  <1>1. n \in Nat /\ n >= 1 /\ DOMAIN s = 1 .. n /\ Head(s) = s[1]
    BY EmptySeq, HeadTailProperties
  <1>2. /\ e \in Seq(S) /\ Len(e) = n - 1 /\ Head(s) \in S
        /\ \A i \in 1 .. n - 1 : e[i] = s[i + 1]
    BY HeadTailProperties
  <1>3. DOMAIN e = 1 .. n - 1
    BY <1>2
  <1> HIDE DEF e, n
  <1>4. \A i \in 1 .. n : i = 1 \/ (i - 1 \in 1 .. n - 1 /\ e[i - 1] = s[i])
    BY <1>1, <1>2
  <1>5. \A i \in 1 .. n - 1 : i + 1 \in 1 .. n
    BY <1>1
  <1>6. ASSUME NEW x \in Elements(s)
        PROVE  x = Head(s) \/ x \in Elements(e)
    <2>1. PICK i \in 1 .. n : x = s[i]
      BY <1>1 DEF Elements
    <2> QED
      BY <1>1, <1>3, <1>4, <2>1 DEF Elements
  <1>7. ASSUME NEW x \in Elements(e)
        PROVE  x \in Elements(s)
    <2>1. PICK i \in 1 .. n - 1 : x = e[i]
      BY <1>3 DEF Elements
    <2> QED
      BY <1>1, <1>2, <1>5, <2>1 DEF Elements
  <1>8. Head(s) \in Elements(s)
    BY <1>1 DEF Elements
  <1> QED
    BY <1>2, <1>6, <1>7, <1>8 DEF e, n

LEMMA ElementsOfParts ==
    ASSUME NEW S, NEW s \in Seq(S), NEW n \in 0 .. Len(s)
    PROVE  Elements(SubSeq(s, 1, n)) \cup Elements(SubSeq(s, n + 1, Len(s)))
              = Elements(s)
  <1> DEFINE a == SubSeq(s, 1, n)
             b == SubSeq(s, n + 1, Len(s))
             m == Len(s)
  <1>1. m \in Nat /\ n \in Nat /\ n <= m /\ DOMAIN s = 1 .. m
    OBVIOUS
  <1>2. DOMAIN a = 1 .. n /\ \A i \in 1 .. n : a[i] = s[i]
    BY <1>1, SubSeqProperties
  <1>3. DOMAIN b = 1 .. m - n /\ \A i \in 1 .. m - n : b[i] = s[n + i]
    BY <1>1, SubSeqProperties
  <1> HIDE DEF a, b, m
  <1>4. \A i \in 1 .. m : i \in 1 .. n \/ (i - n \in 1 .. m - n /\ b[i - n] = s[i])
    BY <1>1, <1>3
  <1>5. /\ \A i \in 1 .. n : i \in 1 .. m
        /\ \A i \in 1 .. m - n : n + i \in 1 .. m
    BY <1>1
  <1>6. ASSUME NEW x \in Elements(s)
        PROVE  x \in Elements(a) \/ x \in Elements(b)
    <2>1. PICK i \in 1 .. m : x = s[i]
      BY <1>1 DEF Elements
    <2> QED
      BY <1>2, <1>3, <1>4, <2>1 DEF Elements
  <1>7. ASSUME NEW x \in Elements(a)
        PROVE  x \in Elements(s)
    <2>1. PICK i \in 1 .. n : x = a[i]
      BY <1>2 DEF Elements
    <2> QED
      BY <1>1, <1>2, <1>5, <2>1 DEF Elements
  <1>8. ASSUME NEW x \in Elements(b)
        PROVE  x \in Elements(s)
    <2>1. PICK i \in 1 .. m - n : x = b[i]
      BY <1>3 DEF Elements
    <2> QED
      BY <1>1, <1>3, <1>5, <2>1 DEF Elements
  <1> QED
    BY <1>6, <1>7, <1>8 DEF a, b, m

-----------------------------------------------------------------------------
(* The channels and the executions                                         *)

ChannelInv ==
    /\ ready \in Seq(Tasks) /\ Len(ready) <= ChannelSize
    /\ results \in Seq(Results) /\ Len(results) <= ChannelSize
    /\ sending \in Seq(Results)
    /\ probing \in [Tasks \X Gens -> Nat]
    /\ made \in 0 .. MaxSamples

LEMMA InitChannels == Init => ChannelInv
  <1> SUFFICES ASSUME Init PROVE ChannelInv
    OBVIOUS
  <1>1. probing = [e \in Tasks \X Gens |-> 0] /\ made = 0
    BY DEF Init
  <1>2. ready = <<>> /\ results = <<>> /\ sending = <<>>
    BY DEF Init
  <1> QED
    BY <1>1, <1>2, ConstantFacts, EmptySeq DEF ChannelInv

LEMMA ChannelsKept ==
    ASSUME ChannelInv, UNCHANGED <<ready, results, execVars>>
    PROVE  ChannelInv'
  BY DEF ChannelInv, execVars

LEMMA Halted ==
    ASSUME ChannelInv, NEW how, Halt(how), UNCHANGED made
    PROVE  ChannelInv'
  <1>1. probing' = [e \in Tasks \X Gens |-> 0] /\ made' = made
    BY DEF Halt
  <1>2. ready' = <<>> /\ results' = <<>> /\ sending' = <<>>
    BY DEF Halt
  <1> QED
    BY <1>1, <1>2, ConstantFacts, EmptySeq DEF ChannelInv

(* An execution that ends, in whatever way.                                *)
LEMMA ProbeType ==
    ASSUME ChannelInv, NEW t \in Tasks, NEW g \in Gens, probing[<<t, g>>] > 0
    PROVE  [probing EXCEPT ![<<t, g>>] = @ - 1] \in [Tasks \X Gens -> Nat]
  <1>1. probing \in [Tasks \X Gens -> Nat] /\ <<t, g>> \in Tasks \X Gens
    BY DEF ChannelInv
  <1>2. probing[<<t, g>>] - 1 \in Nat
    BY <1>1
  <1> QED
    BY <1>1, <1>2

LEMMA SampleType ==
    ASSUME LoopInv, GenInv, ChannelInv, NEW t \in Tasks, made < MaxSamples
    PROVE  /\ [id |-> made + 1, task |-> t, gen |-> gen, minute |-> minute]
                \in Samples
           /\ made + 1 \in 0 .. MaxSamples
  <1>1. made + 1 \in 1 .. MaxSamples
    BY ConstantFacts DEF ChannelInv
  <1>2. gen \in Gens /\ minute \in Minutes
    BY GenType DEF LoopInv
  <1> QED
    BY <1>1, <1>2, ConstantFacts DEF Samples

LEMMA NextChannels ==
    ASSUME LoopInv, GenInv, ChannelInv, [Next]_vars
    PROVE  ChannelInv'
  <1>1. /\ gen \in Gens
        /\ ready \in Seq(Tasks) /\ Len(ready) <= ChannelSize
        /\ results \in Seq(Results) /\ Len(results) <= ChannelSize
        /\ sending \in Seq(Results)
        /\ probing \in [Tasks \X Gens -> Nat]
        /\ made \in 0 .. MaxSamples
    BY GenType DEF ChannelInv
  <1>2. CASE \/ ClockTick \/ FlushDone \/ StartAggregation \/ Aggregate
             \/ FlushIfNeeded \/ Reload \/ LeaveLoop \/ Signal \/ Drained
             \/ DeadlineMissed \/ RenewFails \/ UNCHANGED vars
    BY <1>2, ChannelsKept
       DEF ClockTick, FlushDone, StartAggregation, Aggregate, FlushIfNeeded,
           Reload, LeaveLoop, Signal, Drained, DeadlineMissed, RenewFails, vars
  <1>3. CASE Close \/ AggregateFails
    BY <1>3, Halted DEF Close, AggregateFails
  <1>4. CASE FlushFails
    <2>1. \/ Halt("failed") /\ UNCHANGED made
          \/ UNCHANGED <<ready, results, execVars>>
      BY <1>4 DEF FlushFails, execVars
    <2> QED
      BY <2>1, Halted, ChannelsKept
  <1>5. ASSUME NEW t \in Tasks, Ticker(t)
        PROVE  ChannelInv'
    <2>1. /\ Len(ready) < ChannelSize /\ ready' = Append(ready, t)
          /\ UNCHANGED <<results, sending, probing, made>>
      BY <1>5 DEF Ticker, execVars
    <2>2. ready' \in Seq(Tasks) /\ Len(ready') = Len(ready) + 1
      BY <1>1, <2>1, AppendProperties
    <2>3. Len(ready') <= ChannelSize
      BY <1>1, <2>1, <2>2, ConstantFacts
    <2> QED
      BY <1>1, <2>1, <2>2, <2>3 DEF ChannelInv
  <1>6. ASSUME NEW t \in Tasks, ProbeSucceeds(t)
        PROVE  ChannelInv'
    <2> DEFINE s == [id |-> made + 1, task |-> t, gen |-> gen, minute |-> minute]
               r == [task |-> t, sample |-> s]
    <2>1. /\ probing[<<t, gen>>] > 0 /\ made < MaxSamples /\ made' = made + 1
          /\ probing' = [probing EXCEPT ![<<t, gen>>] = @ - 1]
          /\ sending' = Append(sending, r)
          /\ UNCHANGED <<ready, results>>
      BY <1>6 DEF ProbeSucceeds
    <2>2. s \in Samples /\ made' \in 0 .. MaxSamples
      BY <2>1, SampleType
    <2>3. r \in Results
      BY <2>2 DEF Results
    <2> HIDE DEF s, r
    <2>4. sending' \in Seq(Results)
      BY <1>1, <2>1, <2>3, AppendProperties
    <2>5. probing' \in [Tasks \X Gens -> Nat]
      BY <1>1, <2>1, ProbeType
    <2> QED
      BY <1>1, <2>1, <2>2, <2>4, <2>5 DEF ChannelInv
  <1>7. ASSUME NEW t \in Tasks, ProbeFails(t)
        PROVE  ChannelInv'
    <2> DEFINE r == [task |-> t, sample |-> NoSample]
    <2>1. /\ probing[<<t, gen>>] > 0 /\ made' = made
          /\ probing' = [probing EXCEPT ![<<t, gen>>] = @ - 1]
          /\ sending' = Append(sending, r)
          /\ UNCHANGED <<ready, results>>
      BY <1>7 DEF ProbeFails
    <2>2. r \in Results
      BY DEF Results
    <2> HIDE DEF r
    <2>3. sending' \in Seq(Results)
      BY <1>1, <2>1, <2>2, AppendProperties
    <2>4. probing' \in [Tasks \X Gens -> Nat]
      BY <1>1, <2>1, ProbeType
    <2> QED
      BY <1>1, <2>1, <2>3, <2>4 DEF ChannelInv
  <1>8. ASSUME NEW t \in Tasks, NEW g \in Gens, ProbeOutlived(t, g)
        PROVE  ChannelInv'
    <2>1. /\ probing' = [probing EXCEPT ![<<t, g>>] = @ - 1]
          /\ probing[<<t, g>>] > 0
          /\ UNCHANGED <<ready, results, sending, made>>
      BY <1>8 DEF ProbeOutlived
    <2>2. probing' \in [Tasks \X Gens -> Nat]
      BY <2>1, ProbeType
    <2> QED
      BY <1>1, <2>1, <2>2 DEF ChannelInv
  <1>9. CASE SendResult
    <2>1. /\ sending # <<>> /\ Len(results) < ChannelSize
          /\ results' = Append(results, Head(sending))
          /\ sending' = Tail(sending)
          /\ UNCHANGED <<ready, probing, made>>
      BY <1>9 DEF SendResult
    <2>2. Head(sending) \in Results /\ sending' \in Seq(Results)
      BY <1>1, <2>1, ElementsOfTail
    <2>3. results' \in Seq(Results) /\ Len(results') = Len(results) + 1
      BY <1>1, <2>1, <2>2, AppendProperties
    <2>4. Len(results') <= ChannelSize
      BY <1>1, <2>1, <2>3, ConstantFacts
    <2> QED
      BY <1>1, <2>1, <2>2, <2>3, <2>4 DEF ChannelInv
  <1>10. CASE ReceiveResult \/ DrainResult
    <2>1. /\ results # <<>> /\ results' = Tail(results)
          /\ UNCHANGED <<ready, execVars>>
      BY <1>10 DEF ReceiveResult, DrainResult, HandleResult
    <2>2. results' \in Seq(Results) /\ Len(results') = Len(results) - 1
      BY <1>1, <2>1, ElementsOfTail
    <2>3. Len(results') <= ChannelSize
      BY <1>1, <2>2, ConstantFacts
    <2> QED
      BY <1>1, <2>1, <2>2, <2>3 DEF ChannelInv, execVars
  <1>11. CASE ReceiveReady
    <2> DEFINE t == Head(ready)
    <2>1. /\ ready # <<>> /\ ready' = Tail(ready)
          /\ \/ probing' = probing
             \/ probing' = [probing EXCEPT ![<<t, gen>>] = @ + 1]
          /\ UNCHANGED <<results, sending, made>>
      BY <1>11 DEF ReceiveReady
    <2>2. /\ t \in Tasks /\ ready' \in Seq(Tasks)
          /\ Len(ready') = Len(ready) - 1
      BY <1>1, <2>1, ElementsOfTail
    <2>3. Len(ready') <= ChannelSize
      BY <1>1, <2>2, ConstantFacts
    <2> HIDE DEF t
    <2>4. probing' \in [Tasks \X Gens -> Nat]
      <3>1. <<t, gen>> \in Tasks \X Gens
        BY <1>1, <2>2
      <3>2. probing[<<t, gen>>] + 1 \in Nat
        BY <1>1, <3>1
      <3> QED
        BY <1>1, <2>1, <3>1, <3>2
    <2> QED
      BY <1>1, <2>1, <2>2, <2>3, <2>4 DEF ChannelInv
  <1>12. CASE Renew
    <2>1. /\ ready' = <<>> /\ results' = <<>> /\ sending' = <<>>
          /\ UNCHANGED <<probing, made>>
      BY <1>12 DEF Renew
    <2> QED
      BY <1>1, <2>1, EmptySeq, ConstantFacts DEF ChannelInv
  <1> QED
    BY <1>2, <1>3, <1>4, <1>5, <1>6, <1>7, <1>8, <1>9, <1>10, <1>11, <1>12
       DEF Next, Loop, Flush, Aggregation, Message, Stop, ProbeEnds

LEMMA ChannelsHold == Spec => []ChannelInv
  BY InitChannels, NextChannels, LoopHolds, GensHold, PTL DEF Spec

-----------------------------------------------------------------------------
(* The buffer and the tables                                               *)

DataInv ==
    /\ buffer \in Seq(Samples)
    /\ Len(buffer) < MaxBuffer + (IF pc = "flush" THEN 1 ELSE 0)
    /\ pc \in {"aggregate", "renew"} => buffer = <<>>
    /\ stored \subseteq Samples /\ lost \subseteq Samples
    /\ inTime \subseteq Samples /\ aggregated \subseteq Samples
    /\ missed \subseteq 0 .. gen

(* A write moves what is in the buffer to the table, or loses it.          *)
Wrote ==
    /\ buffer' = <<>>
    /\ stored \subseteq stored' /\ lost \subseteq lost'
    /\ stored' \cup lost' = stored \cup lost \cup Elements(buffer)

LEMMA Written ==
    ASSUME buffer \in Seq(Samples), NEW n \in 0 .. Len(buffer), Write(n)
    PROVE  Wrote
  <1>1. Elements(SubSeq(buffer, 1, n))
           \cup Elements(SubSeq(buffer, n + 1, Len(buffer))) = Elements(buffer)
    BY ElementsOfParts
  <1> QED
    BY <1>1 DEF Write, Wrote

(* A result taken from the channel frees its task, and its metric is put   *)
(* in the buffer.                                                          *)
Handled ==
    LET r == Head(results)
    IN  /\ results # <<>> /\ results' = Tail(results)
        /\ running' = running \ {r.task}
        /\ inTime' \subseteq inTime \cup ({r.sample} \cap Timely)
        /\ r.sample = NoSample => buffer' = buffer
        /\ r.sample # NoSample => buffer' = Append(buffer, r.sample)
        /\ r.sample # NoSample /\ Len(buffer) + 1 >= MaxBuffer => pc' = "flush"
        /\ pc' \notin {"aggregate", "renew", "close", "exited", "failed"}
        /\ pc' = "flush" => after' # "abort"
        /\ UNCHANGED <<minute, state, gen, tasks, execVars, stored, lastAgg,
                       aggregated, lost, missed, closed>>

LEMMA HandlesResult ==
    ASSUME ReceiveResult \/ DrainResult
    PROVE  pc \in {"wait", "drain"} /\ Handled
  <1>1. PICK next \in {"top", "drain"} : HandleResult(next)
    BY DEF ReceiveResult, DrainResult
  <1> QED
    BY <1>1 DEF ReceiveResult, DrainResult, HandleResult, StartFlush, Handled

LEMMA BufferEmptied ==
    ASSUME DataInv, Wrote, UNCHANGED <<inTime, aggregated, missed, gen>>
    PROVE  DataInv'
  <1>1. Elements(buffer) \subseteq Samples
    BY ElementsType DEF DataInv
  <1>2. stored' \subseteq Samples /\ lost' \subseteq Samples
    BY <1>1 DEF Wrote, DataInv
  <1>3. buffer' \in Seq(Samples) /\ Len(buffer') = 0
    BY EmptySeq DEF Wrote
  <1> QED
    BY <1>2, <1>3, ConstantFacts DEF DataInv, Wrote

(* What is in the buffer stays there, and the loop goes to a place where   *)
(* that may be.                                                            *)
LEMMA BufferKept ==
    ASSUME DataInv, UNCHANGED <<buffer, stored, lost, inTime, aggregated, gen>>,
           missed' \subseteq missed \cup {gen}, gen \in Nat,
           pc' = "flush" \/ pc # "flush",
           pc' \in {"aggregate", "renew"} => buffer = <<>>
    PROVE  DataInv'
  <1>1. Len(buffer) \in Nat
    BY DEF DataInv
  <1>2. Len(buffer') < MaxBuffer + (IF pc' = "flush" THEN 1 ELSE 0)
    BY <1>1, ConstantFacts DEF DataInv
  <1>3. missed' \subseteq 0 .. gen'
    BY DEF DataInv
  <1> QED
    BY <1>2, <1>3 DEF DataInv

LEMMA InitData == Init => DataInv
  <1> SUFFICES ASSUME Init PROVE DataInv
    OBVIOUS
  <1>1. /\ buffer = <<>> /\ pc = "top" /\ gen = 0
        /\ stored = {} /\ lost = {} /\ inTime = {} /\ aggregated = {}
        /\ missed = {}
    BY DEF Init
  <1>2. buffer \in Seq(Samples) /\ Len(buffer) = 0
    BY <1>1, EmptySeq
  <1> QED
    BY <1>1, <1>2, ConstantFacts DEF DataInv

LEMMA NextData ==
    ASSUME LoopInv, GenInv, ChannelInv, DataInv, [Next]_vars
    PROVE  DataInv'
  <1>1. /\ buffer \in Seq(Samples) /\ Len(buffer) \in Nat /\ gen \in Nat
        /\ pc \in {"aggregate", "renew"} => buffer = <<>>
        /\ pc # "flush" => after = "top"
        /\ results \in Seq(Results)
    BY DEF DataInv, LoopInv, GenInv, ChannelInv
  <1>2. CASE \/ SendResult \/ ClockTick \/ UNCHANGED vars
             \/ \E t \in Tasks :
                   Ticker(t) \/ ProbeEnds(t) \/ \E g \in Gens : ProbeOutlived(t, g)
    <2>1. UNCHANGED <<pc, buffer, stored, lost, inTime, aggregated, missed, gen>>
      BY <1>2
         DEF SendResult, ClockTick, Ticker, ProbeEnds, ProbeSucceeds,
             ProbeFails, ProbeOutlived, vars, loopVars, handleVars, dataVars,
             historyVars
    <2> QED
      BY <2>1 DEF DataInv
  <1>3. CASE \/ Close \/ FlushIfNeeded \/ ReceiveReady \/ Reload \/ LeaveLoop
             \/ RenewFails
    <2>1. /\ UNCHANGED <<buffer, stored, lost, inTime, aggregated, missed, gen>>
          /\ pc # "flush" /\ pc' \notin {"aggregate", "renew"}
      BY <1>3
         DEF Close, Halt, FlushIfNeeded, StartFlush, ReceiveReady, Reload,
             LeaveLoop, BeginStop, RenewFails, handleVars, dataVars, historyVars
    <2> QED
      BY <1>1, <2>1, BufferKept
  <1>4. CASE StartAggregation
    <2>1. /\ UNCHANGED <<buffer, stored, lost, inTime, aggregated, missed, gen>>
          /\ pc # "flush"
          /\ pc' \in {"aggregate", "renew"} => buffer = <<>>
      BY <1>4
         DEF StartAggregation, StartFlush, handleVars, dataVars, historyVars
    <2> QED
      BY <1>1, <2>1, BufferKept
  <1>5. CASE Drained \/ DeadlineMissed
    <2>1. /\ UNCHANGED <<buffer, stored, lost, inTime, aggregated, gen>>
          /\ missed' \subseteq missed \cup {gen}
      BY <1>5 DEF Drained, DeadlineMissed, handleVars, dataVars, historyVars
    <2>2. /\ pc # "flush"
          /\ pc' \in {"aggregate", "renew"} => buffer = <<>>
      BY <1>5 DEF Drained, DeadlineMissed, FlushAndAbort, StartFlush
    <2> QED
      BY <1>1, <2>1, <2>2, BufferKept
  <1>6. CASE FlushDone
    <2>1. Write(Len(buffer)) /\ UNCHANGED <<inTime, aggregated, missed, gen>>
      BY <1>6 DEF FlushDone
    <2> QED
      BY <1>1, <2>1, Written, BufferEmptied
  <1>7. CASE FlushFails
    <2>1. PICK n \in 0 .. Len(buffer) - 1 : Write(n)
      BY <1>7 DEF FlushFails
    <2>2. n \in 0 .. Len(buffer)
      BY <1>1
    <2>3. UNCHANGED <<inTime, aggregated, missed, gen>>
      BY <1>7 DEF FlushFails
    <2> QED
      BY <1>1, <2>1, <2>2, <2>3, Written, BufferEmptied
  <1>8. CASE Signal
    <2>1. /\ UNCHANGED <<inTime, aggregated, missed, gen>> /\ pc' = "drain"
          /\ \/ \E n \in 0 .. Len(buffer) : Write(n)
             \/ pc # "flush" /\ UNCHANGED <<buffer, stored, lost>>
      BY <1>8 DEF Signal, BeginStop
    <2>2. CASE \E n \in 0 .. Len(buffer) : Write(n)
      BY <1>1, <2>1, <2>2, Written, BufferEmptied
    <2>3. CASE pc # "flush" /\ UNCHANGED <<buffer, stored, lost>>
      BY <1>1, <2>1, <2>3, BufferKept
    <2> QED
      BY <2>1, <2>2, <2>3
  <1>9. CASE Aggregate
    <2>1. /\ UNCHANGED <<buffer, stored, lost, inTime, missed, gen>>
          /\ pc = "aggregate" /\ pc' = "wait"
          /\ aggregated' \subseteq aggregated \cup stored
      BY <1>9 DEF Aggregate, handleVars
    <2> QED
      BY <2>1 DEF DataInv
  <1>10. CASE AggregateFails
    <2>1. /\ buffer' = <<>> /\ pc' = "failed" /\ pc = "aggregate"
          /\ UNCHANGED <<stored, lost, inTime, aggregated, missed, gen>>
      BY <1>10 DEF AggregateFails, Halt, historyVars
    <2> QED
      BY <1>1, <2>1, BufferKept
  <1>11. CASE ReceiveResult \/ DrainResult
    <2> DEFINE s == Head(results).sample
    <2>1. Handled /\ pc \in {"wait", "drain"}
      BY <1>11, HandlesResult
    <2>2. /\ s \in Samples \cup {NoSample}
          /\ inTime' \subseteq inTime \cup ({s} \cap Samples)
      <3>1. Head(results) \in Results
        BY <1>1, <2>1, ElementsOfTail DEF Handled
      <3> QED
        BY <2>1, <3>1 DEF Handled, Timely, Results
    <2>3. /\ s = NoSample => buffer' = buffer
          /\ s # NoSample => buffer' = Append(buffer, s)
          /\ s # NoSample /\ Len(buffer) + 1 >= MaxBuffer => pc' = "flush"
          /\ pc' \notin {"aggregate", "renew"}
          /\ UNCHANGED <<stored, lost, aggregated, missed, gen>>
      BY <2>1 DEF Handled
    <2> HIDE DEF s
    <2>4. Len(buffer) < MaxBuffer
      BY <1>1, <2>1, ConstantFacts DEF DataInv
    <2>5. CASE s = NoSample
      <3>1. /\ buffer' = buffer
            /\ Len(buffer') < MaxBuffer + (IF pc' = "flush" THEN 1 ELSE 0)
        BY <1>1, <2>3, <2>4, <2>5, ConstantFacts
      <3> QED
        BY <2>2, <2>3, <3>1 DEF DataInv
    <2>6. CASE s # NoSample
      <3>1. buffer' \in Seq(Samples) /\ Len(buffer') = Len(buffer) + 1
        BY <1>1, <2>2, <2>3, <2>6, AppendProperties
      <3>2. Len(buffer') < MaxBuffer + (IF pc' = "flush" THEN 1 ELSE 0)
        BY <1>1, <2>3, <2>4, <2>6, <3>1, ConstantFacts
      <3> QED
        BY <2>2, <2>3, <3>1, <3>2 DEF DataInv
    <2> QED
      BY <2>5, <2>6
  <1>12. CASE Renew
    <2>1. /\ buffer' = <<>> /\ pc' = "wait" /\ gen' = gen + 1
          /\ UNCHANGED <<stored, lost, inTime, aggregated, missed>>
      BY <1>12 DEF Renew, historyVars
    <2>2. buffer' \in Seq(Samples) /\ Len(buffer') = 0
      BY <2>1, EmptySeq
    <2>3. missed' \subseteq 0 .. gen'
      BY <1>1, <2>1 DEF DataInv
    <2> QED
      BY <2>1, <2>2, <2>3, ConstantFacts DEF DataInv
  <1> QED
    BY <1>2, <1>3, <1>4, <1>5, <1>6, <1>7, <1>8, <1>9, <1>10, <1>11, <1>12
       DEF Next, Loop, Flush, Aggregation, Message, Stop

LEMMA DataHold == Spec => []DataInv
  BY InitData, NextData, LoopHolds, GensHold, ChannelsHold, PTL DEF Spec

(* All variables keep their types, and between two flushes the buffer is   *)
(* below max_metrics_buffer_size.                                          *)
THEOREM TypesHold == Spec => []TypeOK
  <1>1. ASSUME LoopInv, GenInv, ChannelInv, DataInv
        PROVE  TypeOK
    <2>1. gen \in Gens /\ missed \subseteq Gens
      BY <1>1, GenType, ConstantFacts DEF DataInv, GenInv, Gens
    <2> QED
      BY <1>1, <2>1
         DEF LoopInv, GenInv, ChannelInv, DataInv, TypeOK, Afters, Reasons
  <1>2. LoopInv /\ GenInv /\ ChannelInv /\ DataInv => TypeOK
    BY <1>1
  <1> QED
    BY <1>2, LoopHolds, GensHold, ChannelsHold, DataHold, PTL

-----------------------------------------------------------------------------
(* One execution at a time                                                 *)

(* q holds no result of t, or exactly one.                                 *)
NoResult(q, t)  == \A i \in DOMAIN q : q[i].task # t
OneResult(q, t) ==
    \E i \in DOMAIN q :
        q[i].task = t /\ \A j \in DOMAIN q : j # i => q[j].task # t

LEMMA ResultAppended ==
    ASSUME NEW q \in Seq(Results), NEW r \in Results, NEW t \in Tasks
    PROVE  /\ r.task = t /\ NoResult(q, t) => OneResult(Append(q, r), t)
           /\ r.task # t /\ NoResult(q, t) => NoResult(Append(q, r), t)
           /\ r.task # t /\ OneResult(q, t) => OneResult(Append(q, r), t)
  <1> DEFINE e == Append(q, r)
             n == Len(q)
  <1>1. n \in Nat /\ DOMAIN q = 1 .. n
    OBVIOUS
  <1>2. /\ DOMAIN e = 1 .. n + 1 /\ e[n + 1] = r
        /\ \A i \in 1 .. n : e[i] = q[i]
    BY AppendProperties
  <1> HIDE DEF e, n
  <1>3. /\ n + 1 \in 1 .. n + 1 /\ n + 1 \notin 1 .. n
        /\ \A i \in 1 .. n + 1 : i \in 1 .. n \/ i = n + 1
        /\ \A i \in 1 .. n : i \in 1 .. n + 1
    BY <1>1
  <1>4. ASSUME r.task = t, NoResult(q, t) PROVE OneResult(e, t)
    BY <1>1, <1>2, <1>3, <1>4 DEF NoResult, OneResult
  <1>5. ASSUME r.task # t, NoResult(q, t) PROVE NoResult(e, t)
    BY <1>1, <1>2, <1>3, <1>5 DEF NoResult
  <1>6. ASSUME r.task # t, OneResult(q, t) PROVE OneResult(e, t)
    <2>1. PICK i \in 1 .. n :
            q[i].task = t /\ \A j \in 1 .. n : j # i => q[j].task # t
      BY <1>1, <1>6 DEF OneResult
    <2>2. /\ e[i].task = t
          /\ \A j \in 1 .. n + 1 : j # i => e[j].task # t
      BY <1>2, <1>3, <1>6, <2>1
    <2> QED
      BY <1>2, <1>3, <2>1, <2>2 DEF OneResult
  <1> QED
    BY <1>4, <1>5, <1>6 DEF e

LEMMA ResultTaken ==
    ASSUME NEW q \in Seq(Results), q # <<>>, NEW t \in Tasks
    PROVE  /\ Head(q).task = t /\ OneResult(q, t) => NoResult(Tail(q), t)
           /\ Head(q).task = t => ~NoResult(q, t)
           /\ Head(q).task # t /\ NoResult(q, t) => NoResult(Tail(q), t)
           /\ Head(q).task # t /\ OneResult(q, t) => OneResult(Tail(q), t)
  <1> DEFINE e == Tail(q)
             n == Len(q)
             r == Head(q)
  <1>1. n \in Nat /\ n >= 1 /\ DOMAIN q = 1 .. n /\ r = q[1]
    BY EmptySeq, HeadTailProperties
  <1>2. DOMAIN e = 1 .. n - 1 /\ \A i \in 1 .. n - 1 : e[i] = q[i + 1]
    <2>1. /\ e \in Seq(Results) /\ Len(e) = n - 1
          /\ \A i \in 1 .. n - 1 : e[i] = q[i + 1]
      BY HeadTailProperties
    <2> QED
      BY <2>1
  <1> HIDE DEF e, n, r
  <1>3. /\ 1 \in 1 .. n
        /\ \A i \in 1 .. n - 1 : i + 1 \in 1 .. n /\ i + 1 # 1
        /\ \A i \in 1 .. n : i # 1 => i - 1 \in 1 .. n - 1 /\ (i - 1) + 1 = i
    BY <1>1
  <1>4. ASSUME r.task = t, OneResult(q, t) PROVE NoResult(e, t)
    <2>1. PICK i \in 1 .. n :
            q[i].task = t /\ \A j \in 1 .. n : j # i => q[j].task # t
      BY <1>1, <1>4 DEF OneResult
    <2>2. i = 1
      BY <1>1, <1>3, <1>4, <2>1
    <2> QED
      BY <1>2, <1>3, <2>1, <2>2 DEF NoResult
  <1>5. ASSUME r.task = t PROVE ~NoResult(q, t)
    BY <1>1, <1>3, <1>5 DEF NoResult
  <1>6. ASSUME r.task # t, NoResult(q, t) PROVE NoResult(e, t)
    BY <1>1, <1>2, <1>3, <1>6 DEF NoResult
  <1>7. ASSUME r.task # t, OneResult(q, t) PROVE OneResult(e, t)
    <2>1. PICK i \in 1 .. n :
            q[i].task = t /\ \A j \in 1 .. n : j # i => q[j].task # t
      BY <1>1, <1>7 DEF OneResult
    <2>2. i # 1
      BY <1>1, <1>3, <1>7, <2>1
    <2>3. i - 1 \in 1 .. n - 1 /\ i \in Int
      BY <1>3, <2>1, <2>2
    <2>4. e[i - 1].task = t
      <3>1. e[i - 1] = q[(i - 1) + 1] /\ (i - 1) + 1 = i
        BY <1>2, <1>3, <2>2, <2>3
      <3> QED
        BY <2>1, <3>1
    <2>5. ASSUME NEW j \in 1 .. n - 1, j # i - 1
          PROVE  e[j].task # t
      <3>1. e[j] = q[j + 1] /\ j + 1 \in 1 .. n
        BY <1>2, <1>3
      <3>2. j + 1 # i
        BY <2>3, <2>5
      <3> QED
        BY <2>1, <3>1, <3>2
    <2> QED
      BY <1>2, <2>3, <2>4, <2>5 DEF OneResult
  <1> QED
    BY <1>4, <1>5, <1>6, <1>7 DEF e, r

(* What the steps of the channel do to the results on their way.           *)
LEMMA QueueType == ChannelInv => OnTheWay \in Seq(Results)
  BY ConcatProperties DEF ChannelInv, OnTheWay

LEMMA QueueSent ==
    ASSUME ChannelInv, SendResult
    PROVE  OnTheWay' = OnTheWay
  <1>1. /\ results \in Seq(Results) /\ sending \in Seq(Results)
        /\ sending # <<>> /\ results' = Append(results, Head(sending))
        /\ sending' = Tail(sending)
    BY DEF ChannelInv, SendResult
  <1>2. Append(results, Head(sending)) \o Tail(sending) = results \o sending
    <2> DEFINE m == Len(results)
               n == Len(sending)
               a == Append(results, Head(sending))
               b == Tail(sending)
               c == a \o b
               d == results \o sending
    <2>1. m \in Nat /\ n \in Nat /\ n >= 1
      BY <1>1, EmptySeq
    <2>2. /\ a \in Seq(Results) /\ Len(a) = m + 1 /\ a[m + 1] = sending[1]
          /\ \A i \in 1 .. m : a[i] = results[i]
      BY <1>1, HeadTailProperties, AppendProperties
    <2>3. /\ b \in Seq(Results) /\ Len(b) = n - 1
          /\ \A i \in 1 .. n - 1 : b[i] = sending[i + 1]
      BY <1>1, HeadTailProperties
    <2>4. /\ c \in Seq(Results) /\ Len(c) = Len(a) + Len(b)
          /\ \A i \in 1 .. Len(a) + Len(b) :
                c[i] = IF i <= Len(a) THEN a[i] ELSE b[i - Len(a)]
      BY <2>2, <2>3, ConcatProperties
    <2>5. /\ d \in Seq(Results) /\ Len(d) = m + n
          /\ \A i \in 1 .. m + n :
                d[i] = IF i <= m THEN results[i] ELSE sending[i - m]
      BY <1>1, ConcatProperties
    <2> HIDE DEF m, n, a, b, c, d
    <2>6. Len(c) = m + n
      BY <2>1, <2>2, <2>3, <2>4
    <2>7. ASSUME NEW i \in 1 .. m + n
          PROVE  c[i] = d[i]
      <3>1. CASE i <= m
        BY <2>1, <2>2, <2>3, <2>4, <2>5, <3>1
      <3>2. CASE i = m + 1
        BY <2>1, <2>2, <2>3, <2>4, <2>5, <3>2
      <3>3. CASE i > m + 1
        <4>1. i - (m + 1) \in 1 .. n - 1 /\ (i - (m + 1)) + 1 = i - m
          BY <2>1, <3>3
        <4>2. c[i] = b[i - (m + 1)]
          BY <2>1, <2>2, <2>3, <2>4, <3>3
        <4>3. d[i] = sending[i - m]
          BY <2>1, <2>5, <3>3
        <4> QED
          BY <2>3, <4>1, <4>2, <4>3
      <3> QED
        BY <2>1, <3>1, <3>2, <3>3
    <2>8. c = d
      BY <2>4, <2>5, <2>6, <2>7, SeqEqual
    <2> QED
      BY <2>8 DEF c, d, a, b
  <1> QED
    BY <1>1, <1>2 DEF OnTheWay

LEMMA QueueGrows ==
    ASSUME ChannelInv, NEW r \in Results, results' = results,
           sending' = Append(sending, r)
    PROVE  OnTheWay' = Append(OnTheWay, r)
  <1>1. results \in Seq(Results) /\ sending \in Seq(Results) /\ <<r>> \in Seq(Results)
    BY DEF ChannelInv
  <1>2. Append(sending, r) = sending \o <<r>>
    BY <1>1, AppendIsConcat
  <1>3. (results \o sending) \o <<r>> = results \o (sending \o <<r>>)
    BY <1>1, ConcatAssociative
  <1>4. Append(results \o sending, r) = (results \o sending) \o <<r>>
    BY <1>1, AppendIsConcat, ConcatProperties
  <1> QED
    BY <1>2, <1>3, <1>4 DEF OnTheWay

LEMMA QueueShrinks ==
    ASSUME ChannelInv, results # <<>>, results' = Tail(results),
           sending' = sending
    PROVE  /\ OnTheWay # <<>> /\ Head(OnTheWay) = Head(results)
           /\ OnTheWay' = Tail(OnTheWay)
  <1>1. results \in Seq(Results) /\ sending \in Seq(Results)
    BY DEF ChannelInv
  <1> DEFINE m == Len(results)
             n == Len(sending)
             a == Tail(results)
             c == a \o sending
             d == results \o sending
             e == Tail(d)
  <1>2. m \in Nat /\ n \in Nat /\ m >= 1 /\ Head(results) = results[1]
    BY <1>1, EmptySeq, HeadTailProperties
  <1>3. /\ a \in Seq(Results) /\ Len(a) = m - 1
        /\ \A i \in 1 .. m - 1 : a[i] = results[i + 1]
    BY <1>1, HeadTailProperties
  <1>4. /\ d \in Seq(Results) /\ Len(d) = m + n
        /\ \A i \in 1 .. m + n :
              d[i] = IF i <= m THEN results[i] ELSE sending[i - m]
    BY <1>1, ConcatProperties
  <1>5. /\ c \in Seq(Results) /\ Len(c) = Len(a) + n
        /\ \A i \in 1 .. Len(a) + n :
              c[i] = IF i <= Len(a) THEN a[i] ELSE sending[i - Len(a)]
    BY <1>1, <1>3, ConcatProperties
  <1>6. d # <<>>
    BY <1>2, <1>4, EmptySeq
  <1>7. /\ e \in Seq(Results) /\ Len(e) = Len(d) - 1 /\ Head(d) = d[1]
        /\ \A i \in 1 .. Len(d) - 1 : e[i] = d[i + 1]
    BY <1>4, <1>6, HeadTailProperties
  <1>8. OnTheWay = d /\ OnTheWay' = c
    BY DEF OnTheWay
  <1> HIDE DEF m, n, a, c, d, e
  <1>9. ASSUME NEW i \in 1 .. m + n - 1
        PROVE  c[i] = e[i]
    <2>1. e[i] = d[i + 1] /\ i + 1 \in 1 .. m + n
      BY <1>2, <1>4, <1>7
    <2>2. CASE i <= m - 1
      <3>1. i \in 1 .. m - 1 /\ i + 1 <= m
        BY <1>2, <2>2
      <3>2. c[i] = a[i] /\ a[i] = results[i + 1]
        BY <1>2, <1>3, <1>5, <2>2, <3>1
      <3>3. d[i + 1] = results[i + 1]
        BY <1>4, <2>1, <3>1
      <3> QED
        BY <2>1, <3>2, <3>3
    <2>3. CASE i > m - 1
      <3>1. c[i] = sending[i - (m - 1)]
        BY <1>2, <1>3, <1>5, <2>3
      <3>2. d[i + 1] = sending[(i + 1) - m]
        BY <1>2, <1>4, <2>1, <2>3
      <3>3. i - (m - 1) = (i + 1) - m
        BY <1>2
      <3> QED
        BY <2>1, <3>1, <3>2, <3>3
    <2> QED
      BY <1>2, <2>2, <2>3
  <1>10. Len(c) = m + n - 1 /\ Len(e) = m + n - 1
    BY <1>2, <1>3, <1>4, <1>5, <1>7
  <1>11. c = e
    BY <1>5, <1>7, <1>9, <1>10, SeqEqual
  <1>12. d[1] = results[1]
    BY <1>2, <1>4
  <1> QED
    BY <1>2, <1>6, <1>7, <1>8, <1>11, <1>12 DEF e

-----------------------------------------------------------------------------
(* What a step does to the executions                                      *)

(* stop() has waited for the executions and is about to end.               *)
Aborting == pc \in {"renew", "close"} \/ (pc = "flush" /\ after = "abort")

(* No execution begins or ends.                                            *)
Keeps ==
    /\ UNCHANGED <<gen, running, probing, OnTheWay>>
    /\ missed \subseteq missed'
    /\ Aborting' => Aborting \/ gen \in missed' \/ running = {}

(* The flags are cleared with executions under way: the deadline passed.   *)
Abandons ==
    /\ UNCHANGED <<gen, probing, OnTheWay>>
    /\ missed \subseteq missed' /\ gen \in missed'
    /\ running' = {}

Begins(t) ==
    /\ UNCHANGED <<gen, missed, OnTheWay>>
    /\ t \notin running /\ running' = running \cup {t}
    /\ probing' = [probing EXCEPT ![<<t, gen>>] = @ + 1]
    /\ ~Aborting'

Finishes(t) ==
    /\ UNCHANGED <<gen, missed, running, pc, after>>
    /\ probing[<<t, gen>>] > 0
    /\ probing' = [probing EXCEPT ![<<t, gen>>] = @ - 1]
    /\ \E r \in Results : r.task = t /\ OnTheWay' = Append(OnTheWay, r)

Outlives(t, g) ==
    /\ UNCHANGED <<gen, missed, running, OnTheWay, pc, after>>
    /\ g # gen /\ probing[<<t, g>>] > 0
    /\ probing' = [probing EXCEPT ![<<t, g>>] = @ - 1]

(* The result that comes first frees its task.                             *)
Frees ==
    /\ UNCHANGED <<gen, missed, probing>>
    /\ OnTheWay # <<>> /\ OnTheWay' = Tail(OnTheWay)
    /\ running' = running \ {Head(OnTheWay).task}
    /\ ~Aborting'

(* The process ends.                                                       *)
Ends ==
    /\ UNCHANGED <<gen, missed>>
    /\ running' = {} /\ OnTheWay' = <<>>
    /\ probing' = [e \in Tasks \X Gens |-> 0]

Renews ==
    /\ UNCHANGED <<missed, probing>>
    /\ pc = "renew" /\ gen' = gen + 1
    /\ running' = {} /\ OnTheWay' = <<>>
    /\ ~Aborting'

(* Until stop() has ended an execution that still runs has missed the      *)
(* deadline.                                                               *)
AbortInv == Aborting => gen \in missed \/ running = {}

LEMMA NothingOnTheWay ==
    ASSUME results' = <<>>, sending' = <<>>
    PROVE  OnTheWay' = <<>>
  BY DEF OnTheWay

LEMMA HaltEnds ==
    ASSUME NEW how, Halt(how), UNCHANGED <<gen, missed>>
    PROVE  Ends
  BY NothingOnTheWay DEF Halt, Ends

LEMMA Steps ==
    ASSUME LoopInv, GenInv, ChannelInv, AbortInv, [Next]_vars
    PROVE  \/ Keeps \/ Abandons \/ Frees \/ Ends \/ Renews
           \/ \E t \in Tasks : \/ Begins(t) \/ Finishes(t)
                               \/ \E g \in Gens : Outlives(t, g)
  <1>1. CASE ClockTick \/ UNCHANGED vars \/ \E t \in Tasks : Ticker(t)
    BY <1>1
       DEF ClockTick, Ticker, vars, loopVars, handleVars, execVars, historyVars,
           Keeps, OnTheWay, Aborting
  <1>2. CASE SendResult
    <2>1. UNCHANGED <<gen, running, probing, missed, pc, after>>
      BY <1>2 DEF SendResult, loopVars, handleVars, historyVars
    <2> QED
      BY <1>2, <2>1, QueueSent DEF Keeps, Aborting
  <1>3. ASSUME NEW t \in Tasks, ProbeEnds(t)
        PROVE  Finishes(t)
    <2>1. /\ UNCHANGED <<gen, missed, running, pc, after, results>>
          /\ probing[<<t, gen>>] > 0
          /\ probing' = [probing EXCEPT ![<<t, gen>>] = @ - 1]
      BY <1>3
         DEF ProbeEnds, ProbeSucceeds, ProbeFails, loopVars, handleVars,
             historyVars
    <2>2. \E r \in Results : r.task = t /\ sending' = Append(sending, r)
      <3>1. CASE ProbeSucceeds(t)
        <4> DEFINE s == [id |-> made + 1, task |-> t, gen |-> gen, minute |-> minute]
        <4>1. /\ made < MaxSamples
              /\ sending' = Append(sending, [task |-> t, sample |-> s])
          BY <3>1 DEF ProbeSucceeds
        <4>2. s \in Samples
          BY <4>1, SampleType
        <4> HIDE DEF s
        <4> QED
          BY <4>1, <4>2 DEF Results
      <3>2. CASE ProbeFails(t)
        BY <3>2 DEF ProbeFails, Results
      <3> QED
        BY <1>3, <3>1, <3>2 DEF ProbeEnds
    <2> QED
      BY <2>1, <2>2, QueueGrows DEF Finishes
  <1>4. ASSUME NEW t \in Tasks, NEW g \in Gens, ProbeOutlived(t, g)
        PROVE  Outlives(t, g)
    BY <1>4
       DEF ProbeOutlived, loopVars, handleVars, historyVars, Outlives, OnTheWay
  <1>5. CASE Close \/ AggregateFails
    BY <1>5, HaltEnds DEF Close, AggregateFails, historyVars
  <1>6. CASE FlushDone \/ FlushFails
    <2>1. CASE Halt("failed")
      BY <1>6, <2>1, HaltEnds DEF FlushDone, FlushFails
    <2>2. CASE ~Halt("failed") /\ after = "abort"
      <3>1. /\ UNCHANGED <<gen, probing, missed, results, sending>>
            /\ pc = "flush" /\ running' = {}
        BY <1>6, <2>2 DEF FlushDone, FlushFails, ClearAndAbort, execVars
      <3>2. gen \in missed \/ running = {}
        BY <2>2, <3>1 DEF AbortInv, Aborting
      <3> QED
        BY <2>2, <3>1, <3>2 DEF Keeps, Abandons, OnTheWay, Aborting
    <2>3. CASE ~Halt("failed") /\ after # "abort"
      <3>1. /\ UNCHANGED <<gen, running, probing, missed, results, sending>>
            /\ pc' = after /\ after' = "top"
        BY <1>6, <2>3 DEF FlushDone, FlushFails, execVars
      <3> QED
        BY <2>3, <3>1 DEF Keeps, OnTheWay, Aborting, LoopInv, Afters
    <2> QED
      BY <2>1, <2>2, <2>3
  <1>7. CASE \/ StartAggregation \/ Aggregate \/ FlushIfNeeded \/ Reload
             \/ LeaveLoop \/ Signal \/ RenewFails
    <2>1. UNCHANGED <<gen, running, probing, missed, results, sending>>
      BY <1>7
         DEF StartAggregation, Aggregate, FlushIfNeeded, Reload, LeaveLoop,
             Signal, BeginStop, RenewFails, handleVars, execVars, historyVars
    <2>2. ~Aborting'
      BY <1>7
         DEF StartAggregation, Aggregate, FlushIfNeeded, Reload, LeaveLoop,
             Signal, BeginStop, RenewFails, StartFlush, Aborting
    <2> QED
      BY <2>1, <2>2 DEF Keeps, OnTheWay
  <1>8. CASE ReceiveResult \/ DrainResult
    <2>1. Handled
      BY <1>8, HandlesResult
    <2>2. /\ UNCHANGED <<gen, missed, probing, sending>>
          /\ results # <<>> /\ results' = Tail(results)
          /\ running' = running \ {Head(results).task}
          /\ ~Aborting'
      BY <2>1 DEF Handled, execVars, Aborting
    <2> QED
      BY <2>2, QueueShrinks DEF Frees
  <1>9. CASE ReceiveReady
    <2> DEFINE t == Head(ready)
    <2>1. /\ ready # <<>> /\ UNCHANGED <<gen, missed, results, sending>>
          /\ pc' = "top"
          /\ \/ UNCHANGED <<running, probing>>
             \/ /\ t \notin running /\ running' = running \cup {t}
                /\ probing' = [probing EXCEPT ![<<t, gen>>] = @ + 1]
      BY <1>9 DEF ReceiveReady, historyVars
    <2>2. t \in Tasks
      BY <2>1, ElementsOfTail DEF ChannelInv
    <2> HIDE DEF t
    <2>3. Keeps \/ Begins(t)
      BY <2>1 DEF Keeps, Begins, Aborting, OnTheWay
    <2> QED
      BY <2>2, <2>3
  <1>10. CASE Drained \/ DeadlineMissed
    <2>1. /\ UNCHANGED <<gen, probing, results, sending>>
          /\ missed \subseteq missed'
          /\ running = {} \/ gen \in missed'
          /\ running' = running \/ running' = {}
      BY <1>10
         DEF Drained, DeadlineMissed, FlushAndAbort, StartFlush, ClearAndAbort,
             execVars, historyVars
    <2> QED
      BY <2>1 DEF Keeps, Abandons, OnTheWay
  <1>11. CASE Renew
    <2>1. /\ UNCHANGED <<missed, probing>> /\ pc = "renew" /\ pc' = "wait"
          /\ gen' = gen + 1 /\ running' = {}
          /\ results' = <<>> /\ sending' = <<>>
      BY <1>11 DEF Renew, historyVars
    <2> QED
      BY <2>1, NothingOnTheWay DEF Renews, Aborting
  <1> QED
    BY <1>1, <1>2, <1>3, <1>4, <1>5, <1>6, <1>7, <1>8, <1>9, <1>10, <1>11
       DEF Next, Loop, Flush, Aggregation, Message, Stop

-----------------------------------------------------------------------------
(* One execution of a task at a time                                       *)

Idle(t) == probing[<<t, gen>>] = 0 /\ NoResult(OnTheWay, t)
Busy(t) == \/ probing[<<t, gen>>] = 1 /\ NoResult(OnTheWay, t)
           \/ probing[<<t, gen>>] = 0 /\ OneResult(OnTheWay, t)

(* The flag of t says what goes on.                                        *)
Flagged(t) == /\ t \in running => Busy(t)
              /\ t \notin running => Idle(t)

FlagsInv == gen \notin missed => \A t \in Tasks : Flagged(t)

(* Executions of an older scheduler are those its stop() left.             *)
OldInv == \A t \in Tasks, g \in Gens :
             probing[<<t, g>>] > 0 => g = gen \/ g \in missed

ExecInv == AbortInv /\ FlagsInv /\ OldInv

LEMMA InitExec == Init => ExecInv
  <1> SUFFICES ASSUME Init PROVE ExecInv
    OBVIOUS
  <1>1. /\ pc = "top" /\ gen = 0 /\ running = {} /\ missed = {}
        /\ probing = [e \in Tasks \X Gens |-> 0]
        /\ results = <<>> /\ sending = <<>>
    BY DEF Init
  <1>2. OnTheWay = <<>>
    BY <1>1 DEF OnTheWay
  <1>3. \A t \in Tasks, g \in Gens : probing[<<t, g>>] = 0
    BY <1>1
  <1>4. \A t \in Tasks : Flagged(t)
    BY <1>1, <1>2, <1>3, ConstantFacts DEF Flagged, Idle, NoResult
  <1> QED
    BY <1>1, <1>3, <1>4 DEF ExecInv, AbortInv, FlagsInv, OldInv, Aborting

LEMMA NextAbort ==
    ASSUME LoopInv, GenInv, ChannelInv, AbortInv, [Next]_vars
    PROVE  AbortInv'
  <1>1. CASE Keeps \/ Abandons \/ Frees \/ Ends \/ Renews
    BY <1>1
       DEF Keeps, Abandons, Frees, Ends, Renews, AbortInv, Aborting
  <1>2. ASSUME NEW t \in Tasks, NEW g \in Gens,
               Begins(t) \/ Finishes(t) \/ Outlives(t, g)
        PROVE  AbortInv'
    BY <1>2 DEF Begins, Finishes, Outlives, AbortInv, Aborting
  <1>3. ASSUME NEW t \in Tasks, Begins(t) \/ Finishes(t)
        PROVE  AbortInv'
    BY <1>2, <1>3, ConstantFacts
  <1> QED
    BY <1>1, <1>2, <1>3, Steps

LEMMA NextOld ==
    ASSUME LoopInv, GenInv, ChannelInv, ExecInv, [Next]_vars
    PROVE  OldInv'
  <1>1. /\ probing \in [Tasks \X Gens -> Nat] /\ gen \in Gens
        /\ AbortInv /\ FlagsInv /\ OldInv
    BY GenType DEF ChannelInv, ExecInv
  <1>2. CASE Keeps \/ Abandons \/ Frees
    BY <1>1, <1>2 DEF Keeps, Abandons, Frees, OldInv
  <1>3. CASE Ends
    <2>1. \A t \in Tasks, g \in Gens : probing'[<<t, g>>] = 0
      BY <1>3 DEF Ends
    <2> QED
      BY <2>1 DEF OldInv
  <1>4. CASE Renews
    <2>1. gen \in missed \/ \A t \in Tasks : probing[<<t, gen>>] = 0
      BY <1>1, <1>4
         DEF Renews, AbortInv, Aborting, FlagsInv, Flagged, Idle
    <2>2. ASSUME NEW t \in Tasks, NEW g \in Gens, probing'[<<t, g>>] > 0
          PROVE  g \in missed'
      BY <1>1, <1>4, <2>1, <2>2 DEF Renews, OldInv
    <2> QED
      BY <2>2 DEF OldInv
  <1>5. ASSUME NEW t \in Tasks, NEW g \in Gens,
               Begins(t) \/ Finishes(t) \/ Outlives(t, g)
        PROVE  OldInv'
    <2>1. gen' = gen /\ missed' = missed
      BY <1>5 DEF Begins, Finishes, Outlives
    <2>2. ASSUME NEW u \in Tasks, NEW h \in Gens, probing'[<<u, h>>] > 0
          PROVE  h = gen \/ h \in missed
      <3>1. CASE h = gen
        BY <3>1
      <3>2. CASE h # gen
        <4>1. PICK x \in Gens :
                  /\ x = gen \/ probing[<<t, x>>] > 0
                  /\ \/ probing' = [probing EXCEPT ![<<t, x>>] = @ - 1]
                     \/ x = gen /\ probing' = [probing EXCEPT ![<<t, x>>] = @ + 1]
          BY <1>1, <1>5 DEF Begins, Finishes, Outlives
        <4>2. CASE <<u, h>> = <<t, x>>
          <5>1. x # gen /\ probing[<<u, h>>] > 0
            BY <3>2, <4>1, <4>2
          <5> QED
            BY <1>1, <3>2, <5>1 DEF OldInv
        <4>3. CASE <<u, h>> # <<t, x>>
          <5>1. probing'[<<u, h>>] = probing[<<u, h>>]
            BY <1>1, <4>1, <4>3
          <5> QED
            BY <1>1, <2>2, <3>2, <5>1 DEF OldInv
        <4> QED
          BY <4>2, <4>3
      <3> QED
        BY <3>1, <3>2
    <2> QED
      BY <2>1, <2>2 DEF OldInv
  <1>6. ASSUME NEW t \in Tasks, Begins(t) \/ Finishes(t)
        PROVE  OldInv'
    BY <1>5, <1>6, ConstantFacts
  <1> QED
    BY <1>1, <1>2, <1>3, <1>4, <1>5, <1>6, Steps

(* A task the step is not about.                                           *)
LEMMA FlagKept ==
    ASSUME NEW t \in Tasks, Flagged(t), UNCHANGED gen,
           probing'[<<t, gen>>] = probing[<<t, gen>>],
           t \in running' <=> t \in running,
           NoResult(OnTheWay, t) => NoResult(OnTheWay', t),
           OneResult(OnTheWay, t) => OneResult(OnTheWay', t)
    PROVE  Flagged(t)'
  BY DEF Flagged, Busy, Idle

LEMMA NoFlags ==
    ASSUME running' = {}, OnTheWay' = <<>>,
           \A t \in Tasks : probing'[<<t, gen'>>] = 0
    PROVE  FlagsInv'
  <1>1. ASSUME NEW t \in Tasks
        PROVE  Flagged(t)'
    <2>1. NoResult(OnTheWay', t)
      BY DEF NoResult
    <2>2. probing'[<<t, gen'>>] = 0 /\ t \notin running'
      OBVIOUS
    <2> QED
      BY <2>1, <2>2 DEF Flagged, Idle
  <1> QED
    BY <1>1 DEF FlagsInv

LEMMA NextFlags ==
    ASSUME LoopInv, GenInv, ChannelInv, DataInv, ExecInv, [Next]_vars
    PROVE  FlagsInv'
  <1>1. /\ probing \in [Tasks \X Gens -> Nat] /\ gen \in Gens
        /\ AbortInv /\ FlagsInv /\ OldInv
        /\ OnTheWay \in Seq(Results)
    BY GenType, QueueType DEF ChannelInv, ExecInv
  <1>2. CASE Keeps
    <2>1. \A t \in Tasks : Flagged(t) => Flagged(t)'
      BY <1>2, FlagKept DEF Keeps
    <2> QED
      BY <1>1, <1>2, <2>1 DEF Keeps, FlagsInv
  <1>3. CASE Abandons
    BY <1>3 DEF Abandons, FlagsInv
  <1>4. CASE Ends
    <2>1. \A t \in Tasks : probing'[<<t, gen'>>] = 0
      BY <1>1, <1>4 DEF Ends
    <2> QED
      BY <1>4, <2>1, NoFlags DEF Ends
  <1>5. CASE Renews
    <2>1. gen' \in Gens
      BY NextGen, ConstantFacts DEF GenInv, Gens
    <2>2. gen' # gen /\ gen' \notin missed
      BY <1>1, <1>5, ConstantFacts DEF Renews, DataInv, GenInv
    <2>3. \A t \in Tasks : probing'[<<t, gen'>>] = 0
      BY <1>1, <1>5, <2>1, <2>2 DEF Renews, OldInv
    <2> QED
      BY <1>5, <2>3, NoFlags DEF Renews
  <1>6. CASE Frees
    <2> DEFINE t == Head(OnTheWay).task
    <2>1. ASSUME NEW u \in Tasks, Flagged(u)
          PROVE  Flagged(u)'
      <3>1. UNCHANGED <<gen, probing>> /\ running' = running \ {t}
        BY <1>6 DEF Frees
      <3>2. /\ t = u /\ OneResult(OnTheWay, u) => NoResult(OnTheWay', u)
            /\ t = u => ~NoResult(OnTheWay, u)
            /\ t # u /\ NoResult(OnTheWay, u) => NoResult(OnTheWay', u)
            /\ t # u /\ OneResult(OnTheWay, u) => OneResult(OnTheWay', u)
        BY <1>1, <1>6, ResultTaken DEF Frees
      <3> HIDE DEF t
      <3>3. CASE t = u
        BY <2>1, <3>1, <3>2, <3>3 DEF Flagged, Busy, Idle
      <3>4. CASE t # u
        BY <2>1, <3>1, <3>2, <3>4, FlagKept
      <3> QED
        BY <3>3, <3>4
    <2> QED
      BY <1>1, <1>6, <2>1 DEF Frees, FlagsInv
  <1>7. ASSUME NEW t \in Tasks, Begins(t)
        PROVE  FlagsInv'
    <2>1. /\ UNCHANGED <<gen, OnTheWay, missed>>
          /\ t \notin running /\ running' = running \cup {t}
          /\ probing' = [probing EXCEPT ![<<t, gen>>] = @ + 1]
      BY <1>7 DEF Begins
    <2>2. ASSUME NEW u \in Tasks, Flagged(u)
          PROVE  Flagged(u)'
      <3>1. CASE u = t
        <4>1. probing[<<t, gen>>] = 0 /\ NoResult(OnTheWay, t)
          BY <2>1, <2>2, <3>1 DEF Flagged, Idle
        <4>2. probing'[<<t, gen>>] = 1
          BY <1>1, <2>1, <4>1
        <4> QED
          BY <2>1, <3>1, <4>1, <4>2 DEF Flagged, Busy
      <3>2. CASE u # t
        <4>1. probing'[<<u, gen>>] = probing[<<u, gen>>]
          BY <1>1, <2>1, <3>2
        <4> QED
          BY <2>1, <2>2, <3>2, <4>1, FlagKept
      <3> QED
        BY <3>1, <3>2
    <2> QED
      BY <1>1, <2>1, <2>2 DEF FlagsInv
  <1>8. ASSUME NEW t \in Tasks, Finishes(t)
        PROVE  FlagsInv'
    <2>1. /\ UNCHANGED <<gen, missed, running>>
          /\ probing[<<t, gen>>] > 0
          /\ probing' = [probing EXCEPT ![<<t, gen>>] = @ - 1]
      BY <1>8 DEF Finishes
    <2>2. PICK r \in Results : r.task = t /\ OnTheWay' = Append(OnTheWay, r)
      BY <1>8 DEF Finishes
    <2>3. ASSUME NEW u \in Tasks, Flagged(u)
          PROVE  Flagged(u)'
      <3>1. /\ t = u /\ NoResult(OnTheWay, u) => OneResult(OnTheWay', u)
            /\ t # u /\ NoResult(OnTheWay, u) => NoResult(OnTheWay', u)
            /\ t # u /\ OneResult(OnTheWay, u) => OneResult(OnTheWay', u)
        BY <1>1, <2>2, ResultAppended
      <3>2. CASE u = t
        <4>1. /\ t \in running /\ probing[<<t, gen>>] = 1
              /\ NoResult(OnTheWay, t)
          BY <2>1, <2>3, <3>2 DEF Flagged, Busy, Idle
        <4>2. probing'[<<t, gen>>] = 0
          BY <1>1, <2>1, <4>1
        <4> QED
          BY <2>1, <3>1, <3>2, <4>1, <4>2 DEF Flagged, Busy
      <3>3. CASE u # t
        <4>1. probing'[<<u, gen>>] = probing[<<u, gen>>]
          BY <1>1, <2>1, <3>3
        <4> QED
          BY <2>1, <2>3, <3>1, <3>3, <4>1, FlagKept
      <3> QED
        BY <3>2, <3>3
    <2> QED
      BY <1>1, <2>1, <2>3 DEF FlagsInv
  <1>9. ASSUME NEW t \in Tasks, NEW g \in Gens, Outlives(t, g)
        PROVE  FlagsInv'
    <2>1. /\ UNCHANGED <<gen, missed, running, OnTheWay>>
          /\ g # gen /\ probing' = [probing EXCEPT ![<<t, g>>] = @ - 1]
      BY <1>9 DEF Outlives
    <2>2. ASSUME NEW u \in Tasks, Flagged(u)
          PROVE  Flagged(u)'
      <3>1. probing'[<<u, gen>>] = probing[<<u, gen>>]
        BY <1>1, <2>1
      <3> QED
        BY <2>1, <2>2, <3>1, FlagKept
    <2> QED
      BY <1>1, <2>1, <2>2 DEF FlagsInv
  <1> QED
    BY <1>1, <1>2, <1>3, <1>4, <1>5, <1>6, <1>7, <1>8, <1>9, Steps

LEMMA NextExec ==
    ASSUME LoopInv, GenInv, ChannelInv, DataInv, ExecInv, [Next]_vars
    PROVE  ExecInv'
  BY NextAbort, NextOld, NextFlags DEF ExecInv

LEMMA ExecHolds == Spec => []ExecInv
  BY InitExec, NextExec, LoopHolds, GensHold, ChannelsHold, DataHold, PTL
     DEF Spec

(* The flag of a task says exactly whether an execution of it is under way *)
(* or its result unhandled: never two, and none that bars the task.        *)
THEOREM OneAtATime == Spec => []OneExecution
  <1>1. ASSUME GenInv, ChannelInv, ExecInv
        PROVE  OneExecution
    <2>1. /\ probing \in [Tasks \X Gens -> Nat] /\ gen \in Gens
          /\ FlagsInv /\ OldInv
      BY <1>1, GenType DEF ChannelInv, ExecInv
    <2>2. ASSUME NEW t \in Tasks, NoResult(OnTheWay, t)
          PROVE  Cardinality(Waiting(t)) = 0
      <3>1. Waiting(t) = {}
        BY <2>2 DEF Waiting, NoResult
      <3> QED
        BY <3>1, FS_EmptySet
    <2>3. ASSUME NEW t \in Tasks, OneResult(OnTheWay, t)
          PROVE  Cardinality(Waiting(t)) = 1
      <3>1. PICK i : Waiting(t) = {i}
        BY <2>3 DEF Waiting, OneResult
      <3> QED
        BY <3>1, FS_Singleton
    <2>4. ASSUME NEW t \in Tasks, gen \notin missed
          PROVE  Unhandled(t) = IF t \in running THEN 1 ELSE 0
      <3>1. Flagged(t)
        BY <2>1, <2>4 DEF FlagsInv
      <3>2. CASE t \in running
        <4>1. Busy(t)
          BY <3>1, <3>2 DEF Flagged
        <4> QED
          BY <2>2, <2>3, <3>2, <4>1 DEF Busy, Unhandled
      <3>3. CASE t \notin running
        <4>1. Idle(t)
          BY <3>1, <3>3 DEF Flagged
        <4> QED
          BY <2>2, <3>3, <4>1 DEF Idle, Unhandled
      <3> QED
        BY <3>2, <3>3
    <2>5. ASSUME NEW t \in Tasks, NEW g \in Gens \ {gen}, probing[<<t, g>>] > 0
          PROVE  g \in missed
      BY <2>1, <2>5 DEF OldInv
    <2> QED
      BY <2>4, <2>5 DEF OneExecution
  <1>2. GenInv /\ ChannelInv /\ ExecInv => OneExecution
    BY <1>1
  <1> QED
    BY <1>2, GensHold, ChannelsHold, ExecHolds, PTL

-----------------------------------------------------------------------------
(* What a step does to the samples                                         *)

(* No sample moves.                                                        *)
Rests ==
    UNCHANGED <<buffer, stored, lost, inTime, aggregated, closed, lastAgg,
                tasks, made, OnTheWay>>

(* A flush; the process may end with it.                                   *)
Writes ==
    /\ Wrote
    /\ UNCHANGED <<inTime, aggregated, closed, lastAgg, tasks, made>>
    /\ \/ OnTheWay' = OnTheWay
       \/ OnTheWay' = <<>> /\ pc' = "failed"

(* A probe ends, with a new sample or without one.                         *)
Probes ==
    /\ UNCHANGED <<buffer, stored, lost, inTime, aggregated, closed, lastAgg,
                   tasks>>
    /\ \E r \in Results :
          /\ OnTheWay' = Append(OnTheWay, r)
          /\ \/ r.sample = NoSample /\ made' = made
             \/ /\ r.sample \in Samples /\ r.sample.minute = minute
                /\ r.sample.id = made + 1 /\ made' = made + 1

(* The result that comes first is handled.                                 *)
Collects ==
    LET s == Head(OnTheWay).sample
    IN  /\ UNCHANGED <<stored, lost, aggregated, closed, lastAgg, tasks, made>>
        /\ OnTheWay # <<>> /\ OnTheWay' = Tail(OnTheWay)
        /\ inTime' \subseteq inTime \cup ({s} \cap Timely)
        /\ s = NoSample => buffer' = buffer
        /\ s # NoSample => buffer' = Append(buffer, s)

Closes ==
    /\ UNCHANGED <<buffer, stored, lost, inTime, tasks, made, OnTheWay>>
    /\ buffer = <<>> /\ period \in Minutes /\ lastAgg < period
    /\ lastAgg' = period
    /\ closed' = closed \cup {period - 1}
    /\ aggregated' = aggregated \cup
           {s \in stored : s.minute = period - 1 /\ s.task \in tasks}

(* The channel of results goes: at the end, or for a new scheduler.        *)
Drops ==
    /\ UNCHANGED <<buffer, stored, lost, inTime, aggregated, closed, made>>
    /\ tasks' \subseteq tasks
    /\ OnTheWay' = <<>>
    /\ Aborting \/ pc' = "failed"

LEMMA SampleSteps ==
    ASSUME LoopInv, GenInv, ChannelInv, DataInv, [Next]_vars
    PROVE  Rests \/ Writes \/ Probes \/ Collects \/ Closes \/ Drops
  <1>1. /\ buffer \in Seq(Samples) /\ Len(buffer) \in Nat
        /\ pc \in {"aggregate", "renew"} => buffer = <<>>
    BY DEF DataInv
  <1>2. CASE ClockTick \/ UNCHANGED vars \/ \E t \in Tasks :
                Ticker(t) \/ \E g \in Gens : ProbeOutlived(t, g)
    BY <1>2
       DEF ClockTick, Ticker, ProbeOutlived, vars, handleVars, execVars,
           dataVars, historyVars, Rests, OnTheWay
  <1>3. CASE SendResult
    <2>1. UNCHANGED <<buffer, stored, lost, inTime, aggregated, closed,
                      lastAgg, tasks, made>>
      BY <1>3 DEF SendResult, handleVars, dataVars, historyVars
    <2> QED
      BY <1>3, <2>1, QueueSent DEF Rests
  <1>4. ASSUME NEW t \in Tasks, ProbeSucceeds(t)
        PROVE  Probes
    <2> DEFINE s == [id |-> made + 1, task |-> t, gen |-> gen, minute |-> minute]
               r == [task |-> t, sample |-> s]
    <2>1. /\ made < MaxSamples /\ made' = made + 1
          /\ sending' = Append(sending, r) /\ results' = results
          /\ UNCHANGED <<buffer, stored, lost, inTime, aggregated, closed,
                         lastAgg, tasks>>
      BY <1>4 DEF ProbeSucceeds, handleVars, dataVars, historyVars
    <2>2. s \in Samples
      BY <2>1, SampleType
    <2>3. /\ r \in Results /\ r.sample \in Samples
          /\ r.sample.minute = minute /\ r.sample.id = made + 1
      BY <2>2 DEF Results
    <2> HIDE DEF r, s
    <2>4. OnTheWay' = Append(OnTheWay, r)
      BY <2>1, <2>3, QueueGrows
    <2> QED
      BY <2>1, <2>3, <2>4 DEF Probes
  <1>5. ASSUME NEW t \in Tasks, ProbeFails(t)
        PROVE  Probes
    <2> DEFINE r == [task |-> t, sample |-> NoSample]
    <2>1. /\ made' = made
          /\ sending' = Append(sending, r) /\ results' = results
          /\ UNCHANGED <<buffer, stored, lost, inTime, aggregated, closed,
                         lastAgg, tasks>>
      BY <1>5 DEF ProbeFails, handleVars, dataVars, historyVars
    <2>2. r \in Results /\ r.sample = NoSample
      BY DEF Results
    <2> HIDE DEF r
    <2>3. OnTheWay' = Append(OnTheWay, r)
      BY <2>1, <2>2, QueueGrows
    <2> QED
      BY <2>1, <2>2, <2>3 DEF Probes
  <1>6. CASE Close
    <2>1. pc = "close" /\ results' = <<>> /\ sending' = <<>>
      BY <1>6 DEF Close, Halt
    <2>2. UNCHANGED <<buffer, stored, lost, inTime, aggregated, closed, made,
                      tasks>>
      BY <1>6 DEF Close, dataVars, historyVars
    <2> QED
      BY <2>1, <2>2, NothingOnTheWay DEF Drops, Aborting
  <1>7. CASE AggregateFails
    <2>1. /\ pc = "aggregate" /\ pc' = "failed" /\ results' = <<>>
          /\ sending' = <<>> /\ buffer' = <<>>
      BY <1>7 DEF AggregateFails, Halt
    <2>2. UNCHANGED <<stored, lost, inTime, aggregated, closed, made, tasks>>
      BY <1>7 DEF AggregateFails, historyVars
    <2> QED
      BY <1>1, <2>1, <2>2, NothingOnTheWay DEF Drops
  <1>8. CASE FlushDone
    <2>1. Write(Len(buffer))
      BY <1>8 DEF FlushDone
    <2>2. UNCHANGED <<inTime, aggregated, closed, lastAgg, tasks, made,
                      OnTheWay>>
      BY <1>8 DEF FlushDone, execVars, OnTheWay
    <2> QED
      BY <1>1, <2>1, <2>2, Written DEF Writes
  <1>9. CASE FlushFails
    <2>1. PICK n \in 0 .. Len(buffer) - 1 : Write(n)
      BY <1>9 DEF FlushFails
    <2>2. Wrote
      <3>1. n \in 0 .. Len(buffer)
        BY <1>1
      <3> QED
        BY <1>1, <2>1, <3>1, Written
    <2>3. UNCHANGED <<inTime, aggregated, closed, lastAgg, tasks, made>>
      BY <1>9 DEF FlushFails
    <2>4. \/ OnTheWay' = OnTheWay
          \/ OnTheWay' = <<>> /\ pc' = "failed"
      <3>1. \/ UNCHANGED <<results, sending>>
            \/ results' = <<>> /\ sending' = <<>> /\ pc' = "failed"
        BY <1>9 DEF FlushFails, Halt
      <3> QED
        BY <3>1, NothingOnTheWay DEF OnTheWay
    <2> QED
      BY <2>2, <2>3, <2>4 DEF Writes
  <1>10. CASE Signal
    <2>1. UNCHANGED <<inTime, aggregated, closed, lastAgg, tasks, made, OnTheWay>>
      BY <1>10 DEF Signal, execVars, OnTheWay
    <2>2. \/ UNCHANGED <<buffer, stored, lost>>
          \/ \E n \in 0 .. Len(buffer) : Write(n)
      BY <1>10 DEF Signal
    <2>3. UNCHANGED <<buffer, stored, lost>> \/ Wrote
      BY <1>1, <2>2, Written
    <2> QED
      BY <2>1, <2>3 DEF Rests, Writes
  <1>11. CASE Aggregate
    <2>1. /\ pc = "aggregate" /\ lastAgg' = period
          /\ closed' = closed \cup {period - 1}
          /\ aggregated' = aggregated \cup
                 {s \in stored : s.minute = period - 1 /\ s.task \in tasks}
      BY <1>11 DEF Aggregate
    <2>2. UNCHANGED <<buffer, stored, lost, inTime, tasks, made, OnTheWay>>
      BY <1>11 DEF Aggregate, handleVars, execVars, OnTheWay
    <2>3. period \in Minutes /\ lastAgg < period
      BY <2>1 DEF LoopInv, Aggregating
    <2> QED
      BY <1>1, <2>1, <2>2, <2>3 DEF Closes
  <1>12. CASE \/ StartAggregation \/ FlushIfNeeded \/ Reload \/ LeaveLoop
              \/ ReceiveReady \/ Drained \/ DeadlineMissed \/ RenewFails
    <2>1. UNCHANGED <<tasks, results, sending, made>>
      BY <1>12
         DEF StartAggregation, FlushIfNeeded, Reload, LeaveLoop, ReceiveReady,
             Drained, DeadlineMissed, RenewFails, handleVars, execVars
    <2>2. UNCHANGED <<buffer, stored, lost, inTime, aggregated, closed, lastAgg>>
      BY <1>12
         DEF StartAggregation, FlushIfNeeded, Reload, LeaveLoop, ReceiveReady,
             Drained, DeadlineMissed, RenewFails, dataVars, historyVars
    <2> QED
      BY <2>1, <2>2 DEF Rests, OnTheWay
  <1>13. CASE ReceiveResult \/ DrainResult
    <2>1. Handled
      BY <1>13, HandlesResult
    <2>2. /\ results # <<>> /\ results' = Tail(results) /\ sending' = sending
          /\ UNCHANGED <<stored, lost, aggregated, closed, lastAgg, tasks, made>>
      BY <2>1 DEF Handled, execVars
    <2>3. /\ OnTheWay # <<>> /\ Head(OnTheWay) = Head(results)
          /\ OnTheWay' = Tail(OnTheWay)
      BY <2>2, QueueShrinks
    <2> QED
      BY <2>1, <2>2, <2>3 DEF Handled, Collects
  <1>14. CASE Renew
    <2>1. /\ pc = "renew" /\ buffer' = <<>> /\ results' = <<>>
          /\ sending' = <<>> /\ tasks' = NewTasks
      BY <1>14 DEF Renew
    <2>2. UNCHANGED <<stored, lost, inTime, aggregated, closed, made>>
      BY <1>14 DEF Renew, historyVars
    <2> QED
      BY <1>1, <2>1, <2>2, NothingOnTheWay DEF Drops, Aborting, GenInv
  <1> QED
    BY <1>2, <1>3, <1>4, <1>5, <1>6, <1>7, <1>8, <1>9, <1>10, <1>11, <1>12,
       <1>13, <1>14
       DEF Next, Loop, Flush, Aggregation, Message, Stop, ProbeEnds

-----------------------------------------------------------------------------
(* No sample vanishes                                                      *)

(* Where a sample, or the result without one, may be.                      *)
InChannel == {r.sample : r \in Elements(OnTheWay)}
Somewhere == Elements(buffer) \cup InChannel \cup stored \cup lost

(* The samples are where they were, or in a later place.                   *)
Carried == \A s \in Somewhere : s # NoSample => s \in Somewhere'

(* A process that failed stays so, and a missed deadline is not forgotten. *)
LEMMA Onward ==
    ASSUME [Next]_vars
    PROVE  /\ pc = "failed" => pc' = "failed"
           /\ missed \subseteq missed'
  <1>1. CASE pc = "failed"
    <2>1. UNCHANGED vars
      BY <1>1
         DEF Next, Loop, Flush, Aggregation, Message, Stop, ProbeEnds, Ended,
             InRun, FlushDone, FlushFails, StartAggregation, Aggregate,
             AggregateFails, FlushIfNeeded, ReceiveResult, ReceiveReady,
             LeaveLoop, DrainResult, Drained, Renew, RenewFails, Close,
             SendResult, ClockTick, Reload, Signal, DeadlineMissed, Ticker,
             ProbeSucceeds, ProbeFails, ProbeOutlived
    <2> QED
      BY <1>1, <2>1 DEF vars, loopVars, historyVars
  <1>2. missed \subseteq missed'
    BY DEF Next, Loop, Flush, Aggregation, Message, Stop, ProbeEnds,
           HandleResult,
           FlushDone, FlushFails, StartAggregation, Aggregate,
           AggregateFails, FlushIfNeeded, ReceiveResult, ReceiveReady,
           LeaveLoop, DrainResult, Drained, Renew, RenewFails, Close,
           SendResult, ClockTick, Reload, Signal, DeadlineMissed, Ticker,
           ProbeSucceeds, ProbeFails, ProbeOutlived, vars, historyVars
  <1> QED
    BY <1>1, <1>2

(* Once stop() has waited for the last execution nothing is on its way.    *)
LEMMA NothingLeft ==
    ASSUME GenInv, ChannelInv, ExecInv, Aborting, gen \notin missed
    PROVE  OnTheWay = <<>>
  <1>1. OnTheWay \in Seq(Results)
    BY QueueType
  <1>2. \A t \in Tasks : NoResult(OnTheWay, t)
    BY DEF ExecInv, AbortInv, FlagsInv, Flagged, Idle
  <1>3. ASSUME OnTheWay # <<>>
        PROVE  FALSE
    <2>1. 1 \in DOMAIN OnTheWay /\ OnTheWay[1] \in Results
      BY <1>1, <1>3, EmptySeq
    <2>2. OnTheWay[1].task \in Tasks
      BY <2>1 DEF Results
    <2> QED
      BY <1>2, <2>1, <2>2 DEF NoResult
  <1> QED
    BY <1>3

(* A step carries every sample on, and a new one has the next number.      *)
LEMMA SamplesCarried ==
    ASSUME LoopInv, GenInv, ChannelInv, DataInv, ExecInv, [Next]_vars,
           pc' # "failed", gen \notin missed
    PROVE  /\ Carried
           /\ \/ made' = made
              \/ made' = made + 1 /\ \E s \in Somewhere' : s.id = made + 1
  <1>1. buffer \in Seq(Samples) /\ OnTheWay \in Seq(Results)
    BY QueueType DEF DataInv
  <1>2. CASE Rests
    <2>1. Somewhere' = Somewhere /\ made' = made
      BY <1>2 DEF Rests, Somewhere, InChannel
    <2> QED
      BY <2>1 DEF Carried
  <1>3. CASE Writes
    <2>1. /\ OnTheWay' = OnTheWay /\ made' = made
          /\ stored' \cup lost' = stored \cup lost \cup Elements(buffer)
      BY <1>3 DEF Writes, Wrote
    <2>2. InChannel' = InChannel
      BY <2>1 DEF InChannel
    <2>3. \A s \in Somewhere : s \in Somewhere'
      BY <2>1, <2>2 DEF Somewhere
    <2> QED
      BY <2>1, <2>3 DEF Carried
  <1>4. CASE Probes
    <2>1. PICK r \in Results :
              /\ OnTheWay' = Append(OnTheWay, r)
              /\ \/ r.sample = NoSample /\ made' = made
                 \/ r.sample.id = made + 1 /\ made' = made + 1
      BY <1>4 DEF Probes
    <2>2. Elements(OnTheWay') = Elements(OnTheWay) \cup {r}
      BY <1>1, <2>1, ElementsOfAppend
    <2>3. InChannel' = InChannel \cup {r.sample}
      BY <2>2 DEF InChannel
    <2>4. Somewhere' = Somewhere \cup {r.sample}
      BY <1>4, <2>3 DEF Probes, Somewhere
    <2> QED
      BY <2>1, <2>4 DEF Carried
  <1>5. CASE Collects
    <2> DEFINE r == Head(OnTheWay)
    <2>1. /\ OnTheWay # <<>> /\ OnTheWay' = Tail(OnTheWay)
          /\ UNCHANGED <<stored, lost, made>>
          /\ r.sample = NoSample => buffer' = buffer
          /\ r.sample # NoSample => buffer' = Append(buffer, r.sample)
      BY <1>5 DEF Collects
    <2>2. r \in Results /\ Elements(OnTheWay) = {r} \cup Elements(OnTheWay')
      BY <1>1, <2>1, ElementsOfTail
    <2> HIDE DEF r
    <2>3. InChannel = {r.sample} \cup InChannel'
      BY <2>2 DEF InChannel
    <2>4. CASE r.sample = NoSample
      <3>1. Somewhere = Somewhere' \cup {NoSample}
        BY <2>1, <2>3, <2>4 DEF Somewhere
      <3> QED
        BY <2>1, <3>1 DEF Carried
    <2>5. CASE r.sample # NoSample
      <3>1. r.sample \in Samples
        BY <2>2, <2>5 DEF Results
      <3>2. Elements(buffer') = Elements(buffer) \cup {r.sample}
        BY <1>1, <2>1, <2>5, <3>1, ElementsOfAppend
      <3>3. \A s \in Somewhere : s \in Somewhere'
        BY <2>1, <2>3, <3>2 DEF Somewhere
      <3> QED
        BY <2>1, <3>3 DEF Carried
    <2> QED
      BY <2>4, <2>5
  <1>6. CASE Closes
    <2>1. Somewhere' = Somewhere /\ made' = made
      BY <1>6 DEF Closes, Somewhere, InChannel
    <2> QED
      BY <2>1 DEF Carried
  <1>7. CASE Drops
    <2>1. OnTheWay = <<>>
      BY <1>7, NothingLeft DEF Drops
    <2>2. Somewhere' = Somewhere /\ made' = made
      BY <1>7, <2>1 DEF Drops, Somewhere, InChannel
    <2> QED
      BY <2>2 DEF Carried
  <1> QED
    BY <1>2, <1>3, <1>4, <1>5, <1>6, <1>7, SampleSteps

SampleInv ==
    \/ pc = "failed" \/ missed # {}
    \/ \A i \in 1 .. made : \E s \in Somewhere : s.id = i

LEMMA NextSample ==
    ASSUME LoopInv, GenInv, ChannelInv, DataInv, ExecInv, SampleInv,
           [Next]_vars
    PROVE  SampleInv'
  <1> SUFFICES ASSUME pc' # "failed", missed' = {}
               PROVE  \A i \in 1 .. made' : \E s \in Somewhere' : s.id = i
    BY DEF SampleInv
  <1>1. pc # "failed" /\ missed = {}
    BY Onward
  <1>2. \A i \in 1 .. made : \E s \in Somewhere : s.id = i
    BY <1>1 DEF SampleInv
  <1>3. /\ Carried
        /\ \/ made' = made
           \/ made' = made + 1 /\ \E s \in Somewhere' : s.id = made + 1
    BY <1>1, SamplesCarried
  <1>4. ASSUME NEW i \in 1 .. made
        PROVE  \E s \in Somewhere' : s.id = i
    <2>1. PICK s \in Somewhere : s.id = i
      BY <1>2
    <2>2. s # NoSample
      <3>1. i # 0
        BY ConstantFacts DEF ChannelInv
      <3> QED
        BY <2>1, <3>1 DEF NoSample
    <2> QED
      BY <1>3, <2>1, <2>2 DEF Carried
  <1>5. made' = made + 1 => \A i \in 1 .. made' : i \in 1 .. made \/ i = made + 1
    BY ConstantFacts DEF ChannelInv
  <1> QED
    BY <1>3, <1>4, <1>5

LEMMA SampleHolds == Spec => []SampleInv
  <1>1. Init => SampleInv
    BY DEF Init, SampleInv
  <1> QED
    BY <1>1, NextSample, LoopHolds, GensHold, ChannelsHold, DataHold,
       ExecHolds, PTL DEF Spec

(* No sample vanishes: not at a reload in time, nor at a shutdown.         *)
THEOREM SamplesAreAccounted == Spec => []SampleAccounted
  <1>1. SampleInv => SampleAccounted
    BY DEF SampleInv, SampleAccounted, Somewhere, InChannel
  <1> QED
    BY <1>1, SampleHolds, PTL

-----------------------------------------------------------------------------
(* What comes in time is aggregated                                        *)

(* A sample handled in time is in the buffer until a flush; a sample still *)
(* in the channel is too late if its minute has been aggregated; and of a  *)
(* minute that has been, those in time are in the aggregate.               *)
AggInv ==
    /\ inTime \subseteq Elements(buffer) \cup stored \cup lost
    /\ \A s \in InChannel :
          s # NoSample /\ s.minute \in closed => s.minute < lastAgg
    /\ \A s \in inTime :
          s.minute \in closed =>
              s \in aggregated \/ s \in lost \/ s.task \notin tasks

LEMMA InitAgg == Init => AggInv
  BY DEF Init, AggInv, InChannel, OnTheWay, Elements

LEMMA NextAgg ==
    ASSUME LoopInv, GenInv, ChannelInv, DataInv, AggInv, [Next]_vars
    PROVE  AggInv'
  <1>1. /\ buffer \in Seq(Samples) /\ OnTheWay \in Seq(Results)
        /\ inTime \subseteq Samples /\ minute \in Nat
        /\ \A c \in closed : c \in Nat /\ c < minute
        /\ lastAgg \in Nat
    BY QueueType, ConstantFacts DEF DataInv, LoopInv
  <1>2. CASE Rests
    BY <1>2 DEF Rests, AggInv, InChannel
  <1>3. CASE Writes
    <2>1. /\ stored \subseteq stored' /\ lost \subseteq lost'
          /\ stored' \cup lost' = stored \cup lost \cup Elements(buffer)
          /\ UNCHANGED <<inTime, aggregated, closed, lastAgg, tasks>>
          /\ InChannel' = InChannel \/ InChannel' = {}
      <3>1. InChannel' = InChannel \/ InChannel' = {}
        BY <1>3 DEF Writes, InChannel, Elements
      <3> QED
        BY <1>3, <3>1 DEF Writes, Wrote
    <2> QED
      BY <2>1 DEF AggInv
  <1>4. CASE Probes
    <2>1. PICK r \in Results :
              /\ OnTheWay' = Append(OnTheWay, r)
              /\ r.sample = NoSample \/ r.sample.minute = minute
      BY <1>4 DEF Probes
    <2>2. Elements(OnTheWay') = Elements(OnTheWay) \cup {r}
      BY <1>1, <2>1, ElementsOfAppend
    <2>3. InChannel' = InChannel \cup {r.sample}
      BY <2>2 DEF InChannel
    <2>4. r.sample # NoSample => r.sample.minute \notin closed
      BY <1>1, <2>1
    <2>5. UNCHANGED <<buffer, stored, lost, inTime, aggregated, closed,
                      lastAgg, tasks>>
      BY <1>4 DEF Probes
    <2> QED
      BY <2>3, <2>4, <2>5 DEF AggInv
  <1>5. CASE Collects
    <2> DEFINE s == Head(OnTheWay).sample
    <2>1. /\ OnTheWay # <<>> /\ OnTheWay' = Tail(OnTheWay)
          /\ UNCHANGED <<stored, lost, aggregated, closed, lastAgg, tasks>>
          /\ inTime' \subseteq inTime \cup ({s} \cap Timely)
          /\ s = NoSample => buffer' = buffer
          /\ s # NoSample => buffer' = Append(buffer, s)
      BY <1>5 DEF Collects
    <2>2. /\ Head(OnTheWay) \in Results
          /\ Elements(OnTheWay) = {Head(OnTheWay)} \cup Elements(OnTheWay')
      BY <1>1, <2>1, ElementsOfTail
    <2>3. s \in Samples \cup {NoSample} /\ InChannel = {s} \cup InChannel'
      BY <2>2 DEF Results, InChannel
    <2> HIDE DEF s
    <2>4. NoSample \notin Samples
      BY DEF NoSample, Samples
    <2>5. Elements(buffer) \subseteq Elements(buffer')
      <3>1. CASE s = NoSample
        BY <2>1, <3>1
      <3>2. CASE s # NoSample
        <4>1. s \in Samples /\ buffer' = Append(buffer, s)
          BY <2>1, <2>3, <3>2
        <4>2. Elements(Append(buffer, s)) = Elements(buffer) \cup {s}
          BY <1>1, <4>1, ElementsOfAppend
        <4> QED
          BY <4>1, <4>2
      <3> QED
        BY <3>1, <3>2
    <2>6. ASSUME s \in inTime', s \notin inTime
          PROVE  s \in Elements(buffer') /\ s.minute \notin closed
      <3>1. s \in Timely /\ s \in Samples /\ s # NoSample
        BY <2>1, <2>4, <2>6 DEF Timely
      <3>2. s \in Elements(buffer')
        <4>1. buffer' = Append(buffer, s)
          BY <2>1, <3>1
        <4>2. Elements(Append(buffer, s)) = Elements(buffer) \cup {s}
          BY <1>1, <3>1, ElementsOfAppend
        <4> QED
          BY <4>1, <4>2
      <3>3. s.minute >= lastAgg /\ s.minute \in Nat
        BY <3>1, ConstantFacts DEF Timely, Samples
      <3>4. s.minute \in closed => s.minute < lastAgg
        BY <2>3, <3>1 DEF AggInv
      <3> QED
        BY <1>1, <3>2, <3>3, <3>4
    <2>7. inTime' \subseteq Elements(buffer') \cup stored' \cup lost'
      BY <2>1, <2>5, <2>6 DEF AggInv
    <2>8. \A x \in InChannel' :
             x # NoSample /\ x.minute \in closed' => x.minute < lastAgg'
      BY <2>1, <2>3 DEF AggInv
    <2>9. \A x \in inTime' :
             x.minute \in closed' =>
                 x \in aggregated' \/ x \in lost' \/ x.task \notin tasks'
      BY <2>1, <2>6 DEF AggInv
    <2> QED
      BY <2>7, <2>8, <2>9 DEF AggInv
  <1>6. CASE Closes
    <2>1. /\ UNCHANGED <<buffer, stored, lost, inTime, tasks, OnTheWay>>
          /\ buffer = <<>> /\ lastAgg' = period
          /\ closed' = closed \cup {period - 1}
          /\ aggregated' = aggregated \cup
                 {s \in stored : s.minute = period - 1 /\ s.task \in tasks}
      BY <1>6 DEF Closes
    <2>2. period \in Nat /\ period - 1 < period /\ lastAgg < period
      BY <1>6, ConstantFacts DEF Closes
    <2>3. ASSUME NEW s \in InChannel', s # NoSample, s.minute \in closed'
          PROVE  s.minute < lastAgg'
      <3>1. s \in InChannel
        BY <2>1, <2>3 DEF InChannel
      <3>2. CASE s.minute = period - 1
        BY <2>1, <2>2, <3>2
      <3>3. CASE s.minute \in closed
        <4>1. s.minute < lastAgg /\ s.minute \in Nat
          BY <1>1, <2>3, <3>1, <3>3 DEF AggInv
        <4> QED
          BY <1>1, <2>1, <2>2, <4>1
      <3> QED
        BY <2>1, <2>3, <3>2, <3>3
    <2>4. ASSUME NEW s \in inTime', s.minute \in closed'
          PROVE  s \in aggregated' \/ s \in lost' \/ s.task \notin tasks'
      <3>1. s \in inTime /\ (s \in stored \/ s \in lost)
        BY <2>1, <2>4, NoElements DEF AggInv
      <3>2. CASE s.minute = period - 1
        BY <2>1, <3>1, <3>2
      <3>3. CASE s.minute \in closed
        BY <2>1, <3>1, <3>3 DEF AggInv
      <3> QED
        BY <2>1, <2>4, <3>2, <3>3
    <2> QED
      BY <2>1, <2>3, <2>4 DEF AggInv
  <1>7. CASE Drops
    <2>1. /\ UNCHANGED <<buffer, stored, lost, inTime, aggregated, closed>>
          /\ tasks' \subseteq tasks /\ InChannel' = {}
      BY <1>7 DEF Drops, InChannel, Elements
    <2> QED
      BY <2>1 DEF AggInv
  <1> QED
    BY <1>2, <1>3, <1>4, <1>5, <1>6, <1>7, SampleSteps

LEMMA AggHolds == Spec => []AggInv
  BY InitAgg, NextAgg, LoopHolds, GensHold, ChannelsHold, DataHold, PTL
     DEF Spec

(* A sample handled before its minute is aggregated is in that aggregate.  *)
THEOREM SamplesInTimeCount == Spec => []InTimeIsAggregated
  <1>1. AggInv => InTimeIsAggregated
    BY DEF AggInv, InTimeIsAggregated
  <1> QED
    BY <1>1, AggHolds, PTL
=============================================================================
