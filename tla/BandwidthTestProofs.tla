------------------------ MODULE BandwidthTestProofs ------------------------
(***************************************************************************)
(* Theorems about BandwidthTest for any number of agents and all values of *)
(* the delays and timeouts: nobody ends another agent's test; an agent is  *)
(* in one place only; the queue is in the order of the requests.  The      *)
(* first needs no invariant: it says of each step where the slot may go.   *)
(***************************************************************************)
EXTENDS BandwidthTest, SequenceTheorems, WellFoundedInduction,
        NaturalsInduction, TLAPS

Kept == current # NoAgent /\ current' # current =>
            slotAge > TestTimeout \/ serving[current] > 0

(* A request takes the slot from a holder only if its test timed out.      *)
LEMMA RequestKeeps ==
    ASSUME NEW a \in Agents, RequestTest(a)
    PROVE  Kept
  <1> SUFFICES ASSUME current # NoAgent, current' # current,
                      ~(slotAge > TestTimeout)
               PROVE  FALSE
    BY DEF Kept
  <1>1. HolderKept = current
    BY DEF HolderKept
  <1>2. CASE Proceeds(a)
    BY <1>1, <1>2 DEF Proceeds, RequestTest
  <1>3. CASE ~Proceeds(a)
    BY <1>1, <1>3 DEF RequestTest
  <1> QED
    BY <1>2, <1>3

(* The completion of a test takes the slot from the agent it is for.       *)
LEMMA CompletionKeeps ==
    ASSUME NEW a \in Agents, StartStreaming(a)
    PROVE  Kept
  BY DEF Kept, StartStreaming, CompleteTest, slotVars

(* No step but these two writes current.                                   *)
LEMMA OthersKeep ==
    ASSUME NEW a \in Agents,
           Agent(a) \/ CheckDownload(a) \/ CheckLateDownload(a)
             \/ DropDownload(a)
    PROVE  current' = current
  <1>1. CASE Agent(a)
    BY <1>1 DEF Agent, Begin, HandleDelay, Wake, End, slotVars
  <1>2. CASE CheckDownload(a) \/ CheckLateDownload(a) \/ DropDownload(a)
    BY <1>2 DEF CheckDownload, CheckLateDownload, DropDownload, slotVars
  <1> QED
    BY <1>1, <1>2

(* Nobody ends another agent's test before its timeout: neither another    *)
(* agent's requests nor the completion of another's download, even if it   *)
(* was let in before its own slot passed on.                               *)
THEOREM OnlyOwnTestEndsAlways == Spec => OnlyOwnTestEnds
  <1>1. ASSUME [Next]_vars PROVE Kept
    <2>1. CASE Tick
      BY <2>1 DEF Tick, AgeSlot, Kept
    <2>2. CASE UNCHANGED vars
      BY <2>2 DEF vars, slotVars, Kept
    <2>3. ASSUME NEW a \in Agents, Agent(a) \/ Server(a) PROVE Kept
      <3>1. CASE HandleRequest(a) \/ HandleLateRequest(a)
        BY <3>1, RequestKeeps DEF HandleRequest, HandleLateRequest
      <3>2. CASE StartStreaming(a)
        BY <3>2, CompletionKeeps
      <3>3. CASE Agent(a) \/ CheckDownload(a) \/ CheckLateDownload(a)
                 \/ DropDownload(a)
        BY <3>3, OthersKeep DEF Kept
      <3> QED
        BY <2>3, <3>1, <3>2, <3>3 DEF Server
    <2> QED
      BY <1>1, <2>1, <2>2, <2>3 DEF Next
  <1> QED
    BY <1>1, PTL DEF Spec, OnlyOwnTestEnds, Kept

-----------------------------------------------------------------------------
(* What Retained gives, for every sequence: a sequence of elements of K,   *)
(* in the order they have in q.  The induction over q takes the least      *)
(* prefix for which a fact would fail.                                     *)

(* A set of numbers that has 0 and goes on from each to the next has all   *)
(* up to N.                                                                *)
LEMMA UpTo ==
    ASSUME NEW N \in Nat, NEW P \in SUBSET (0 .. N), 0 \in P,
           \A n \in 1 .. N : n - 1 \in P => n \in P
    PROVE  N \in P
  <1> SUFFICES ASSUME N \notin P PROVE FALSE
    OBVIOUS
  <1> DEFINE T == (0 .. N) \ P
             R == OpToRel(<, Nat)
  <1>1. T \subseteq Nat /\ N \in T
    OBVIOUS
  <1>2. PICK m \in T : \A k \in T : ~(<<k, m>> \in R)
    <2>1. T # {} /\ IsWellFoundedOn(R, Nat)
      BY <1>1, NatLessThanWellFounded
    <2> HIDE DEF T, R
    <2> QED
      BY <1>1, <2>1, WFMin
  <1>3. m \in 1 .. N /\ m - 1 \in 0 .. N
    OBVIOUS
  <1>4. m - 1 \in T
    BY <1>3
  <1>5. <<m - 1, m>> \in R
    BY <1>3 DEF OpToRel
  <1> QED
    BY <1>2, <1>4, <1>5

(* The recursion has a solution, and Retained is what it ends with.        *)
Filters(f, q, K) ==
    f = [n \in 0 .. Len(q) |->
            IF n = 0 THEN <<>>
            ELSE IF q[n] \in K THEN Append(f[n - 1], q[n])
            ELSE f[n - 1]]

(* f is that solution, for the first n elements.                           *)
FiltersUpTo(f, q, K, n) ==
    /\ f[0] = <<>>
    /\ \A k \in 1 .. n : f[k] = IF q[k] \in K THEN Append(f[k - 1], q[k])
                                ELSE f[k - 1]

LEMMA RetainedIsFiltered ==
    ASSUME NEW S, NEW q \in Seq(S), NEW K
    PROVE  \E f : FiltersUpTo(f, q, K, Len(q)) /\ Retained(q, K) = f[Len(q)]
  <1> DEFINE N == Len(q)
             P == {n \in 0 .. N : \E f : FiltersUpTo(f, q, K, n)}
  <1>1. N \in Nat
    OBVIOUS
  <1>2. 0 \in P
    <2>1. FiltersUpTo([k \in {0} |-> <<>>], q, K, 0)
      BY DEF FiltersUpTo
    <2> QED
      BY <1>1, <2>1
  <1>3. ASSUME NEW n \in 1 .. N, n - 1 \in P
        PROVE  n \in P
    <2>1. PICK f : FiltersUpTo(f, q, K, n - 1)
      BY <1>3
    <2> DEFINE next == IF q[n] \in K THEN Append(f[n - 1], q[n]) ELSE f[n - 1]
               g == [k \in 0 .. n |-> IF k = n THEN next ELSE f[k]]
    <2>2. g[n] = next /\ \A k \in 0 .. n - 1 : g[k] = f[k]
      BY <1>1
    <2>3. \A k \in 1 .. n : k = n \/ (k \in 1 .. n - 1 /\ k - 1 \in 0 .. n - 1)
      BY <1>1
    <2>4. 0 \in 0 .. n - 1 /\ n - 1 \in 0 .. n - 1 /\ \A k \in 1 .. n - 1 : k \in 0 .. n - 1
      BY <1>1
    <2> HIDE DEF g
    <2>5. g[0] = <<>>
      BY <2>1, <2>2, <2>4 DEF FiltersUpTo
    <2>6. \A k \in 1 .. n : g[k] = IF q[k] \in K THEN Append(g[k - 1], q[k])
                                  ELSE g[k - 1]
      <3> TAKE k \in 1 .. n
      <3>1. CASE k = n
        BY <2>2, <2>4, <3>1
      <3>2. CASE k # n
        <4>1. k \in 1 .. n - 1 /\ k - 1 \in 0 .. n - 1 /\ k \in 0 .. n - 1
          BY <2>3, <2>4, <3>2
        <4>2. f[k] = IF q[k] \in K THEN Append(f[k - 1], q[k]) ELSE f[k - 1]
          BY <2>1, <4>1 DEF FiltersUpTo
        <4>3. g[k] = f[k] /\ g[k - 1] = f[k - 1]
          BY <2>2, <4>1
        <4> QED
          BY <4>2, <4>3
      <3> QED
        BY <3>1, <3>2
    <2>7. FiltersUpTo(g, q, K, n)
      BY <2>5, <2>6 DEF FiltersUpTo
    <2> QED
      BY <1>1, <2>7
  <1>4. N \in P
    <2> HIDE DEF N, P
    <2>1. P \in SUBSET (0 .. N)
      BY DEF P
    <2> QED
      BY <1>1, <1>2, <1>3, <2>1, UpTo
  <1>5. PICK f : FiltersUpTo(f, q, K, N)
    BY <1>4
  <1> DEFINE h == [n \in 0 .. N |-> f[n]]
  <1>6. Filters(h, q, K)
    <2>1. \A n \in 0 .. N : n = 0 \/ (n \in 1 .. N /\ n - 1 \in 0 .. N)
      BY <1>1
    <2>2. ASSUME NEW n \in 0 .. N
          PROVE  h[n] = IF n = 0 THEN <<>>
                        ELSE IF q[n] \in K THEN Append(h[n - 1], q[n])
                        ELSE h[n - 1]
      BY <1>5, <2>1 DEF FiltersUpTo
    <2> QED
      BY <2>2 DEF Filters
  <1> DEFINE first == CHOOSE g : Filters(g, q, K)
  <1>7. Filters(first, q, K)
    BY <1>6
  <1>8. Retained(q, K) = first[N]
    BY DEF Retained, Filters
  <1>9. FiltersUpTo(first, q, K, N)
    <2>1. 0 \in 0 .. N /\ \A n \in 1 .. N : n \in 0 .. N /\ n # 0
      BY <1>1
    <2> HIDE DEF first
    <2> QED
      BY <1>7, <2>1 DEF Filters, FiltersUpTo
  <1> QED
    BY <1>8, <1>9

(* Elements of q that are in K, in their order.                            *)
InOrder(r, q, K) ==
    \E e \in [1 .. Len(r) -> 1 .. Len(q)] :
        /\ \A i, j \in 1 .. Len(r) : i < j => e[i] < e[j]
        /\ \A i \in 1 .. Len(r) : r[i] = q[e[i]] /\ r[i] \in K

(* The same of the first n elements of q.                                  *)
InOrderUpTo(r, q, K, n) ==
    \E e \in [1 .. Len(r) -> 1 .. n] :
        /\ \A i, j \in 1 .. Len(r) : i < j => e[i] < e[j]
        /\ \A i \in 1 .. Len(r) : r[i] = q[e[i]] /\ r[i] \in K

LEMMA RetainedInOrder ==
    ASSUME NEW S, NEW q \in Seq(S), NEW K
    PROVE  /\ Retained(q, K) \in Seq(S)
           /\ Len(Retained(q, K)) <= Len(q)
           /\ InOrder(Retained(q, K), q, K)
  <1> DEFINE N == Len(q)
  <1>1. N \in Nat /\ \A n \in 1 .. N : q[n] \in S
    OBVIOUS
  <1>2. PICK f : FiltersUpTo(f, q, K, N) /\ Retained(q, K) = f[N]
    BY RetainedIsFiltered
  <1> DEFINE Good(n) == /\ f[n] \in Seq(S) /\ Len(f[n]) <= n
                        /\ InOrderUpTo(f[n], q, K, n)
             P == {n \in 0 .. N : Good(n)}
  <1> HIDE DEF N
  <1>3. 0 \in P
    <2>1. f[0] = <<>> /\ Len(<<>>) = 0 /\ <<>> \in Seq(S)
      BY <1>2, EmptySeq DEF FiltersUpTo
    <2>2. InOrderUpTo(<<>>, q, K, 0)
      <3>1. [i \in {} |-> 0] \in [1 .. Len(<<>>) -> 1 .. 0]
        BY <2>1
      <3>2. 1 .. Len(<<>>) = {}
        BY <2>1
      <3> QED
        BY <3>1, <3>2 DEF InOrderUpTo
    <2>3. Good(0)
      BY <2>1, <2>2
    <2>4. 0 \in 0 .. N
      BY <1>1
    <2> HIDE DEF Good
    <2> QED
      BY <2>3, <2>4
  <1>4. ASSUME NEW n \in 1 .. N, n - 1 \in P
        PROVE  n \in P
    <2> DEFINE a == f[n - 1]
               m == Len(a)
    <2>1. a \in Seq(S) /\ m <= n - 1 /\ InOrderUpTo(a, q, K, n - 1)
      BY <1>4
    <2>2. m \in Nat /\ n \in Nat
      BY <1>1, <2>1
    <2>3. PICK e \in [1 .. m -> 1 .. n - 1] :
              /\ \A i, j \in 1 .. m : i < j => e[i] < e[j]
              /\ \A i \in 1 .. m : a[i] = q[e[i]] /\ a[i] \in K
      BY <2>1 DEF InOrderUpTo
    <2>4. f[n] = IF q[n] \in K THEN Append(a, q[n]) ELSE a
      BY <1>2 DEF FiltersUpTo
    <2>5. q[n] \in S
      BY <1>1
    <2> HIDE DEF a, m, P
    <2>6. Good(n)
      <3>1. CASE q[n] \notin K
        <4>1. e \in [1 .. m -> 1 .. n]
          BY <2>2
        <4>2. InOrderUpTo(a, q, K, n)
          BY <2>3, <4>1 DEF InOrderUpTo, m
        <4>3. Len(a) <= n
          BY <2>1, <2>2 DEF m
        <4> QED
          BY <2>1, <2>4, <3>1, <4>2, <4>3
      <3>2. CASE q[n] \in K
        <4> DEFINE b == Append(a, q[n])
                   d == [i \in 1 .. m + 1 |-> IF i = m + 1 THEN n ELSE e[i]]
        <4>1. /\ b \in Seq(S) /\ Len(b) = m + 1 /\ b[m + 1] = q[n]
              /\ \A i \in 1 .. m : b[i] = a[i]
          BY <2>1, <2>5, AppendProperties DEF m
        <4>2. /\ \A i \in 1 .. m + 1 : i = m + 1 \/ (i \in 1 .. m /\ i # m + 1)
              /\ m + 1 \in 1 .. m + 1
          BY <2>2
        <4>3. d[m + 1] = n /\ \A i \in 1 .. m : d[i] = e[i] /\ e[i] \in 1 .. n - 1
          BY <2>2
        <4>4. d \in [1 .. m + 1 -> 1 .. n]
          BY <2>2
        <4> HIDE DEF b, d
        <4>5. \A i, j \in 1 .. m + 1 : i < j => d[i] < d[j]
          <5> TAKE i, j \in 1 .. m + 1
          <5> HAVE i < j
          <5>1. i \in 1 .. m
            BY <2>2
          <5>2. CASE j = m + 1
            BY <1>1, <4>3, <5>1, <5>2
          <5>3. CASE j \in 1 .. m
            BY <2>3, <4>3, <5>1, <5>3
          <5> QED
            BY <4>2, <5>2, <5>3
        <4>6. \A i \in 1 .. m + 1 : b[i] = q[d[i]] /\ b[i] \in K
          <5> TAKE i \in 1 .. m + 1
          <5>1. CASE i = m + 1
            BY <3>2, <4>1, <4>3, <5>1
          <5>2. CASE i \in 1 .. m
            BY <2>3, <4>1, <4>3, <5>2
          <5> QED
            BY <4>2, <5>1, <5>2
        <4>7. InOrderUpTo(b, q, K, n)
          BY <4>1, <4>4, <4>5, <4>6 DEF InOrderUpTo
        <4>8. Len(b) <= n
          BY <2>1, <2>2, <4>1
        <4> QED
          BY <2>4, <3>2, <4>1, <4>7, <4>8 DEF b
      <3> QED
        BY <3>1, <3>2
    <2> QED
      BY <1>1, <2>6 DEF P
  <1>5. N \in P
    <2> HIDE DEF P
    <2>1. P \in SUBSET (0 .. N)
      BY DEF P
    <2> QED
      BY <1>1, <1>3, <1>4, <2>1, UpTo
  <1> QED
    BY <1>2, <1>5 DEF InOrder, InOrderUpTo, N

-----------------------------------------------------------------------------
(* The queue                                                               *)

(* No agent is in the queue twice, and who is ahead asked earlier.         *)
Orderly(q) ==
    /\ \A i, j \in 1 .. Len(q) : q[i].agent = q[j].agent => i = j
    /\ \A i, j \in 1 .. Len(q) : i < j => q[i].age >= q[j].age

(* What holds of all in a queue also holds of a part of it.                *)
LEMMA OrderlyPart ==
    ASSUME NEW q \in Seq(Waiters), Orderly(q), NEW K
    PROVE  /\ Retained(q, K) \in Seq(Waiters)
           /\ Orderly(Retained(q, K))
           /\ \A i \in 1 .. Len(Retained(q, K)) :
                 /\ Retained(q, K)[i] \in K
                 /\ \E j \in 1 .. Len(q) : Retained(q, K)[i] = q[j]
  <1> DEFINE r == Retained(q, K)
  <1>1. r \in Seq(Waiters) /\ InOrder(r, q, K)
    BY RetainedInOrder
  <1> HIDE DEF r
  <1>2. PICK e \in [1 .. Len(r) -> 1 .. Len(q)] :
            /\ \A i, j \in 1 .. Len(r) : i < j => e[i] < e[j]
            /\ \A i \in 1 .. Len(r) : r[i] = q[e[i]] /\ r[i] \in K
    BY <1>1 DEF InOrder
  <1>3. Len(r) \in Nat /\ Len(q) \in Nat
    BY <1>1
  <1>4. \A i \in 1 .. Len(r) : e[i] \in 1 .. Len(q)
    BY <1>2
  <1>5. Orderly(r)
    <2>1. ASSUME NEW i \in 1 .. Len(r), NEW j \in 1 .. Len(r),
                 r[i].agent = r[j].agent
          PROVE  i = j
      <3>1. e[i] = e[j]
        BY <1>2, <1>4, <2>1 DEF Orderly
      <3>2. ~(i < j) /\ ~(j < i)
        BY <1>2, <1>3, <1>4, <3>1
      <3> QED
        BY <1>3, <3>2
    <2>2. ASSUME NEW i \in 1 .. Len(r), NEW j \in 1 .. Len(r), i < j
          PROVE  r[i].age >= r[j].age
      <3>1. e[i] < e[j] /\ r[i] = q[e[i]] /\ r[j] = q[e[j]]
        BY <1>2, <2>2
      <3> QED
        BY <1>4, <3>1 DEF Orderly
    <2> QED
      BY <2>1, <2>2 DEF Orderly
  <1>6. \A i \in 1 .. Len(r) : /\ r[i] \in K
                               /\ \E j \in 1 .. Len(q) : r[i] = q[j]
    BY <1>2, <1>4
  <1> QED
    BY <1>1, <1>5, <1>6 DEF r

(* Who asks last goes last.                                                *)
LEMMA OrderlyAppend ==
    ASSUME NEW q \in Seq(Waiters), Orderly(q), NEW a \in Agents,
           \A i \in 1 .. Len(q) : q[i].agent # a
    PROVE  LET r == Append(q, [agent |-> a, age |-> 0])
           IN  /\ r \in Seq(Waiters) /\ Orderly(r)
               /\ \A i \in 1 .. Len(r) : \/ i \in 1 .. Len(q) /\ r[i] = q[i]
                                         \/ r[i].agent = a
  <1> DEFINE w == [agent |-> a, age |-> 0]
             r == Append(q, w)
             n == Len(q)
  <1>1. w \in Waiters /\ w.agent = a /\ w.age = 0
    BY SlotAssumption DEF Waiters
  <1> HIDE DEF w
  <1>2. n \in Nat /\ \A i \in 1 .. n : q[i].age \in Nat /\ q[i].age >= 0
    <2>1. \A i \in 1 .. n : q[i] \in Waiters
      OBVIOUS
    <2>2. \A x \in Waiters : x.age \in Nat /\ x.age >= 0
      BY SlotAssumption DEF Waiters
    <2> QED
      BY <2>1, <2>2
  <1>3. /\ r \in Seq(Waiters) /\ Len(r) = n + 1 /\ r[n + 1] = w
        /\ \A i \in 1 .. n : r[i] = q[i]
    BY <1>1, AppendProperties
  <1>4. \A i \in 1 .. n + 1 : i \in 1 .. n \/ i = n + 1
    BY <1>2
  <1> HIDE DEF r, n
  <1>5. ASSUME NEW i \in 1 .. n + 1, NEW j \in 1 .. n + 1, r[i].agent = r[j].agent
        PROVE  i = j
    BY <1>1, <1>3, <1>4, <1>5 DEF Orderly, n
  <1>6. ASSUME NEW i \in 1 .. n + 1, NEW j \in 1 .. n + 1, i < j
        PROVE  r[i].age >= r[j].age
    <2>1. i \in 1 .. n
      BY <1>2, <1>6
    <2>2. CASE j = n + 1
      BY <1>1, <1>2, <1>3, <2>1, <2>2
    <2>3. CASE j \in 1 .. n
      BY <1>3, <1>6, <2>1, <2>3 DEF Orderly, n
    <2> QED
      BY <1>4, <2>2, <2>3
  <1>7. Orderly(r)
    BY <1>3, <1>5, <1>6 DEF Orderly
  <1>8. \A i \in 1 .. Len(r) : \/ i \in 1 .. n /\ r[i] = q[i]
                              \/ r[i].agent = a
    BY <1>1, <1>3, <1>4
  <1> QED
    BY <1>3, <1>7, <1>8 DEF r, w, n

(* The one that is promoted is not in the rest of the queue.               *)
LEMMA OrderlyTail ==
    ASSUME NEW q \in Seq(Waiters), Orderly(q), q # <<>>
    PROVE  /\ Tail(q) \in Seq(Waiters) /\ Orderly(Tail(q))
           /\ Head(q).agent \in Agents
           /\ \A i \in 1 .. Len(Tail(q)) : Tail(q)[i].agent # Head(q).agent
  <1> DEFINE r == Tail(q)
             n == Len(q)
  <1>1. n \in Nat /\ n > 0 /\ Head(q) = q[1] /\ q[1] \in Waiters
    BY EmptySeq, HeadTailProperties
  <1>2. /\ r \in Seq(Waiters) /\ Len(r) = n - 1
        /\ \A i \in 1 .. n - 1 : r[i] = q[i + 1]
    BY <1>1, HeadTailProperties
  <1> HIDE DEF r, n
  <1>3. \A i \in 1 .. n - 1 : i + 1 \in 1 .. n /\ i + 1 # 1 /\ 1 \in 1 .. n
    BY <1>1
  <1>4. Orderly(r)
    <2>1. ASSUME NEW i \in 1 .. n - 1, NEW j \in 1 .. n - 1,
                 r[i].agent = r[j].agent
          PROVE  i = j
      <3>1. i + 1 = j + 1
        BY <1>2, <1>3, <2>1 DEF Orderly, n
      <3> QED
        BY <1>1, <3>1
    <2>2. ASSUME NEW i \in 1 .. n - 1, NEW j \in 1 .. n - 1, i < j
          PROVE  r[i].age >= r[j].age
      <3>1. i + 1 < j + 1
        BY <1>1, <2>2
      <3> QED
        BY <1>2, <1>3, <3>1 DEF Orderly, n
    <2> QED
      BY <1>2, <2>1, <2>2 DEF Orderly
  <1>5. ASSUME NEW i \in 1 .. n - 1 PROVE r[i].agent # q[1].agent
    BY <1>2, <1>3 DEF Orderly, n
  <1>6. q[1].agent \in Agents
    BY <1>1 DEF Waiters
  <1> QED
    BY <1>1, <1>2, <1>4, <1>5, <1>6 DEF r

(* A queue with nobody in it who holds the slot, if c does.                *)
Behind(q, c) ==
    /\ q \in Seq(Waiters)
    /\ Orderly(q)
    /\ \A i \in 1 .. Len(q) : q[i].agent # c

LEMMA ConstantTypes ==
    /\ TestTimeout \in Nat /\ MaxDelay \in Nat /\ BaseDelay \in Nat
    /\ TestDelay \in Nat /\ PositionDelay \in Nat
    /\ TaskTimeout \in Nat /\ MaxRetries \in Nat /\ MaxServing \in Nat
  BY SlotAssumption, TestAssumption

LEMMA BehindPart ==
    ASSUME NEW q, NEW c, Behind(q, c), NEW K
    PROVE  Behind(Retained(q, K), c)
  BY OrderlyPart DEF Behind

LEMMA BehindWithout ==
    ASSUME NEW q, NEW c, Behind(q, c), NEW a
    PROVE  Behind(Without(q, a), a) /\ Behind(Without(q, a), c)
  <1> DEFINE K == {w \in Waiters : w.agent # a}
  <1>1. Behind(Without(q, a), c)
    BY BehindPart DEF Without
  <1>2. \A i \in 1 .. Len(Without(q, a)) : Without(q, a)[i] \in K
    BY OrderlyPart DEF Behind, Without
  <1>3. \A w \in K : w.agent # a
    OBVIOUS
  <1> HIDE DEF K
  <1> QED
    BY <1>1, <1>2, <1>3 DEF Behind

(* The slot and the queue                                                  *)
SlotInv ==
    /\ current \in Agents \cup {NoAgent}
    /\ slotAge \in 0 .. TestTimeout + 1
    /\ Behind(waiting, current)

LEMMA KeptTypes ==
    ASSUME SlotInv
    PROVE  /\ HolderKept \in {current, NoAgent}
           /\ Behind(WaitersKept, current)
           /\ WaitersKept \in Seq(Waiters)
           /\ \A a \in Agents : /\ Behind(OthersAhead(a), current)
                                /\ Behind(OthersAhead(a), a)
                                /\ OthersAhead(a) \in Seq(Waiters)
  <1>1. Behind(WaitersKept, current)
    BY BehindPart DEF WaitersKept, SlotInv
  <1>2. HolderKept \in {current, NoAgent}
    BY DEF HolderKept
  <1>3. ASSUME NEW a \in Agents
        PROVE  Behind(OthersAhead(a), current) /\ Behind(OthersAhead(a), a)
    BY <1>1, BehindWithout DEF OthersAhead
  <1> QED
    BY <1>1, <1>2, <1>3 DEF Behind

LEMMA RequestSlot ==
    ASSUME SlotInv, NEW a \in Agents, RequestTest(a)
    PROVE  SlotInv'
  <1>1. a # NoAgent
    BY AgentsAssumption
  <1>2. slotAge' \in 0 .. TestTimeout + 1
    BY ConstantTypes DEF RequestTest, SlotInv
  <1>3. CASE HolderKept = a
    <2>1. current = a /\ current' = a /\ waiting' = WaitersKept
      BY <1>1, <1>3, KeptTypes DEF RequestTest, Proceeds
    <2> QED
      BY <1>2, <2>1, KeptTypes DEF SlotInv
  <1>4. CASE HolderKept = NoAgent
    <2>1. current' = a /\ waiting' = OthersAhead(a)
      BY <1>1, <1>4 DEF RequestTest, Proceeds
    <2> QED
      BY <1>2, <2>1, KeptTypes DEF SlotInv
  <1>5. CASE HolderKept # a /\ HolderKept # NoAgent
    <2> DEFINE q == OthersAhead(a)
               r == Append(q, [agent |-> a, age |-> 0])
    <2>1. /\ current # a /\ current' = current
          /\ waiting' = r
      BY <1>5, KeptTypes DEF RequestTest, Proceeds
    <2>2. /\ q \in Seq(Waiters) /\ Orderly(q)
          /\ \A i \in 1 .. Len(q) : q[i].agent # a
          /\ \A i \in 1 .. Len(q) : q[i].agent # current
      BY KeptTypes DEF Behind
    <2> HIDE DEF q
    <2>3. /\ r \in Seq(Waiters) /\ Orderly(r)
          /\ \A i \in 1 .. Len(r) : \/ i \in 1 .. Len(q) /\ r[i] = q[i]
                                    \/ r[i].agent = a
      BY <2>2, OrderlyAppend
    <2> HIDE DEF r
    <2>4. Behind(r, current)
      BY <2>1, <2>2, <2>3 DEF Behind
    <2> QED
      BY <1>2, <2>1, <2>4 DEF SlotInv
  <1> QED
    BY <1>3, <1>4, <1>5

LEMMA CompleteSlot ==
    ASSUME SlotInv, NEW a \in Agents, CompleteTest(a)
    PROVE  SlotInv'
  <1>1. 0 \in 0 .. TestTimeout + 1
    BY ConstantTypes
  <1>2. CASE current # a
    BY <1>2 DEF CompleteTest, SlotInv, slotVars
  <1>3. CASE current = a /\ waiting = <<>>
    <2>1. current' = NoAgent /\ slotAge' = 0 /\ waiting' = <<>>
      BY <1>3 DEF CompleteTest
    <2>2. <<>> \in Seq(Waiters) /\ 1 .. Len(<<>>) = {}
      BY EmptySeq
    <2>3. Behind(<<>>, NoAgent)
      BY <2>2 DEF Behind, Orderly
    <2> QED
      BY <1>1, <2>1, <2>3 DEF SlotInv
  <1>4. CASE current = a /\ waiting # <<>>
    <2>1. /\ current' = Head(waiting).agent /\ slotAge' = 0
          /\ waiting' = Tail(waiting)
      BY <1>4 DEF CompleteTest
    <2>2. Head(waiting).agent \in Agents /\ Behind(Tail(waiting), Head(waiting).agent)
      BY <1>4, OrderlyTail DEF SlotInv, Behind
    <2> QED
      BY <1>1, <2>1, <2>2 DEF SlotInv
  <1> QED
    BY <1>2, <1>3, <1>4

(* Time does not reorder the queue.                                        *)
LEMMA AgeSlotInv ==
    ASSUME SlotInv, AgeSlot
    PROVE  SlotInv'
  <1>1. slotAge' \in 0 .. TestTimeout + 1
    BY ConstantTypes DEF AgeSlot, SlotInv, Earlier
  <1>2. /\ waiting \in Seq(Waiters) /\ Orderly(waiting)
        /\ \A i \in 1 .. Len(waiting) : waiting[i].agent # current
    BY DEF SlotInv, Behind
  <1> DEFINE n == Len(waiting)
             Older(w) == [w EXCEPT !.age = Earlier(@ + 1, MaxDelay)]
  <1>3. n \in Nat /\ \A i \in 1 .. n : waiting[i] \in Waiters
    BY <1>2
  <1>4. \A w \in Waiters : /\ Older(w) \in Waiters
                           /\ Older(w).agent = w.agent
                           /\ Older(w).age = Earlier(w.age + 1, MaxDelay)
                           /\ w.age \in Nat
    BY ConstantTypes DEF Waiters, Earlier
  <1>5. waiting' = [i \in 1 .. n |-> Older(waiting[i])]
    BY <1>2 DEF AgeSlot
  <1> HIDE DEF n, Older
  <1>6. /\ waiting' \in Seq(Waiters) /\ Len(waiting') = n
        /\ \A i \in 1 .. n : waiting'[i] = Older(waiting[i])
    BY <1>3, <1>4, <1>5
  <1> DEFINE q == waiting'
  <1>7. ASSUME NEW i \in 1 .. n, NEW j \in 1 .. n, q[i].agent = q[j].agent
        PROVE  i = j
    BY <1>2, <1>3, <1>4, <1>6, <1>7 DEF Orderly, n
  <1>8. ASSUME NEW i \in 1 .. n, NEW j \in 1 .. n, i < j
        PROVE  q[i].age >= q[j].age
    <2> DEFINE x == waiting[i].age
               y == waiting[j].age
    <2>1. x \in Nat /\ y \in Nat /\ x >= y
      BY <1>2, <1>3, <1>4, <1>8 DEF Orderly, n
    <2>2. q[i].age = Earlier(x + 1, MaxDelay) /\ q[j].age = Earlier(y + 1, MaxDelay)
      BY <1>3, <1>4, <1>6
    <2> HIDE DEF x, y
    <2> QED
      BY <2>1, <2>2, ConstantTypes DEF Earlier
  <1>9. \A i \in 1 .. n : q[i].agent # current
    BY <1>2, <1>3, <1>4, <1>6 DEF n
  <1>10. Behind(waiting', current)
    BY <1>6, <1>7, <1>8, <1>9 DEF Behind, Orderly
  <1> QED
    BY <1>1, <1>10 DEF SlotInv, AgeSlot

-----------------------------------------------------------------------------
(* The executions and the handlers                                         *)

AgentTypes ==
    /\ phase \in [Agents -> Phases]
    /\ elapsed \in [Agents -> 0 .. TaskTimeout]
    /\ tries \in [Agents -> 0 .. MaxRetries]
    /\ delay \in [Agents -> 0 .. MaxDelay]

ServerTypes ==
    /\ serving \in [Agents -> 0 .. MaxServing]
    /\ late \subseteq Agents \X {"asking", "granted"}

Inv == SlotInv /\ AgentTypes /\ ServerTypes

(* calculate_delay keeps to bandwidth_max_delay_seconds.                   *)
LEMMA DelayType ==
    ASSUME NEW q \in Seq(Waiters)
    PROVE  DelayBehind(q) \in 0 .. MaxDelay
  <1> DEFINE base == IF HolderKept # NoAgent THEN TestDelay ELSE BaseDelay
             more == Len(q) * PositionDelay
  <1>1. base \in Nat
    BY ConstantTypes
  <1>2. more \in Nat
    <2>1. Len(q) \in Nat /\ PositionDelay \in Nat
      BY ConstantTypes
    <2> QED
      BY <2>1
  <1> HIDE DEF base, more
  <1>3. Earlier(base + more, MaxDelay) \in 0 .. MaxDelay
    BY <1>1, <1>2, ConstantTypes DEF Earlier
  <1> QED
    BY <1>3 DEF DelayBehind, base, more

LEMMA LeaveLoopTypes ==
    ASSUME AgentTypes, NEW a \in Agents, LeaveLoop(a),
           phase' \in [Agents -> Phases]
    PROVE  AgentTypes'
  <1>1. elapsed' = [elapsed EXCEPT ![a] = 0] /\ 0 \in 0 .. TaskTimeout
    BY ConstantTypes DEF LeaveLoop
  <1>2. tries' = [tries EXCEPT ![a] = 0] /\ 0 \in 0 .. MaxRetries
    BY ConstantTypes DEF LeaveLoop
  <1>3. delay' = [delay EXCEPT ![a] = 0] /\ 0 \in 0 .. MaxDelay
    BY ConstantTypes DEF LeaveLoop
  <1>4. elapsed' \in [Agents -> 0 .. TaskTimeout]
    BY <1>1 DEF AgentTypes
  <1>5. tries' \in [Agents -> 0 .. MaxRetries]
    BY <1>2 DEF AgentTypes
  <1>6. delay' \in [Agents -> 0 .. MaxDelay]
    BY <1>3 DEF AgentTypes
  <1> QED
    BY <1>4, <1>5, <1>6 DEF AgentTypes

LEMMA BecomesType ==
    ASSUME AgentTypes, NEW a \in Agents, NEW p \in Phases, Becomes(a, p)
    PROVE  phase' \in [Agents -> Phases]
  BY DEF AgentTypes, Becomes

LEMMA OverTypes ==
    ASSUME AgentTypes, NEW a \in Agents, Over(a)
    PROVE  AgentTypes'
  <1>1. "idle" \in Phases
    BY DEF Phases
  <1> QED
    BY <1>1, BecomesType, LeaveLoopTypes DEF Over

LEMMA ExecutionTypes ==
    ASSUME AgentTypes, NEW a \in Agents, Begin(a) \/ HandleDelay(a) \/ Wake(a)
    PROVE  AgentTypes'
  <1>1. "asking" \in Phases /\ "sleeping" \in Phases
    BY DEF Phases
  <1>2. CASE Over(a)
    BY <1>2, OverTypes
  <1>3. CASE Begin(a)
    <2>1. Becomes(a, "asking") /\ UNCHANGED <<elapsed, tries, delay>>
      BY <1>3 DEF Begin
    <2> QED
      BY <1>1, <2>1, BecomesType DEF AgentTypes
  <1>4. CASE HandleDelay(a) /\ ~Over(a)
    <2>1. Becomes(a, "sleeping") /\ UNCHANGED <<elapsed, tries, delay>>
      BY <1>4 DEF HandleDelay
    <2> QED
      BY <1>1, <2>1, BecomesType DEF AgentTypes
  <1>5. CASE Wake(a) /\ ~Over(a)
    <2>1. /\ Becomes(a, "asking") /\ UNCHANGED <<elapsed, delay>>
          /\ tries' = [tries EXCEPT ![a] = @ + 1]
          /\ ~(tries[a] + 1 >= MaxRetries)
      BY <1>5 DEF Wake
    <2>2. tries[a] \in 0 .. MaxRetries
      BY DEF AgentTypes
    <2>3. tries[a] + 1 \in 0 .. MaxRetries
      BY <2>1, <2>2, ConstantTypes
    <2>4. tries' \in [Agents -> 0 .. MaxRetries]
      BY <2>1, <2>3 DEF AgentTypes
    <2> QED
      BY <1>1, <2>1, <2>4, BecomesType DEF AgentTypes
  <1> QED
    BY <1>2, <1>3, <1>4, <1>5

LEMMA AgentInv ==
    ASSUME Inv, NEW a \in Agents, Agent(a)
    PROVE  Inv'
  <1>1. CASE Begin(a) \/ HandleDelay(a) \/ Wake(a)
    <2>1. AgentTypes'
      BY <1>1, ExecutionTypes DEF Inv
    <2>2. UNCHANGED <<slotVars, serving, late>>
      BY <1>1 DEF Begin, HandleDelay, Wake
    <2> QED
      BY <2>1, <2>2 DEF Inv, SlotInv, slotVars, ServerTypes
  <1>2. CASE End(a)
    <2>1. AgentTypes'
      BY <1>2, OverTypes DEF Inv, End
    <2>2. UNCHANGED <<slotVars, serving>>
      BY <1>2 DEF End
    <2>3. late' \subseteq Agents \X {"asking", "granted"}
      BY <1>2 DEF End, Inv, ServerTypes
    <2> QED
      BY <2>1, <2>2, <2>3 DEF Inv, SlotInv, slotVars, ServerTypes
  <1> QED
    BY <1>1, <1>2 DEF Agent

LEMMA TickInv ==
    ASSUME Inv, Tick
    PROVE  Inv'
  <1>1. SlotInv'
    BY AgeSlotInv DEF Tick, Inv
  <1>2. elapsed' \in [Agents -> 0 .. TaskTimeout]
    <2>1. \A a \in Agents : elapsed[a] \in 0 .. TaskTimeout
      BY DEF Inv, AgentTypes
    <2>2. \A x \in 0 .. TaskTimeout : Earlier(x + 1, TaskTimeout) \in 0 .. TaskTimeout
      BY ConstantTypes DEF Earlier
    <2> QED
      BY <2>1, <2>2 DEF Tick
  <1>3. delay' \in [Agents -> 0 .. MaxDelay]
    <2>1. \A a \in Agents : delay[a] \in 0 .. MaxDelay
      BY DEF Inv, AgentTypes
    <2>2. \A x \in 0 .. MaxDelay : x > 0 => x - 1 \in 0 .. MaxDelay
      BY ConstantTypes
    <2> QED
      BY <2>1, <2>2 DEF Tick
  <1> QED
    BY <1>1, <1>2, <1>3 DEF Inv, AgentTypes, ServerTypes, Tick

LEMMA HandleRequestInv ==
    ASSUME Inv, NEW a \in Agents, HandleRequest(a)
    PROVE  Inv'
  <1>1. SlotInv'
    BY RequestSlot DEF HandleRequest, Inv
  <1>2. "granted" \in Phases /\ "told" \in Phases
    BY DEF Phases
  <1>3. CASE Proceeds(a)
    <2>1. Becomes(a, "granted") /\ LeaveLoop(a)
      BY <1>3 DEF HandleRequest
    <2>2. AgentTypes'
      BY <1>2, <2>1, BecomesType, LeaveLoopTypes DEF Inv
    <2> QED
      BY <1>1, <2>2 DEF Inv, ServerTypes, HandleRequest
  <1>4. CASE ~Proceeds(a)
    <2>1. /\ Becomes(a, "told") /\ UNCHANGED <<elapsed, tries>>
          /\ delay' = [delay EXCEPT ![a] = DelayBehind(OthersAhead(a))]
      BY <1>4 DEF HandleRequest
    <2>2. DelayBehind(OthersAhead(a)) \in 0 .. MaxDelay
      BY KeptTypes, DelayType DEF Inv
    <2>3. delay' \in [Agents -> 0 .. MaxDelay]
      BY <2>1, <2>2 DEF Inv, AgentTypes
    <2>4. phase' \in [Agents -> Phases]
      BY <1>2, <2>1, BecomesType DEF Inv
    <2> QED
      BY <1>1, <2>1, <2>3, <2>4 DEF Inv, AgentTypes, ServerTypes, HandleRequest
  <1> QED
    BY <1>3, <1>4

LEMMA HandleLateRequestInv ==
    ASSUME Inv, NEW a \in Agents, HandleLateRequest(a)
    PROVE  Inv'
  <1>1. SlotInv'
    BY RequestSlot DEF HandleLateRequest, Inv
  <1> QED
    BY <1>1 DEF HandleLateRequest, Inv, AgentTypes, ServerTypes, agentVars

LEMMA DownloadInv ==
    ASSUME Inv, NEW a \in Agents, CheckDownload(a) \/ CheckLateDownload(a)
    PROVE  Inv'
  <1>1. serving[a] \in 0 .. MaxServing
    BY DEF Inv, ServerTypes
  <1>2. serving' \in [Agents -> 0 .. MaxServing]
    <2>1. Admit(a)
      BY DEF CheckDownload, CheckLateDownload
    <2>2. serving[a] < MaxServing => serving[a] + 1 \in 0 .. MaxServing
      BY <1>1, ConstantTypes
    <2> QED
      BY <2>1, <2>2 DEF Admit, Inv, ServerTypes
  <1>3. SlotInv' /\ late' \subseteq Agents \X {"asking", "granted"}
    BY DEF CheckDownload, CheckLateDownload, Inv, SlotInv, slotVars, ServerTypes
  <1>4. AgentTypes'
    <2>1. CASE CheckDownload(a) /\ Over(a)
      BY <2>1, OverTypes DEF Inv
    <2>2. CASE CheckDownload(a) /\ ~Over(a)
      <3>1. Becomes(a, "serving") /\ UNCHANGED <<elapsed, tries, delay>>
        BY <2>2 DEF CheckDownload
      <3>2. "serving" \in Phases
        BY DEF Phases
      <3> QED
        BY <3>1, <3>2, BecomesType DEF Inv, AgentTypes
    <2>3. CASE CheckLateDownload(a)
      BY <2>3 DEF CheckLateDownload, Inv, AgentTypes, agentVars
    <2> QED
      BY <2>1, <2>2, <2>3
  <1> QED
    BY <1>2, <1>3, <1>4 DEF Inv, ServerTypes

LEMMA EndDownloadInv ==
    ASSUME Inv, NEW a \in Agents, StartStreaming(a) \/ DropDownload(a)
    PROVE  Inv'
  <1>1. serving[a] \in 0 .. MaxServing /\ serving[a] > 0
    BY ConstantTypes DEF Inv, ServerTypes, StartStreaming, DropDownload, Orphaned
  <1>2. serving' \in [Agents -> 0 .. MaxServing]
    <2>1. serving[a] - 1 \in 0 .. MaxServing
      BY <1>1, ConstantTypes
    <2>2. serving' = [serving EXCEPT ![a] = @ - 1]
      BY DEF StartStreaming, DropDownload, Leave
    <2> QED
      BY <2>1, <2>2 DEF Inv, ServerTypes
  <1>3. late' = late
    BY DEF StartStreaming, DropDownload
  <1>4. SlotInv'
    BY CompleteSlot DEF StartStreaming, DropDownload, Inv, SlotInv, slotVars
  <1>5. AgentTypes'
    <2>1. UNCHANGED <<elapsed, tries, delay>>
      BY DEF StartStreaming, DropDownload, agentVars
    <2>2. phase' = phase \/ Becomes(a, "streaming")
      BY DEF StartStreaming, DropDownload, agentVars
    <2>3. "streaming" \in Phases
      BY DEF Phases
    <2> QED
      BY <2>1, <2>2, <2>3, BecomesType DEF Inv, AgentTypes
  <1> QED
    BY <1>2, <1>3, <1>4, <1>5 DEF Inv, ServerTypes

LEMMA InitInv == Init => Inv
  <1> SUFFICES ASSUME Init PROVE Inv
    OBVIOUS
  <1> USE DEF Init, SlotInit
  <1>1. SlotInv
    <2>1. waiting \in Seq(Waiters) /\ 1 .. Len(waiting) = {}
      BY EmptySeq
    <2> QED
      BY <2>1, ConstantTypes DEF SlotInv, Behind, Orderly
  <1>2. AgentTypes /\ ServerTypes
    BY ConstantTypes DEF AgentTypes, ServerTypes, Phases
  <1> QED
    BY <1>1, <1>2 DEF Inv

LEMMA NextInv ==
    ASSUME Inv, [Next]_vars
    PROVE  Inv'
  <1>1. CASE UNCHANGED vars
    BY <1>1 DEF vars, slotVars, agentVars, Inv, SlotInv, AgentTypes, ServerTypes
  <1>2. ASSUME NEW a \in Agents, Server(a)
        PROVE  Inv'
    BY <1>2, HandleRequestInv, HandleLateRequestInv, DownloadInv, EndDownloadInv
       DEF Server
  <1> QED
    BY <1>1, <1>2, TickInv, AgentInv DEF Next

LEMMA InvHolds == Spec => []Inv
  BY InitInv, NextInv, PTL DEF Spec

(* The manager's state, the retry loops of the agents and the handlers     *)
(* keep their types and bounds.                                            *)
THEOREM TypesHold == Spec => []TypeOK
  <1>1. Inv => TypeOK
    BY DEF Inv, SlotInv, Behind, AgentTypes, ServerTypes, TypeOK, SlotTypeOK
  <1> QED
    BY <1>1, InvHolds, PTL

LEMMA WaitingIndices == ASSUME SlotInv PROVE DOMAIN waiting = 1 .. Len(waiting)
  BY DEF SlotInv, Behind

(* request_test queues an agent once at most and never the holder, and     *)
(* complete_test takes the agent it promotes out of waiting_queue.         *)
THEOREM AgentsAreInOnePlace == Spec => []InOnePlace
  <1>1. Inv => InOnePlace
    BY WaitingIndices DEF Inv, SlotInv, Behind, Orderly, InOnePlace
  <1> QED
    BY <1>1, InvHolds, PTL

(* waiting_queue is in the order of the agents' last requests, so that     *)
(* complete_test promotes the one that has waited longest.                 *)
THEOREM OldestIsFirst == Spec => []OldestFirst
  <1>1. Inv => OldestFirst
    BY WaitingIndices DEF Inv, SlotInv, Behind, Orderly, OldestFirst
  <1> QED
    BY <1>1, InvHolds, PTL
=============================================================================
