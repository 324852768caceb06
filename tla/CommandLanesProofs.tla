-------------------------- MODULE CommandLanesProofs --------------------------
(***************************************************************************)
(* Theorems about CommandLanes, for every set of lanes and entries, every  *)
(* nesting of calls and every value of the bounds.                         *)
(*                                                                         *)
(* The argument: one lemma about a single drain (PumpOneLane), lifted to   *)
(* the drain of any set of lanes (PumpLanes); then each action of the      *)
(* queue brings its lanes into a coherent state that may leave work        *)
(* waiting next to a free slot, and the drain it ends with repairs that.   *)
(***************************************************************************)
EXTENDS CommandLanes, FiniteSetTheorems, TLAPS

-----------------------------------------------------------------------------
(* The conjuncts of the inductive invariant about queues q, active sets a, *)
(* limits m, generations g, statuses st and task generations tg.           *)
Types(q, a, m, g, st, tg) ==
    /\ q \in [Lanes -> Seq(Entries)]
    /\ a \in [Lanes -> SUBSET Entries]
    /\ m \in [Lanes -> 1..MaxConcurrency]
    /\ g \in [Lanes -> 0..MaxGeneration]
    /\ st \in [Entries -> Statuses]
    /\ tg \in [Entries -> 0..MaxGeneration]

Injective(s) == \A i, j \in 1..Len(s) : s[i] = s[j] => i = j

Coherent(q, a, g, st, tg) ==
    /\ \A l \in Lanes : IsFiniteSet(a[l])
    /\ \A l \in Lanes : Injective(q[l])
    /\ \A l \in Lanes, e \in Entries :
           e \in Elements(q[l]) <=> st[e] = "queued" /\ LaneOf[e] = l
    /\ \A l \in Lanes, e \in Entries :
           e \in a[l] <=> LaneOf[e] = l /\ st[e] = "running" /\ tg[e] = g[l]
    /\ \A e \in Entries : tg[e] <= g[LaneOf[e]]

Full(q, a, m, l) == q[l] # <<>> => Cardinality(a[l]) >= m[l]

(* From statuses st to st2, the only change is that queued entries start.  *)
OnlyStarts(st, tg, st2, tg2) ==
    \A e \in Entries :
        \/ st2[e] = st[e] /\ tg2[e] = tg[e]
        \/ st[e] = "queued" /\ st2[e] = "running"

(* A waiter only ever waits for tasks that have been started.              *)
WaitersAskedStarted ==
    \A w \in Waiters : \A e \in waiterIds[w] :
        status[e] \in Settled \cup {"running"}

IInv ==
    /\ TypeOK
    /\ Coherent(queue, active, generation, status, taskGeneration)
    /\ \A l \in Lanes : Full(queue, active, maxConcurrent, l)
    /\ WaitersAskedStarted
    /\ WaitersHonest

-----------------------------------------------------------------------------
(* How many entries a drain starts: all of them, or as many as fill the    *)
(* free slots, or none when there is no free slot (the loop condition of   *)
(* drainLane).                                                             *)
LEMMA StartCountCases ==
    ASSUME NEW q \in Seq(Entries), NEW a, IsFiniteSet(a), NEW m \in Nat
    PROVE  /\ StartCount(q, a, m) \in 0..Len(q)
           /\ Cardinality(a) \in Nat
           /\ \/ StartCount(q, a, m) = Len(q)
              \/ StartCount(q, a, m) + Cardinality(a) >= m
           /\ \/ StartCount(q, a, m) = 0
              \/ StartCount(q, a, m) + Cardinality(a) <= m
  <1>1. Cardinality(a) \in Nat
    BY FS_CardinalityType
  <1>2. Len(q) \in Nat
    OBVIOUS
  <1> QED
    BY <1>1, <1>2 DEF StartCount

(* Starting a prefix of an injective queue adds as many tasks as it takes  *)
(* entries.                                                                *)
LEMMA PrefixCardinality ==
    ASSUME NEW q \in Seq(Entries), Injective(q), NEW n \in 0..Len(q),
           NEW a, IsFiniteSet(a), a \cap Elements(q) = {}
    PROVE  /\ IsFiniteSet(a \cup {q[i] : i \in 1..n})
           /\ Cardinality(a \cup {q[i] : i \in 1..n}) = Cardinality(a) + n
  <1> DEFINE s == {q[i] : i \in 1..n}
             f == [i \in 1..n |-> q[i]]
  <1>1. ExistsBijection(1..n, s)
    <2>1. f \in [1..n -> s]
      OBVIOUS
    <2>2. \A i, j \in 1..n : f[i] = f[j] => i = j
      BY DEF Injective
    <2>3. \A x \in s : \E i \in 1..n : f[i] = x
      OBVIOUS
    <2> HIDE DEF f, s
    <2>4. f \in Bijection(1..n, s)
      BY <2>1, <2>2, <2>3 DEF Bijection, Injection, Surjection, IsInjective
    <2> QED
      BY <2>4 DEF ExistsBijection
  <1>2. a \cap s = {}
    BY DEF Elements
  <1> HIDE DEF s
  <1>3. IsFiniteSet(1..n) /\ Cardinality(1..n) = n
    BY FS_Interval
  <1>4. IsFiniteSet(s) /\ Cardinality(s) = n
    BY <1>1, <1>3, FS_Bijection
  <1>5. /\ IsFiniteSet(a \cup s)
        /\ Cardinality(a \cup s) = Cardinality(a) + Cardinality(s) - Cardinality(a \cap s)
    BY <1>4, FS_Union
  <1>6. Cardinality(a \cap s) = 0
    BY <1>2, FS_EmptySet
  <1>7. Cardinality(a) \in Nat
    BY FS_CardinalityType
  <1>8. Cardinality(a \cup s) = Cardinality(a) + n
    BY <1>4, <1>5, <1>6, <1>7
  <1> QED
    BY <1>5, <1>8 DEF s

(* One drain of one lane: what is started leaves the queue and nothing     *)
(* else does, order and uniqueness are kept, the lane ends full if         *)
(* anything still waits, and within its limit if anything was started.     *)
LEMMA PumpOneLane ==
    ASSUME NEW q \in Seq(Entries), Injective(q), NEW m \in Nat,
           NEW a \in SUBSET Entries, IsFiniteSet(a), a \cap Elements(q) = {}
    PROVE  LET s == Started(q, a, m)
               r == Waiting(q, a, m)
           IN  /\ r \in Seq(Entries)
               /\ Injective(r)
               /\ s \subseteq Elements(q)
               /\ Elements(r) = Elements(q) \ s
               /\ IsFiniteSet(a \cup s)
               /\ r # <<>> => Cardinality(a \cup s) >= m
               /\ s # {} => Cardinality(a \cup s) <= m
  <1> DEFINE n == StartCount(q, a, m)
             s == Started(q, a, m)
             r == Waiting(q, a, m)
  <1>1. /\ n \in 0..Len(q)
        /\ Cardinality(a) \in Nat
        /\ n = Len(q) \/ n + Cardinality(a) >= m
        /\ n = 0 \/ n + Cardinality(a) <= m
    BY StartCountCases
  <1>2. s = {q[i] : i \in 1..n}
    BY DEF Started
  <1>3. /\ r \in Seq(Entries)
        /\ Len(r) = Len(q) - n
        /\ \A i \in 1..Len(r) : r[i] = q[i + n]
    <2>1. r = SubSeq(q, n + 1, Len(q))
      BY DEF Waiting
    <2> HIDE DEF n, r
    <2>2. Len(SubSeq(q, n + 1, Len(q))) = Len(q) - n
      BY <1>1
    <2> QED
      BY <1>1, <2>1, <2>2
  <1> HIDE DEF n, s, r
  <1>4. Injective(r)
    <2> SUFFICES ASSUME NEW i \in 1..Len(r), NEW j \in 1..Len(r), r[i] = r[j]
                 PROVE  i = j
      BY DEF Injective
    <2>1. i + n \in 1..Len(q) /\ j + n \in 1..Len(q)
      BY <1>1, <1>3
    <2>2. i + n = j + n
      BY <1>3, <2>1 DEF Injective
    <2> QED
      BY <1>1, <2>2
  <1>5. s \subseteq Elements(q)
    BY <1>1, <1>2 DEF Elements
  <1>6. Elements(r) = Elements(q) \ s
    <2>1. ASSUME NEW x \in Elements(r)
          PROVE  x \in Elements(q) \ s
      <3>1. PICK i \in 1..Len(r) : x = q[i + n]
        BY <2>1, <1>3 DEF Elements
      <3>2. i + n \in 1..Len(q) /\ i + n > n
        BY <3>1, <1>1, <1>3
      <3>3. \A j \in 1..n : q[j] # x
        BY <3>1, <3>2, <1>1 DEF Injective
      <3> QED
        BY <3>1, <3>2, <3>3, <1>2 DEF Elements
    <2>2. ASSUME NEW x \in Elements(q), x \notin s
          PROVE  x \in Elements(r)
      <3>1. PICK i \in 1..Len(q) : x = q[i]
        BY <2>2 DEF Elements
      <3>2. i > n
        BY <3>1, <2>2, <1>2, <1>1
      <3>3. i - n \in 1..Len(r) /\ r[i - n] = x
        BY <3>1, <3>2, <1>1, <1>3
      <3> QED
        BY <3>3 DEF Elements
    <2> QED
      BY <2>1, <2>2
  <1>7. IsFiniteSet(a \cup s) /\ Cardinality(a \cup s) = Cardinality(a) + n
    BY <1>1, <1>2, PrefixCardinality
  <1>8. r # <<>> => Cardinality(a \cup s) >= m
    <2>1. ASSUME r # <<>> PROVE Len(r) > 0
      BY <2>1, <1>3
    <2> QED
      BY <2>1, <1>1, <1>3, <1>7
  <1>9. s # {} => Cardinality(a \cup s) <= m
    BY <1>1, <1>2, <1>7
  <1> QED
    BY <1>3, <1>4, <1>5, <1>6, <1>7, <1>8, <1>9 DEF s, r

-----------------------------------------------------------------------------
(* A drain of any set of lanes: if every other lane is full or has nothing *)
(* waiting, then all lanes are afterwards, and the bookkeeping agrees.     *)
LEMMA PumpLanes ==
    ASSUME NEW L \in SUBSET Lanes,
           NEW q, NEW a, NEW m, NEW g, NEW st,
           Types(q, a, m, g, st, taskGeneration),
           Coherent(q, a, g, st, taskGeneration),
           \A l \in Lanes \ L : Full(q, a, m, l),
           DrainLanes(L, q, a, m, g, st)
    PROVE  /\ Types(queue', active', m, g, status', taskGeneration')
           /\ Coherent(queue', active', g, status', taskGeneration')
           /\ \A l \in Lanes : Full(queue', active', m, l)
           /\ \A l \in Lanes : a[l] \subseteq active'[l]
           /\ \A l \in Lanes : (\E e \in active'[l] : e \notin a[l])
                                  => Cardinality(active'[l]) <= m[l]
           /\ OnlyStarts(st, taskGeneration, status', taskGeneration')
  <1> DEFINE S(l) == Started(q[l], a[l], m[l])
             W(l) == Waiting(q[l], a[l], m[l])
             starting == UNION {S(l) : l \in L}
  <1>1. ASSUME NEW l \in Lanes
        PROVE  /\ W(l) \in Seq(Entries)
               /\ Injective(W(l))
               /\ S(l) \subseteq Elements(q[l])
               /\ Elements(W(l)) = Elements(q[l]) \ S(l)
               /\ IsFiniteSet(a[l] \cup S(l))
               /\ W(l) # <<>> => Cardinality(a[l] \cup S(l)) >= m[l]
               /\ S(l) # {} => Cardinality(a[l] \cup S(l)) <= m[l]
    <2>1. /\ q[l] \in Seq(Entries)
          /\ m[l] \in Nat
          /\ a[l] \in SUBSET Entries
          /\ st \in [Entries -> Statuses]
      BY <1>1, BoundsAssumption DEF Types
    <2>2. Injective(q[l]) /\ IsFiniteSet(a[l])
      BY <1>1 DEF Coherent
    <2>3. \A e \in Entries : e \in Elements(q[l]) => st[e] = "queued"
      BY <1>1 DEF Coherent
    <2>4. \A e \in Entries : e \in a[l] => st[e] = "running"
      BY <1>1 DEF Coherent
    <2>5. a[l] \cap Elements(q[l]) = {}
      BY <2>1, <2>3, <2>4
    <2> QED
      BY <2>1, <2>2, <2>5, PumpOneLane
  <1> HIDE DEF S, W
  <1>2. /\ queue' = [l \in Lanes |-> IF l \in L THEN W(l) ELSE q[l]]
        /\ active' = [l \in Lanes |-> IF l \in L THEN a[l] \cup S(l) ELSE a[l]]
        /\ status' = [e \in Entries |-> IF e \in starting THEN "running" ELSE st[e]]
        /\ taskGeneration' = [e \in Entries |->
                                IF e \in starting THEN g[LaneOf[e]] ELSE taskGeneration[e]]
    BY DEF DrainLanes, S, W
  <1>3. \A l \in Lanes : \A e \in S(l) :
            e \in Entries /\ LaneOf[e] = l /\ st[e] = "queued"
    <2>1. \A l \in Lanes : Elements(q[l]) \subseteq Entries
      BY DEF Types, Elements
    <2> QED
      BY <1>1, <2>1 DEF Coherent
  <1>4. \A e \in Entries : e \in starting <=> LaneOf[e] \in L /\ e \in S(LaneOf[e])
    BY <1>3
  <1> HIDE DEF starting
  <1>5. Types(queue', active', m, g, status', taskGeneration')
    <2>1. queue' \in [Lanes -> Seq(Entries)]
      BY <1>1, <1>2 DEF Types
    <2>2. active' \in [Lanes -> SUBSET Entries]
      BY <1>2, <1>3 DEF Types
    <2>3. status' \in [Entries -> Statuses]
      BY <1>2 DEF Types, Statuses
    <2>4. taskGeneration' \in [Entries -> 0..MaxGeneration]
      BY <1>2, EntriesAssumption DEF Types
    <2> QED
      BY <2>1, <2>2, <2>3, <2>4 DEF Types
  <1>6. Coherent(queue', active', g, status', taskGeneration')
    <2>1. \A l \in Lanes : IsFiniteSet(active'[l])
      BY <1>1, <1>2 DEF Coherent
    <2>2. \A l \in Lanes : Injective(queue'[l])
      BY <1>1, <1>2 DEF Coherent
    <2>3. ASSUME NEW l \in Lanes, NEW e \in Entries
          PROVE  e \in Elements(queue'[l]) <=> status'[e] = "queued" /\ LaneOf[e] = l
      <3>1. e \in Elements(q[l]) <=> st[e] = "queued" /\ LaneOf[e] = l
        BY <2>3 DEF Coherent
      <3>2. CASE l \in L
        <4>1. Elements(queue'[l]) = Elements(q[l]) \ S(l)
          BY <3>2, <2>3, <1>1, <1>2
        <4>2. LaneOf[e] = l => (e \in starting <=> e \in S(l))
          BY <3>2, <1>4
        <4>3. status'[e] = IF e \in starting THEN "running" ELSE st[e]
          BY <1>2
        <4> QED
          BY <4>1, <4>2, <4>3, <3>1
      <3>3. CASE l \notin L
        BY <3>1, <3>3, <1>2, <1>4
      <3> QED
        BY <3>2, <3>3
    <2>4. ASSUME NEW l \in Lanes, NEW e \in Entries
          PROVE  e \in active'[l] <=> /\ LaneOf[e] = l
                                      /\ status'[e] = "running"
                                      /\ taskGeneration'[e] = g[l]
      <3>1. e \in a[l] <=> /\ LaneOf[e] = l
                           /\ st[e] = "running"
                           /\ taskGeneration[e] = g[l]
        BY <2>4 DEF Coherent
      <3>2. e \in active'[l] <=> e \in a[l] \/ (l \in L /\ e \in S(l))
        BY <1>2
      <3>3. /\ status'[e] = IF e \in starting THEN "running" ELSE st[e]
            /\ taskGeneration'[e] = IF e \in starting THEN g[LaneOf[e]]
                                    ELSE taskGeneration[e]
        BY <1>2
      <3>4. CASE e \in starting
        BY <3>1, <3>2, <3>3, <3>4, <1>3, <1>4
      <3>5. CASE e \notin starting
        BY <3>1, <3>2, <3>3, <3>5, <1>3, <1>4
      <3> QED
        BY <3>4, <3>5
    <2>5. ASSUME NEW e \in Entries
          PROVE  taskGeneration'[e] <= g[LaneOf[e]]
      <3>1. g[LaneOf[e]] \in Nat /\ taskGeneration[e] <= g[LaneOf[e]]
        BY EntriesAssumption DEF Types, Coherent
      <3> QED
        BY <3>1, <1>2
    <2> QED
      BY <2>1, <2>2, <2>3, <2>4, <2>5 DEF Coherent
  <1>7. \A l \in Lanes : Full(queue', active', m, l)
    BY <1>1, <1>2 DEF Full
  <1>8. \A l \in Lanes : a[l] \subseteq active'[l]
    BY <1>2
  <1>9. \A l \in Lanes : (\E e \in active'[l] : e \notin a[l])
                            => Cardinality(active'[l]) <= m[l]
    BY <1>1, <1>2
  <1>10. OnlyStarts(st, taskGeneration, status', taskGeneration')
    BY <1>2, <1>3, <1>4, EntriesAssumption DEF OnlyStarts
  <1> QED
    BY <1>5, <1>6, <1>7, <1>8, <1>9, <1>10

-----------------------------------------------------------------------------
(* The waiters' half of the invariant survives a step that only settles,   *)
(* starts or keeps tasks: when it notifies the waiters on the active sets  *)
(* b, or when it removes no active task.                                   *)
LEMMA WaitersNotified ==
    ASSUME IInv,
           NEW b,
           NotifyWaiters(b),
           waiterIds' = waiterIds,
           Types(queue', active', maxConcurrent', generation', status', taskGeneration'),
           Coherent(queue', active', generation', status', taskGeneration'),
           \A e \in Entries : status[e] \in Settled \cup {"running"} =>
               /\ status'[e] \in Settled \cup {"running"}
               /\ status[e] \in Settled => status'[e] \in Settled
               /\ taskGeneration'[e] = taskGeneration[e]
               /\ \A l \in Lanes : e \in active'[l] <=> e \in b[l],
           \A l \in Lanes : generation[l] <= generation'[l]
    PROVE  WaitersAskedStarted' /\ WaitersHonest'
           /\ waiterState' \in [Waiters -> {"idle", "pending", "drained", "expired"}]
  <1>1. /\ waiterIds \in [Waiters -> SUBSET Entries]
        /\ waiterState \in [Waiters -> {"idle", "pending", "drained", "expired"}]
        /\ generation \in [Lanes -> 0..MaxGeneration]
        /\ taskGeneration \in [Entries -> 0..MaxGeneration]
        /\ WaitersAskedStarted
        /\ WaitersHonest
    BY DEF IInv, TypeOK
  <1>2. WaitersAskedStarted'
    BY <1>1 DEF WaitersAskedStarted
  <1>3. waiterState' \in [Waiters -> {"idle", "pending", "drained", "expired"}]
    BY <1>1 DEF NotifyWaiters
  <1>4. ASSUME NEW w \in Waiters, waiterState'[w] = "pending"
        PROVE  waiterIds'[w] \cap AllActive(active') # {}
    <2>1. waiterIds[w] \cap AllActive(b) # {}
      BY <1>4, <1>1 DEF NotifyWaiters
    <2>2. PICK e \in waiterIds[w], l \in Lanes : e \in b[l]
      BY <2>1 DEF AllActive
    <2>3. e \in Entries /\ status[e] \in Settled \cup {"running"}
      BY <1>1, <2>2 DEF WaitersAskedStarted
    <2>4. e \in active'[l]
      BY <2>2, <2>3
    <2> QED
      BY <2>2, <2>4 DEF AllActive
  <1>5. ASSUME NEW w \in Waiters, waiterState'[w] = "drained",
               NEW e \in waiterIds'[w]
        PROVE  status'[e] \in Settled \/ taskGeneration'[e] < generation'[LaneOf[e]]
    <2>1. e \in Entries /\ LaneOf[e] \in Lanes
      BY <1>1, <1>5, EntriesAssumption
    <2>2. status[e] \in Settled \cup {"running"}
      BY <1>1, <1>5 DEF WaitersAskedStarted
    <2>3. /\ generation[LaneOf[e]] \in Nat
          /\ generation'[LaneOf[e]] \in Nat
          /\ taskGeneration'[e] \in Nat
      BY <1>1, <2>1 DEF Types
    <2>4. CASE waiterState[w] = "drained"
      BY <1>1, <1>5, <2>1, <2>2, <2>3, <2>4 DEF WaitersHonest
    <2>5. CASE waiterState[w] = "pending" /\ waiterIds[w] \cap AllActive(b) = {}
      <3>1. e \notin active'[LaneOf[e]]
        BY <1>5, <2>1, <2>2, <2>5 DEF AllActive
      <3>2. status'[e] # "running" \/ taskGeneration'[e] # generation'[LaneOf[e]]
        BY <2>1, <3>1 DEF Coherent
      <3>3. taskGeneration'[e] <= generation'[LaneOf[e]]
        BY <2>1 DEF Coherent
      <3> QED
        BY <2>1, <2>2, <2>3, <3>2, <3>3
    <2> QED
      BY <1>5, <2>4, <2>5 DEF NotifyWaiters
  <1> QED
    BY <1>2, <1>3, <1>4, <1>5 DEF WaitersHonest

LEMMA WaitersUnnotified ==
    ASSUME IInv,
           waiterState' = waiterState,
           waiterIds' = waiterIds,
           \A e \in Entries : status[e] \in Settled \cup {"running"} =>
               /\ status'[e] \in Settled \cup {"running"}
               /\ status[e] \in Settled => status'[e] \in Settled
               /\ taskGeneration'[e] = taskGeneration[e],
           \A l \in Lanes : active[l] \subseteq active'[l],
           generation' = generation
    PROVE  WaitersAskedStarted' /\ WaitersHonest'
  <1>1. /\ waiterIds \in [Waiters -> SUBSET Entries]
        /\ WaitersAskedStarted
        /\ WaitersHonest
    BY DEF IInv, TypeOK
  <1>2. WaitersAskedStarted'
    BY <1>1 DEF WaitersAskedStarted
  <1>3. AllActive(active) \subseteq AllActive(active')
    BY DEF AllActive
  <1>4. WaitersHonest'
    BY <1>1, <1>3 DEF WaitersHonest, WaitersAskedStarted
  <1> QED
    BY <1>2, <1>4

-----------------------------------------------------------------------------
LEMMA InitEstablishes == Init => IInv
  <1> SUFFICES ASSUME Init PROVE IInv
    OBVIOUS
  <1>1. TypeOK
    <2>1. 1 \in 1..MaxConcurrency /\ 0 \in 0..MaxGeneration
      BY BoundsAssumption
    <2>2. queue \in [Lanes -> Seq(Entries)]
      BY DEF Init
    <2> QED
      BY <2>1, <2>2 DEF Init, TypeOK, Statuses
  <1>2. Coherent(queue, active, generation, status, taskGeneration)
    BY EntriesAssumption, FS_EmptySet DEF Init, Coherent, Injective, Elements
  <1>3. \A l \in Lanes : Full(queue, active, maxConcurrent, l)
    BY DEF Init, Full
  <1>4. WaitersAskedStarted /\ WaitersHonest
    BY DEF Init, WaitersAskedStarted, WaitersHonest
  <1> QED
    BY <1>1, <1>2, <1>3, <1>4 DEF IInv

(* Pushing an idle entry keeps the bookkeeping coherent; only its own lane *)
(* may be left with work next to a free slot.                              *)
LEMMA PushCoherent ==
    ASSUME IInv, NEW e \in Entries, status[e] = "idle",
           NEW q, q = [queue EXCEPT ![LaneOf[e]] = Append(@, e)],
           NEW st, st = [status EXCEPT ![e] = "queued"]
    PROVE  /\ Types(q, active, maxConcurrent, generation, st, taskGeneration)
           /\ Coherent(q, active, generation, st, taskGeneration)
           /\ \A l \in Lanes \ {LaneOf[e]} : Full(q, active, maxConcurrent, l)
  <1> DEFINE l0 == LaneOf[e]
  <1>1. TypeOK /\ Coherent(queue, active, generation, status, taskGeneration)
    BY DEF IInv
  <1>2. l0 \in Lanes /\ queue[l0] \in Seq(Entries)
    BY <1>1, EntriesAssumption DEF TypeOK
  <1>3. /\ q[l0] = Append(queue[l0], e)
        /\ \A l \in Lanes \ {l0} : q[l] = queue[l]
        /\ q \in [Lanes -> Seq(Entries)]
    BY <1>1, <1>2 DEF TypeOK
  <1>4. st \in [Entries -> Statuses] /\ st[e] = "queued"
        /\ \A f \in Entries \ {e} : st[f] = status[f]
    BY <1>1 DEF TypeOK, Statuses
  <1>5. Types(q, active, maxConcurrent, generation, st, taskGeneration)
    BY <1>1, <1>3, <1>4 DEF TypeOK, Types
  <1>6. Elements(q[l0]) = Elements(queue[l0]) \cup {e}
    BY <1>2, <1>3 DEF Elements
  <1>7. e \notin Elements(queue[l0])
    BY <1>1, <1>2 DEF Coherent
  <1>8. Injective(q[l0])
    <2>1. Injective(queue[l0])
      BY <1>1, <1>2 DEF Coherent
    <2> QED
      BY <2>1, <1>2, <1>3, <1>7 DEF Injective, Elements
  <1>9. \A l \in Lanes : Injective(q[l])
    BY <1>1, <1>3, <1>8 DEF Coherent
  <1>10. \A l \in Lanes, f \in Entries :
             f \in Elements(q[l]) <=> st[f] = "queued" /\ LaneOf[f] = l
    BY <1>1, <1>2, <1>3, <1>4, <1>6 DEF Coherent
  <1>11. Coherent(q, active, generation, st, taskGeneration)
    BY <1>1, <1>4, <1>9, <1>10 DEF Coherent
  <1>12. \A l \in Lanes \ {l0} : Full(q, active, maxConcurrent, l)
    BY <1>3 DEF IInv, Full
  <1> QED
    BY <1>5, <1>11, <1>12

(* So does taking a finished task out of the active set of its lane.       *)
LEMMA FinishCoherent ==
    ASSUME IInv, NEW e \in Entries, status[e] = "running",
           taskGeneration[e] = generation[LaneOf[e]],
           NEW a, a = [active EXCEPT ![LaneOf[e]] = @ \ {e}],
           NEW st, st = [status EXCEPT ![e] = "finished"]
    PROVE  /\ Types(queue, a, maxConcurrent, generation, st, taskGeneration)
           /\ Coherent(queue, a, generation, st, taskGeneration)
           /\ \A l \in Lanes \ {LaneOf[e]} : Full(queue, a, maxConcurrent, l)
  <1> DEFINE l0 == LaneOf[e]
  <1>1. TypeOK /\ Coherent(queue, active, generation, status, taskGeneration)
    BY DEF IInv
  <1>2. l0 \in Lanes
    BY EntriesAssumption
  <1>3. /\ a[l0] = active[l0] \ {e}
        /\ \A l \in Lanes \ {l0} : a[l] = active[l]
        /\ a \in [Lanes -> SUBSET Entries]
    BY <1>1, <1>2 DEF TypeOK
  <1>4. /\ st \in [Entries -> Statuses] /\ st[e] = "finished"
        /\ \A f \in Entries \ {e} : st[f] = status[f]
    BY <1>1 DEF TypeOK, Statuses, Settled
  <1>5. Types(queue, a, maxConcurrent, generation, st, taskGeneration)
    BY <1>1, <1>3, <1>4 DEF TypeOK, Types
  <1>6. \A l \in Lanes : IsFiniteSet(a[l])
    <2>1. IsFiniteSet(active[l0] \ {e})
      BY <1>1, <1>2, FS_RemoveElement DEF Coherent
    <2> QED
      BY <2>1, <1>1, <1>3 DEF Coherent
  <1>7. \A l \in Lanes, f \in Entries :
            f \in a[l] <=> /\ LaneOf[f] = l
                          /\ st[f] = "running"
                          /\ taskGeneration[f] = generation[l]
    BY <1>1, <1>2, <1>3, <1>4 DEF Coherent
  <1>8. \A l \in Lanes, f \in Entries :
            f \in Elements(queue[l]) <=> st[f] = "queued" /\ LaneOf[f] = l
    BY <1>1, <1>4 DEF Coherent
  <1>9. Coherent(queue, a, generation, st, taskGeneration)
    BY <1>1, <1>6, <1>7, <1>8 DEF Coherent
  <1>10. \A l \in Lanes \ {l0} : Full(queue, a, maxConcurrent, l)
    BY <1>3 DEF IInv, Full
  <1> QED
    BY <1>5, <1>9, <1>10

-----------------------------------------------------------------------------
(* The invariant is inductive: every call of the queue's API, every task   *)
(* that settles and every waiter's timer preserves it.                     *)
THEOREM StepPreserves == IInv /\ [Next]_vars => IInv'
  <1> SUFFICES ASSUME IInv, [Next]_vars PROVE IInv'
    OBVIOUS
  <1> USE DEF vars, laneVars, entryVars, waiterVars
  <1>0. /\ TypeOK
        /\ Coherent(queue, active, generation, status, taskGeneration)
        /\ \A l \in Lanes : Full(queue, active, maxConcurrent, l)
        /\ WaitersAskedStarted
        /\ WaitersHonest
        /\ Types(queue, active, maxConcurrent, generation, status, taskGeneration)
    BY DEF IInv, TypeOK, Types
  <1>1. ASSUME NEW e \in Entries, Refuse(e) PROVE IInv'
    <2>1. status[e] = "idle" /\ status' = [status EXCEPT ![e] = "refused"]
      BY <1>1 DEF Refuse, CanCall
    <2>2. UNCHANGED <<queue, active, maxConcurrent, generation, gatewayDraining,
                      taskGeneration, waiterState, waiterIds>>
      BY <1>1 DEF Refuse
    <2>3. TypeOK'
      BY <1>0, <2>1, <2>2 DEF TypeOK, Statuses, Settled
    <2>4. Coherent(queue, active, generation, status, taskGeneration)'
      BY <1>0, <2>1, <2>2 DEF Coherent, TypeOK
    <2>5. \A l \in Lanes : Full(queue, active, maxConcurrent, l)'
      BY <1>0, <2>2 DEF Full
    <2>6. WaitersAskedStarted' /\ WaitersHonest'
      BY <1>0, <2>1, <2>2, WaitersUnnotified DEF TypeOK, Settled
    <2> QED
      BY <2>3, <2>4, <2>5, <2>6 DEF IInv
  <1>2. ASSUME NEW e \in Entries, Enqueue(e) PROVE IInv'
    <2> DEFINE q == [queue EXCEPT ![LaneOf[e]] = Append(@, e)]
               st == [status EXCEPT ![e] = "queued"]
    <2>1. /\ status[e] = "idle"
          /\ DrainLanes({LaneOf[e]}, q, active, maxConcurrent, generation, st)
          /\ UNCHANGED <<maxConcurrent, generation, gatewayDraining, waiterState, waiterIds>>
      BY <1>2 DEF Enqueue, CanCall
    <2>2. /\ Types(q, active, maxConcurrent, generation, st, taskGeneration)
          /\ Coherent(q, active, generation, st, taskGeneration)
          /\ \A l \in Lanes \ {LaneOf[e]} : Full(q, active, maxConcurrent, l)
      BY <2>1, PushCoherent
    <2>3. \A f \in Entries : f # e => st[f] = status[f]
      BY <1>0 DEF TypeOK
    <2>4. {LaneOf[e]} \in SUBSET Lanes
      BY EntriesAssumption
    <2> HIDE DEF q, st
    <2>5. /\ Types(queue', active', maxConcurrent, generation, status', taskGeneration')
          /\ Coherent(queue', active', generation, status', taskGeneration')
          /\ \A l \in Lanes : Full(queue', active', maxConcurrent, l)
          /\ \A l \in Lanes : active[l] \subseteq active'[l]
          /\ OnlyStarts(st, taskGeneration, status', taskGeneration')
      BY <2>1, <2>2, <2>4, PumpLanes
    <2>6. WaitersAskedStarted' /\ WaitersHonest'
      BY <1>0, <2>1, <2>3, <2>5, WaitersUnnotified DEF OnlyStarts, Settled
    <2> QED
      BY <1>0, <2>1, <2>5, <2>6 DEF IInv, TypeOK, Types
  <1>3. ASSUME NEW e \in Entries, Complete(e) PROVE IInv'
    <2> DEFINE a == [active EXCEPT ![LaneOf[e]] = @ \ {e}]
               st == [status EXCEPT ![e] = "finished"]
    <2>1. /\ status[e] = "running"
          /\ UNCHANGED <<gatewayDraining, waiterIds>>
      BY <1>3 DEF Complete
    <2>2. CASE taskGeneration[e] = generation[LaneOf[e]]
      <3>1. /\ NotifyWaiters(a)
            /\ DrainLanes({LaneOf[e]}, queue, a, maxConcurrent, generation, st)
            /\ UNCHANGED <<maxConcurrent, generation>>
        BY <1>3, <2>2 DEF Complete
      <3>2. /\ Types(queue, a, maxConcurrent, generation, st, taskGeneration)
            /\ Coherent(queue, a, generation, st, taskGeneration)
            /\ \A l \in Lanes \ {LaneOf[e]} : Full(queue, a, maxConcurrent, l)
        BY <2>1, <2>2, FinishCoherent
      <3>3. st[e] = "finished" /\ \A f \in Entries : f # e => st[f] = status[f]
        BY <1>0 DEF TypeOK
      <3>4. {LaneOf[e]} \in SUBSET Lanes
        BY EntriesAssumption
      <3> HIDE DEF a, st
      <3>5. /\ Types(queue', active', maxConcurrent, generation, status', taskGeneration')
            /\ Coherent(queue', active', generation, status', taskGeneration')
            /\ \A l \in Lanes : Full(queue', active', maxConcurrent, l)
            /\ OnlyStarts(st, taskGeneration, status', taskGeneration')
        BY <3>1, <3>2, <3>4, PumpLanes
      <3>6. \A f \in Entries : status[f] \in Settled \cup {"running"} =>
                /\ status'[f] \in Settled \cup {"running"}
                /\ status[f] \in Settled => status'[f] \in Settled
                /\ taskGeneration'[f] = taskGeneration[f]
                /\ status'[f] = st[f]
        BY <2>1, <3>3, <3>5 DEF OnlyStarts, Settled
      <3>7. \A f \in Entries : status[f] \in Settled \cup {"running"} =>
                \A l \in Lanes : f \in active'[l] <=> f \in a[l]
        BY <3>1, <3>2, <3>5, <3>6 DEF Coherent
      <3>8. /\ WaitersAskedStarted' /\ WaitersHonest'
            /\ waiterState' \in [Waiters -> {"idle", "pending", "drained", "expired"}]
        <4>1. \A l \in Lanes : generation[l] <= generation'[l]
          BY <1>0, <3>1 DEF TypeOK
        <4> QED
          BY <2>1, <3>1, <3>5, <3>6, <3>7, <4>1, WaitersNotified
      <3> QED
        BY <1>0, <2>1, <3>1, <3>5, <3>8 DEF IInv, TypeOK, Types
    <2>3. CASE taskGeneration[e] # generation[LaneOf[e]]
      <3>1. /\ status' = st
            /\ UNCHANGED <<queue, active, maxConcurrent, generation, taskGeneration,
                           waiterState, waiterIds, gatewayDraining>>
        BY <1>3, <2>1, <2>3 DEF Complete
      <3>2. TypeOK'
        BY <1>0, <3>1 DEF TypeOK, Statuses, Settled
      <3>3. Coherent(queue, active, generation, status, taskGeneration)'
        BY <1>0, <2>1, <2>3, <3>1 DEF Coherent, TypeOK
      <3>4. \A l \in Lanes : Full(queue, active, maxConcurrent, l)'
        BY <1>0, <3>1 DEF Full
      <3>5. WaitersAskedStarted' /\ WaitersHonest'
        BY <1>0, <2>1, <3>1, WaitersUnnotified DEF TypeOK, Settled
      <3> QED
        BY <3>2, <3>3, <3>4, <3>5 DEF IInv
    <2> QED
      BY <2>2, <2>3
  <1>4. ASSUME NEW l0 \in Lanes, NEW n \in 0..MaxConcurrency,
               SetCommandLaneConcurrency(l0, n)
        PROVE  IInv'
    <2> DEFINE m == [maxConcurrent EXCEPT ![l0] = IF n < 1 THEN 1 ELSE n]
    <2>1. /\ maxConcurrent' = m
          /\ DrainLanes({l0}, queue, active, m, generation, status)
          /\ UNCHANGED <<generation, gatewayDraining, waiterState, waiterIds>>
      BY <1>4 DEF SetCommandLaneConcurrency, AtLeastOne
    <2>2. Types(queue, active, m, generation, status, taskGeneration)
      <3>1. (IF n < 1 THEN 1 ELSE n) \in 1..MaxConcurrency
        BY BoundsAssumption
      <3> QED
        BY <1>0, <3>1 DEF Types
    <2>3. \A l \in Lanes \ {l0} : Full(queue, active, m, l)
      BY <1>0 DEF Full, TypeOK
    <2> HIDE DEF m
    <2>4. /\ Types(queue', active', m, generation, status', taskGeneration')
          /\ Coherent(queue', active', generation, status', taskGeneration')
          /\ \A l \in Lanes : Full(queue', active', m, l)
          /\ \A l \in Lanes : active[l] \subseteq active'[l]
          /\ OnlyStarts(status, taskGeneration, status', taskGeneration')
      BY <1>0, <2>1, <2>2, <2>3, PumpLanes
    <2>5. WaitersAskedStarted' /\ WaitersHonest'
      BY <2>1, <2>4, WaitersUnnotified DEF OnlyStarts, Settled
    <2> QED
      BY <1>0, <2>1, <2>4, <2>5 DEF IInv, TypeOK, Types
  <1>5. ASSUME NEW l0 \in Lanes, ClearCommandLane(l0) PROVE IInv'
    <2>1. /\ queue' = [queue EXCEPT ![l0] = <<>>]
          /\ status' = [e \in Entries |->
                           IF e \in Elements(queue[l0]) THEN "cleared" ELSE status[e]]
          /\ UNCHANGED <<active, maxConcurrent, generation, gatewayDraining,
                         taskGeneration, waiterState, waiterIds>>
      BY <1>5 DEF ClearCommandLane
    <2>2. /\ queue' \in [Lanes -> Seq(Entries)]
          /\ queue'[l0] = <<>>
          /\ \A l \in Lanes : l # l0 => queue'[l] = queue[l]
      BY <1>0, <2>1 DEF TypeOK
    <2>3. TypeOK'
      <3>1. status' \in [Entries -> Statuses]
        BY <1>0, <2>1 DEF TypeOK, Statuses, Settled
      <3> QED
        BY <1>0, <2>1, <2>2, <3>1 DEF TypeOK
    <2>4. \A e \in Entries : e \in Elements(queue[l0]) <=>
                                status[e] = "queued" /\ LaneOf[e] = l0
      BY <1>0 DEF Coherent
    <2>5. Coherent(queue', active', generation', status', taskGeneration')
      <3>1. Elements(<<>>) = {}
        BY DEF Elements
      <3>2. Injective(<<>>)
        BY DEF Injective
      <3>3. \A l \in Lanes : Injective(queue'[l])
        BY <1>0, <2>2, <3>2 DEF Coherent
      <3>4. \A l \in Lanes, e \in Entries :
                e \in Elements(queue'[l]) <=> status'[e] = "queued" /\ LaneOf[e] = l
        BY <1>0, <2>1, <2>2, <2>4, <3>1 DEF Coherent
      <3>5. \A l \in Lanes, e \in Entries :
                e \in active'[l] <=> /\ LaneOf[e] = l
                                    /\ status'[e] = "running"
                                    /\ taskGeneration'[e] = generation'[l]
        BY <1>0, <2>1, <2>4 DEF Coherent
      <3> QED
        BY <1>0, <2>1, <3>3, <3>4, <3>5 DEF Coherent
    <2>6. \A l \in Lanes : Full(queue, active, maxConcurrent, l)'
      BY <1>0, <2>1, <2>2 DEF Full
    <2>7. WaitersAskedStarted' /\ WaitersHonest'
      BY <2>1, <2>4, WaitersUnnotified DEF Settled
    <2> QED
      BY <2>3, <2>5, <2>6, <2>7 DEF IInv
  <1>6. ASSUME MarkGatewayDraining PROVE IInv'
    <2>1. /\ gatewayDraining' = TRUE
          /\ UNCHANGED <<queue, active, maxConcurrent, generation, status,
                         taskGeneration, waiterState, waiterIds>>
      BY <1>6 DEF MarkGatewayDraining
    <2> QED
      BY <1>0, <2>1 DEF IInv, TypeOK, Coherent, Full, WaitersAskedStarted,
                        WaitersHonest, AllActive
  <1>7. ASSUME ResetAllLanes PROVE IInv'
    <2> DEFINE noTasks == [l \in Lanes |-> {}]
               next == [l \in Lanes |-> generation[l] + 1]
               L == {l \in Lanes : queue[l] # <<>>}
    <2>1. /\ \A l \in Lanes : generation[l] < MaxGeneration
          /\ gatewayDraining' = FALSE
          /\ generation' = next
          /\ DrainLanes(L, queue, noTasks, maxConcurrent, next, status)
          /\ NotifyWaiters(noTasks)
          /\ UNCHANGED <<maxConcurrent, waiterIds>>
      BY <1>7 DEF ResetAllLanes, NextGeneration, LanesToDrain
    <2>2. Types(queue, noTasks, maxConcurrent, next, status, taskGeneration)
      <3>1. \A l \in Lanes : generation[l] + 1 \in 0..MaxGeneration
        BY <1>0, <2>1, BoundsAssumption DEF TypeOK
      <3> QED
        BY <1>0, <3>1 DEF Types
    <2>3. \A e \in Entries : taskGeneration[e] < next[LaneOf[e]]
      <3>1. \A e \in Entries : /\ LaneOf[e] \in Lanes
                                /\ taskGeneration[e] \in Nat
                                /\ generation[LaneOf[e]] \in Nat
                                /\ taskGeneration[e] <= generation[LaneOf[e]]
        BY <1>0, EntriesAssumption DEF TypeOK, Coherent
      <3> QED
        BY <3>1
    <2>4. Coherent(queue, noTasks, next, status, taskGeneration)
      <3>1. \A e \in Entries : taskGeneration[e] \in Nat /\ next[LaneOf[e]] \in Nat
        BY <1>0, EntriesAssumption DEF TypeOK
      <3>2. \A l \in Lanes : IsFiniteSet(noTasks[l])
        BY FS_EmptySet
      <3>3. \A e \in Entries : taskGeneration[e] # next[LaneOf[e]]
                              /\ taskGeneration[e] <= next[LaneOf[e]]
        BY <2>3, <3>1
      <3> HIDE DEF next
      <3> QED
        BY <1>0, <3>2, <3>3 DEF Coherent
    <2>5. \A l \in Lanes \ L : Full(queue, noTasks, maxConcurrent, l)
      BY DEF Full
    <2>6. L \in SUBSET Lanes /\ DrainLanes(L, queue, noTasks, maxConcurrent, next, status)
      BY <2>1
    <2>7. \A l \in Lanes : generation[l] <= next[l]
      BY <1>0 DEF TypeOK
    <2>8. \A l \in Lanes : noTasks[l] = {}
      OBVIOUS
    <2> HIDE DEF noTasks, next, L
    <2>9. /\ Types(queue', active', maxConcurrent, next, status', taskGeneration')
          /\ Coherent(queue', active', next, status', taskGeneration')
          /\ \A l \in Lanes : Full(queue', active', maxConcurrent, l)
          /\ OnlyStarts(status, taskGeneration, status', taskGeneration')
      BY <2>2, <2>4, <2>5, <2>6, PumpLanes
    <2>10. \A e \in Entries : status[e] \in Settled \cup {"running"} =>
               /\ status'[e] = status[e]
               /\ taskGeneration'[e] = taskGeneration[e]
      BY <2>9 DEF OnlyStarts, Settled
    <2>11. \A e \in Entries : status[e] \in Settled \cup {"running"} =>
               \A l \in Lanes : e \in active'[l] <=> e \in noTasks[l]
      BY <2>8, <2>4, <2>9, <2>10 DEF Coherent
    <2>12. /\ WaitersAskedStarted' /\ WaitersHonest'
           /\ waiterState' \in [Waiters -> {"idle", "pending", "drained", "expired"}]
      BY <2>1, <2>7, <2>9, <2>10, <2>11, WaitersNotified
    <2> QED
      BY <1>0, <2>1, <2>9, <2>12 DEF IInv, TypeOK, Types
  <1>8. ASSUME NEW w \in Waiters, NEW p \in BOOLEAN, WaitForActiveTasks(w, p)
        PROVE  IInv'
    <2> DEFINE ids == AllActive(active)
    <2>1. /\ waiterState[w] = "idle"
          /\ waiterIds' = [waiterIds EXCEPT ![w] = ids]
          /\ waiterState' = [waiterState EXCEPT ![w] =
                                IF ids = {} THEN "drained"
                                ELSE IF ~p THEN "expired" ELSE "pending"]
          /\ UNCHANGED <<queue, active, maxConcurrent, generation, gatewayDraining,
                         status, taskGeneration>>
      BY <1>8 DEF WaitForActiveTasks, CaptureActive
    <2>2. ids \subseteq Entries /\ \A e \in ids : status[e] = "running"
      BY <1>0 DEF AllActive, TypeOK, Coherent
    <2>3. AllActive(active') = ids
      BY <2>1 DEF AllActive
    <2> HIDE DEF ids
    <2>4. /\ waiterIds \in [Waiters -> SUBSET Entries]
          /\ waiterState \in [Waiters -> {"idle", "pending", "drained", "expired"}]
      BY <1>0 DEF TypeOK
    <2>5. TypeOK'
      BY <1>0, <2>1, <2>2 DEF TypeOK
    <2>6. Coherent(queue, active, generation, status, taskGeneration)'
      BY <1>0, <2>1 DEF Coherent
    <2>7. \A l \in Lanes : Full(queue, active, maxConcurrent, l)'
      BY <1>0, <2>1 DEF Full
    <2>8. WaitersAskedStarted'
      BY <1>0, <2>1, <2>2, <2>4 DEF WaitersAskedStarted
    <2>9. WaitersHonest'
      <3>1. ASSUME NEW v \in Waiters, v # w
            PROVE  waiterState'[v] = waiterState[v] /\ waiterIds'[v] = waiterIds[v]
        BY <2>1, <2>4, <3>1
      <3>2. /\ waiterIds'[w] = ids
            /\ waiterState'[w] = IF ids = {} THEN "drained"
                                 ELSE IF ~p THEN "expired" ELSE "pending"
        BY <2>1, <2>4
      <3>3. AllActive(active) = ids
        BY DEF ids
      <3> QED
        BY <1>0, <2>1, <2>3, <3>1, <3>2, <3>3 DEF WaitersHonest
    <2> QED
      BY <2>5, <2>6, <2>7, <2>8, <2>9 DEF IInv
  <1>9. ASSUME NEW w \in Waiters, WaiterTimeout(w) PROVE IInv'
    <2>1. /\ waiterState' = [waiterState EXCEPT ![w] = "expired"]
          /\ UNCHANGED <<queue, active, maxConcurrent, generation, gatewayDraining,
                         status, taskGeneration, waiterIds>>
      BY <1>9 DEF WaiterTimeout
    <2>2. TypeOK'
      BY <1>0, <2>1 DEF TypeOK
    <2>3. /\ Coherent(queue, active, generation, status, taskGeneration)'
          /\ \A l \in Lanes : Full(queue, active, maxConcurrent, l)'
      BY <1>0, <2>1 DEF Coherent, Full
    <2>4. WaitersAskedStarted' /\ WaitersHonest'
      BY <1>0, <2>1 DEF WaitersAskedStarted, WaitersHonest, AllActive, TypeOK
    <2> QED
      BY <2>2, <2>3, <2>4 DEF IInv
  <1>10. CASE UNCHANGED vars
    BY <1>0, <1>10 DEF IInv, TypeOK, Coherent, Full, WaitersAskedStarted,
                       WaitersHonest, AllActive
  <1> QED
    BY <1>1, <1>2, <1>3, <1>4, <1>5, <1>6, <1>7, <1>8, <1>9, <1>10
       DEF Next, Call, Configure

-----------------------------------------------------------------------------
(* What a call and a completion do to the promises: they settle or queue   *)
(* their own entry, and otherwise only start entries.                      *)
LEMMA EnqueueEffect ==
    ASSUME IInv, NEW e \in Entries, Enqueue(e)
    PROVE  /\ status'[e] \in {"queued", "running"}
           /\ \A f \in Entries \ {e} :
                  \/ status'[f] = status[f]
                  \/ status[f] = "queued" /\ status'[f] = "running"
  <1> DEFINE q == [queue EXCEPT ![LaneOf[e]] = Append(@, e)]
             st == [status EXCEPT ![e] = "queued"]
  <1>1. /\ status[e] = "idle"
        /\ DrainLanes({LaneOf[e]}, q, active, maxConcurrent, generation, st)
    BY DEF Enqueue, CanCall
  <1>2. /\ Types(q, active, maxConcurrent, generation, st, taskGeneration)
        /\ Coherent(q, active, generation, st, taskGeneration)
        /\ \A l \in Lanes \ {LaneOf[e]} : Full(q, active, maxConcurrent, l)
    BY <1>1, PushCoherent
  <1>3. st[e] = "queued" /\ \A f \in Entries \ {e} : st[f] = status[f]
    BY DEF IInv, TypeOK
  <1>4. {LaneOf[e]} \in SUBSET Lanes
    BY EntriesAssumption
  <1> HIDE DEF q, st
  <1>5. OnlyStarts(st, taskGeneration, status', taskGeneration')
    BY <1>1, <1>2, <1>4, PumpLanes
  <1> QED
    BY <1>3, <1>5 DEF OnlyStarts

LEMMA CompleteEffect ==
    ASSUME IInv, NEW e \in Entries, Complete(e)
    PROVE  /\ status'[e] = "finished"
           /\ \A f \in Entries \ {e} :
                  \/ status'[f] = status[f]
                  \/ status[f] = "queued" /\ status'[f] = "running"
  <1> DEFINE a == [active EXCEPT ![LaneOf[e]] = @ \ {e}]
             st == [status EXCEPT ![e] = "finished"]
  <1>1. st[e] = "finished" /\ \A f \in Entries \ {e} : st[f] = status[f]
    BY DEF IInv, TypeOK
  <1>2. CASE taskGeneration[e] = generation[LaneOf[e]]
    <2>1. /\ status[e] = "running"
          /\ DrainLanes({LaneOf[e]}, queue, a, maxConcurrent, generation, st)
      BY <1>2 DEF Complete
    <2>2. /\ Types(queue, a, maxConcurrent, generation, st, taskGeneration)
          /\ Coherent(queue, a, generation, st, taskGeneration)
          /\ \A l \in Lanes \ {LaneOf[e]} : Full(queue, a, maxConcurrent, l)
      BY <1>2, <2>1, FinishCoherent
    <2>3. {LaneOf[e]} \in SUBSET Lanes
      BY EntriesAssumption
    <2> HIDE DEF a, st
    <2>4. OnlyStarts(st, taskGeneration, status', taskGeneration')
      BY <2>1, <2>2, <2>3, PumpLanes
    <2> QED
      BY <1>1, <2>4 DEF OnlyStarts
  <1>3. CASE taskGeneration[e] # generation[LaneOf[e]]
    BY <1>1, <1>3 DEF Complete
  <1> QED
    BY <1>2, <1>3

(* The invariant holds throughout every run.                               *)
THEOREM Inductive == Spec => []IInv
  <1> QED
    BY InitEstablishes, StepPreserves, PTL DEF Spec

(* Every variable keeps its type.                                          *)
THEOREM TypeCorrect == Spec => []TypeOK
  <1>1. IInv => TypeOK
    BY DEF IInv
  <1> QED
    BY <1>1, Inductive, PTL

(* No lost wake-up: nothing waits in a lane that has a free slot, for any  *)
(* number of lanes and entries and any concurrency limits.                 *)
THEOREM NoLostWakeUp == Spec => []WorkConserving
  <1>1. IInv => WorkConserving
    BY DEF IInv, Full, WorkConserving
  <1> QED
    BY <1>1, Inductive, PTL

(* A queued entry waits exactly once and in its own lane; the active tasks *)
(* of a lane are its running entries of the current generation.            *)
THEOREM BookkeepingExact == Spec => []InItsPlace
  <1>1. IInv => InItsPlace
    BY DEF IInv, Coherent, Injective, QueuedOnce, ActiveIsRunning, InItsPlace
  <1> QED
    BY <1>1, Inductive, PTL

(* waitForActiveTasks neither hangs on finished work nor reports unfinished *)
(* work of the current generation as drained.                              *)
THEOREM WaitersAreHonest == Spec => []WaitersHonest
  <1>1. IInv => WaitersHonest
    BY DEF IInv
  <1> QED
    BY <1>1, Inductive, PTL

-----------------------------------------------------------------------------
(* A drain starts a prefix of the queue.                                   *)
LEMMA StartedIsPrefix ==
    ASSUME NEW q \in Seq(Entries), Injective(q), NEW m \in Nat,
           NEW a \in SUBSET Entries, IsFiniteSet(a),
           NEW i \in 1..Len(q), NEW j \in 1..Len(q), i < j,
           q[j] \in Started(q, a, m)
    PROVE  q[i] \in Started(q, a, m)
  <1> DEFINE n == StartCount(q, a, m)
  <1>1. n \in 0..Len(q)
    BY StartCountCases
  <1>2. PICK k \in 1..n : q[j] = q[k]
    BY DEF Started
  <1>3. k = j
    BY <1>1, <1>2 DEF Injective
  <1>4. i \in 1..n
    BY <1>1, <1>2, <1>3
  <1> QED
    BY <1>4 DEF Started

(* A drain keeps the two promises of a start: a lane that starts something *)
(* ends within its limit, and nothing overtakes an entry ahead of it.      *)
LEMMA DrainStartsWell ==
    ASSUME NEW L \in SUBSET Lanes,
           NEW q, NEW a, NEW m, NEW g, NEW st,
           Types(q, a, m, g, st, taskGeneration),
           Coherent(q, a, g, st, taskGeneration),
           \A l \in Lanes \ L : Full(q, a, m, l),
           DrainLanes(L, q, a, m, g, st),
           NEW l \in Lanes
    PROVE  /\ (\E e \in active'[l] : e \notin a[l]) => Cardinality(active'[l]) <= m[l]
           /\ \A i, j \in 1..Len(q[l]) :
                  i < j /\ q[l][j] \in active'[l] => q[l][i] \in active'[l]
  <1>1. (\E e \in active'[l] : e \notin a[l]) => Cardinality(active'[l]) <= m[l]
    BY PumpLanes
  <1>2. /\ q[l] \in Seq(Entries) /\ m[l] \in Nat /\ a[l] \in SUBSET Entries
        /\ Injective(q[l]) /\ IsFiniteSet(a[l])
    BY BoundsAssumption DEF Types, Coherent
  <1>3. \A e \in Elements(q[l]) : e \notin a[l]
    <2>1. Elements(q[l]) \subseteq Entries
      BY <1>2 DEF Elements
    <2> QED
      BY <2>1 DEF Coherent
  <1>4. active'[l] = IF l \in L THEN a[l] \cup Started(q[l], a[l], m[l]) ELSE a[l]
    BY DEF DrainLanes
  <1>5. ASSUME NEW i \in 1..Len(q[l]), NEW j \in 1..Len(q[l]), i < j,
               q[l][j] \in active'[l]
        PROVE  q[l][i] \in active'[l]
    <2>1. q[l][j] \notin a[l]
      BY <1>3 DEF Elements
    <2>2. l \in L /\ q[l][j] \in Started(q[l], a[l], m[l])
      BY <1>5, <1>4, <2>1
    <2>3. q[l][i] \in Started(q[l], a[l], m[l])
      BY <1>2, <1>5, <2>2, StartedIsPrefix
    <2> QED
      BY <1>4, <2>2, <2>3
  <1> QED
    BY <1>1, <1>5

(* Every step starts tasks only into free slots and in the order of the    *)
(* queue.                                                                  *)
LEMMA StepStartsWell ==
    ASSUME IInv, [Next]_vars
    PROVE  StartWithinLimit /\ StartInOrder
  <1> USE DEF vars, laneVars, entryVars, waiterVars
  <1>0. /\ TypeOK
        /\ Coherent(queue, active, generation, status, taskGeneration)
        /\ \A l \in Lanes : Full(queue, active, maxConcurrent, l)
        /\ Types(queue, active, maxConcurrent, generation, status, taskGeneration)
    BY DEF IInv, TypeOK, Types
  <1>1. \A l \in Lanes : \A e \in active[l] : status[e] = "running"
    BY <1>0 DEF TypeOK, Coherent
  <1>2. \A l \in Lanes : \A e \in Elements(queue[l]) : e \notin active[l]
    <2>1. \A l \in Lanes : Elements(queue[l]) \subseteq Entries
      BY <1>0 DEF TypeOK, Elements
    <2> QED
      BY <1>0, <2>1 DEF Coherent
  <1>3. ASSUME UNCHANGED active PROVE StartWithinLimit /\ StartInOrder
    BY <1>1, <1>2, <1>3 DEF StartWithinLimit, StartInOrder, Elements
  <1>4. ASSUME NEW e \in Entries, Enqueue(e) PROVE StartWithinLimit /\ StartInOrder
    <2> DEFINE q == [queue EXCEPT ![LaneOf[e]] = Append(@, e)]
               st == [status EXCEPT ![e] = "queued"]
    <2>1. /\ status[e] = "idle"
          /\ DrainLanes({LaneOf[e]}, q, active, maxConcurrent, generation, st)
          /\ maxConcurrent' = maxConcurrent
      BY <1>4 DEF Enqueue, CanCall
    <2>2. /\ Types(q, active, maxConcurrent, generation, st, taskGeneration)
          /\ Coherent(q, active, generation, st, taskGeneration)
          /\ \A l \in Lanes \ {LaneOf[e]} : Full(q, active, maxConcurrent, l)
      BY <2>1, PushCoherent
    <2>3. \A l \in Lanes : /\ Len(queue[l]) <= Len(q[l])
                            /\ Len(queue[l]) \in Nat /\ Len(q[l]) \in Nat
                            /\ \A i \in 1..Len(queue[l]) : q[l][i] = queue[l][i]
      BY <1>0 DEF TypeOK
    <2>4. {LaneOf[e]} \in SUBSET Lanes
      BY EntriesAssumption
    <2> HIDE DEF q, st
    <2>5. ASSUME NEW l \in Lanes
          PROVE  /\ (\E f \in active'[l] : f \notin active[l])
                        => Cardinality(active'[l]) <= maxConcurrent[l]
                 /\ \A i, j \in 1..Len(q[l]) :
                        i < j /\ q[l][j] \in active'[l] => q[l][i] \in active'[l]
      BY <2>1, <2>2, <2>4, DrainStartsWell
    <2>6. StartWithinLimit
      BY <1>1, <2>1, <2>5 DEF StartWithinLimit
    <2>7. StartInOrder
      BY <2>3, <2>5 DEF StartInOrder
    <2> QED
      BY <2>6, <2>7
  <1>5. ASSUME NEW e \in Entries, Complete(e) PROVE StartWithinLimit /\ StartInOrder
    <2> DEFINE a == [active EXCEPT ![LaneOf[e]] = @ \ {e}]
               st == [status EXCEPT ![e] = "finished"]
    <2>1. CASE taskGeneration[e] = generation[LaneOf[e]]
      <3>1. /\ status[e] = "running"
            /\ DrainLanes({LaneOf[e]}, queue, a, maxConcurrent, generation, st)
            /\ maxConcurrent' = maxConcurrent
        BY <1>5, <2>1 DEF Complete
      <3>2. /\ Types(queue, a, maxConcurrent, generation, st, taskGeneration)
            /\ Coherent(queue, a, generation, st, taskGeneration)
            /\ \A l \in Lanes \ {LaneOf[e]} : Full(queue, a, maxConcurrent, l)
        BY <2>1, <3>1, FinishCoherent
      <3>3. \A l \in Lanes : a[l] \subseteq active[l]
        BY <1>0 DEF TypeOK
      <3>4. {LaneOf[e]} \in SUBSET Lanes
        BY EntriesAssumption
      <3> HIDE DEF a, st
      <3>5. ASSUME NEW l \in Lanes
            PROVE  /\ (\E f \in active'[l] : f \notin a[l])
                          => Cardinality(active'[l]) <= maxConcurrent[l]
                   /\ \A i, j \in 1..Len(queue[l]) :
                          i < j /\ queue[l][j] \in active'[l]
                              => queue[l][i] \in active'[l]
        BY <3>1, <3>2, <3>4, DrainStartsWell
      <3>6. StartWithinLimit
        BY <1>1, <3>1, <3>3, <3>5 DEF StartWithinLimit
      <3>7. StartInOrder
        BY <3>5 DEF StartInOrder
      <3> QED
        BY <3>6, <3>7
    <2>2. CASE taskGeneration[e] # generation[LaneOf[e]]
      BY <1>3, <1>5, <2>2 DEF Complete
    <2> QED
      BY <2>1, <2>2
  <1>6. ASSUME NEW l0 \in Lanes, NEW n \in 0..MaxConcurrency,
               SetCommandLaneConcurrency(l0, n)
        PROVE  StartWithinLimit /\ StartInOrder
    <2> DEFINE m == [maxConcurrent EXCEPT ![l0] = IF n < 1 THEN 1 ELSE n]
    <2>1. /\ maxConcurrent' = m
          /\ DrainLanes({l0}, queue, active, m, generation, status)
      BY <1>6 DEF SetCommandLaneConcurrency, AtLeastOne
    <2>2. Types(queue, active, m, generation, status, taskGeneration)
      <3>1. (IF n < 1 THEN 1 ELSE n) \in 1..MaxConcurrency
        BY BoundsAssumption
      <3> QED
        BY <1>0, <3>1 DEF Types
    <2>3. \A l \in Lanes \ {l0} : Full(queue, active, m, l)
      BY <1>0 DEF Full, TypeOK
    <2> HIDE DEF m
    <2>4. ASSUME NEW l \in Lanes
          PROVE  /\ (\E f \in active'[l] : f \notin active[l])
                        => Cardinality(active'[l]) <= m[l]
                 /\ \A i, j \in 1..Len(queue[l]) :
                        i < j /\ queue[l][j] \in active'[l]
                            => queue[l][i] \in active'[l]
      BY <1>0, <2>1, <2>2, <2>3, DrainStartsWell
    <2> QED
      BY <1>1, <2>1, <2>4 DEF StartWithinLimit, StartInOrder
  <1>7. ASSUME ResetAllLanes PROVE StartWithinLimit /\ StartInOrder
    <2> DEFINE noTasks == [l \in Lanes |-> {}]
               next == [l \in Lanes |-> generation[l] + 1]
               L == {l \in Lanes : queue[l] # <<>>}
    <2>1. /\ DrainLanes(L, queue, noTasks, maxConcurrent, next, status)
          /\ maxConcurrent' = maxConcurrent
      BY <1>7 DEF ResetAllLanes, NextGeneration, LanesToDrain
    <2> HIDE DEF next, L
    <2>2. ASSUME NEW l \in Lanes
          PROVE  /\ active'[l] # {} => Cardinality(active'[l]) <= maxConcurrent[l]
                 /\ \A i, j \in 1..Len(queue[l]) :
                        i < j /\ queue[l][j] \in active'[l]
                            => queue[l][i] \in active'[l]
      <3>1. /\ queue[l] \in Seq(Entries) /\ Injective(queue[l])
            /\ maxConcurrent[l] \in Nat
        BY <1>0, BoundsAssumption DEF TypeOK, Coherent
      <3>2. active'[l] = IF l \in L THEN noTasks[l] \cup Started(queue[l], noTasks[l], maxConcurrent[l])
                        ELSE noTasks[l]
        BY <2>1 DEF DrainLanes
      <3>3. noTasks[l] = {} /\ IsFiniteSet({})
        BY FS_EmptySet
      <3>4. active'[l] = {} \/ active'[l] = Started(queue[l], {}, maxConcurrent[l])
        BY <3>2, <3>3
      <3>5. Started(queue[l], {}, maxConcurrent[l]) # {}
                => Cardinality({} \cup Started(queue[l], {}, maxConcurrent[l]))
                       <= maxConcurrent[l]
        <4>1. {} \in SUBSET Entries /\ {} \cap Elements(queue[l]) = {}
          OBVIOUS
        <4> QED
          BY <3>1, <3>3, <4>1, PumpOneLane
      <3>6. \A i, j \in 1..Len(queue[l]) :
                i < j /\ queue[l][j] \in Started(queue[l], {}, maxConcurrent[l])
                    => queue[l][i] \in Started(queue[l], {}, maxConcurrent[l])
        BY <3>1, <3>3, StartedIsPrefix
      <3>7. {} \cup Started(queue[l], {}, maxConcurrent[l])
                = Started(queue[l], {}, maxConcurrent[l])
        OBVIOUS
      <3> QED
        BY <3>4, <3>5, <3>6, <3>7
    <2> QED
      BY <2>1, <2>2 DEF StartWithinLimit, StartInOrder
  <1>8. ASSUME NEW e \in Entries, Refuse(e) PROVE UNCHANGED active
    BY <1>8 DEF Refuse
  <1>9. ASSUME NEW l \in Lanes, ClearCommandLane(l) PROVE UNCHANGED active
    BY <1>9 DEF ClearCommandLane
  <1>10. ASSUME NEW w \in Waiters,
                WaiterTimeout(w) \/ \E p \in BOOLEAN : WaitForActiveTasks(w, p)
         PROVE  UNCHANGED active
    BY <1>10 DEF WaiterTimeout, WaitForActiveTasks, CaptureActive
  <1>11. ASSUME MarkGatewayDraining \/ UNCHANGED vars PROVE UNCHANGED active
    BY <1>11 DEF MarkGatewayDraining
  <1> QED
    BY <1>3, <1>4, <1>5, <1>6, <1>7, <1>8, <1>9, <1>10, <1>11
       DEF Next, Call, Configure

(* Concurrency limit: a lane never starts a task beyond its limit, even    *)
(* after the limit was lowered below the number of running tasks.          *)
THEOREM LimitRespected == Spec => StartsWithinLimit
  <1>1. IInv /\ [Next]_vars => [StartWithinLimit]_vars
    BY StepStartsWell
  <1> QED
    BY <1>1, Inductive, PTL DEF Spec, StartsWithinLimit

(* First in, first out, across enqueues, completions, concurrency changes  *)
(* and resets.                                                             *)
THEOREM OrderKept == Spec => StartsInOrder
  <1>1. IInv /\ [Next]_vars => [StartInOrder]_vars
    BY StepStartsWell
  <1> QED
    BY <1>1, Inductive, PTL DEF Spec, StartsInOrder

(* A lane with no active task and a free slot starts the head of its queue. *)
LEMMA HeadStarts ==
    ASSUME NEW q \in Seq(Entries), q # <<>>, NEW m \in Nat \ {0}
    PROVE  q[1] \in Started(q, {}, m)
  <1>1. IsFiniteSet({}) /\ Cardinality({}) = 0
    BY FS_EmptySet
  <1>2. Len(q) \in Nat \ {0}
    OBVIOUS
  <1>3. StartCount(q, {}, m) \in Nat \ {0}
    BY <1>1, <1>2 DEF StartCount
  <1>4. 1 \in 1..StartCount(q, {}, m)
    BY <1>3
  <1> QED
    BY <1>4 DEF Started

(* A reset starts the head of every queue that is not empty, and no other  *)
(* step changes a generation.                                              *)
LEMMA StepFreesLanes == ASSUME IInv, [Next]_vars PROVE ResetFreesLanes
  <1> USE DEF vars, laneVars, entryVars, waiterVars
  <1>1. TypeOK
    BY DEF IInv
  <1>2. CASE ResetAllLanes
    <2> DEFINE noTasks == [l \in Lanes |-> {}]
               next == [l \in Lanes |-> generation[l] + 1]
               L == {l \in Lanes : queue[l] # <<>>}
    <2>1. DrainLanes(L, queue, noTasks, maxConcurrent, next, status)
      BY <1>2 DEF ResetAllLanes, NextGeneration, LanesToDrain
    <2> HIDE DEF next
    <2>2. ASSUME NEW l \in Lanes, queue[l] # <<>>
          PROVE  queue[l][1] \in active'[l]
      <3>1. queue[l] \in Seq(Entries) /\ maxConcurrent[l] \in Nat \ {0}
        BY <1>1, BoundsAssumption DEF TypeOK
      <3>2. queue[l][1] \in Started(queue[l], {}, maxConcurrent[l])
        BY <2>2, <3>1, HeadStarts
      <3>3. active'[l] = {} \cup Started(queue[l], {}, maxConcurrent[l])
        BY <2>1, <2>2 DEF DrainLanes
      <3> QED
        BY <3>2, <3>3
    <2> QED
      BY <2>2 DEF ResetFreesLanes
  <1>3. CASE ~ResetAllLanes
    <2>1. generation' = generation
      BY <1>3 DEF Next, Call, Configure, Refuse, Enqueue, Complete,
         SetCommandLaneConcurrency, AtLeastOne, ClearCommandLane, MarkGatewayDraining,
         WaitForActiveTasks, CaptureActive, WaiterTimeout
    <2> QED
      BY <2>1 DEF ResetFreesLanes
  <1> QED
    BY <1>2, <1>3

(* An in-process restart frees every lane: whatever never settles in the   *)
(* previous lifecycle cannot keep the head of a queue waiting.             *)
THEOREM ResetFrees == Spec => ResetsFreeLanes
  <1>1. IInv /\ [Next]_vars => [ResetFreesLanes]_vars
    BY StepFreesLanes
  <1> QED
    BY <1>1, Inductive, PTL DEF Spec, ResetsFreeLanes
=============================================================================
