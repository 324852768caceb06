-------------------------- MODULE AgentLanesProofs --------------------------
(***************************************************************************)
(* That at most one run executes in a session, and that runs never wait    *)
(* for each other in a circle, for any runs, sessions, nesting of sends    *)
(* and limits.                                                             *)
(*                                                                         *)
(* The argument of the first: a run executes on its global lane only while *)
(* its session entry runs (Nested); the session lane keeps its limit of    *)
(* one, which no step of the gateway changes (Configured), and nothing     *)
(* resets the lanes, so its running entries are its active ones and these  *)
(* are within the limit (Limited).                                         *)
(*                                                                         *)
(* The argument of the second: cron, session and global entries are on     *)
(* lanes of their own kind and are taken in this order, so each wait leads *)
(* one step further inside (Depth); the one call that leads outside, a     *)
(* send from a run to another session, is awaited with a timeout.          *)
(***************************************************************************)
EXTENDS AgentLanes, CommandLanesProofs

Pending == {"queued", "running"}

Nested ==
    \A r \in Runs : status[GlobalEntry(r)] \in Pending
                        => status[SessionEntry(r)] = "running"

Configured ==
    /\ maxConcurrent = [l \in Lanes |-> LaneLimit(l)]
    /\ generation = [l \in Lanes |-> 0]

Limited == \A l \in Lanes : Cardinality(active[l]) <= maxConcurrent[l]

AInv == IInv /\ Nested /\ Configured /\ Limited

-----------------------------------------------------------------------------
(* The entries of a run (runEmbeddedPiAgent): the global one is called     *)
(* from inside the session one, which waits for it without a bound, on a   *)
(* lane of the session that has a limit of one.                            *)
LEMMA EntriesOfRun ==
    ASSUME NEW r \in Runs
    PROVE  /\ GlobalEntry(r) \in Entries /\ SessionEntry(r) \in Entries
           /\ Outer[GlobalEntry(r)] = SessionEntry(r)
           /\ SessionEntry(r) \notin BoundedWait
           /\ LaneOf[SessionEntry(r)] = ResolveSessionLane(SessionOf[r])
           /\ GlobalEntry(r) # NoEntry /\ SessionEntry(r) # NoEntry
<1>1. GlobalEntry(r) \in RunEntries /\ SessionEntry(r) \in RunEntries
  BY DEF RunEntries
<1>2. RunOuter[GlobalEntry(r)] = SessionEntry(r)
  BY <1>1 DEF RunOuter, GlobalEntry, SessionEntry
<1>3. SessionEntry(r) \notin RunBoundedWait
  BY DEF RunBoundedWait, GlobalEntry, SessionEntry
<1>4. RunLaneOf[SessionEntry(r)] = ResolveSessionLane(SessionOf[r])
  BY <1>1 DEF RunLaneOf, SessionEntry
<1> QED BY <1>1, <1>2, <1>3, <1>4, LanesAssumption, EntriesAssumption

LEMMA EntriesDiffer ==
    ASSUME NEW r1 \in Runs, NEW r2 \in Runs
    PROVE  /\ GlobalEntry(r1) # SessionEntry(r2)
           /\ SessionEntry(r1) = SessionEntry(r2) => r1 = r2
           /\ GlobalEntry(r1) = GlobalEntry(r2) => r1 = r2
BY DEF GlobalEntry, SessionEntry

LEMMA LimitsPositive ==
    /\ \A l \in Lanes : LaneLimit(l) \in 1..MaxConcurrency
    /\ \A s : LaneLimit(ResolveSessionLane(s)) = 1
<1>1. \A l \in Lanes : LaneLimit(l) \in 1..MaxConcurrency
  BY LanesAssumption, BoundsAssumption DEF LaneLimit
<1>2. ASSUME NEW s PROVE LaneLimit(ResolveSessionLane(s)) = 1
  <2>1. ResolveSessionLane(s) \notin {CronLane, CronNestedLane, SessionsLane}
    BY DEF ResolveSessionLane, CronLane, CronNestedLane, SessionsLane
  <2> QED BY <2>1 DEF LaneLimit
<1> QED BY <1>1, <1>2

-----------------------------------------------------------------------------
LEMMA GatewayInitEstablishes == GatewayInit => AInv
<1> SUFFICES ASSUME GatewayInit PROVE AInv
  OBVIOUS
<1>1. TypeOK
  <2>1. queue \in [Lanes -> Seq(Entries)]
    BY DEF GatewayInit
  <2>2. maxConcurrent \in [Lanes -> 1..MaxConcurrency]
    BY LimitsPositive DEF GatewayInit
  <2>3. 0 \in 0..MaxGeneration
    BY BoundsAssumption
  <2> QED BY <2>1, <2>2, <2>3 DEF GatewayInit, TypeOK, Statuses
<1>2. Coherent(queue, active, generation, status, taskGeneration)
  BY EntriesAssumption, FS_EmptySet DEF GatewayInit, Coherent, Injective, Elements
<1>3. \A l \in Lanes : Full(queue, active, maxConcurrent, l)
  BY DEF GatewayInit, Full
<1>4. WaitersAskedStarted /\ WaitersHonest
  BY DEF GatewayInit, WaitersAskedStarted, WaitersHonest
<1>5. Nested
  BY EntriesOfRun DEF GatewayInit, Nested, Pending
<1>6. Configured
  BY DEF GatewayInit, Configured
<1>7. Limited
  <2> SUFFICES ASSUME NEW l \in Lanes PROVE Cardinality(active[l]) <= maxConcurrent[l]
    BY DEF Limited
  <2>1. active[l] = {} /\ maxConcurrent[l] \in 1..MaxConcurrency
    BY LimitsPositive DEF GatewayInit
  <2> QED BY <2>1, FS_EmptySet, BoundsAssumption
<1> QED BY <1>1, <1>2, <1>3, <1>4, <1>5, <1>6, <1>7 DEF AInv, IInv

(* Every step of the gateway is a step of the queue.                       *)
LEMMA AgentStepIsQueueStep == [AgentNext]_vars => [Next]_vars
<1>1. ASSUME NEW r \in Replies, Interrupt(r) PROVE Next
  <2>1. ResolveSessionLane(SessionOf[r]) \in Lanes
    BY EntriesOfRun, EntriesAssumption DEF Runs
  <2> QED BY <1>1, <2>1 DEF Interrupt, Next, Configure
<1>2. ASSUME NEW e \in Entries, Enqueue(e) \/ Complete(e) PROVE Next
  BY <1>2 DEF Next, Call
<1> QED BY <1>1, <1>2 DEF AgentNext

LEMMA NestedKept == ASSUME AInv, [AgentNext]_vars PROVE Nested'
<1> SUFFICES ASSUME NEW r \in Runs, status'[GlobalEntry(r)] \in Pending
             PROVE  status'[SessionEntry(r)] = "running"
  BY DEF Nested
<1> DEFINE g == GlobalEntry(r)
           s == SessionEntry(r)
<1>0. /\ g \in Entries /\ s \in Entries /\ g # s /\ s # NoEntry
      /\ Outer[g] = s /\ s \notin BoundedWait
      /\ status[g] \in Pending => status[s] = "running"
  BY EntriesOfRun, EntriesDiffer DEF AInv, Nested
<1> HIDE DEF g, s
<1>1. ASSUME NEW e \in Entries, Enqueue(e) PROVE status'[s] = "running"
  <2>1. status[s] = "running"
    <3>1. CASE e = g
      BY <1>0, <1>1, <3>1 DEF Enqueue, CanCall
    <3>2. CASE e # g
      BY <1>0, <1>1, <3>2, EnqueueEffect DEF AInv, Pending, g
    <3> QED BY <3>1, <3>2
  <2>2. s # e
    BY <1>1, <2>1 DEF Enqueue, CanCall
  <2> QED BY <1>0, <1>1, <2>1, <2>2, EnqueueEffect DEF AInv
<1>2. ASSUME NEW e \in Entries, Complete(e) PROVE status'[s] = "running"
  <2>1. e # g /\ status[g] \in Pending
    BY <1>0, <1>2, CompleteEffect DEF AInv, Pending, g
  <2>2. status[s] = "running"
    BY <1>0, <2>1
  <2>3. e # s
    BY <1>0, <1>2, <2>1 DEF Complete, MaySettle, Pending
  <2> QED BY <1>0, <1>2, <2>2, <2>3, CompleteEffect DEF AInv
<1>3. ASSUME NEW l \in Lanes, ClearCommandLane(l) PROVE status'[s] = "running"
  <2>1. \A f \in Elements(queue[l]) : f \in Entries => status[f] = "queued"
    BY <1>3 DEF AInv, IInv, Coherent
  <2>2. \A f \in Entries : status'[f] = status[f] \/ (status[f] = "queued" /\ status'[f] = "cleared")
    BY <1>3, <2>1 DEF ClearCommandLane
  <2>3. status[g] \in Pending
    BY <1>0, <2>2 DEF Pending, g
  <2> QED BY <1>0, <2>2, <2>3
<1>4. ASSUME NEW q \in Replies, Interrupt(q) PROVE status'[s] = "running"
  <2>1. ResolveSessionLane(SessionOf[q]) \in Lanes
    BY EntriesOfRun, EntriesAssumption DEF Runs
  <2> QED BY <1>3, <1>4, <2>1 DEF Interrupt
<1>5. CASE UNCHANGED vars
  BY <1>0, <1>5 DEF vars, entryVars, g, s
<1> QED BY <1>1, <1>2, <1>4, <1>5 DEF AgentNext, s

LEMMA ConfiguredKept == ASSUME AInv, [AgentNext]_vars PROVE Configured'
BY DEF AInv, Configured, AgentNext, Enqueue, Complete, Interrupt, ClearCommandLane,
   laneVars, vars

LEMMA LimitedKept == ASSUME AInv, [AgentNext]_vars PROVE Limited'
<1>1. IInv /\ IInv' /\ StartWithinLimit /\ Configured'
  BY AgentStepIsQueueStep, StepPreserves, StepStartsWell, ConfiguredKept DEF AInv
<1> SUFFICES ASSUME NEW l \in Lanes PROVE Cardinality(active'[l]) <= maxConcurrent'[l]
  BY DEF Limited
<1>2. CASE \E e \in active'[l] : status[e] # "running"
  BY <1>1, <1>2 DEF StartWithinLimit
<1>3. CASE \A e \in active'[l] : status[e] = "running"
  <2>1. active'[l] \subseteq active[l]
    <3> SUFFICES ASSUME NEW e \in active'[l] PROVE e \in active[l]
      OBVIOUS
    <3>1. e \in Entries /\ LaneOf[e] = l
      BY <1>1 DEF IInv, TypeOK, Coherent
    <3>2. taskGeneration[e] = 0 /\ generation[l] = 0
      BY <1>1, <3>1 DEF AInv, Configured, IInv, TypeOK, Coherent
    <3> QED BY <1>1, <1>3, <3>1, <3>2 DEF IInv, Coherent
  <2>2. IsFiniteSet(active[l])
    BY <1>1 DEF IInv, Coherent
  <2>3. /\ Cardinality(active'[l]) <= Cardinality(active[l])
        /\ Cardinality(active'[l]) \in Nat /\ Cardinality(active[l]) \in Nat
    BY <2>1, <2>2, FS_Subset, FS_CardinalityType
  <2>4. Cardinality(active[l]) <= maxConcurrent[l] /\ maxConcurrent'[l] = maxConcurrent[l]
    BY <1>1 DEF AInv, Limited, Configured
  <2>5. maxConcurrent[l] \in Nat
    BY <1>1, BoundsAssumption DEF IInv, TypeOK
  <2> QED BY <2>3, <2>4, <2>5
<1> QED BY <1>2, <1>3

LEMMA AgentInductive == AgentSpec => []AInv
<1>1. AInv /\ [AgentNext]_vars => AInv'
  BY AgentStepIsQueueStep, StepPreserves, NestedKept, ConfiguredKept, LimitedKept DEF AInv
<1> QED BY <1>1, GatewayInitEstablishes, PTL DEF AgentSpec

(* At most one run executes in a session, whatever global lanes the runs   *)
(* were routed to, whatever they send to each other, and however often an  *)
(* inbound message interrupts the session, as long as no restart in the    *)
(* same process resets the lanes.                                          *)
THEOREM OneRunInASession == AgentSpec => []OneRunPerSession
<1>1. AInv => OneRunPerSession
  <2> SUFFICES ASSUME AInv, NEW r1 \in Runs, NEW r2 \in Runs,
                      SessionOf[r1] = SessionOf[r2],
                      status[GlobalEntry(r1)] = "running",
                      status[GlobalEntry(r2)] = "running"
               PROVE  r1 = r2
    BY DEF OneRunPerSession
  <2> DEFINE e1 == SessionEntry(r1)
             e2 == SessionEntry(r2)
             l == ResolveSessionLane(SessionOf[r1])
  <2>1. /\ e1 \in Entries /\ LaneOf[e1] = l /\ status[e1] = "running"
        /\ e2 \in Entries /\ LaneOf[e2] = l /\ status[e2] = "running"
    BY EntriesOfRun DEF AInv, Nested, Pending
  <2>2. l \in Lanes
    BY <2>1, EntriesAssumption
  <2>3. generation[l] = 0 /\ maxConcurrent[l] = 1
    BY <2>2, LimitsPositive DEF AInv, Configured
  <2> HIDE DEF e1, e2, l
  <2>4. taskGeneration[e1] = 0 /\ taskGeneration[e2] = 0
    BY <2>1, <2>3 DEF AInv, IInv, TypeOK, Coherent
  <2>5. e1 \in active[l] /\ e2 \in active[l] /\ IsFiniteSet(active[l])
    BY <2>1, <2>2, <2>3, <2>4 DEF AInv, IInv, Coherent
  <2>6. Cardinality(active[l]) <= 1
    BY <2>2, <2>3 DEF AInv, Limited
  <2>7. e1 = e2
    <3> SUFFICES ASSUME e1 # e2 PROVE FALSE
      OBVIOUS
    <3>1. Cardinality({e1, e2}) = 2
      <4>1. IsFiniteSet({e1}) /\ Cardinality({e1}) = 1
        BY FS_Singleton
      <4>2. Cardinality({e1} \cup {e2}) = Cardinality({e1}) + 1
        BY <4>1, FS_AddElement
      <4>3. {e1, e2} = {e1} \cup {e2}
        OBVIOUS
      <4> QED BY <4>1, <4>2, <4>3
    <3>2. Cardinality({e1, e2}) <= Cardinality(active[l]) /\ Cardinality(active[l]) \in Nat
      BY <2>5, FS_Subset, FS_CardinalityType
    <3> QED BY <2>6, <3>1, <3>2
  <2> QED BY <2>7, EntriesDiffer DEF e1, e2
<1> QED BY <1>1, AgentInductive, PTL

-----------------------------------------------------------------------------
(* The queue of the gateway.  Its steps are steps of the queue from other  *)
(* limits than those of Init, so what was proved of the invariant holds.   *)

(* No run waits beside a free slot of its lane; entries are where their    *)
(* promises say.                                                           *)
THEOREM LanesConserveWork == AgentSpec => [](WorkConserving /\ InItsPlace)
<1>1. AInv => WorkConserving /\ InItsPlace
  BY DEF AInv, IInv, Full, WorkConserving, Coherent, Injective, InItsPlace,
         QueuedOnce, ActiveIsRunning
<1> QED BY <1>1, AgentInductive, PTL

(* Runs start within the limits of their lanes and in the order in which   *)
(* they were enqueued, also when interrupts clear session lanes.           *)
THEOREM RunsStartWell == AgentSpec => StartsWithinLimit /\ StartsInOrder
<1>1. AInv /\ [AgentNext]_vars => [StartWithinLimit]_vars /\ [StartInOrder]_vars
  BY AgentStepIsQueueStep, StepStartsWell DEF AInv
<1> QED BY <1>1, AgentInductive, PTL DEF AgentSpec, StartsWithinLimit, StartsInOrder

-----------------------------------------------------------------------------
(* No circular wait.  An entry waits for others in two ways: queued, for   *)
(* the tasks that fill its lane; running, for the nested call it awaits.   *)
CanSettle(e) == status[e] = "running" /\ MaySettle(e)

WaitsFor(e) ==
    IF status[e] = "queued" THEN active[LaneOf[e]]
    ELSE {c \in Entries : Outer[c] = e /\ status[c] \in Pending}

(* The lanes in the order in which a run takes them, from the inside: a    *)
(* global lane, the lane of the session, the cron lane; on each of them,   *)
(* the tasks that run before those that wait.                              *)
Depth(e) ==
    (CASE e[1] = "global" -> 0
       [] e[1] = "session" -> 2
       [] e[1] = "cron" -> 4)
    + (IF status[e] = "running" THEN 1 ELSE 2)

(* Whoever cannot go on by itself waits for something, and only for tasks  *)
(* further inside: a chain of waits never returns to where it began, and   *)
(* ends after at most five at a task that can settle.                      *)
NoCircularWait ==
    \A e \in Entries : status[e] \in Pending /\ ~CanSettle(e) =>
        /\ WaitsFor(e) # {}
        /\ \A f \in WaitsFor(e) : status[f] \in Pending /\ Depth(f) < Depth(e)

(* The kind of an entry: the tag it carries.                               *)
LEMMA EntryKinds ==
    \A e \in Entries : e[1] \in {"global", "session", "cron"}
BY LanesAssumption DEF RunEntries, SessionEntry, GlobalEntry, CronEntry

(* Each kind has lanes of its own: a cron job asks for the lane that       *)
(* resolveCronAgentLane maps the cron lane to, so its agent run never      *)
(* shares the lane of the entry around it.                                 *)
LEMMA LanesByKind ==
    ASSUME NEW e \in Entries, NEW f \in Entries, LaneOf[e] = LaneOf[f]
    PROVE  e[1] = f[1]
<1>1. \A d \in RunEntries :
          /\ d[1] = "session" => LaneOf[d][1] = "session"
          /\ d[1] = "cron" => LaneOf[d][1] = "cron"
          /\ d[1] = "global" => LaneOf[d][1] \in {"sessions", "cron-nested", "nested"}
  <2> SUFFICES ASSUME NEW d \in RunEntries
               PROVE  /\ d[1] = "session" => RunLaneOf[d][1] = "session"
                      /\ d[1] = "cron" => RunLaneOf[d][1] = "cron"
                      /\ d[1] = "global" => RunLaneOf[d][1]
                                               \in {"sessions", "cron-nested", "nested"}
    BY LanesAssumption
  <2>1. d[1] = "session" => RunLaneOf[d] = ResolveSessionLane(SessionOf[d[2]])
    BY DEF RunLaneOf
  <2>2. d[1] = "cron" => RunLaneOf[d] = CronLane
    BY DEF RunLaneOf
  <2>3. d[1] = "global" => RunLaneOf[d] = GlobalLane(d[2]) /\ d[2] \in Runs
    BY DEF RunLaneOf, RunEntries, SessionEntry, GlobalEntry, CronEntry
  <2>4. ASSUME NEW r \in Runs
        PROVE  GlobalLane(r)[1] \in {"sessions", "cron-nested", "nested"}
    <3>1. LaneParam(r) \in {NoLane, CronNestedLane,
                            ResolveNestedAgentLaneForSession(SessionOf[r])}
      BY DEF LaneParam, Runs, ResolveCronAgentLane
    <3>2. CronNestedLane \notin {NoLane, CronLane}
      BY DEF CronNestedLane, NoLane, CronLane
    <3>3. ResolveNestedAgentLaneForSession(SessionOf[r]) \notin {NoLane, CronLane}
      BY DEF ResolveNestedAgentLaneForSession, NoLane, CronLane
    <3>4. NoLane # CronLane
      BY DEF NoLane, CronLane
    <3>5. GlobalLane(r) \in {SessionsLane, CronNestedLane,
                             ResolveNestedAgentLaneForSession(SessionOf[r])}
      BY <3>1, <3>2, <3>3, <3>4 DEF GlobalLane, ResolveGlobalLane
    <3> QED BY <3>5 DEF SessionsLane, CronNestedLane, ResolveNestedAgentLaneForSession
  <2> QED BY <2>1, <2>2, <2>3, <2>4 DEF ResolveSessionLane, CronLane
<1> QED BY <1>1, EntryKinds, LanesAssumption

(* What runs inside what: an agent run inside its session entry, a session *)
(* entry inside a cron entry or inside the run that sent to the session,   *)
(* which waits with a timeout.                                             *)
LEMMA CallsByKind ==
    ASSUME NEW c \in Entries, Outer[c] \in Entries
    PROVE  \/ Outer[c][1] = "session" /\ c[1] = "global"
           \/ Outer[c][1] = "cron" /\ c[1] = "session"
           \/ Outer[c][1] = "global" /\ Outer[c] \in BoundedWait
<1>1. c \in RunEntries /\ Outer[c] = RunOuter[c] /\ Outer[c] # NoEntry
  BY LanesAssumption, EntriesAssumption
<1>2. CASE c[1] = "global"
  BY <1>1, <1>2 DEF RunOuter, SessionEntry
<1>3. CASE c[1] = "session"
  <2>1. \/ c[2] \in Sends /\ Outer[c] = GlobalEntry(SenderOf[c[2]])
        \/ Outer[c] = CronEntry(c[2])
    BY <1>1, <1>3 DEF RunOuter
  <2> QED BY <1>3, <2>1, LanesAssumption DEF RunBoundedWait, GlobalEntry, CronEntry
<1>4. CASE c[1] = "cron"
  BY <1>1, <1>4 DEF RunOuter
<1> QED BY <1>2, <1>3, <1>4, EntryKinds

(* An entry that is queued waits for tasks of its own kind; the lane is    *)
(* full, so there are some.                                                *)
LEMMA QueuedWaits ==
    ASSUME AInv, NEW e \in Entries, status[e] = "queued"
    PROVE  /\ WaitsFor(e) # {}
           /\ \A f \in WaitsFor(e) : status[f] = "running" /\ Depth(f) < Depth(e)
<1> DEFINE l == LaneOf[e]
<1>1. l \in Lanes
  BY EntriesAssumption
<1>2. WaitsFor(e) = active[l]
  BY DEF WaitsFor
<1>3. e \in Elements(queue[l]) /\ Full(queue, active, maxConcurrent, l)
  BY <1>1 DEF AInv, IInv, Coherent
<1> HIDE DEF l
<1>4. queue[l] # <<>>
  BY <1>3 DEF Elements
<1>5. maxConcurrent[l] \in Nat \ {0}
  BY <1>1, BoundsAssumption DEF AInv, IInv, TypeOK
<1>6. Cardinality(active[l]) >= maxConcurrent[l]
  BY <1>3, <1>4 DEF Full
<1>7. active[l] # {}
  BY <1>5, <1>6, FS_EmptySet
<1>8. ASSUME NEW f \in active[l]
      PROVE  status[f] = "running" /\ Depth(f) < Depth(e)
  <2>1. f \in Entries /\ LaneOf[f] = l /\ status[f] = "running"
    BY <1>1 DEF AInv, IInv, TypeOK, Coherent
  <2>2. f[1] = e[1]
    BY <2>1, LanesByKind DEF l
  <2>3. e[1] \in {"global", "session", "cron"}
    BY EntryKinds
  <2> QED BY <2>1, <2>2, <2>3 DEF Depth
<1> QED BY <1>2, <1>7, <1>8

(* A task that runs and cannot settle waits without a bound for a nested   *)
(* call that is pending, one kind further inside.                          *)
LEMMA RunningWaits ==
    ASSUME AInv, NEW e \in Entries, status[e] = "running", ~MaySettle(e)
    PROVE  /\ WaitsFor(e) # {}
           /\ \A f \in WaitsFor(e) : status[f] \in Pending /\ Depth(f) < Depth(e)
<1>1. e \notin BoundedWait
  BY DEF MaySettle
<1>2. WaitsFor(e) = {c \in Entries : Outer[c] = e /\ status[c] \in Pending}
  BY DEF WaitsFor
<1>3. WaitsFor(e) # {}
  BY <1>2 DEF MaySettle, Pending
<1>4. ASSUME NEW f \in WaitsFor(e)
      PROVE  status[f] \in Pending /\ Depth(f) < Depth(e)
  <2>1. f \in Entries /\ Outer[f] = e /\ status[f] \in Pending
    BY <1>2
  <2>2. \/ e[1] = "session" /\ f[1] = "global"
        \/ e[1] = "cron" /\ f[1] = "session"
    BY <1>1, <2>1, CallsByKind
  <2> QED BY <2>1, <2>2 DEF Depth
<1> QED BY <1>3, <1>4

(* Runs hold their cron, session and global lanes while they wait for the  *)
(* lanes of what they start, and never wait for each other in a circle:    *)
(* for any sessions, sends between them, cron jobs and limits.             *)
THEOREM WaitsAreAcyclic == AgentSpec => []NoCircularWait
<1>1. AInv => NoCircularWait
  BY QueuedWaits, RunningWaits DEF NoCircularWait, Pending, CanSettle
<1> QED BY <1>1, AgentInductive, PTL

(* While any work is accepted and unsettled, some task can settle: the     *)
(* gateway is never stuck with every run waiting for another.              *)
THEOREM NeverStuck ==
    AgentSpec => []((\E e \in Entries : status[e] \in Pending)
                        => \E e \in Entries : CanSettle(e))
<1> DEFINE Someone == \E e \in Entries : CanSettle(e)
           Clear(n) == \A e \in Entries : status[e] \in Pending /\ Depth(e) < n => Someone
<1>1. ASSUME AInv, NEW n \in Nat, Clear(n) PROVE Clear(n + 1)
  <2> SUFFICES ASSUME NEW e \in Entries, status[e] \in Pending, Depth(e) < n + 1,
                      ~CanSettle(e)
               PROVE  Someone
    OBVIOUS
  <2>1. NoCircularWait
    BY <1>1, QueuedWaits, RunningWaits DEF NoCircularWait, Pending, CanSettle
  <2>2. PICK f \in WaitsFor(e) : status[f] \in Pending /\ Depth(f) < Depth(e)
    BY <2>1 DEF NoCircularWait
  <2>3. f \in Entries
    <3>1. LaneOf[e] \in Lanes
      BY EntriesAssumption
    <3> QED BY <1>1, <3>1 DEF WaitsFor, AInv, IInv, TypeOK
  <2>4. Depth(e) \in Nat /\ Depth(f) \in Nat
    BY <2>3, EntryKinds DEF Depth
  <2> QED BY <1>1, <2>2, <2>3, <2>4
<1>2. Clear(1) /\ \A e \in Entries : Depth(e) \in 1..6
  BY EntryKinds DEF Depth
<1> HIDE DEF Clear
<1>3. AInv => Clear(7)
  BY <1>1, <1>2
<1>4. AInv => ((\E e \in Entries : status[e] \in Pending) => Someone)
  BY <1>2, <1>3 DEF Clear
<1> QED BY <1>4, AgentInductive, PTL
=============================================================================
