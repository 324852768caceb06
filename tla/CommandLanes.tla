---------------------------- MODULE CommandLanes ----------------------------
(***************************************************************************)
(* The in-process command queue of src/src/process/command-queue.ts.       *)
(*                                                                         *)
(* The process is one JavaScript thread: a call of the queue's API, with   *)
(* the pump it triggers, runs to completion before anything else does, so  *)
(* every API call and every completion of a task is one action.  What a    *)
(* task does after it was started (the nested enqueue it makes, the moment *)
(* it settles) is an action of its own, interleaved with everything else.  *)
(*                                                                         *)
(* An element of Entries is one call of enqueueCommandInLane.  Outer gives *)
(* the entry whose task makes the call and then awaits it: an agent run    *)
(* enqueues on its session lane and, from inside that task, on a global    *)
(* lane (agents/embedded-agent-runner/run.ts).  An entry is started at     *)
(* most once, so it stands for its taskId too.                             *)
(***************************************************************************)
EXTENDS Naturals, Sequences, FiniteSets

CONSTANTS
    Lanes,            \* lane names
    Entries,          \* calls of enqueueCommandInLane
    LaneOf,           \* the lane an entry is enqueued on
    Outer,            \* the entry whose task makes the call, or NoEntry
    NoEntry,
    BoundedWait,      \* entries whose task goes on when a nested call is late
    Waiters,          \* calls of waitForActiveTasks
    MaxConcurrency,   \* bound: largest concurrency an operator configures
    MaxGeneration     \* bound: how often resetAllLanes is called

ASSUME EntriesAssumption ==
    /\ NoEntry \notin Entries
    /\ LaneOf \in [Entries -> Lanes]
    /\ Outer \in [Entries -> Entries \cup {NoEntry}]
    /\ BoundedWait \subseteq Entries

ASSUME BoundsAssumption ==
    /\ MaxConcurrency \in Nat \ {0}
    /\ MaxGeneration \in Nat

VARIABLES
    queue,            \* LaneState.queue: entries waiting, oldest first
    active,           \* LaneState.activeTaskIds
    maxConcurrent,    \* LaneState.maxConcurrent
    generation,       \* LaneState.generation
    gatewayDraining,  \* the gateway-wide draining flag
    status,           \* what became of the promise of each entry
    taskGeneration,   \* lane generation captured when the task was started
    waiterState,      \* what became of the promise of each waiter
    waiterIds         \* ActiveTaskWaiter.activeTaskIds

laneVars == <<queue, active, maxConcurrent, generation>>
entryVars == <<status, taskGeneration>>
waiterVars == <<waiterState, waiterIds>>
vars == <<laneVars, gatewayDraining, entryVars, waiterVars>>

(* "finished": the task itself resolved or rejected; "cleared" and         *)
(* "refused": rejected with CommandLaneClearedError, GatewayDrainingError. *)
Settled == {"finished", "cleared", "refused"}
Statuses == {"idle", "queued", "running"} \cup Settled

Elements(s) == {s[i] : i \in 1..Len(s)}

AllActive(a) == UNION {a[l] : l \in Lanes}

TypeOK ==
    /\ queue \in [Lanes -> Seq(Entries)]
    /\ active \in [Lanes -> SUBSET Entries]
    /\ maxConcurrent \in [Lanes -> 1..MaxConcurrency]
    /\ generation \in [Lanes -> 0..MaxGeneration]
    /\ gatewayDraining \in BOOLEAN
    /\ status \in [Entries -> Statuses]
    /\ taskGeneration \in [Entries -> 0..MaxGeneration]
    /\ waiterState \in [Waiters -> {"idle", "pending", "drained", "expired"}]
    /\ waiterIds \in [Waiters -> SUBSET Entries]

Init ==
    /\ queue = [l \in Lanes |-> <<>>]
    /\ active = [l \in Lanes |-> {}]
    /\ maxConcurrent = [l \in Lanes |-> 1]
    /\ generation = [l \in Lanes |-> 0]
    /\ gatewayDraining = FALSE
    /\ status = [e \in Entries |-> "idle"]
    /\ taskGeneration = [e \in Entries |-> 0]
    /\ waiterState = [w \in Waiters |-> "idle"]
    /\ waiterIds = [w \in Waiters |-> {}]

-----------------------------------------------------------------------------
(* drainLane: while fewer than m of the lane's tasks are active and its    *)
(* queue q is not empty, shift the head and start it.  The loop starts the *)
(* first StartCount(q, a, m) entries.                                      *)

StartCountBelow(q, a, m) ==   \* mutant of StartCount: stops one slot early
    IF Cardinality(a) + 1 >= m THEN 0
    ELSE IF m - Cardinality(a) < Len(q) THEN m - Cardinality(a) ELSE Len(q)

StartCountAbove(q, a, m) ==   \* mutant of StartCount: one task too many
    IF Cardinality(a) > m THEN 0
    ELSE IF m + 1 - Cardinality(a) < Len(q) THEN m + 1 - Cardinality(a)
    ELSE Len(q)

StartCount(q, a, m) ==
    IF Cardinality(a) >= m THEN 0
    ELSE IF m - Cardinality(a) < Len(q) THEN m - Cardinality(a) ELSE Len(q)

StartedLast(q, a, m) ==       \* mutant of Started: pop instead of shift
    {q[Len(q) + 1 - i] : i \in 1..StartCount(q, a, m)}

Started(q, a, m) == {q[i] : i \in 1..StartCount(q, a, m)}

Waiting(q, a, m) == SubSeq(q, StartCount(q, a, m) + 1, Len(q))

(* Drain the lanes of L from queues q, active sets a, limits m,            *)
(* generations g and entry statuses st.                                    *)
DrainLanes(L, q, a, m, g, st) ==
    LET starting == UNION {Started(q[l], a[l], m[l]) : l \in L}
    IN  /\ queue' = [l \in Lanes |->
                        IF l \in L THEN Waiting(q[l], a[l], m[l]) ELSE q[l]]
        /\ active' = [l \in Lanes |->
                        IF l \in L THEN a[l] \cup Started(q[l], a[l], m[l])
                        ELSE a[l]]
        /\ status' = [e \in Entries |->
                        IF e \in starting THEN "running" ELSE st[e]]
        /\ taskGeneration' = [e \in Entries |->
                        IF e \in starting THEN g[LaneOf[e]]
                        ELSE taskGeneration[e]]

(* notifyActiveTaskWaiters: a pending waiter none of whose captured tasks  *)
(* is active any more, in any lane, resolves with drained = true.          *)
NotifyEarly(a) ==             \* mutant of NotifyWaiters: one task is enough
    waiterState' = [w \in Waiters |->
        IF waiterState[w] = "pending" /\ ~(waiterIds[w] \subseteq AllActive(a))
        THEN "drained" ELSE waiterState[w]]

NotifyWaiters(a) ==
    waiterState' = [w \in Waiters |->
        IF waiterState[w] = "pending" /\ waiterIds[w] \cap AllActive(a) = {}
        THEN "drained" ELSE waiterState[w]]

(* A call is made by the outside, or by the running task of its outer      *)
(* entry.                                                                  *)
CanCall(e) ==
    /\ status[e] = "idle"
    /\ Outer[e] # NoEntry => status[Outer[e]] = "running"

-----------------------------------------------------------------------------
(* enqueueCommandInLane while the gateway drains: the promise is rejected  *)
(* with GatewayDrainingError and nothing is queued.                        *)
Refuse(e) ==
    /\ CanCall(e)
    /\ gatewayDraining
    /\ status' = [status EXCEPT ![e] = "refused"]
    /\ UNCHANGED <<laneVars, gatewayDraining, taskGeneration, waiterVars>>

(* enqueueCommandInLane otherwise: push the entry and drain its lane.      *)
Enqueue(e) ==
    /\ CanCall(e)
    /\ ~gatewayDraining
    /\ DrainLanes({LaneOf[e]},
                  [queue EXCEPT ![LaneOf[e]] = Append(@, e)],
                  active, maxConcurrent, generation,
                  [status EXCEPT ![e] = "queued"])
    /\ UNCHANGED <<maxConcurrent, generation, gatewayDraining, waiterVars>>

(* A task settles when no nested call it awaits is pending; a task of      *)
(* BoundedWait also gives up waiting (sessions_send waits for the run of   *)
(* another session up to its timeout).                                     *)
MaySettle(e) ==
    \/ e \in BoundedWait
    \/ \A c \in Entries : Outer[c] = e => status[c] \notin {"queued", "running"}

(* completeTask and what follows it: a task of the lane's current          *)
(* generation leaves the active set, the waiters are notified and the lane *)
(* is pumped; a task started before a reset only settles its own promise.  *)
Complete(e) ==
    /\ status[e] = "running"
    /\ MaySettle(e)
    /\ LET l == LaneOf[e]
           a == [active EXCEPT ![l] = @ \ {e}]
           st == [status EXCEPT ![e] = "finished"]
       IN  IF taskGeneration[e] = generation[l]
           THEN /\ NotifyWaiters(a)
                /\ DrainLanes({l}, queue, a, maxConcurrent, generation, st)
                /\ UNCHANGED <<maxConcurrent, generation>>
           ELSE /\ status' = st
                /\ UNCHANGED <<laneVars, taskGeneration, waiterState>>
    /\ UNCHANGED <<gatewayDraining, waiterIds>>

(* setCommandLaneConcurrency: at least one task, then drain the lane.      *)
Unclamped(n) == n             \* mutant of AtLeastOne

AtLeastOne(n) == IF n < 1 THEN 1 ELSE n

SetCommandLaneConcurrency(l, n) ==
    LET m == [maxConcurrent EXCEPT ![l] = AtLeastOne(n)]
    IN  /\ maxConcurrent' = m
        /\ DrainLanes({l}, queue, active, m, generation, status)
        /\ UNCHANGED <<generation, gatewayDraining, waiterVars>>

(* clearCommandLane: every queued entry of the lane is rejected with       *)
(* CommandLaneClearedError; the running ones are left alone.               *)
ClearCommandLane(l) ==
    /\ queue[l] # <<>>
    /\ queue' = [queue EXCEPT ![l] = <<>>]
    /\ status' = [e \in Entries |->
                     IF e \in Elements(queue[l]) THEN "cleared" ELSE status[e]]
    /\ UNCHANGED <<active, maxConcurrent, generation, gatewayDraining,
                   taskGeneration, waiterVars>>

MarkGatewayDraining ==
    /\ gatewayDraining' = TRUE
    /\ UNCHANGED <<laneVars, entryVars, waiterVars>>

(* resetAllLanes: accept work again, forget the active tasks of the old    *)
(* generation, drain every lane that still has queued entries, and release *)
(* the waiters.                                                            *)
SameGeneration == generation  \* mutant of NextGeneration

NextGeneration == [l \in Lanes |-> generation[l] + 1]

NoLanes == {}                 \* mutant of LanesToDrain

LanesToDrain == {l \in Lanes : queue[l] # <<>>}

ResetAllLanes ==
    LET noTasks == [l \in Lanes |-> {}]
    IN  /\ \A l \in Lanes : generation[l] < MaxGeneration
        /\ gatewayDraining' = FALSE
        /\ generation' = NextGeneration
        /\ DrainLanes(LanesToDrain, queue, noTasks, maxConcurrent, NextGeneration, status)
        /\ NotifyWaiters(noTasks)
        /\ UNCHANGED <<maxConcurrent, waiterIds>>

(* waitForActiveTasks: resolved at once when nothing is active, or when a  *)
(* timeout is given that is not positive; otherwise a waiter on the tasks  *)
(* active now.                                                             *)
CaptureActive(w, timeoutPositive) ==
    LET ids == AllActive(active)
    IN  /\ waiterState[w] = "idle"
        /\ waiterIds' = [waiterIds EXCEPT ![w] = ids]
        /\ waiterState' = [waiterState EXCEPT ![w] =
                              IF ids = {} THEN "drained"
                              ELSE IF ~timeoutPositive THEN "expired"
                              ELSE "pending"]

WaitForActiveTasks(w, timeoutPositive) ==
    /\ CaptureActive(w, timeoutPositive)
    /\ UNCHANGED <<laneVars, gatewayDraining, entryVars>>

(* The waiter's timer: resolve with drained = false.                       *)
WaiterTimeout(w) ==
    /\ waiterState[w] = "pending"
    /\ waiterState' = [waiterState EXCEPT ![w] = "expired"]
    /\ UNCHANGED <<laneVars, gatewayDraining, entryVars, waiterIds>>

-----------------------------------------------------------------------------
(* What callers and running tasks do to the queue.                         *)
Call(e) == Refuse(e) \/ Enqueue(e)

Configure ==
    \E l \in Lanes :
        \/ \E n \in 0..MaxConcurrency : SetCommandLaneConcurrency(l, n)
        \/ ClearCommandLane(l)

Next ==
    \/ \E e \in Entries : Call(e) \/ Complete(e)
    \/ Configure
    \/ MarkGatewayDraining
    \/ ResetAllLanes
    \/ \E w \in Waiters : \/ \E p \in BOOLEAN : WaitForActiveTasks(w, p)
                          \/ WaiterTimeout(w)

Spec == Init /\ [][Next]_vars

-----------------------------------------------------------------------------
(* A queued entry waits once, in its own lane.                              *)
QueuedOnce ==
    \A l \in Lanes :
        /\ \A i, j \in 1..Len(queue[l]) :
               queue[l][i] = queue[l][j] => i = j
        /\ \A e \in Entries :
               e \in Elements(queue[l]) <=> status[e] = "queued" /\ LaneOf[e] = l

(* The active tasks of a lane are its running entries of this generation.  *)
ActiveIsRunning ==
    \A l \in Lanes, e \in Entries :
        e \in active[l] <=> /\ LaneOf[e] = l
                            /\ status[e] = "running"
                            /\ taskGeneration[e] = generation[l]

(* An entry is in exactly the place its promise says.  Settling never      *)
(* leaves a ghost that holds a slot, and a reset, or a completion from     *)
(* before it, never leaves a task counted twice or not at all              *)
(* (completeTask, drainLane and resetAllLanes of command-queue.ts).        *)
InItsPlace == QueuedOnce /\ ActiveIsRunning

(* No lost wake-up: whenever an entry waits, its lane is full.  No call    *)
(* order of enqueue, completion, clear, reset and concurrency change       *)
(* leaves work queued next to a free slot with nobody left to pump it      *)
(* (the pump calls of command-queue.ts).                                   *)
WorkConserving ==
    \A l \in Lanes :
        queue[l] # <<>> => Cardinality(active[l]) >= maxConcurrent[l]

(* waitForActiveTasks never hangs on finished work, and never answers      *)
(* drained = true while a task it was asked about still holds a slot: a    *)
(* pending waiter still has an active task of its own; for a drained one,  *)
(* each captured task has settled or belongs to a generation that          *)
(* resetAllLanes has given up.                                             *)
WaitersHonest ==
    \A w \in Waiters :
        /\ waiterState[w] = "pending" =>
               waiterIds[w] \cap AllActive(active) # {}
        /\ waiterState[w] = "drained" =>
               \A e \in waiterIds[w] :
                   \/ status[e] \in Settled
                   \/ taskGeneration[e] < generation[LaneOf[e]]

(* A task is started only into a free slot: whatever the step, a lane that *)
(* starts something ends the step within its limit, even when the limit    *)
(* was just lowered below the number of running tasks.                     *)
StartWithinLimit ==
    \A l \in Lanes :
        (\E e \in active'[l] : status[e] # "running")
            => Cardinality(active'[l]) <= maxConcurrent'[l]

(* Lanes are first in, first out: an entry leaves the queue to run only    *)
(* when no entry that was ahead of it stays behind.                        *)
StartInOrder ==
    \A l \in Lanes : \A i, j \in 1..Len(queue[l]) :
        i < j /\ queue[l][j] \in active'[l] => queue[l][i] \in active'[l]

(* An in-process restart frees every lane: tasks of the previous lifecycle *)
(* that never settle cannot keep the head of a queue waiting ("permanently *)
(* block new work from draining", the comment of resetAllLanes).           *)
ResetFreesLanes ==
    generation' # generation =>
        \A l \in Lanes : queue[l] # <<>> => queue[l][1] \in active'[l]

StartsWithinLimit == [][StartWithinLimit]_vars
StartsInOrder == [][StartInOrder]_vars
ResetsFreeLanes == [][ResetFreesLanes]_vars
=============================================================================
