------------------------ MODULE GatewayRunLoopProofs ------------------------
(***************************************************************************)
(* The safety of the run loop, for any lanes, entries, nesting and number  *)
(* of requests, on top of the invariant of the queue it drains and resets. *)
(***************************************************************************)
EXTENDS GatewayRunLoop, CommandLanesProofs

(* The lock is not held from the moment a restart releases it until it is  *)
(* acquired again, nor after a clean exit.                                 *)
LockReleased ==
    /\ stage \in {"respawn", "reacquire"} => ~lock
    /\ CleanExitFreesLock

(* A shutdown under way has a request, and so a waiter of its own.         *)
Requested == stage # "none" => requests # 0

LoopInv == IInv /\ LoopTypeOK /\ LockReleased /\ Requested

-----------------------------------------------------------------------------
(* What a step of the loop does to the queue: nothing, a step of the       *)
(* queue, or the beginning of a drain, which is two steps of it at once.   *)
DrainStarts ==
    /\ gatewayDraining' = TRUE
    /\ \E w \in Waiters, b \in BOOLEAN : CaptureActive(w, b)
    /\ UNCHANGED <<laneVars, entryVars>>

LEMMA QueueStep ==
    ASSUME LoopInv, [LoopNext]_allVars
    PROVE  [Next]_vars \/ DrainStarts
<1>1. ASSUME NEW b \in BOOLEAN, BeginDrain(b) PROVE DrainStarts
  <2>1. requests \in Waiters
    BY <1>1, RequestsAssumption DEF BeginDrain, LoopInv, LoopTypeOK, Requested
  <2> QED BY <1>1, <2>1 DEF BeginDrain, DrainStarts
<1>2. CASE Work
  BY <1>2 DEF Work, Next
<1>3. CASE DrainBudgetSpent
  BY <1>3 DEF DrainBudgetSpent, Next
<1>4. CASE Iterate
  BY <1>4 DEF Iterate, Next
<1>5. CASE Start \/ Request
  BY <1>5 DEF Start, StartSucceeds, FirstStartFails, LaterStartFails, Request,
     RequestRestart, RequestStop, Accept
<1>6. CASE \/ BudgetKnown \/ DrainOver \/ StopProcess \/ ReleaseLock \/ Respawned
           \/ RespawnUnavailable \/ LockReacquired \/ LockLost
  BY <1>6 DEF BudgetKnown, DrainOver, StopProcess, ReleaseLock, Respawned,
     RespawnUnavailable, LockReacquired, LockLost
<1>7. CASE LockGivenUp \/ ServerClosed \/ Timers
  BY <1>7 DEF LockGivenUp, ServerClosed, Timers, WatchdogFires, ForceExit
<1>8. CASE UNCHANGED allVars
  BY <1>8 DEF allVars
<1> QED BY <1>1, <1>2, <1>3, <1>4, <1>5, <1>6, <1>7, <1>8
        DEF LoopNext, Continue, ContinueIteration

(* The beginning of a drain refuses new work and waits, as the queue's own *)
(* waitForActiveTasks does; no invariant of the queue is about the flag.   *)
LEMMA DrainStartsPreserves == ASSUME IInv, DrainStarts PROVE IInv'
<1>1. PICK w \in Waiters, b \in BOOLEAN : CaptureActive(w, b)
  BY DEF DrainStarts
<1> DEFINE ids == AllActive(active)
<1>2. UNCHANGED <<queue, active, maxConcurrent, generation, status, taskGeneration>>
  BY DEF DrainStarts, laneVars, entryVars
<1>3. /\ waiterIds \in [Waiters -> SUBSET Entries]
      /\ waiterState \in [Waiters -> {"idle", "pending", "drained", "expired"}]
  BY DEF IInv, TypeOK
<1>4. /\ waiterIds' = [waiterIds EXCEPT ![w] = ids]
      /\ waiterState' = [waiterState EXCEPT ![w] = IF ids = {} THEN "drained"
                                                   ELSE IF ~b THEN "expired"
                                                   ELSE "pending"]
  BY <1>1 DEF CaptureActive
<1>5. ids \in SUBSET Entries /\ \A e \in ids : status[e] = "running"
  BY DEF IInv, TypeOK, Coherent, AllActive
<1>6. AllActive(active') = ids
  BY <1>2 DEF AllActive
<1>7. ids = AllActive(active)
  OBVIOUS
<1> HIDE DEF ids
<1>8. TypeOK'
  BY <1>2, <1>3, <1>4, <1>5 DEF IInv, TypeOK, DrainStarts
<1>9. /\ Coherent(queue, active, generation, status, taskGeneration)'
      /\ \A l \in Lanes : Full(queue, active, maxConcurrent, l)'
  BY <1>2 DEF IInv, Coherent, Full
<1>10. WaitersAskedStarted'
  BY <1>2, <1>3, <1>4, <1>5 DEF IInv, WaitersAskedStarted
<1>11. WaitersHonest'
  <2>1. \A v \in Waiters : v # w => waiterState'[v] = waiterState[v]
                                    /\ waiterIds'[v] = waiterIds[v]
    BY <1>3, <1>4
  <2>2. /\ waiterIds'[w] = ids
        /\ waiterState'[w] = IF ids = {} THEN "drained"
                             ELSE IF ~b THEN "expired" ELSE "pending"
    BY <1>3, <1>4
  <2> QED BY <1>2, <1>6, <1>7, <2>1, <2>2 DEF IInv, WaitersHonest
<1> QED BY <1>8, <1>9, <1>10, <1>11 DEF IInv

LEMMA QueueInvKept == LoopInv /\ [LoopNext]_allVars => IInv'
BY QueueStep, StepPreserves, DrainStartsPreserves DEF LoopInv

-----------------------------------------------------------------------------
(* The variables of the loop.                                              *)

LEMMA LoopInitEstablishes == LoopInit => LoopInv
<1> SUFFICES ASSUME LoopInit PROVE LoopInv
  OBVIOUS
<1>1. IInv
  BY InitEstablishes DEF LoopInit
<1>2. LoopTypeOK
  <2>1. TypeOK
    BY <1>1 DEF IInv
  <2>2. requests \in 0..MaxRequests
    BY RequestsAssumption DEF LoopInit
  <2>3. {server, lock, firstStart, isRestart, hadLock} \subseteq BOOLEAN
    BY DEF LoopInit
  <2>4. /\ iteration = "starting" /\ resolver = "none" /\ stage = "none"
        /\ timer = "off" /\ exit = "none"
    BY DEF LoopInit
  <2> QED BY <2>1, <2>2, <2>3, <2>4 DEF LoopTypeOK
<1>3. LockReleased /\ Requested
  BY DEF LoopInit, LockReleased, CleanExitFreesLock, Requested
<1> QED BY <1>1, <1>2, <1>3 DEF LoopInv

(* One case per step of the loop; a step of the queue leaves the loop      *)
(* alone.  That it keeps the types of the queue is QueueInvKept.           *)
LEMMA LoopKept == LoopInv /\ [LoopNext]_allVars => LoopInv'
<1> SUFFICES ASSUME LoopInv, [LoopNext]_allVars PROVE LoopInv'
  OBVIOUS
<1> DEFINE Kept == LoopTypeOK' /\ LockReleased' /\ Requested'
<1>1. IInv' /\ TypeOK'
  BY QueueInvKept DEF IInv
<1>2. LoopTypeOK /\ LockReleased /\ Requested
  BY DEF LoopInv
<1> SUFFICES Kept
  BY <1>1 DEF LoopInv
<1> USE RequestsAssumption
        DEF LoopTypeOK, LockReleased, CleanExitFreesLock, Requested
<1>3. CASE Work \/ DrainBudgetSpent
  BY <1>1, <1>2, <1>3 DEF Work, DrainBudgetSpent, processVars, loopVars, requestVars
<1>4. CASE Iterate
  BY <1>1, <1>2, <1>4 DEF Iterate, requestVars
<1>5. CASE StartSucceeds
  BY <1>1, <1>2, <1>5 DEF StartSucceeds, requestVars
<1>6. CASE FirstStartFails
  BY <1>1, <1>2, <1>6 DEF FirstStartFails, requestVars
<1>7. CASE LaterStartFails
  BY <1>1, <1>2, <1>7 DEF LaterStartFails, requestVars
<1>8. CASE LockGivenUp
  BY <1>1, <1>2, <1>8 DEF LockGivenUp, requestVars
<1>9. CASE RequestRestart
  BY <1>1, <1>2, <1>9 DEF RequestRestart, Accept, loopVars
<1>10. CASE RequestStop
  <2>1. /\ stage' = "closing" \/ stage' = "closed"
        /\ timer' = "armed" => stage' = "closing"
        /\ timer' \in {"off", "armed"}
    BY <1>10 DEF RequestStop
  <2>2. /\ requests' = requests + 1 /\ requests < MaxRequests
        /\ isRestart' = FALSE
        /\ UNCHANGED <<loopVars, hadLock, exit>>
    BY <1>10 DEF RequestStop, Accept
  <2>3. requests' \in 0..MaxRequests /\ requests' # 0
    BY <1>2, <2>2
  <2>4. {server, lock, firstStart, isRestart, hadLock}' \subseteq BOOLEAN
    BY <1>2, <2>2 DEF loopVars
  <2>5. LockReleased' /\ Requested'
    BY <1>2, <2>1, <2>2, <2>3 DEF loopVars
  <2>6. LoopTypeOK'
    BY <1>1, <1>2, <2>1, <2>2, <2>3, <2>4 DEF loopVars
  <2> QED BY <2>5, <2>6
<1>11. CASE BudgetKnown
  BY <1>1, <1>2, <1>11 DEF BudgetKnown, loopVars
<1>12. ASSUME NEW b \in BOOLEAN, BeginDrain(b) PROVE Kept
  BY <1>1, <1>2, <1>12 DEF BeginDrain, loopVars
<1>13. CASE DrainOver
  BY <1>1, <1>2, <1>13 DEF DrainOver, CloseServer, Disarm, loopVars
<1>14. CASE ServerClosed
  BY <1>1, <1>2, <1>14 DEF ServerClosed, Disarm
<1>15. CASE StopProcess
  BY <1>1, <1>2, <1>15 DEF StopProcess, requestVars
<1>16. CASE ReleaseLock
  BY <1>1, <1>2, <1>16 DEF ReleaseLock
<1>17. CASE Respawned
  BY <1>1, <1>2, <1>17 DEF Respawned, loopVars, requestVars
<1>18. CASE RespawnUnavailable
  BY <1>1, <1>2, <1>18 DEF RespawnUnavailable, Resume
<1>19. CASE LockReacquired
  <2>1. /\ lock' = TRUE /\ stage' = "none" /\ stage = "reacquire" /\ Alive
        /\ UNCHANGED <<server, firstStart, isRestart, hadLock, timer, requests, exit>>
    BY <1>19 DEF LockReacquired, Resume
  <2>2. iteration' \in {iteration, "reset"} /\ resolver' \in {resolver, "used"}
    BY <1>19 DEF LockReacquired, Resume
  <2> QED BY <1>1, <1>2, <2>1, <2>2 DEF Alive
<1>20. CASE LockLost
  BY <1>1, <1>2, <1>20 DEF LockLost, loopVars, requestVars
<1>21. CASE WatchdogFires
  BY <1>1, <1>2, <1>21 DEF WatchdogFires, loopVars
<1>22. CASE ForceExit
  BY <1>1, <1>2, <1>22 DEF ForceExit, loopVars, requestVars
<1>23. CASE UNCHANGED allVars
  BY <1>1, <1>2, <1>23 DEF allVars, processVars, loopVars, requestVars
<1> HIDE DEF LoopTypeOK, LockReleased, CleanExitFreesLock, Requested, Kept
<1> QED
  BY <1>3, <1>4, <1>5, <1>6, <1>7, <1>8, <1>9, <1>10, <1>11, <1>12, <1>13,
     <1>14, <1>15, <1>16, <1>17, <1>18, <1>19, <1>20, <1>21, <1>22, <1>23
     DEF LoopNext, Start, Request, Continue, ContinueIteration, Timers

(* The inductive invariant of the loop.                                    *)
THEOREM LoopInductive == LoopSpec => []LoopInv
BY LoopInitEstablishes, LoopKept, PTL DEF LoopSpec

(* Every variable of the loop keeps its type, and no watchdog is left      *)
(* armed when its shutdown has closed the server.                          *)
THEOREM LoopTypeCorrect == LoopSpec => []LoopTypeOK
<1>1. LoopInv => LoopTypeOK
  BY DEF LoopInv
<1> QED BY <1>1, LoopInductive, PTL

(* Whoever starts the next gateway after a clean exit finds the lock free. *)
THEOREM LockFreeAfterCleanExit == LoopSpec => []CleanExitFreesLock
<1>1. LoopInv => CleanExitFreesLock
  BY DEF LoopInv, LockReleased
<1> QED BY <1>1, LoopInductive, PTL

-----------------------------------------------------------------------------
(* An entry that waits before a step of the loop is waiting or running     *)
(* after it.                                                               *)
LEMMA StaysQueuedOrRuns ==
    ASSUME LoopInv, [LoopNext]_allVars, NEW e \in Entries, status[e] = "queued"
    PROVE  status'[e] \in {"queued", "running"}
<1>1. IInv /\ status \in [Entries -> Statuses]
  BY DEF LoopInv, IInv, TypeOK
<1>2. CASE status' = status
  BY <1>2
<1>3. ASSUME NEW f \in Entries, Refuse(f) PROVE status'[e] = "queued"
  BY <1>1, <1>3 DEF Refuse, CanCall
<1>4. ASSUME NEW f \in Entries, Enqueue(f)
      PROVE  status'[e] \in {"queued", "running"}
  <2>1. e # f
    BY <1>4 DEF Enqueue, CanCall
  <2> QED BY <1>1, <1>4, <2>1, EnqueueEffect
<1>5. ASSUME NEW f \in Entries, Complete(f)
      PROVE  status'[e] \in {"queued", "running"}
  <2>1. e # f
    BY <1>5 DEF Complete
  <2> QED BY <1>1, <1>5, <2>1, CompleteEffect
<1>6. CASE ResetAllLanes
  BY <1>6 DEF ResetAllLanes, DrainLanes
<1>7. CASE Work
  BY <1>3, <1>4, <1>5, <1>7 DEF Work, Call
<1>8. CASE Iterate
  BY <1>6, <1>8 DEF Iterate
<1>9. CASE DrainBudgetSpent
  BY <1>2, <1>9 DEF DrainBudgetSpent, WaiterTimeout, entryVars
<1>10. CASE Start \/ Request
  BY <1>2, <1>10 DEF Start, StartSucceeds, FirstStartFails, LaterStartFails,
     Request, RequestRestart, RequestStop, Accept, vars, entryVars
<1>11. CASE Continue \/ LockGivenUp
  BY <1>2, <1>11 DEF Continue, BudgetKnown, BeginDrain, DrainOver, StopProcess,
     ReleaseLock, Respawned, RespawnUnavailable, LockReacquired, LockLost,
     LockGivenUp, vars, entryVars
<1>12. CASE ServerClosed \/ Timers
  BY <1>2, <1>12 DEF ServerClosed, Timers, WatchdogFires, ForceExit, vars, entryVars
<1>13. CASE UNCHANGED allVars
  BY <1>2, <1>13 DEF allVars, vars, entryVars
<1> QED BY <1>7, <1>8, <1>9, <1>10, <1>11, <1>12, <1>13
        DEF LoopNext, ContinueIteration

(* Neither a drain nor a restart in the same process nor a failed start    *)
(* that the process survives drops work that waits in a lane.              *)
THEOREM QueuedWorkKept == LoopSpec => QueuedWorkIsKept
<1>1. ASSUME LoopInv, [LoopNext]_allVars,
             NEW l \in Lanes, NEW e \in Elements(queue[l])
      PROVE  e \in Elements(queue'[l]) \/ status'[e] = "running"
  <2>1. /\ Coherent(queue, active, generation, status, taskGeneration)
        /\ queue[l] \in Seq(Entries)
    BY <1>1 DEF LoopInv, IInv, TypeOK
  <2>2. e \in Entries
    BY <2>1 DEF Elements
  <2>3. status[e] = "queued" /\ LaneOf[e] = l
    BY <2>1, <2>2 DEF Coherent
  <2>4. status'[e] \in {"queued", "running"}
    BY <1>1, <2>2, <2>3, StaysQueuedOrRuns
  <2>5. Coherent(queue', active', generation', status', taskGeneration')
    BY <1>1, QueueInvKept DEF IInv
  <2>6. status'[e] = "queued" => e \in Elements(queue'[l])
    BY <2>2, <2>3, <2>5 DEF Coherent
  <2> QED BY <2>4, <2>6
<1>2. LoopInv /\ [LoopNext]_allVars =>
          [Alive' => \A l \in Lanes : \A e \in Elements(queue[l]) :
                         e \in Elements(queue'[l]) \/ status'[e] = "running"]_allVars
  BY <1>1
<1> QED BY <1>2, LoopInductive, PTL DEF LoopSpec, QueuedWorkIsKept

-----------------------------------------------------------------------------
(* The queue under the loop.  The loop does to it what no caller of the    *)
(* queue alone does, and none of its promises is lost.                     *)

(* Across drains and restarts no entry waits beside a free slot, entries   *)
(* are where their promises say, and the drain that a shutdown waits for   *)
(* neither hangs on finished work nor is answered before its tasks ended.  *)
THEOREM LoopKeepsQueue == LoopSpec => [](WorkConserving /\ InItsPlace /\ WaitersHonest)
<1>1. LoopInv => WorkConserving /\ InItsPlace /\ WaitersHonest
  BY DEF LoopInv, IInv, Full, WorkConserving, Coherent, Injective, InItsPlace,
         QueuedOnce, ActiveIsRunning
<1> QED BY <1>1, LoopInductive, PTL

LEMMA LoopStepStartsWell ==
    ASSUME LoopInv, [LoopNext]_allVars
    PROVE  StartWithinLimit /\ StartInOrder /\ ResetFreesLanes
<1>1. CASE [Next]_vars
  BY <1>1, StepStartsWell, StepFreesLanes DEF LoopInv
<1>2. CASE DrainStarts
  <2>1. UNCHANGED <<queue, active, generation>>
    BY <1>2 DEF DrainStarts, laneVars
  <2>2. \A l \in Lanes : \A e \in active[l] : e \in Entries /\ status[e] = "running"
    BY DEF LoopInv, IInv, TypeOK, Coherent
  <2>3. ASSUME NEW l \in Lanes, NEW i \in 1..Len(queue[l])
        PROVE  queue[l][i] \in Entries /\ queue[l][i] \notin active[l]
    <3>1. queue[l] \in Seq(Entries)
      BY DEF LoopInv, IInv, TypeOK
    <3>2. queue[l][i] \in Entries /\ queue[l][i] \in Elements(queue[l])
      BY <3>1 DEF Elements
    <3> QED BY <2>2, <3>2 DEF LoopInv, IInv, Coherent
  <2> QED BY <2>1, <2>2, <2>3 DEF StartWithinLimit, StartInOrder, ResetFreesLanes
<1> QED BY <1>1, <1>2, QueueStep

(* The runs of a gateway that is stopped, restarted and started again      *)
(* start within the limits of their lanes and in order, and every          *)
(* iteration of the loop starts the head of each queue it finds, whatever  *)
(* the tasks of the lifecycle before it do.                                *)
THEOREM LoopStartsWell ==
    LoopSpec => [][StartWithinLimit /\ StartInOrder /\ ResetFreesLanes]_allVars
<1>1. LoopInv /\ [LoopNext]_allVars =>
          [StartWithinLimit /\ StartInOrder /\ ResetFreesLanes]_allVars
  BY LoopStepStartsWell
<1> QED BY <1>1, LoopInductive, PTL DEF LoopSpec

-----------------------------------------------------------------------------
(* Why a shutdown ends and a restart is noticed: the facts about states    *)
(* under ShutdownEnds and RestartHonoured.                                 *)

(* While a shutdown waits for tasks or for the server, either of which may *)
(* never come, the watchdog is armed, or one has fired and its exit is     *)
(* pending or past; and the waiter it waits on has been made.              *)
Watched ==
    /\ stage \in {"loading", "draining", "closing"} => timer = "armed" \/ exit # "none"
    /\ stage = "draining" => waiterState[requests] # "idle"

(* The loop waits exactly while there is a resolver for it, so whoever     *)
(* ends a shutdown while it waits wakes it (restartResolver?.()).          *)
Wakeable == iteration = "parked" <=> resolver = "armed"

LEMMA WaiterStays ==
    ASSUME LoopInv, [Next]_vars, NEW w \in Waiters, waiterState[w] # "idle"
    PROVE  waiterState'[w] # "idle"
<1>1. waiterState \in [Waiters -> {"idle", "pending", "drained", "expired"}]
  BY DEF LoopInv, IInv, TypeOK
<1>2. ASSUME NEW v \in Waiters, NEW b \in BOOLEAN, WaitForActiveTasks(v, b)
      PROVE  waiterState'[w] # "idle"
  BY <1>1, <1>2 DEF WaitForActiveTasks, CaptureActive
<1>3. ASSUME NEW v \in Waiters, WaiterTimeout(v) PROVE waiterState'[w] # "idle"
  BY <1>1, <1>3 DEF WaiterTimeout
<1>4. ASSUME NEW e \in Entries, Complete(e) PROVE waiterState'[w] # "idle"
  BY <1>1, <1>4 DEF Complete, NotifyWaiters
<1>5. CASE ResetAllLanes
  BY <1>1, <1>5 DEF ResetAllLanes, NotifyWaiters
<1>6. ASSUME UNCHANGED waiterState PROVE waiterState'[w] # "idle"
  BY <1>6
<1>7. ASSUME NEW e \in Entries, Call(e) PROVE UNCHANGED waiterState
  BY <1>7 DEF Call, Refuse, Enqueue, waiterVars
<1>8. CASE Configure \/ MarkGatewayDraining \/ UNCHANGED vars
  BY <1>8 DEF Configure, SetCommandLaneConcurrency, ClearCommandLane,
     MarkGatewayDraining, vars, waiterVars
<1> QED BY <1>2, <1>3, <1>4, <1>5, <1>6, <1>7, <1>8 DEF Next

LEMMA WatchKept ==
    ASSUME LoopInv, Watched, Wakeable, [LoopNext]_allVars
    PROVE  Watched' /\ Wakeable'
<1> USE DEF Watched, Wakeable
<1>1. stage = "draining" => requests \in Waiters
  BY RequestsAssumption DEF LoopInv, LoopTypeOK, Requested
<1>2. CASE Work \/ DrainBudgetSpent
  <2>1. [Next]_vars
    BY <1>2 DEF Work, DrainBudgetSpent, Next
  <2>2. UNCHANGED processVars
    BY <1>2 DEF Work, DrainBudgetSpent
  <2> QED BY <1>1, <2>1, <2>2, WaiterStays DEF processVars, loopVars, requestVars
<1>3. CASE Iterate
  <2>1. [Next]_vars
    BY <1>3 DEF Iterate, Next
  <2> QED BY <1>1, <1>3, <2>1, WaiterStays DEF Iterate, requestVars
<1>4. CASE Start \/ LockGivenUp
  BY <1>4 DEF Start, StartSucceeds, FirstStartFails, LaterStartFails, LockGivenUp,
     requestVars, vars, waiterVars
<1>5. CASE RequestRestart \/ RequestStop
  BY <1>5 DEF RequestRestart, RequestStop, Accept, loopVars
<1>6. ASSUME NEW b \in BOOLEAN, BeginDrain(b) PROVE Watched' /\ Wakeable'
  <2>1. /\ requests \in Waiters /\ requests' = requests
        /\ stage = "loading" /\ stage' = "draining" /\ UNCHANGED <<loopVars, timer, exit>>
    BY <1>6, RequestsAssumption DEF BeginDrain, LoopInv, LoopTypeOK, Requested
  <2>2. waiterState'[requests] # "idle"
    BY <1>6, <2>1 DEF BeginDrain, CaptureActive, LoopInv, IInv, TypeOK
  <2> QED BY <2>1, <2>2 DEF loopVars
<1>7. CASE BudgetKnown \/ DrainOver \/ ServerClosed
  BY <1>7 DEF BudgetKnown, DrainOver, CloseServer, ServerClosed, Disarm, loopVars,
     vars, waiterVars
<1>8. CASE StopProcess \/ ReleaseLock \/ Respawned \/ LockLost
  BY <1>8 DEF StopProcess, ReleaseLock, Respawned, LockLost, loopVars, requestVars,
     vars, waiterVars
<1>9. CASE RespawnUnavailable \/ LockReacquired
  BY <1>9 DEF RespawnUnavailable, LockReacquired, Resume
<1>10. CASE Timers \/ UNCHANGED allVars
  BY <1>10 DEF Timers, WatchdogFires, ForceExit, allVars, processVars, loopVars,
     requestVars, vars, waiterVars
<1> QED BY <1>2, <1>3, <1>4, <1>5, <1>6, <1>7, <1>8, <1>9, <1>10
        DEF LoopNext, Request, Continue, ContinueIteration

(* Nothing a shutdown waits for can hold it for ever: the watchdog covers  *)
(* every wait that has no end of its own ("Armed unconditionally, on every *)
(* path").  And a restart that is over wakes the loop that waits for it.   *)
THEOREM ShutdownWatched == LoopSpec => [](Watched /\ Wakeable)
<1>1. LoopInit => Watched /\ Wakeable
  BY DEF LoopInit, Watched, Wakeable
<1>2. LoopInv /\ (Watched /\ Wakeable) /\ [LoopNext]_allVars => (Watched /\ Wakeable)'
  BY WatchKept
<1> QED BY <1>1, <1>2, LoopInductive, PTL DEF LoopSpec
=============================================================================
