--------------------------- MODULE GatewayRunLoop ---------------------------
(***************************************************************************)
(* runGatewayLoop (cli/gateway-cli/run-loop.ts): the process-level loop    *)
(* that starts the gateway server, shuts it down on a signal, and restarts *)
(* it inside the same process when a fresh process cannot be spawned.      *)
(*                                                                         *)
(* Two threads of control share the loop's local variables: the iteration  *)
(* (reset the lanes, start the server, wait for the resolver) and the      *)
(* shutdown that a signal handler starts at any time, also while a start   *)
(* is pending.  Both use the command queue of CommandLanes, on which the   *)
(* agent runs of the gateway execute meanwhile.                            *)
(*                                                                         *)
(* Every action ends where the code awaits.  After process.exit nothing    *)
(* happens any more: the queues are in memory only and are lost with the   *)
(* process, so what the variables hold from then on means nothing.         *)
(***************************************************************************)
EXTENDS CommandLanes

CONSTANT MaxRequests    \* bound: accepted stop and restart requests

ASSUME RequestsAssumption ==
    /\ MaxRequests \in Nat
    /\ Waiters = 1..MaxRequests      \* one waitForActiveTasks per request
    /\ MaxRequests <= MaxGeneration  \* so that the bound on resets never bites

VARIABLES
    iteration,    \* where the for loop is
    server,       \* the variable `server` holds a started server
    lock,         \* the variable `lock` holds the gateway lock
    resolver,     \* restartResolver: "none", "armed", or "used" (still set)
    firstStart,   \* isFirstStart
    stage,        \* where the shutdown is; "none" is shuttingDown = false
    isRestart,    \* the current request is a restart
    hadLock,      \* the restart released the lock itself
    timer,        \* forceExitTimer of the current request
    exit,         \* how the process exited; "pending": a watchdog has fired
                  \* and will exit once its report is written
    requests      \* number of requests accepted so far

loopVars == <<iteration, server, lock, resolver, firstStart>>
requestVars == <<stage, isRestart, hadLock, timer, requests>>
processVars == <<loopVars, requestVars, exit>>
allVars == <<vars, processVars>>

Alive == exit \in {"none", "pending"}

(* The types, and: no watchdog is left armed when its shutdown has closed  *)
(* the server.  One that has fired by then is not called back: it exits    *)
(* later, whatever lifecycle has begun meanwhile.                          *)
LoopTypeOK ==
    /\ TypeOK
    /\ iteration \in {"reset", "starting", "failing", "parked"}
    /\ resolver \in {"none", "armed", "used"}
    /\ stage \in {"none", "budget", "loading", "draining", "closing",
                  "closed", "respawn", "reacquire"}
    /\ timer \in {"off", "armed"}
    /\ timer = "armed" => stage \in {"loading", "draining", "closing"}
    /\ exit \in {"none", "pending", "clean", "failure"}
    /\ requests \in 0..MaxRequests
    /\ {server, lock, firstStart, isRestart, hadLock} \subseteq BOOLEAN

(* The lock is acquired and the signal handlers are installed before the   *)
(* first iteration; onIteration does nothing in it.                        *)
LoopInit ==
    /\ Init
    /\ iteration = "starting"
    /\ server = FALSE
    /\ lock = TRUE
    /\ resolver = "none"
    /\ firstStart = TRUE
    /\ stage = "none"
    /\ isRestart = FALSE
    /\ hadLock = FALSE
    /\ timer = "off"
    /\ exit = "none"
    /\ requests = 0

-----------------------------------------------------------------------------
(* The iteration.                                                          *)

(* onIteration of a later iteration: forget the previous lifecycle.        *)
IterateDropping ==            \* mutant of Iterate: empties the queues too
    /\ Alive
    /\ iteration = "reset"
    /\ queue' = [l \in Lanes |-> <<>>]
    /\ active' = [l \in Lanes |-> {}]
    /\ generation' = NextGeneration
    /\ gatewayDraining' = FALSE
    /\ iteration' = "starting"
    /\ UNCHANGED <<maxConcurrent, entryVars, waiterVars,
                   server, lock, resolver, firstStart, requestVars, exit>>

Iterate ==
    /\ Alive
    /\ iteration = "reset"
    /\ ResetAllLanes
    /\ iteration' = "starting"
    /\ UNCHANGED <<server, lock, resolver, firstStart, requestVars, exit>>

(* params.start resolves, and the loop waits for the next restart.         *)
StartSucceeds ==
    /\ Alive
    /\ iteration = "starting"
    /\ server' = TRUE
    /\ firstStart' = FALSE
    /\ iteration' = "parked"
    /\ resolver' = "armed"
    /\ UNCHANGED <<vars, lock, requestVars, exit>>

(* The first start fails: the error leaves the loop, the finally block     *)
(* releases the lock, and the process exits non-zero.                      *)
FirstStartFails ==
    /\ Alive
    /\ iteration = "starting"
    /\ firstStart
    /\ lock' = FALSE
    /\ exit' = "failure"
    /\ UNCHANGED <<vars, iteration, server, resolver, firstStart, requestVars>>

(* A later start fails: the process stays alive and gives up the lock.     *)
LaterStartFails ==
    /\ Alive
    /\ iteration = "starting"
    /\ ~firstStart
    /\ server' = FALSE
    /\ iteration' = "failing"
    /\ UNCHANGED <<vars, lock, resolver, firstStart, requestVars, exit>>

LockGivenUp ==
    /\ Alive
    /\ iteration = "failing"
    /\ lock' = FALSE
    /\ iteration' = "parked"
    /\ resolver' = "armed"
    /\ UNCHANGED <<vars, server, firstStart, requestVars, exit>>

-----------------------------------------------------------------------------
(* The shutdown.                                                           *)

(* The end of the try block and the start of the finally block: wait for   *)
(* the server to close if there is one, else go on and clear the watchdog. *)
LeaveArmed == UNCHANGED timer \* mutant of Disarm

Disarm == timer' = "off"

CloseServer ==
    IF server
    THEN stage' = "closing" /\ UNCHANGED timer
    ELSE stage' = "closed" /\ Disarm

(* request: only one shutdown at a time, later signals are ignored.  The   *)
(* watchdog is a new one; that of an earlier request may be pending.       *)
Accept(restart) ==
    /\ Alive
    /\ stage = "none"
    /\ requests < MaxRequests
    /\ requests' = requests + 1
    /\ isRestart' = restart
    /\ UNCHANGED <<vars, loopVars, hadLock, exit>>

RequestRestart ==
    /\ Accept(TRUE)
    /\ stage' = "budget"
    /\ timer' = "off"

(* A stop neither drains nor awaits anything before it closes the server.  *)
RequestStop ==
    /\ Accept(FALSE)
    /\ IF server THEN stage' = "closing" /\ timer' = "armed"
                 ELSE stage' = "closed" /\ timer' = "off"

(* The drain budget is known: arm the watchdog and load the modules.       *)
BudgetKnownUnwatched ==       \* mutant of BudgetKnown: no watchdog
    /\ Alive
    /\ stage = "budget"
    /\ stage' = "loading"
    /\ UNCHANGED <<vars, loopVars, isRestart, hadLock, timer, requests, exit>>

BudgetKnown ==
    /\ Alive
    /\ stage = "budget"
    /\ stage' = "loading"
    /\ timer' = "armed"
    /\ UNCHANGED <<vars, loopVars, isRestart, hadLock, requests, exit>>

(* Refuse new work and wait for the tasks active now, in one turn.  The    *)
(* budget left for the drain may be zero.                                  *)
BeginDrain(budgetLeft) ==
    /\ Alive
    /\ stage = "loading"
    /\ stage' = "draining"
    /\ gatewayDraining' = TRUE
    /\ CaptureActive(requests, budgetLeft)
    /\ UNCHANGED <<laneVars, entryVars, loopVars,
                   isRestart, hadLock, timer, requests, exit>>

(* Drained, or out of budget: close the server in both cases.              *)
DrainOver ==
    /\ Alive
    /\ stage = "draining"
    /\ waiterState[requests] # "pending"
    /\ CloseServer
    /\ UNCHANGED <<vars, loopVars, isRestart, hadLock, requests, exit>>

(* server.close resolves or rejects.                                       *)
ServerClosed ==
    /\ Alive
    /\ stage = "closing"
    /\ server' = FALSE
    /\ stage' = "closed"
    /\ Disarm
    /\ UNCHANGED <<vars, iteration, lock, resolver, firstStart,
                   isRestart, hadLock, requests, exit>>

(* handleStopAfterServerClose.                                             *)
StopHoldingLock ==            \* mutant of StopProcess: exits with the lock
    /\ Alive
    /\ stage = "closed"
    /\ ~isRestart
    /\ exit' = "clean"
    /\ UNCHANGED <<vars, loopVars, requestVars>>

StopProcess ==
    /\ Alive
    /\ stage = "closed"
    /\ ~isRestart
    /\ lock' = FALSE
    /\ exit' = "clean"
    /\ UNCHANGED <<vars, iteration, server, resolver, firstStart, requestVars>>

(* handleRestartAfterServerClose: release the lock before a child or the   *)
(* supervisor starts the next process.                                     *)
ReleaseLock ==
    /\ Alive
    /\ stage = "closed"
    /\ isRestart
    /\ hadLock' = lock
    /\ lock' = FALSE
    /\ stage' = "respawn"
    /\ UNCHANGED <<vars, iteration, server, resolver, firstStart,
                   isRestart, timer, requests, exit>>

(* A fresh process takes over, with none of this one's queued work.        *)
Respawned ==
    /\ Alive
    /\ stage = "respawn"
    /\ exit' = "clean"
    /\ UNCHANGED <<vars, loopVars, requestVars>>

(* shuttingDown = false; restartResolver?.(): wakes the iteration only if  *)
(* it waits on this resolver.                                              *)
ResumeAsleep ==               \* mutant of Resume: the resolver is not called
    stage' = "none" /\ UNCHANGED <<resolver, iteration>>

Resume ==
    /\ stage' = "none"
    /\ IF resolver = "armed"
       THEN resolver' = "used" /\ iteration' = "reset"
       ELSE UNCHANGED <<resolver, iteration>>

(* Respawning is disabled or failed: restart in this process, with the     *)
(* lock again if it was held before.                                       *)
RespawnUnavailable ==
    /\ Alive
    /\ stage = "respawn"
    /\ IF hadLock THEN stage' = "reacquire" /\ UNCHANGED <<resolver, iteration>>
                  ELSE Resume
    /\ UNCHANGED <<vars, server, lock, firstStart,
                   isRestart, hadLock, timer, requests, exit>>

LockReacquired ==
    /\ Alive
    /\ stage = "reacquire"
    /\ lock' = TRUE
    /\ Resume
    /\ UNCHANGED <<vars, server, firstStart,
                   isRestart, hadLock, timer, requests, exit>>

LockLost ==
    /\ Alive
    /\ stage = "reacquire"
    /\ exit' = "failure"
    /\ UNCHANGED <<vars, loopVars, requestVars>>

(* The watchdog fires, writes a report, and exits: the shutdown, and what  *)
(* comes after it, go on meanwhile.                                        *)
WatchdogFires ==
    /\ Alive
    /\ timer = "armed"
    /\ timer' = "off"
    /\ exit' = "pending"
    /\ UNCHANGED <<vars, loopVars, stage, isRestart, hadLock, requests>>

ForceExit ==
    /\ exit = "pending"
    /\ exit' = "failure"
    /\ UNCHANGED <<vars, loopVars, requestVars>>

-----------------------------------------------------------------------------
(* The agent runs on the lanes, and the timer of the drain.                *)
Work ==
    /\ Alive
    /\ \E e \in Entries : Call(e) \/ Complete(e)
    /\ UNCHANGED processVars

DrainBudgetSpent ==
    /\ Alive
    /\ \E w \in Waiters : WaiterTimeout(w)
    /\ UNCHANGED processVars

Start == StartSucceeds \/ FirstStartFails \/ LaterStartFails

Request == RequestRestart \/ RequestStop

(* Steps that end an await on something that is known to settle: a module  *)
(* load, a lock file operation, a spawn.                                   *)
Continue ==
    \/ BudgetKnown \/ (\E b \in BOOLEAN : BeginDrain(b)) \/ DrainOver
    \/ StopProcess \/ ReleaseLock \/ Respawned \/ RespawnUnavailable
    \/ LockReacquired \/ LockLost

ContinueIteration == Iterate \/ LockGivenUp

Timers == WatchdogFires \/ ForceExit

LoopNext ==
    \/ Start \/ Request \/ Continue \/ ContinueIteration
    \/ ServerClosed \/ Timers \/ DrainBudgetSpent \/ Work

(* Nothing is assumed of the tasks, of server.close, of a pending start or *)
(* of the operator.                                                        *)
LoopSpec ==
    /\ LoopInit
    /\ [][LoopNext]_allVars
    /\ WF_allVars(Continue)
    /\ WF_allVars(ContinueIteration)
    /\ WF_allVars(Timers)
    /\ WF_allVars(DrainBudgetSpent)

-----------------------------------------------------------------------------
(* A shutdown always ends, with the process gone or the next lifecycle     *)
(* under way, although neither a running task nor the server need ever     *)
(* come to an end ("Armed unconditionally, on every path, at a value the   *)
(* drain can never outlive": the watchdog of run-loop.ts).                 *)
ShutdownEnds == []<>(stage = "none" \/ ~Alive)

(* A restart requested while the loop waits for one takes effect: the      *)
(* process exits for its successor, or the loop starts a new iteration.    *)
RestartHonoured ==
    (Alive /\ iteration = "parked" /\ stage # "none")
        ~> (~Alive \/ iteration # "parked")

(* Whoever starts the next gateway after a clean exit finds the lock free  *)
(* ("Release the lock BEFORE spawning so the child can acquire it          *)
(* immediately").                                                          *)
CleanExitFreesLock == exit = "clean" => ~lock

(* As long as the process lives, work that waits in a lane waits there     *)
(* until it is started: through drains, restarts in the same process and   *)
(* starts that fail ("Queued entries are intentionally preserved",         *)
(* resetAllLanes).  A process that exits, for a successor, a stop, a lost  *)
(* lock or the watchdog, takes its queues with it.                         *)
QueuedWorkIsKept ==
    [][Alive' => \A l \in Lanes : \A e \in Elements(queue[l]) :
                     e \in Elements(queue'[l]) \/ status'[e] = "running"]_allVars

-----------------------------------------------------------------------------
(* What the documentation says and the code does not do.                   *)

(* A gateway that serves and is not being shut down holds the lock ("The   *)
(* gateway first acquires a per-config lock file", gateway-lock.md).       *)
ServingHoldsLock ==
    (Alive /\ server /\ stage = "none" /\ iteration = "parked") => lock
=============================================================================
