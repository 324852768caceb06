# Verification of the gateway core

TLA+ models of the parts of the gateway that decide **what runs, when, and what
survives a restart**: the command queue, the lanes of agent runs, the process-level run
loop, the write-ahead queue of outbound messages, the wakes of periodic and scheduled runs,
the messages that wait for a busy session and the turns they wait for, and the approvals of
commands. Each module is translated from the TypeScript source; `PROJECT.json` maps every
definition to the lines it stands for.

- Parse a module: `tlasany M.tla`
- Model-check: `tlc -workers 2 -config MCX.cfg MCX`
- Check the proofs: `tlapm CommandLanesProofs.tla`, and likewise every other `*Proofs.tla`

## 1. The system

The gateway is one Node.js process. It receives messages from chat channels, runs an agent
for each, and sends the replies. JavaScript code runs to completion between two `await`s
or callbacks, so the concurrency is cooperative: every hazard sits where a function awaits
and the world has changed when it comes back, where a callback or a timer fires late, or
where the process dies and only files stay.

| Component (under `src/src`) | State | Operations | Interacts with |
| --- | --- | --- | --- |
| Command queue, `process/command-queue.ts` | per lane: queue, active tasks, limit, generation; a draining flag; waiters | enqueue, completion and pump, set limit, clear, mark draining, reset, wait | every agent run; the run loop drains and resets it |
| Agent run lanes, `agents/lanes.ts`, `agents/embedded-agent-runner/lanes.ts`, `run.ts`, `gateway/server-lanes.ts` | none of their own: they choose lanes and nest enqueues | session lane, then a global lane; cron and nested lanes; interrupt | command queue |
| Run loop, `cli/gateway-cli/run-loop.ts` | server, lock, resolver of the current iteration, shutting-down flag, watchdog | start, failed start, stop, restart, drain, respawn or in-process restart | command queue, gateway lock, restart scheduler |
| Outbound queue, `infra/outbound/{deliver,delivery-queue-storage,delivery-queue-recovery}.ts` | files per message, `.delivered` markers, `failed/`; in-memory claims | enqueue, send, ack, fail, recover, drain, defer, move to failed | channels; restart notice |
| Restart notice, `gateway/server-restart-sentinel.ts` | an entry of the outbound queue | enqueue, send without a claim, ack or fail | outbound queue |
| Gateway lock, `infra/gateway-lock.ts` | a lock file | acquire (with takeover of a dead owner), release | run loop |
| Restart scheduler, `infra/restart.ts` | pending timer, cycle token, deferral poll | schedule, coalesce, emit SIGUSR1 | run loop |
| Heartbeat and cron wakes, `infra/heartbeat-wake.ts` | pending wakes by target, one timer, a running flag, two handlers | request, fire, retry, replace handler | cron service, heartbeat runner |
| Exec approvals, `gateway/exec-approval-manager.ts`, `server-methods/{exec-approval,approval-shared}.ts`, `node-invoke-system-run-approval.ts` | records by id, each with a timer, a promise and a grace period | request, deliver, resolve, expire, wait, run once, always or under the fallback | gateway methods, exec tool |
| Followup queue, `auto-reply/reply/queue/*` | items, dropped count, draining flag per session | enqueue with drop policy, drain (single, collect, summary), clear | reply run registry, agent runs |
| Reply run registry, `auto-reply/reply/reply-run-registry.ts` | one operation per session key, waiters | begin, stale force-clear, change of session id, complete, fail, abort, wait | followup queue |
| Session delivery queue, `infra/session-delivery-queue-*.ts` | like the outbound queue | like the outbound queue | restart sentinel |
| Session write lock, `agents/session-write-lock.ts` | a lock file and a reentrant count | acquire, release, watchdog release | agent runs |
| Cron service, `cron/service/*` | job store, timer, running markers | arm, run due jobs, manual run, recover after restart | lanes, wakes |
| Channel supervision, `gateway/server-channels.ts`, `channel-health-monitor.ts` | a task and an abort signal per account | start, stop, auto-restart with backoff | channels |
| Node registry, task registry, subagent registry, ACP control plane, process supervisor, config reload, auth cooldowns | see `PROJECT.json` | | |

What makes each correct, in a sentence: the queue never strands, loses, doubles or reorders
work; lanes never wait for each other in a circle and serialise a session; a shutdown always
ends and a restart always takes effect; an accepted message is sent at least once or given
up knowingly, and one worker at a time has it in hand; a queued message is answered once or
accounted for; a displaced turn touches nothing of its successor's, and nobody waits in vain;
a command runs as it was decided, and everybody hears the same decision. `PROJECT.json` lists the hazards one
by one, each at its line with the properties that cover it.

## 2. Modules

| Module | Models |
| --- | --- |
| `CommandLanes` | the command queue, any lanes and any nesting of calls |
| `AgentLanes` (extends `CommandLanes`) | the lanes of agent runs: reply, cron, timer, nested send |
| `GatewayRunLoop` (extends `CommandLanes`) | the run loop composed with the queue it drains and resets |
| `OutboundPromise` | what the outbound queue promises of a message, as an abstract state machine |
| `DeliveryQueue` | the outbound queue; implements `OutboundPromise` under a refinement mapping |
| `HeartbeatWake` | the wakes of the heartbeat and cron lanes and the timer that delivers them |
| `FollowupQueue` | the followup queue of a session: drop policies, batches, summaries, clears |
| `ReplyRuns` | the reply operations of a session key, and the waits for them |
| `ExecApprovals` | the life of an approval, and the runs that use it |
| `CommandLanesProofs`, `AgentLanesProofs`, `GatewayRunLoopProofs` | their theorems, checked by TLAPS; the last two rest on the invariant of the first |
| `DeliveryQueueProofs`, `HeartbeatWakeProofs`, `FollowupQueueProofs`, `ReplyRunsProofs`, `ExecApprovalsProofs` | theorems about these modules |
| `MC*` | model values for TLC |

### CommandLanes

An *entry* is one call of `enqueueCommandInLane`. `queue`, `active`, `maxConcurrent` and
`generation` are the fields of `LaneState`; `status` and `taskGeneration` are what the
promise and the closure of each entry hold; `waiterState` and `waiterIds` are the promises
of `waitForActiveTasks`. An API call runs to completion with the pump it triggers, so each
is one action, and `DrainLanes` is the pump: it starts the longest prefix of the queue that
fits. `draining` of `LaneState` is not a variable: it guards the pump against re-entry
within one call and is false between calls. A task settles when the nested calls it awaits
have settled (`Complete`, `MaySettle`), which is what makes circular waits visible.

### AgentLanes

Gives the constants of the queue their values: the session entry of a run encloses its
global entry (`runEmbeddedPiAgent`), a manual cron run encloses its session entry on the
`cron` lane (`enqueueRun`), and a run started by `sessions_send` is enclosed by its sender's
global entry, which waits only up to a timeout.

### GatewayRunLoop

`iteration` is where the `for (;;)` loop stands, `stage` where the shutdown started by a
signal stands; the two interleave freely, also while a start is pending. `resolver` tells
whether `restartResolver` is null, the pending promise of this iteration, or one used
before. `timer` is the force-exit watchdog of the current request, `lock` and `server` the
variables of those names. A watchdog that has fired writes a report and exits afterwards,
whatever begins meanwhile: that is the value "pending" of `exit`, which no later request takes
back. After an exit nothing happens; the queues are in memory and are lost with the process,
so the promises of the loop about queued work hold while the process lives (`Alive`). The queue's own actions `ResetAllLanes` and `CaptureActive` are used where the code
calls `resetAllLanes` and `waitForActiveTasks`.

The update restart differs from the ordinary one in waiting for the health of the child
before it exits; both end in the same choices (`Respawned`, `RespawnUnavailable`).

### DeliveryQueue

`file` holds the retry count in `{id}.json`, `marker` the `{id}.delivered` files, `failed`
the files in `failed/`. `claims` is `entriesInProgress`. Workers are the senders (one per
message) and the recoveries (`recoverPendingDeliveries` at startup,
`drainPendingDeliveries` at a reconnect); `step` is the await each one stands at, so that
`failDelivery` is a read and a later write, and `ackDelivery` a rename and a later unlink.
An entry that was claimed is read again (`Reread`): it may be gone, may no longer match the
drain, or be unreadable, which ends the whole recovery, as an exhausted entry that cannot be
moved to `failed/` ends a drain (`RecoveryThrows`). Any other move that fails is logged, and the
entry stays (`MoveFails`). `deferral` is the unclaimed `failDelivery` of `deferRemainingEntriesForBudget`. `delivered`,
`cancelled` and `acked` are history. A crash keeps `file`, `marker` and `failed`.

### HeartbeatWake

`pending` is the map `pendingWakes` (the priority stands for the reason; a target has a
lane), `timer` is `timerKind` of the armed timer, `scheduled` and `running` are the flags of
those names, `wired` says which of `handler` and `cronHandler` are set. `batch` holds what an
execution of the timer's callback has taken out of the map: everything it took, what it has
not reached, and the wake whose handler it awaits. `Advance` takes a batch from one await to
the next. Several executions exist because `setHeartbeatWakeHandler` resets `running` under a
batch that still awaits; `OverlapBounded` says how far that goes, since the finally block of
the old batch clears the flag of the new one as well. The branch of the callback for an
empty map is not an action: `NoIdleTimer` shows that no timer reaches it.

### FollowupQueue

A queue is an object that a map holds under the session key; a clear empties the object and
takes it out of the map, while a drain keeps working on it, so `queue` and `drain` belong to
the objects and `registered` is the map. `drain[q].at` is the await the drain stands at: the
debounce, or a run with one item, with a batch, with the summary alone, or with the summary
over an item whose route it borrows ("carry"). `handed` and `rest` are the copies the code
takes before the await, `queue[q].items` the array it removes from afterwards. The code
splits what it copied into batches of one authority at once (`drain.ts:84-111`); the model
keeps the rest as one sequence and splits off the next batch when its turn comes
(`Stretch`, `HandBatch`), which gives the same batches since the copy never changes, and can
be reasoned about without induction over the list. `Finish` is
all the code from the return of the run to the next await, `Throw` the catch and the finally
block. An item stands for its message; `droppedCount` is positive exactly when there are
summary lines, as the cap is. `Arrive` is the decision to queue, `Enqueue` what follows it
after the awaits between, with the check whether a run is still active. That check is
nondeterministic while a followup run starts or ends (`MaybeActive` and not `SeenActive`).

### ReplyRuns

`active`, `session`, `index` and `waitIds` are the maps of the registry for one key; `phase`,
`result`, `cleared`, `sid` and `backend` the closure of each operation. A waiter of the key
stays in its set until it is woken or its timer fires. An operation that is over stands for a
new one. `Create` is `createReplyOperation` with the force-clear of what looks stale; the
operation it displaces goes on acting through its own closure.

### ExecApprovals

`pending` is the map of the manager; a record's fields are variables indexed by the request
that made it. `clock` is all that matters of the time: before, at, or after `expiresAtMs`.
The timer, the delivery without a route and the runs find a record by its id, so `Expire`
acts on whichever record is there. `answer` and `told` are what the requester and the waiters
were told, `reply` the last confirmation or refusal to an operator, `onceRuns` and
`otherRuns` the runs that were let through.

## 3. What the runs check

| Run | Configuration | Properties |
| --- | --- | --- |
| `lanes` | `MCCommandLanes.cfg`: two lanes, four calls of which three compete for one lane and one is nested, limits 0 to 2, one reset, one waiter | `TypeOK`, `InItsPlace`, `WorkConserving`, `WaitersHonest`, `StartsWithinLimit`, `StartsInOrder`, `ResetsFreeLanes` |
| `agents` | `MCAgentLanes.cfg`: a session that sends to another which sends back, a second message that may interrupt, a manual cron run and a timer run | `OneRunPerSession`, `AllWorkSettles` |
| `loop` | `MCGatewayRunLoop.cfg`: two messages of one session and a nested call, two accepted signals | `LoopTypeOK`, `CleanExitFreesLock`, `ShutdownEnds`, `RestartHonoured`, `QueuedWorkIsKept` |
| `outbound` | `MCDeliveryQueue.cfg`: a reply (best-effort or not) and a notice, one recovery, one drain, one crash (none with a best-effort reply, to which nothing is promised: `LenientUntilCrash`), two attempts | `TypeOK`, `ClaimsExact`, `OneHolder`, `MarkersCollected`, `KeepsPromise` |
| `wakes` | `MCHeartbeatWake.cfg`: a periodic and a cron wake, two priorities, two requests, the heartbeat handler set twice and the cron handler once, disposed of at any time | `TypeOK`, `NoWakeStranded`, `NoIdleTimer`, `NoWakeLost`, `OverlapBounded`, `EveryWakeServed` |
| `followups` | `MCFollowupQueue.cfg`: three messages for a cap of two, each mode and drop policy, a third message of another authority or by another route, and for a cap of one with a summary; one redelivery, two other runs, one clear, one failure | `TypeOK`, `RunsOnce`, `LostOnlyBehindOverflow`, `WaitingHasDriver`, `QueueDrained` |
| `replyruns` | `MCReplyRuns.cfg`: three operations at a time, of any number, two session ids, one waiter | `OneRegistered`, `WaiterHasOwner`, `IdsLead`, `AbortReachesBackend`, `ToldWhenIdle` |
| `approvals` | `MCExecApprovals.cfg`: two requests under one id, one waiter, any decisions and runs | `RunsAsDecided`, `OneDecisionTold`, `ExpiresInTime`, `FoundUnderItsId`, `RequestsEnd` |

Why the bounds are enough. Three calls on one lane with a limit of two is the least in which
a limit can be lowered below the running tasks while an entry waits, and in which order
matters; one reset is the least in which a stale completion meets a new generation. Two
signals are the least in which one arrives during a start or after a failed start. Two
retries distinguish a first attempt, a backoff and the last attempt; larger counts behave
like the last. One crash may fall between any two steps. Two
requests with two priorities are the least in which a retry meets another request for its
target; the handler set twice, with the cron handler set before, gives two replacements under
a batch and three batches at once. Retries and exceptions are not bounded. A cap of two with
three messages is the least in which a queue overflows under a run and keeps an item of it.
A cap of one is a case of its own, since there an overflow under a run leaves no item of the
run: in mode followup with policy summarize, removing by number then takes the last item and
leaves a summary nobody tells (`SpinsOverSummary`, see below), an exception `QueueDrained`
needs at that cap and, by the theorem `SpinsAtCapOneOnly`, at no other. The other policies keep no summary, and
are checked at the cap of two. A clear and a run beside give three objects.
Three operations are the least in which one that was displaced acts after its successor was
displaced too. One waiter is enough, since waiters do not act on each other: a registration wakes all
of those of its key or none, and the waiter may wait again, by any id. Two requests under one id are the least in which a record outlives its entry;
`MaxRuns` is one more than a single approval allows.

`CHECK_DEADLOCK FALSE` stands in every configuration but that of `lanes`: a
finite set of runs ends, a process exits, and a queue whose messages are all dealt with has
nothing left to do, nor has a timer that is not armed, or an approval whose record is gone.

### Fairness

- `AgentSpec`: some running task that can end does end. Agent runs have timeouts of their
  own; nothing is assumed about new work, and a task that waits for a nested call is not
  assumed to end.
- `LoopSpec`: module loads, lock-file operations and spawns settle, timers fire. **Nothing**
  is assumed of the tasks, of `server.close`, of a pending start, or of the operator: these
  are what the watchdog is for.
- `HeartbeatWake`: timers fire, and a target that is called again and again is not busy every
  time (strong fairness of its answer; the busy answer means the main lane has work in flight,
  which ends). Nothing is assumed of exceptions: `EveryWakeServed` allows a handler that
  throws for ever, since it takes its whole batch back into the queue.
- `FollowupQueue`: messages on their way get to the queue, debounce timers fire, and runs
  return. A run need not fail: failures of its own are bounded by `MaxFailures`, while a throw
  because a reply run holds the session may happen as long as one does.
- `ExecApprovals`: time passes, armed timers fire, a delivery returns, and a handler whose
  promise is resolved goes on. **Nothing** is assumed of operators, runs or waiters:
  `RequestsEnd` holds though nobody decides.
- `ReplyRuns` and the other specifications are safety only. A turn need not end;
  `WaiterHasOwner` says that a waiter then depends on nothing else.

### Disagreements found

Each is a run that must fail, and a finding in `PROJECT.json`.

| Run | Property | What happens |
| --- | --- | --- |
| `loop_lock` | `ServingHoldsLock` | A later start fails and releases the lock; the next restart finds no lock to hand back and serves without one. |
| `outbound_resent` | `AckedNotResent` | The deferral at the end of the recovery budget rewrites, without a claim, a file that a concurrent drain acknowledged in between; the message is sent again. |
| `followups_lost` | `EachReadOrTold` | A drain removes from the front of the queue as many items as its run was given. If the queue overflowed during the run, the drop policy has already removed items of the run, and newer ones go in their place, neither answered nor summarised. |
| `approvals_fallback` | `FallbackUsable` | The timer that makes an approval time out fires when the approval expires, and a run after that time is refused as expired before the branch for the fallback is reached. |

Four more behaviours of the code are in the models without a run of their own. A restart
accepted while the gateway starts calls a resolver that is null or used; it is forgotten, but
the draining flag it set stays, and the gateway serves and refuses all work. During a drain
a completing task still starts the next queued one, whose nested enqueue is then refused.
With `bestEffort` and no `onError` a failed payload is swallowed and the entry acknowledged,
which covers every recovery of a best-effort entry (a recovery drops the callback).

The fourth is a livelock of the followup queue at a cap of one, in mode followup with policy
summarize. A message arrives while another is being answered and drops it, leaving a line of
summary; when the run returns, the removal by number takes the message that arrived. Now there are no items
and one line: the loop finds the summary but no item whose run would tell it, and breaks
(`drain.ts:264-291`); the finally block finds the queue not empty and schedules the drain again
(`drain.ts:304-311`). Once the debounce has passed, every await on that path is already
resolved, so the process does nothing else any more. The summary is never told, against
`docs/concepts/queue.md:67` ("Summarize keeps a short bullet list of dropped messages and
injects it as a synthetic followup prompt."). It is named in `SpinsOverSummary`, without which
the run `followups` fails at a cap of one.

## 4. What is proved

Every safety and action property of the passing runs is also a theorem, for
every value of the constants; the assumptions are the `ASSUME`s of the modules, which TLC
evaluates in the runs.

`CommandLanesProofs` proves, for any sets of lanes and entries, any nesting, and any bounds
(under `EntriesAssumption`, `BoundsAssumption` and, where cardinalities of active sets are
compared, the finiteness those sets have by construction), that every property of the run
`lanes` holds of `Spec`: `TypeCorrect`, `BookkeepingExact`, `NoLostWakeUp`,
`WaitersAreHonest`, `LimitRespected`, `OrderKept`, `ResetFrees`.

The argument. `WorkConserving` is not inductive alone. Whether a pump starts enough depends
on the size of the active set, so a completion must be known to remove a task that is there
(`ActiveIsRunning`) and a start to add one that is not (`QueuedOnce`: a queued entry is not
active, is queued once, and only in its lane); both depend on the generation captured at the
start being no newer than the lane's. The inductive invariant is the conjunction of these
with the finiteness of the active sets and the honesty of the waiters. One lemma describes
the pump of one lane (`PumpOneLane`: it keeps the bookkeeping and leaves the lane
conserving), `PumpLanes` lifts it to the set of lanes an action pumps, and `StepPreserves`
has one step per action that shows the state the pump starts from is coherent. The action
properties follow from the same invariant: `DrainStartsWell` for the limit and the order,
`HeadStarts` for the reset.

`AgentLanesProofs` proves `OneRunInASession` on top of it, under `LanesAssumption`: the
entries are those of the runs, on the lanes the code chooses for them, and the limits the
operator sets fit the bound. Every step of the gateway is a step of the queue
(`AgentStepIsQueueStep`), so the invariant of the queue holds. The rest of the argument: a run executes on its global lane
only while the entry on its session lane runs and waits for it (`Nested`); nothing changes
the limit of one of a session lane, and nothing resets the lanes (`Configured`: a run that
outlives a restart in the same process, beside a new one of its session, is outside of this
module); so what runs
of a session is active in its lane, and within the limit (`Limited`). From the same
invariant: `LanesConserveWork` and `RunsStartWell`, the promises of the queue under the limits
the gateway configures.

`WaitsAreAcyclic` and `NeverStuck` are the part of `AllWorkSettles` that is about states:
runs never wait for each other in a circle. The lanes are of three kinds (`LanesByKind`: no
cron job's agent run is on the lane of the entry around it, which is what the mapping in
`agents/lanes.ts` is for), and what is awaited without a timeout is one kind further inside
(`CallsByKind`); a queued entry waits for running ones of its own kind, of which there are
some because its lane is full (`QueuedWaits`). So `Depth` falls along every wait, and within
five waits there is a task that can settle, for any number of sessions and any sends between
them. `NoCircularWait` was checked by TLC on the instance of the run `agents`. What stays with
TLC is that fairness of the tasks then settles everything.

`GatewayRunLoopProofs` proves the safety of the run loop: `LoopTypeCorrect`,
`LockFreeAfterCleanExit`, `QueuedWorkKept` (while the process lives; an exit loses the queues).
The invariant of the queue is reused as it stands: a step
of the loop does nothing to the queue, is one of its steps, or begins a drain, which sets the
flag and captures the waiter at once (`QueueStep`, `DrainStartsPreserves`). To it comes that
the lock is free from its release until it is acquired again (`LockReleased`), so that
neither the exit for a successor nor a failed attempt to acquire leaves it held. That queued work is
kept follows from what an enqueue, a completion and a reset do to the other entries
(`EnqueueEffect`, `CompleteEffect`), and from the queues holding exactly the queued
entries afterwards. `LoopKeepsQueue` and `LoopStartsWell` carry every property of the run
`lanes` over to the composition: it is not a refinement of `CommandLanes`, as the beginning
of a drain does two steps of it at once, but it keeps all of its promises.
`ShutdownWatched` is what `ShutdownEnds` and `RestartHonoured` rest on in every state: while a
shutdown waits for tasks or for the server, the watchdog is armed or has fired (`Watched`),
and the loop is parked exactly while a resolver waits to wake it (`Wakeable`).

`DeliveryQueueProofs` proves every property of the run `outbound` for any messages, notices,
recoveries, drains, retries and crashes, the refinement included (`TypeCorrect`, `ClaimsAreExact`,
`AtMostOneHolder`, `MarkersAreCollected`, `PromiseKept`). That an entry is claimed exactly
while somebody holds it (`Claimed`) and that only one does (`Exclusive`) are inductive
together, once it is known that a notice never gets to the point where it could claim
(`Unclaimed`). For the refinement, `AckedKnowingly` says that whoever acknowledges
an entry knows of a delivery, a cancellation, or a best-effort message whose failure
counts as one, and `NotLost` that a
file is gone only for such an entry or one moved to `failed/`; then every step changes the
fate of a message as `OutboundPromise` allows, or not at all.

`HeartbeatWakeProofs` proves the safety properties of the run `wakes` for any targets,
batches, priorities and registrations: `TypeCorrect`, `NothingStranded`, `NoTimerIdles`,
`NothingLost`, `OverlapsOnlyByReplacement`. All of a batch between two awaits is one
operator, `Advance`, and one lemma about it (`AdvanceKeeps`) serves every action that calls
it. The invariant adds that what a batch holds has a positive
priority (`Wanted`) and that another round is asked for only while something is pending
(`ScheduledHasWake`): without the second a timer could be armed for nothing at the end of
a batch.

`ReplyRunsProofs` proves every property of the run `replyruns` for any operations, session
ids and waiters: `TypeCorrect`, `LiveRegistered`, `NobodyForgotten`, `IdsLeadToTheRun`,
`AbortDelivered`, `ToldOnlyWhenIdle`. The inductive invariant adds to these that the registered
operation has not cleared its state (`Uncleared`) and that every operation created has
an id (`BornWithId`). That is what makes the ownership test
of `clearReplyRunState` enough: whoever fails it was displaced before, so whoever waits has
another operation to wait for. `ClearFacts` is the lemma both ends of a turn, and the abort
of a queued one, rest on.

`ExecApprovalsProofs` proves the safety properties of the run `approvals` for any requests,
ids, waiters and number of runs: `TypeCorrect`, `RunsFollowDecisions`, `VerdictsAgree`,
`NoEarlyTimeout`, `RecordsFound`. The argument: a record under an id has that id (`Core`), an
armed timer belongs to a record that is not resolved and is still under its id, so the expiry
by id can only hit the record whose time it is; the promise is written once, and the decision
field or the consumed one agrees with it as long as the record is there (`SettleCore`,
`SettleKeepsPromises`). A record is in the map through its grace period, so an id is not
reused before. `EveryWaitIsTimed` is what `RequestsEnd` rests on: a record that somebody waits
for is resolved, or its own timer is armed, and what is in the map has a timer or a grace
period that takes it out.

`FollowupQueueProofs` proves the safety properties of the run `followups`, for any messages,
settings, caps, queue objects, clears and failures: `TypeCorrect`, `AnsweredOnce`,
`LostOnlyThere`, `SomebodyDrains`, `SpinsAtCapOneOnly`. Two invariants do most of it, one about
what is in the queues and one about the objects.

The first is `Contents`. A drain hands copies to a run, leaves the items in the queue, and
removes them *by number* when the run returns, whatever an overflow or a clear did meanwhile;
neither `RunsOnce` nor `LostOnlyBehindOverflow` is inductive without knowing where the items
are by then. `Single` says a message is in one place of one object, and in none after a run
with it has returned; `InFront` that what a run was given is never behind the place it had,
because a drop takes from the front and an arrival goes to the end: so the removal by number
always takes at least what the run was given, and nobody is answered twice. `Unhit` says that
unless an overflow hit the queue under the run, what it was given is exactly the front of the
queue and the summary told is the queue's, or the object was cleared (`Intact`, `Cleared`):
so the removal takes no more than that, and nothing is lost. `hit` is the exception the
property names. Each
conjunct was checked by TLC on the instance of the run `followups` before it was proved.

On top of it, `TaleKept` shows that at a cap of two or more, in mode followup, a queue with a
summary keeps an item whose run can tell it: a run that does not tell it has one item, and
lines that come under such a run come with an overflow, which leaves at least two.

The second, `Owned`, does not look into the queues. Only the registered
object or an orphaned one holds anything (`HeldByOwner`): an object that loses its
registration is empty, by a clear or by its own drain, or is unregistered by another object's
drain, and so orphaned. A registered object that holds something is driven (`OwnerDriven`): each end of a
drain or of a reply run, and each enqueue that sees no run, schedules the drain of whatever is
registered by then (the lemma `ScheduleDrives`), and the end of an outside run is the
exception the property names.

Model-checked only: liveness under fairness (`AllWorkSettles`, `ShutdownEnds`,
`RestartHonoured`, `EveryWakeServed`, `QueueDrained`, `RequestsEnd`), which the prover
cannot reach. Of each, the part that is about states is a theorem: that nothing waits without
somebody, or a timer, whose step ends the wait (`NeverStuck`, `ShutdownWatched`,
`NothingStranded`, `SomebodyDrains`, `EveryWaitIsTimed`; all were checked by TLC on the
instances first). That fairness then brings the step about stays with TLC. The disagreements of section 3 are counterexamples and need no proof.

## 5. What is not modelled

Formatting, logging, diagnostics, and the content of messages, throughout. In the command
queue: wait-time warnings and read-only snapshots. In the run loop: the drains of embedded
runs and of dependency installs (they only lengthen the drain), the arithmetic of the shutdown
budgets, and the authorisation of SIGUSR1. In the outbound queue: the order in which a
recovery visits its snapshot (any order is allowed), the migration of old files, wall-clock
backoff (an entry after its first attempt may or may not be due), the exact retry count
of the notice, and errors of the scan and of the read and rewrite within `failDelivery`. In the
agent runs: a restart in the same process that a run outlives. In the followup queue: messages without an id, ids forgotten after five minutes,
settings that change while messages wait, enqueues that restart the drain themselves, the
rebinding of queued runs to a new session, and the steering of a running turn. In the registry: the upstream abort signal, the record of steered
prompts, ids shared between session keys. In the approvals: what a run is compared with,
lookups by a prefix, requests and decisions refused for their form, and the approvals of
plugins, whose ids are never reused; decisions without a named operator, which the types allow
(`approval-shared.ts:341-343`) but no caller makes; and timeouts too long for `setTimeout`. The components without a module are listed in `PROJECT.json` with the reason.

## 6. Plan

1. `GatewayLock`: the lock file between two processes, with takeover of a dead owner; shown to
   implement mutual exclusion or not, and used by the run loop.
2. `FollowupQueue` composed with `ReplyRuns`, so that the throw of a followup run is the
   refusal of `Create`.
3. Then the restart scheduler, the session write lock, the cron timer, and channel
   supervision.
