---------------------------- MODULE HeartbeatWake ----------------------------
(***************************************************************************)
(* The wakes of infra/heartbeat-wake.ts: requests to wake an agent are     *)
(* coalesced by target, delivered in batches by one timer, and retried     *)
(* while the target is busy.                                               *)
(*                                                                         *)
(* A batch hands one wake after the other to the handler of its lane and   *)
(* awaits each; between two awaits it runs without interruption, so an     *)
(* action takes a batch from the answer to one call to the next call, or   *)
(* to its end.  While it waits, requests arrive, the timer fires, and the  *)
(* handlers are replaced by those of the next lifecycle.                   *)
(*                                                                         *)
(* Delays are left out: when a timer is armed already, either deadline may *)
(* be the earlier one.                                                     *)
(***************************************************************************)
EXTENDS Naturals, FiniteSets

CONSTANTS
    Wakes,             \* wake targets: a lane, an agent and a session
    CronWakes,         \* those on the cron lane
    NoWake,
    Batches,           \* executions of the timer's callback
    MaxPriority,       \* priorities of reasons are 1..MaxPriority
    MaxRequests,       \* bound: requests
    MaxRegistrations   \* bound: registrations of a handler, per lane

Lanes == {"heartbeat", "cron"}

ASSUME WakesAssumption ==
    /\ CronWakes \subseteq Wakes
    /\ NoWake \notin Wakes
    /\ MaxPriority \in Nat \ {0}
    /\ MaxRequests \in Nat
    /\ MaxRegistrations \in [Lanes -> Nat]

VARIABLES
    pending,       \* pendingWakes: the priority of a target, 0 if not there
    timer,         \* timerKind of the armed timer, or "none"
    scheduled,
    running,
    batch,         \* what each execution has in hand
    wired,         \* the lanes whose handler (handler, cronHandler) is set
    registrations, \* how often each lane's handler was set
    asked,         \* history: highest priority asked for since the handler
                   \* was last called for the target
    interrupted,   \* history: registrations that found a batch unfinished
    requests

vars == <<pending, timer, scheduled, running, batch, wired,
          registrations, asked, interrupted, requests>>

Idle == [all |-> [w \in Wakes |-> 0], todo |-> {}, call |-> NoWake]

Active == {b \in Batches : batch[b].call # NoWake}

Priorities == 0..MaxPriority

(* The types, and: running is set only while some batch is.                *)
TypeOK ==
    /\ pending \in [Wakes -> Priorities]
    /\ timer \in {"none", "normal", "retry"}
    /\ scheduled \in BOOLEAN
    /\ running \in BOOLEAN
    /\ running => Active # {}
    /\ batch \in [Batches -> [all : [Wakes -> Priorities],
                              todo : SUBSET Wakes,
                              call : Wakes \cup {NoWake}]]
    /\ registrations \in [Lanes -> Nat]
    /\ wired \subseteq Lanes
    /\ asked \in [Wakes -> Priorities]
    /\ interrupted \in Nat
    /\ requests \in 0..MaxRequests

Init ==
    /\ pending = [w \in Wakes |-> 0]
    /\ timer = "none"
    /\ scheduled = FALSE
    /\ running = FALSE
    /\ batch = [b \in Batches |-> Idle]
    /\ wired = {}
    /\ registrations = [l \in Lanes |-> 0]
    /\ asked = [w \in Wakes |-> 0]
    /\ interrupted = 0
    /\ requests = 0

-----------------------------------------------------------------------------
(* Helpers.                                                                *)

Empty(p) == \A w \in Wakes : p[w] = 0

(* resolveLaneHandler: the cron lane falls back to the heartbeat handler.  *)
Handled(w) ==
    \/ "heartbeat" \in wired
    \/ w \in CronWakes /\ "cron" \in wired

(* queuePendingWakeReason, for the wakes of S at the priorities q: a lower *)
(* priority never replaces a higher one.                                   *)
QueueLast(p, S, q) ==         \* mutant of Queue: the last reason wins
    [w \in Wakes |-> IF w \in S THEN q[w] ELSE p[w]]

Queue(p, S, q) ==
    [w \in Wakes |-> IF w \in S /\ q[w] > p[w] THEN q[w] ELSE p[w]]

(* schedule: the timers that may be armed after a call with this kind when *)
(* one of ts is armed before.  A retry timer stays; any other stays if it  *)
(* fires sooner.                                                           *)
Schedule(ts, kind) ==
    UNION {CASE t = "none" -> {kind}
             [] t = "retry" -> {t}
             [] t = "normal" -> {t, kind} : t \in ts}

(* The finally block, with the wakes of p pending and a timer of ts armed. *)
EndStillRunning(b, p, ts) ==  \* mutant of End: running is not reset
    /\ batch' = [batch EXCEPT ![b] = Idle]
    /\ pending' = p
    /\ timer' \in IF Empty(p) /\ ~scheduled THEN ts ELSE Schedule(ts, "normal")
    /\ UNCHANGED running

End(b, p, ts) ==
    /\ batch' = [batch EXCEPT ![b] = Idle]
    /\ pending' = p
    /\ running' = FALSE
    /\ timer' \in IF Empty(p) /\ ~scheduled THEN ts ELSE Schedule(ts, "normal")

(* The loop over the batch from one await to the next: wakes whose lane    *)
(* has no handler are queued again for a retry, until one is handed to its *)
(* handler or none is left.  The order of the batch is left open.          *)
Advance(b, all, todo, p, ts, owed) ==
    LET Retry(skip) == IF skip = {} THEN ts ELSE Schedule(ts, "retry")
    IN  \/ \E w \in todo : \E skip \in SUBSET (todo \ {w}) :
               /\ Handled(w)
               /\ \A v \in skip : ~Handled(v)
               /\ batch' = [batch EXCEPT ![b] =
                               [all |-> all, todo |-> todo \ (skip \cup {w}), call |-> w]]
               /\ pending' = Queue(p, skip, all)
               /\ timer' \in Retry(skip)
               /\ asked' = [owed EXCEPT ![w] = 0]
               /\ running' = (running \/ b \notin Active)
        \/ /\ \A w \in todo : ~Handled(w)
           /\ End(b, Queue(p, todo, all), Retry(todo))
           /\ asked' = owed

-----------------------------------------------------------------------------
(* requestHeartbeatNow and requestCronWake.                                *)
Request(w, priority) ==
    /\ requests < MaxRequests
    /\ requests' = requests + 1
    /\ pending' = Queue(pending, {w}, [v \in Wakes |-> priority])
    /\ asked' = [asked EXCEPT ![w] = IF priority > @ THEN priority ELSE @]
    /\ timer' \in Schedule({timer}, "normal")
    /\ UNCHANGED <<scheduled, running, batch, wired, registrations, interrupted>>

(* The timer fires with no handler at all: everything stays pending.       *)
FireUnwired ==
    /\ timer # "none"
    /\ wired = {}
    /\ timer' = "none"
    /\ scheduled' = FALSE
    /\ UNCHANGED <<pending, running, batch, wired, registrations,
                   asked, interrupted, requests>>

(* The timer fires under a running batch: try again after the same delay.  *)
FireRunning ==
    /\ timer # "none"
    /\ wired # {}
    /\ running
    /\ scheduled' = TRUE
    /\ UNCHANGED <<pending, timer, running, batch, wired, registrations,
                   asked, interrupted, requests>>

(* The timer fires, and a new batch takes everything that is pending: some *)
(* wake is, by NoIdleTimer.                                                *)
FireStillArmed(b) ==          \* mutant of Fire: the timer stays armed
    /\ timer # "none"
    /\ wired # {}
    /\ ~running
    /\ ~Empty(pending)
    /\ b \notin Active
    /\ scheduled' = FALSE
    /\ Advance(b, pending, {w \in Wakes : pending[w] > 0},
               [w \in Wakes |-> 0], {timer}, asked)
    /\ UNCHANGED <<wired, registrations, interrupted, requests>>

FireOverlapping(b) ==         \* mutant of Fire: does not look at running
    /\ timer # "none"
    /\ wired # {}
    /\ ~Empty(pending)
    /\ b \notin Active
    /\ scheduled' = FALSE
    /\ Advance(b, pending, {w \in Wakes : pending[w] > 0},
               [w \in Wakes |-> 0], {"none"}, asked)
    /\ UNCHANGED <<wired, registrations, interrupted, requests>>

Fire(b) ==
    /\ timer # "none"
    /\ wired # {}
    /\ ~running
    /\ ~Empty(pending)
    /\ b \notin Active
    /\ scheduled' = FALSE
    /\ Advance(b, pending, {w \in Wakes : pending[w] > 0},
               [w \in Wakes |-> 0], {"none"}, asked)
    /\ UNCHANGED <<wired, registrations, interrupted, requests>>

(* The handler is done with the wake, for whatever reason but one.         *)
Answered(b) ==
    /\ b \in Active
    /\ Advance(b, batch[b].all, batch[b].todo, pending, {timer}, asked)
    /\ UNCHANGED <<scheduled, wired, registrations, interrupted, requests>>

(* "requests-in-flight": the target is busy, queue the wake for a retry.   *)
Busy(b) ==
    /\ b \in Active
    /\ LET w == batch[b].call
           all == batch[b].all
       IN  Advance(b, all, batch[b].todo, Queue(pending, {w}, all),
                   Schedule({timer}, "retry"), Queue(asked, {w}, all))
    /\ UNCHANGED <<scheduled, wired, registrations, interrupted, requests>>

(* The handler throws: queue the whole batch again.                        *)
Threw(b) ==
    /\ b \in Active
    /\ LET all == batch[b].all
       IN  /\ End(b, Queue(pending, Wakes, all), Schedule({timer}, "retry"))
           /\ asked' = Queue(asked, {batch[b].call}, all)
    /\ UNCHANGED <<scheduled, wired, registrations, interrupted, requests>>

(* setHeartbeatWakeHandler with a handler: a new lifecycle forgets the     *)
(* timer, the running batch and the request for another one.               *)
SetHeartbeatWakeHandler ==
    /\ registrations["heartbeat"] < MaxRegistrations["heartbeat"]
    /\ registrations' = [registrations EXCEPT !["heartbeat"] = @ + 1]
    /\ wired' = wired \cup {"heartbeat"}
    /\ running' = FALSE
    /\ scheduled' = FALSE
    /\ timer' = IF Empty(pending) THEN "none" ELSE "normal"
    /\ interrupted' = IF Active = {} THEN interrupted ELSE interrupted + 1
    /\ UNCHANGED <<pending, batch, asked, requests>>

SetCronUnscheduled ==         \* mutant of SetCronWakeHandler: arms no timer
    /\ registrations["cron"] < MaxRegistrations["cron"]
    /\ registrations' = [registrations EXCEPT !["cron"] = @ + 1]
    /\ wired' = wired \cup {"cron"}
    /\ UNCHANGED <<pending, timer, scheduled, running, batch, asked,
                   interrupted, requests>>

SetCronWakeHandler ==
    /\ registrations["cron"] < MaxRegistrations["cron"]
    /\ registrations' = [registrations EXCEPT !["cron"] = @ + 1]
    /\ wired' = wired \cup {"cron"}
    /\ timer' \in IF Empty(pending) THEN {timer} ELSE Schedule({timer}, "normal")
    /\ UNCHANGED <<pending, scheduled, running, batch, asked,
                   interrupted, requests>>

(* The disposer of the registration in force, or a registration of null;   *)
(* the disposers of earlier registrations do nothing.                      *)
Dispose(l) ==
    /\ l \in wired
    /\ wired' = wired \ {l}
    /\ UNCHANGED <<pending, timer, scheduled, running, batch, registrations,
                   asked, interrupted, requests>>

Fires == FireUnwired \/ FireRunning \/ \E b \in Batches : Fire(b)

Register ==
    \/ SetHeartbeatWakeHandler
    \/ SetCronWakeHandler
    \/ \E l \in Lanes : Dispose(l)

Next ==
    \/ \E w \in Wakes : \E p \in 1..MaxPriority : Request(w, p)
    \/ Fires
    \/ \E b \in Batches : Answered(b) \/ Busy(b) \/ Threw(b)
    \/ Register

AnsweredFor(w) == \E b \in Batches : batch[b].call = w /\ Answered(b)

(* Timers fire; and the handler of a target is not busy at every retry.    *)
Spec ==
    /\ Init
    /\ [][Next]_vars
    /\ WF_vars(Fires)
    /\ \A w \in Wakes : SF_vars(AnsweredFor(w))

-----------------------------------------------------------------------------
(* No wake is stranded: whenever one is pending and there is a handler, a  *)
(* timer is armed or a batch is under way that will arm one at its end.    *)
(* This has to survive the handler being replaced under a batch, and the   *)
(* timer having fired when there was no handler yet.                       *)
NoWakeStranded ==
    ~Empty(pending) /\ wired # {} => timer # "none" \/ Active # {}

(* No timer is armed for nothing: the timers that survive a batch, a       *)
(* change of handlers and each other (schedule keeps the sooner, replaces  *)
(* the later, and re-arms under a running batch) all have a wake pending,  *)
(* so a timer never fires into an empty queue.                             *)
NoIdleTimer == timer # "none" => ~Empty(pending)

(* No wake is lost or weakened by coalescing, retrying, an exception, or a *)
(* change of handlers: what was asked for since the handler last saw the   *)
(* target is pending, or still in a batch, at no lower a priority.         *)
NoWakeLost ==
    \A w \in Wakes :
        asked[w] > 0 =>
            \/ pending[w] >= asked[w]
            \/ \E b \in Active : w \in batch[b].todo /\ batch[b].all[w] >= asked[w]

(* Batches overlap only as far as handlers were replaced under a batch:    *)
(* each such replacement (running = false in setHeartbeatWakeHandler) lets *)
(* one more batch run beside the others, and nothing else does.            *)
OverlapBounded ==
    Cardinality(Active) <= IF running THEN interrupted + 1 ELSE interrupted

(* Every wake is served in the end, if its lane has a handler in the end   *)
(* and handlers do not throw for ever (one that does takes its whole batch *)
(* back into the queue): none is left pending or in a batch, although      *)
(* timers are replaced and batches find their target busy.                 *)
Throws == \E b \in Batches : Threw(b)

EveryWakeServed ==
    \A w \in Wakes :
        <>[]Handled(w) =>
            \/ []<><<Throws>>_vars
            \/ <>[](pending[w] = 0 /\ \A b \in Active : w \notin batch[b].todo)
=============================================================================
