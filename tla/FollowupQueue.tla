---------------------------- MODULE FollowupQueue ----------------------------
(***************************************************************************)
(* The followup queue of one session key (auto-reply/reply/queue and       *)
(* utils/queue-helpers.ts): messages that arrive during a run are queued,  *)
(* up to a cap, and a drain hands them to followup runs afterwards.        *)
(*                                                                         *)
(* The drain awaits a debounce, then a run, and so on; everything between  *)
(* two awaits is one action.  The messages of a run stay in the queue      *)
(* until it returns, and are then removed by their number: meanwhile the   *)
(* queue may overflow, be cleared, or be replaced by a new object.         *)
(*                                                                         *)
(* A message stands for its id: a redelivery within the five minutes the   *)
(* ids are remembered is the same message again.  The queue's mode and     *)
(* drop policy do not change while it is used.  The reply run that is      *)
(* active meanwhile (agent-runner.ts) and runs from outside the reply      *)
(* pipeline, which never start a drain, are reduced to their phases.       *)
(***************************************************************************)
EXTENDS Naturals, FiniteSets, Sequences, SequencesExt

CONSTANTS
    Messages,
    Settings,          \* the queue settings considered, each with the cap,
                       \* and the route and authority of every message
    Unroutable,        \* a route that is incomplete
    Queues,            \* queue objects
    NoQueue,
    MaxRedeliveries,   \* bound: messages that arrive again
    MaxRuns,           \* bound: runs not started by a drain
    MaxClears,         \* bound: clears of the session's queue
    MaxFailures        \* bound: followup runs that throw, by themselves

ASSUME FollowupAssumption ==
    /\ NoQueue \notin Queues
    /\ \A s \in Settings : /\ s.mode \in {"collect", "followup"}
                           /\ s.policy \in {"summarize", "old", "new"}
                           /\ DOMAIN s.route = Messages
                           /\ s.cap \in Nat \ {0}
                           /\ DOMAIN s.authority = Messages

VARIABLES
    settings,
    registered,   \* the object FOLLOWUP_QUEUES holds for the key
    queue,        \* items and summaryLines of each object; droppedCount is
                  \* positive exactly when there are lines, as cap > 0
    drain,        \* the drain of each object; draining: not at "idle"
    run,          \* the run outside any drain
    arriving,     \* messages on their way to the queue: a run was active
    recent,       \* RECENT_QUEUE_MESSAGE_IDS: messages that were accepted
    ran,          \* history: completed runs that were given the prompt
    told,         \* history: messages of an injected summary
    gone,         \* history: messages given up on purpose
    overrun,      \* history: messages removed behind a run that overflowed
    orphaned,     \* history: objects another object's drain unregistered,
                  \* until they are used for a new one
    leftBehind,   \* history: an outside run ended over a waiting queue
    redeliveries, runs, clears, failures

histories == <<ran, told, gone, overrun>>
bounds == <<redeliveries, runs, clears, failures>>

vars == <<settings, registered, queue, drain, run, arriving, recent,
          histories, orphaned, leftBehind, bounds>>

Empty == [items |-> <<>>, lines |-> <<>>]

Idle == [at |-> "idle", handed |-> <<>>, rest |-> <<>>, telling |-> <<>>,
         forced |-> FALSE, hit |-> FALSE]

(* A run of the drain is out: with one item, with an item that only lends  *)
(* its route to the summary, with the summary alone, or with a batch.      *)
Out(q) == drain[q].at \in {"item", "carry", "note", "batch"}

TypeOK ==
    /\ settings \in Settings
    /\ registered \in Queues \cup {NoQueue}
    /\ \A q \in Queues :
           /\ queue[q].items \in Seq(Messages)
           /\ queue[q].lines \in Seq(Messages)
           /\ Len(queue[q].items) <= settings.cap
           /\ Len(queue[q].lines) <= settings.cap
           /\ drain[q].at \in {"idle", "wait", "item", "carry", "note", "batch"}
           /\ drain[q].handed \in Seq(Messages)
           /\ drain[q].handed # <<>> => Out(q)
    /\ run \in {"none", "reply", "ended", "outside"}
    /\ arriving \subseteq Messages
    /\ recent \subseteq Messages
    /\ ran \in [Messages -> Nat]
    /\ told \cup gone \cup overrun \subseteq recent
    /\ orphaned \subseteq Queues
    /\ leftBehind \in BOOLEAN

Init ==
    /\ settings \in Settings
    /\ registered = NoQueue
    /\ queue = [q \in Queues |-> Empty]
    /\ drain = [q \in Queues |-> Idle]
    /\ run = "none"
    /\ arriving = {}
    /\ recent = {}
    /\ ran = [m \in Messages |-> 0]
    /\ told = {} /\ gone = {} /\ overrun = {}
    /\ orphaned = {}
    /\ leftBehind = FALSE
    /\ redeliveries = 0 /\ runs = 0 /\ clears = 0 /\ failures = 0

-----------------------------------------------------------------------------
(* Helpers.                                                                *)

(* hasCrossChannelItems                                                    *)
CrossChannel(items) ==
    \E m, n \in ToSet(items) : 
        settings.route[m] = Unroutable \/ settings.route[m] # settings.route[n]

Suffix(s, n) == SubSeq(s, n + 1, Len(s))

(* splitCollectItemsByAuthorization: a batch is a stretch of items of      *)
(* equal authority, here the number of items in the first one.  The code   *)
(* splits the whole copy of the queue at once; as an item keeps its        *)
(* authority, it may as well be split off batch by batch.                  *)
Stretch(items) ==
    Cardinality({n \in 1..Len(items) :
                    \A i \in 1..n : settings.authority[items[i]] = settings.authority[items[1]]})

LastOf(s, n) == IF Len(s) > n THEN Suffix(s, Len(s) - n) ELSE s

(* previewQueueSummaryPrompt                                               *)
Summary(q) == IF settings.policy = "summarize" THEN queue[q].lines ELSE <<>>

(* scheduleFollowupDrain, when the key has object r and the objects and    *)
(* drains are qs and ds: a drain that finds nothing unregisters the key.   *)
Schedule(r, qs, ds) ==
    /\ leftBehind' = FALSE
    /\ IF r = NoQueue \/ ds[r].at # "idle"
       THEN registered' = r /\ drain' = ds
       ELSE IF qs[r] = Empty
       THEN registered' = NoQueue /\ drain' = ds
       ELSE registered' = r /\ drain' = [ds EXCEPT ![r] = [Idle EXCEPT !.at = "wait"]]

(* The finally block of q's drain.  An empty queue unregisters the key,    *)
(* whichever object the key has by now.                                    *)
EndDrainQuietly(q, qs) ==     \* mutant of EndDrain: does not reschedule
    /\ drain' = [drain EXCEPT ![q] = Idle]
    /\ registered' = IF qs[q] = Empty THEN NoQueue ELSE registered
    /\ UNCHANGED <<orphaned, leftBehind>>

EndDrain(q, qs) ==
    LET ds == [drain EXCEPT ![q] = Idle]
    IN  IF qs[q] = Empty
        THEN /\ drain' = ds
             /\ registered' = NoQueue
             /\ orphaned' = IF registered \in Queues \ {q} /\ qs[registered] # Empty
                            THEN orphaned \cup {registered} ELSE orphaned
             /\ leftBehind' = FALSE
        ELSE Schedule(registered, qs, ds) /\ UNCHANGED orphaned

(* What object q holds, and what its drain has taken a copy of.            *)
Held(o) == ToSet(o.items) \cup ToSet(o.lines)

InHand(q) ==
    ToSet(drain[q].handed) \cup ToSet(drain[q].telling) \cup ToSet(drain[q].rest)

(* The next run of q's drain.                                              *)
Hand(q, at, handed, rest, telling, forced, hit) ==
    /\ drain' = [drain EXCEPT ![q] =
                    [at |-> at, handed |-> handed, rest |-> rest,
                     telling |-> telling, forced |-> forced, hit |-> hit]]
    /\ UNCHANGED <<registered, orphaned, leftBehind>>

HandBatch(q, items, telling, hit) ==
    LET n == Stretch(items)
    IN  Hand(q, "batch", SubSeq(items, 1, n), Suffix(items, n), telling, FALSE, hit)

-----------------------------------------------------------------------------
(* A message arrives while a run is active (a followup run is, except at   *)
(* its two ends): it will be queued, whatever happens until then.          *)
Arrive(m) ==
    /\ run \in {"reply", "outside"} \/ \E q \in Queues : Out(q)
    /\ m \notin arriving
    /\ m \in recent => redeliveries < MaxRedeliveries
    /\ redeliveries' = IF m \in recent THEN redeliveries + 1 ELSE redeliveries
    /\ arriving' = arriving \cup {m}
    /\ UNCHANGED <<settings, registered, queue, drain, run, recent,
                   histories, orphaned, leftBehind, runs, clears, failures>>

(* getFollowupQueue: the registered object or a new one.                   *)
Unused(q) == drain[q].at = "idle" /\ queue[q] = Empty

Object(q) ==
    IF registered = NoQueue
    THEN Unused(q) /\ q = CHOOSE p \in Queues : Unused(p)
    ELSE q = registered

(* applyQueueDropPolicy: how many of the oldest items make room for m.     *)
DropOneLess(items) ==         \* mutant of DropCount: off by one
    IF settings.policy # "new" /\ Len(items) >= settings.cap
    THEN Len(items) - settings.cap ELSE 0

DropCount(items) ==
    IF settings.policy # "new" /\ Len(items) >= settings.cap
    THEN Len(items) - settings.cap + 1 ELSE 0

(* The object q after m was pushed: the items dropped leave a line.        *)
Pushed(q, m) ==
    LET items == queue[q].items
        n == DropCount(items)
        lines == IF settings.policy = "summarize"
                 THEN queue[q].lines \o SubSeq(items, 1, n) ELSE <<>>
    IN  [items |-> Append(Suffix(items, n), m), lines |-> LastOf(lines, settings.cap)]

RefusedIfFull(q, m) ==        \* mutant of Refused: forgets the ids once queued
    \/ m \in ToSet(queue[q].items)
    \/ settings.policy = "new" /\ Len(queue[q].items) >= settings.cap

(* The message was queued before (RECENT_QUEUE_MESSAGE_IDS covers those    *)
(* still there), or there is no room.                                      *)
Refused(q, m) ==
    \/ m \in recent
    \/ settings.policy = "new" /\ Len(queue[q].items) >= settings.cap

(* A followup run is an active run, except while it starts and ends.       *)
SeenActive == run \in {"reply", "outside"}

MaybeActive == SeenActive \/ \E q \in Queues : Out(q)

(* enqueueFollowupRun into object q, and the check that follows: unless a  *)
(* run is active now, the caller schedules the drain itself.               *)
EnqueueUnchecked(q, m) ==     \* mutant of Enqueue: no check afterwards
    /\ m \in arriving
    /\ Object(q)
    /\ arriving' = arriving \ {m}
    /\ LET before == queue[q]
           after == IF Refused(q, m) THEN before ELSE Pushed(q, m)
           dropped == ToSet(before.items) \ ToSet(after.items)
           qs == [queue EXCEPT ![q] = after]
           ds == [drain EXCEPT ![q].hit = @ \/ (Out(q) /\ dropped # {})]
       IN  /\ queue' = qs
           /\ recent' = IF Refused(q, m) THEN recent ELSE recent \cup {m}
           /\ gone' = gone \cup ((dropped \cup ToSet(before.lines)) \ ToSet(after.lines))
           /\ registered' = q
           /\ drain' = ds
    /\ UNCHANGED leftBehind
    /\ orphaned' = orphaned \ {q}
    /\ UNCHANGED <<settings, run, ran, told, overrun, bounds>>

Enqueue(q, m) ==
    /\ m \in arriving
    /\ Object(q)
    /\ arriving' = arriving \ {m}
    /\ LET before == queue[q]
           after == IF Refused(q, m) THEN before ELSE Pushed(q, m)
           dropped == ToSet(before.items) \ ToSet(after.items)
           qs == [queue EXCEPT ![q] = after]
           ds == [drain EXCEPT ![q].hit = @ \/ (Out(q) /\ dropped # {})]
       IN  /\ queue' = qs
           /\ recent' = IF Refused(q, m) THEN recent ELSE recent \cup {m}
           /\ gone' = gone \cup ((dropped \cup ToSet(before.lines)) \ ToSet(after.lines))
           /\ \/ /\ MaybeActive
                 /\ registered' = q
                 /\ drain' = ds
                 /\ UNCHANGED leftBehind
              \/ ~SeenActive /\ Schedule(q, qs, ds)
    /\ orphaned' = orphaned \ {q}
    /\ UNCHANGED <<settings, run, ran, told, overrun, bounds>>

(* The debounce is over: the drain hands the next run what it is to answer,*)
(* or finds nothing and ends.                                              *)
Debounced(q) ==
    /\ drain[q].at = "wait"
    /\ LET items == queue[q].items
           summary == Summary(q)
           single == settings.mode = "collect" /\ (drain[q].forced \/ CrossChannel(items))
           One == SubSeq(items, 1, 1)
       IN  IF items = <<>>
           THEN IF settings.mode = "collect" /\ summary # <<>>
                THEN Hand(q, "note", <<>>, <<>>, summary, single, FALSE)
                ELSE EndDrain(q, queue)
           ELSE IF single \/ (settings.mode = "followup" /\ summary = <<>>)
           THEN Hand(q, "item", One, <<>>, <<>>, single, FALSE)
           ELSE IF settings.mode = "followup"
           THEN Hand(q, "carry", One, <<>>, summary, FALSE, FALSE)
           ELSE HandBatch(q, items, summary, FALSE)
    /\ UNCHANGED <<settings, queue, run, arriving, recent, histories, bounds>>

(* What a returned run leaves of object q: it removes as many items as it  *)
(* was given, from the front, and the whole summary if it was given one.   *)
RemainsUnsummarised(q) ==     \* mutant of Remains: always clears the summary
    [items |-> Suffix(queue[q].items, Len(drain[q].handed)), lines |-> <<>>]

Remains(q) ==
    [items |-> Suffix(queue[q].items, Len(drain[q].handed)),
     lines |-> IF drain[q].telling = <<>> THEN queue[q].lines ELSE <<>>]

(* The run returns: the next batch follows at once; otherwise the drain    *)
(* goes round again, or ends.                                              *)
Finish(q) ==
    /\ Out(q)
    /\ LET d == drain[q]
           qs == [queue EXCEPT ![q] = Remains(q)]
           read == IF d.at = "carry" THEN {} ELSE ToSet(d.handed)
           behind == Held(queue[q]) \ (Held(qs[q]) \cup InHand(q))
       IN  /\ queue' = qs
           /\ ran' = [m \in Messages |-> IF m \in read THEN ran[m] + 1 ELSE ran[m]]
           /\ told' = told \cup ToSet(d.telling)
           /\ gone' = IF d.at = "carry" THEN gone \cup ToSet(d.handed) ELSE gone
           /\ overrun' = IF d.hit THEN overrun \cup behind ELSE overrun
           /\ IF d.rest # <<>>
              THEN HandBatch(q, d.rest, <<>>, d.hit)
              ELSE IF qs[q] # Empty
              THEN Hand(q, "wait", <<>>, <<>>, <<>>, d.forced, FALSE)
              ELSE EndDrain(q, qs)
    /\ UNCHANGED <<settings, run, arriving, recent, bounds>>

(* The run throws: a reply run holds the session, or its answer could not  *)
(* be sent.  Everything stays queued, and a new drain starts.              *)
Throw(q) ==
    /\ Out(q)
    /\ \/ run \in {"reply", "ended"} /\ UNCHANGED failures
       \/ /\ run \notin {"reply", "ended"}
          /\ failures < MaxFailures
          /\ failures' = failures + 1
    /\ overrun' = IF drain[q].hit
                  THEN overrun \cup (InHand(q) \ Held(queue[q])) ELSE overrun
    /\ EndDrain(q, queue)
    /\ UNCHANGED <<settings, queue, run, arriving, recent, ran, told, gone,
                   redeliveries, runs, clears>>

(* clearSessionQueues, for a stop or a reset of the session.               *)
Clear ==
    /\ registered # NoQueue
    /\ clears < MaxClears
    /\ clears' = clears + 1
    /\ queue' = [queue EXCEPT ![registered] = Empty]
    /\ registered' = NoQueue
    /\ gone' = gone \cup Held(queue[registered])
    /\ leftBehind' = FALSE
    /\ UNCHANGED <<settings, drain, run, arriving, recent, ran, told, overrun,
                   orphaned, redeliveries, runs, failures>>

(* A message finds no run active and starts one; or a run starts that is   *)
(* not the reply pipeline's.                                               *)
StartRun(kind) ==
    /\ run = "none"
    /\ runs < MaxRuns
    /\ runs' = runs + 1
    /\ run' = kind
    /\ UNCHANGED <<settings, registered, queue, drain, arriving, recent, histories,
                   orphaned, leftBehind, redeliveries, clears, failures>>

(* The embedded run of a reply run is over, not yet the reply run.         *)
EndEmbedded ==
    /\ run = "reply"
    /\ run' = "ended"
    /\ UNCHANGED <<settings, registered, queue, drain, arriving, recent, histories,
                   orphaned, leftBehind, bounds>>

(* finalizeWithFollowup                                                    *)
FinalizeWithFollowup ==
    /\ run = "ended"
    /\ run' = "none"
    /\ Schedule(registered, queue, drain)
    /\ UNCHANGED <<settings, queue, arriving, recent, histories, orphaned, bounds>>

(* A run from outside the reply pipeline ends: nobody looks at the queue.  *)
EndOutside ==
    /\ run = "outside"
    /\ run' = "none"
    /\ leftBehind' = \/ leftBehind
                     \/ /\ registered # NoQueue
                        /\ queue[registered] # Empty
                        /\ drain[registered].at = "idle"
    /\ UNCHANGED <<settings, registered, queue, drain, arriving, recent, histories,
                   orphaned, bounds>>

Enqueues == \E q \in Queues : \E m \in Messages : Enqueue(q, m)
Drains == \E q \in Queues : Debounced(q) \/ Finish(q)
Ends == EndEmbedded \/ FinalizeWithFollowup \/ EndOutside

Next ==
    \/ \E m \in Messages : Arrive(m)
    \/ Enqueues
    \/ Drains
    \/ \E q \in Queues : Throw(q)
    \/ Clear
    \/ \E kind \in {"reply", "outside"} : StartRun(kind)
    \/ Ends

(* Arriving messages get to the queue, timers fire, and runs end.          *)
Spec ==
    /\ Init
    /\ [][Next]_vars
    /\ WF_vars(Enqueues)
    /\ \A q \in Queues : WF_vars(Debounced(q)) /\ WF_vars(Finish(q))
    /\ WF_vars(Ends)

-----------------------------------------------------------------------------
(* No prompt is answered twice: although a message is redelivered, stays   *)
(* in the queue under its run, is dropped under it, or is cleared, at most *)
(* one run that was given it returns.                                      *)
RunsOnce == \A m \in Messages : ran[m] <= 1

(* A message that was accepted is still queued, or was answered, or told   *)
(* of in a summary, or given up on purpose: by the drop policy "old", by   *)
(* a summary longer than its limit, by a clear, or as the item whose route *)
(* a summary borrowed.                                                     *)
Accounted(m) ==
    \/ \E q \in Queues : m \in Held(queue[q]) \cup InHand(q)
    \/ ran[m] > 0
    \/ m \in told \cup gone

EachReadOrTold == \A m \in recent : Accounted(m)

(* The only other way to lose a message is to be removed behind a run      *)
(* under which the queue overflowed: by number, in the place of one that   *)
(* was dropped.                                                            *)
LostOnlyBehindOverflow == \A m \in recent : Accounted(m) \/ m \in overrun

(* A waiting message has someone to start its drain: the drain itself, or  *)
(* a run that is not over.  The exceptions are the object that another     *)
(* object's drain unregistered, and the queue an outside run left behind.  *)
HasDriver(q) ==
    \/ drain[q].at # "idle"
    \/ run # "none"
    \/ \E other \in Queues : drain[other].at # "idle"

Forsaken(q) == q \in orphaned \/ (q = registered /\ leftBehind)

WaitingHasDriver ==
    \A q \in Queues : queue[q] # Empty => HasDriver(q) \/ Forsaken(q)

(* One more exception: the summary of a queue of one, in mode followup, is *)
(* left without an item whose run would tell it.  The one that was queued  *)
(* was removed by number with the run before, whose item it had dropped;   *)
(* the drain ends over the summary and schedules itself again, for ever.   *)
(* Here a message or a clear may still come; in the code the drain awaits  *)
(* only what is resolved by then (drain.ts:264-291, 304-311), and nothing  *)
(* else gets its turn.                                                     *)
SpinsOverSummary(q) ==
    /\ settings.mode = "followup" /\ settings.cap = 1
    /\ queue[q].items = <<>> /\ queue[q].lines # <<>>

(* Every queue is emptied in the end, through overflow, clears, retries    *)
(* and runs that begin meanwhile, except one that is forsaken or spins.    *)
QueueDrained ==
    <>[](\A q \in Queues :
             queue[q] = Empty \/ Forsaken(q) \/ SpinsOverSummary(q))
=============================================================================
