------------------------------ MODULE ReplyRuns ------------------------------
(***************************************************************************)
(* The reply operations of one session key                                 *)
(* (auto-reply/reply/reply-run-registry.ts).  A turn registers an          *)
(* operation, moves through its phases, attaches the backend that runs it, *)
(* may be given a new session id by a compaction, and ends; others abort   *)
(* it or wait for it to end, by the key or by a session id.                *)
(*                                                                         *)
(* Every function of the registry runs without interruption.  A new turn   *)
(* that finds an operation without a streaming backend takes its place,    *)
(* and the one displaced runs on.                                          *)
(*                                                                         *)
(* The session ids are those of this key: no two keys share one.  The      *)
(* upstream signal, which no wait and no map depends on, is left out.      *)
(***************************************************************************)

CONSTANTS
    Ops,        \* operations; one that is over stands for a new one later
    NoOp,
    Ids,        \* session ids of the key
    NoId,
    Waiters     \* calls of waitForIdle

ASSUME ReplyRunsAssumption == NoOp \notin Ops /\ NoId \notin Ids

VARIABLES
    phase,      \* of each operation; "unborn" before the first is created
    result,     \* "none", "completed", "failed" or "aborted"
    cleared,    \* stateCleared
    sid,        \* currentSessionId
    backend,    \* the attached backend: "none", "streaming" or "quiet"
    cancelled,  \* the operation's backend was told to cancel
    active,     \* activeRunsByKey
    session,    \* activeSessionIdsByKey
    index,      \* the ids activeKeysBySessionId maps to the key
    waitIds,    \* the ids waitKeysBySessionId maps to the key
    waiter,     \* "none", "waiting", "ended" (true) or "timeout" (false)
    had,        \* history: session ids the registered operation has had
    displaced,  \* history: operations another one took the place of
    intruded    \* history: a displaced operation changed its session id

opVars == <<phase, result, cleared, sid, backend, cancelled>>
keyVars == <<active, session, index, waitIds>>
vars == <<opVars, keyVars, waiter, had, displaced, intruded>>

(* "compacting" stands for preflight_compacting and memory_flushing.       *)
Phases == {"unborn", "queued", "compacting", "running",
           "completed", "failed", "aborted"}

TypeOK ==
    /\ phase \in [Ops -> Phases]
    /\ result \in [Ops -> {"none", "completed", "failed", "aborted"}]
    /\ cleared \in [Ops -> BOOLEAN]
    /\ sid \in [Ops -> Ids \cup {NoId}]
    /\ backend \in [Ops -> {"none", "streaming", "quiet"}]
    /\ cancelled \in [Ops -> BOOLEAN]
    /\ active \in Ops \cup {NoOp}
    /\ session \in Ids \cup {NoId}
    /\ index \subseteq Ids
    /\ waitIds \subseteq Ids
    /\ waiter \in [Waiters -> {"none", "waiting", "ended", "timeout"}]
    /\ had \subseteq Ids
    /\ displaced \subseteq Ops
    /\ intruded \in BOOLEAN
    /\ \A o \in Ops : cleared[o] => result[o] # "none"

Init ==
    /\ phase = [o \in Ops |-> "unborn"]
    /\ result = [o \in Ops |-> "none"]
    /\ cleared = [o \in Ops |-> FALSE]
    /\ sid = [o \in Ops |-> NoId]
    /\ backend = [o \in Ops |-> "none"]
    /\ cancelled = [o \in Ops |-> FALSE]
    /\ active = NoOp
    /\ session = NoId
    /\ index = {}
    /\ waitIds = {}
    /\ waiter = [w \in Waiters |-> "none"]
    /\ had = {}
    /\ displaced = {}
    /\ intruded = FALSE

-----------------------------------------------------------------------------
(* Helpers.                                                                *)

Born(o) == phase[o] # "unborn"

Ended(o) == result[o] \in {"completed", "failed"}

(* Nothing can be done with the operation any more: a new one may use it.  *)
Over(o) == ~Born(o) \/ (cleared[o] /\ backend[o] = "none")

(* createReplyOperation's looksStale, of the operation registered          *)
LooksStale(o) ==
    \/ phase[o] \in {"completed", "failed", "aborted"}
    \/ backend[o] # "streaming"

(* notifyReplyRunEnded                                                     *)
Notified == [w \in Waiters |-> IF waiter[w] = "waiting" THEN "ended" ELSE waiter[w]]

(* clearState and clearReplyRunState: once per operation, and only for the *)
(* one that still owns the key.                                            *)
ClearByAnyone(o) ==           \* mutant of Clear: does not look at the owner
    /\ cleared' = [cleared EXCEPT ![o] = TRUE]
    /\ IF ~cleared[o]
       THEN /\ active' = NoOp
            /\ session' = NoId
            /\ index' = index \ {sid[o]}
            /\ waitIds' = {}
            /\ waiter' = Notified
       ELSE UNCHANGED <<keyVars, waiter>>

ClearSilently(o) ==           \* mutant of Clear: wakes nobody
    /\ cleared' = [cleared EXCEPT ![o] = TRUE]
    /\ IF ~cleared[o] /\ active = o
       THEN /\ active' = NoOp
            /\ session' = NoId
            /\ index' = index \ {sid[o]}
            /\ waitIds' = {}
       ELSE UNCHANGED keyVars
    /\ UNCHANGED waiter

ClearTellingAnyway(o) ==      \* mutant of Clear: tells waiters of any end
    /\ cleared' = [cleared EXCEPT ![o] = TRUE]
    /\ IF ~cleared[o] /\ active = o
       THEN /\ active' = NoOp
            /\ session' = NoId
            /\ index' = index \ {sid[o]}
            /\ waitIds' = {}
       ELSE UNCHANGED keyVars
    /\ waiter' = Notified

Clear(o) ==
    /\ cleared' = [cleared EXCEPT ![o] = TRUE]
    /\ IF ~cleared[o] /\ active = o
       THEN /\ active' = NoOp
            /\ session' = NoId
            /\ index' = index \ {sid[o]}
            /\ waitIds' = {}
            /\ waiter' = Notified
       ELSE UNCHANGED <<keyVars, waiter>>

-----------------------------------------------------------------------------
(* createReplyOperation: in the place of a stale operation, if there is    *)
(* one (the one that is not stale makes it throw).  Waiters of the key     *)
(* wait on.                                                                *)
Create(o, i) ==
    /\ Over(o)
    /\ active # NoOp => LooksStale(active)
    /\ displaced' = (displaced \cup {active}) \ {o, NoOp}
    /\ phase' = [phase EXCEPT ![o] = "queued"]
    /\ result' = [result EXCEPT ![o] = "none"]
    /\ cleared' = [cleared EXCEPT ![o] = FALSE]
    /\ cancelled' = [cancelled EXCEPT ![o] = FALSE]
    /\ sid' = [sid EXCEPT ![o] = i]
    /\ had' = {i}
    /\ active' = o
    /\ session' = i
    /\ index' = (IF active = NoOp THEN index ELSE index \ {sid[active]}) \cup {i}
    /\ waitIds' = (IF active = NoOp THEN waitIds ELSE {}) \cup {i}
    /\ UNCHANGED <<backend, waiter, intruded>>

(* setPhase                                                                *)
SetPhase(o, next) ==
    /\ Born(o)
    /\ result[o] = "none"
    /\ next \in {"compacting", "running"}
    /\ phase' = [phase EXCEPT ![o] = next]
    /\ UNCHANGED <<result, cleared, sid, backend, cancelled, keyVars,
                   waiter, had, displaced, intruded>>

(* updateSessionId: the former id can still be waited for.                 *)
UpdateForgetful(o, i) ==      \* mutant of UpdateSessionId: forgets the former
    /\ Born(o)
    /\ result[o] = "none"
    /\ i # sid[o]
    /\ sid' = [sid EXCEPT ![o] = i]
    /\ had' = IF active = o THEN had \cup {i} ELSE had
    /\ session' = i
    /\ index' = (index \ {sid[o]}) \cup {i}
    /\ waitIds' = (waitIds \ {sid[o]}) \cup {i}
    /\ intruded' = (intruded \/ active # o)
    /\ UNCHANGED <<phase, result, cleared, backend, cancelled, active,
                   waiter, displaced>>

UpdateSessionId(o, i) ==
    /\ Born(o)
    /\ result[o] = "none"
    /\ i # sid[o]
    /\ sid' = [sid EXCEPT ![o] = i]
    /\ had' = IF active = o THEN had \cup {i} ELSE had
    /\ session' = i
    /\ index' = (index \ {sid[o]}) \cup {i}
    /\ waitIds' = waitIds \cup {sid[o], i}
    /\ intruded' = (intruded \/ active # o)
    /\ UNCHANGED <<phase, result, cleared, backend, cancelled, active,
                   waiter, displaced>>

(* attachBackend: the backend of an operation that was aborted is told to  *)
(* cancel and is not attached.                                             *)
AttachUnasked(o) ==           \* mutant of AttachBackend: ignores the result
    /\ Born(o) /\ ~Ended(o) /\ backend[o] = "none"
    /\ backend' = [backend EXCEPT ![o] = "streaming"]
    /\ cancelled' = cancelled
    /\ UNCHANGED <<phase, result, cleared, sid, keyVars, waiter, had,
                   displaced, intruded>>

AttachBackend(o) ==
    /\ Born(o) /\ ~Ended(o) /\ backend[o] = "none"
    /\ backend' = IF result[o] = "none"
                  THEN [backend EXCEPT ![o] = "streaming"] ELSE backend
    /\ cancelled' = [cancelled EXCEPT ![o] = @ \/ result[o] # "none"]
    /\ UNCHANGED <<phase, result, cleared, sid, keyVars, waiter, had,
                   displaced, intruded>>

(* The backend starts or stops streaming, as it works.                     *)
Stream(o) ==
    /\ backend[o] # "none"
    /\ backend' = [backend EXCEPT ![o] = IF @ = "quiet" THEN "streaming" ELSE "quiet"]
    /\ UNCHANGED <<phase, result, cleared, sid, cancelled, keyVars, waiter,
                   had, displaced, intruded>>

DetachBackend(o) ==
    /\ backend[o] # "none"
    /\ backend' = [backend EXCEPT ![o] = "none"]
    /\ cancelled' = [cancelled EXCEPT ![o] = FALSE]
    /\ UNCHANGED <<phase, result, cleared, sid, keyVars, waiter, had,
                   displaced, intruded>>

(* complete and fail: the turn is over, whether its backend is detached    *)
(* already or not.  An earlier result stays.                               *)
End(o, kind) ==
    /\ Born(o)
    /\ ~Ended(o)
    /\ ~(result[o] = "aborted" /\ cleared[o])
    /\ result' = [result EXCEPT ![o] = IF @ = "none" THEN kind ELSE @]
    /\ phase' = [phase EXCEPT ![o] = IF result[o] = "none" THEN kind ELSE @]
    /\ Clear(o)
    /\ UNCHANGED <<sid, backend, cancelled, had, displaced, intruded>>

(* abortByUser and abortForRestart, through the registry: an operation     *)
(* that is still queued leaves it at once.                                 *)
Abort ==
    /\ active # NoOp
    /\ result' = [result EXCEPT ![active] = IF @ = "none" THEN "aborted" ELSE @]
    /\ phase' = [phase EXCEPT ![active] = "aborted"]
    /\ cancelled' = [cancelled EXCEPT ![active] = @ \/ backend[active] # "none"]
    /\ IF phase[active] = "queued" THEN Clear(active) ELSE UNCHANGED <<cleared, keyVars, waiter>>
    /\ UNCHANGED <<sid, backend, had, displaced, intruded>>

(* waitForIdle, and waitForReplyRunEndBySessionId for the id i: at once    *)
(* if nothing is registered, or the id is not known.                       *)
Wait(w, known) ==
    /\ waiter[w] = "none"
    /\ waiter' = [waiter EXCEPT ![w] = IF known /\ active # NoOp THEN "waiting" ELSE "ended"]
    /\ UNCHANGED <<opVars, keyVars, had, displaced, intruded>>

WaitForIdle(w) == Wait(w, TRUE)

WaitForEndBySessionId(w, i) == Wait(w, i \in index \cup waitIds)

Timeout(w) ==
    /\ waiter[w] = "waiting"
    /\ waiter' = [waiter EXCEPT ![w] = "timeout"]
    /\ UNCHANGED <<opVars, keyVars, had, displaced, intruded>>

OpStep(o) ==
    \/ \E i \in Ids : Create(o, i) \/ UpdateSessionId(o, i)
    \/ \E p \in Phases : SetPhase(o, p)
    \/ AttachBackend(o)
    \/ Stream(o)
    \/ DetachBackend(o)
    \/ \E kind \in {"completed", "failed"} : End(o, kind)

WaiterStep(w) ==
    \/ WaitForIdle(w)
    \/ \E i \in Ids : WaitForEndBySessionId(w, i)
    \/ Timeout(w)

Next ==
    \/ \E o \in Ops : OpStep(o)
    \/ Abort
    \/ \E w \in Waiters : WaiterStep(w)

Spec == Init /\ [][Next]_vars

-----------------------------------------------------------------------------
(* An operation that has not left the registry, by its end or by an abort  *)
(* in the queue, and that no other has displaced, is the registered one:   *)
(* the end of a displaced turn does not unregister the one that took its   *)
(* place, and two turns run at a time only if one displaced the other.     *)
LiveIsRegistered ==
    \A o \in Ops : Born(o) /\ ~cleared[o] /\ o \notin displaced => active = o

(* A finished turn never stays registered, so the force-clear only ever    *)
(* finds an aborted operation or one without a streaming backend.          *)
RegisteredIsLive ==
    active # NoOp => Born(active) /\ ~Ended(active) /\ active \notin displaced

(* The registered operation is exactly the one whose turn is under way and *)
(* that nobody displaced: no order of displacing, aborting and ending      *)
(* leaves a turn that nobody can reach, or the key taken by one that ended.*)
OneRegistered == LiveIsRegistered /\ RegisteredIsLive

(* No waiter is left to its timer: as long as one waits, an operation is   *)
(* registered whose end will wake it, although operations are displaced    *)
(* without waking anybody.                                                 *)
WaiterHasOwner ==
    (\E w \in Waiters : waiter[w] = "waiting") => active # NoOp

(* A wait by session id does not slip by: whichever id the registered turn *)
(* has had, before a compaction too, is known, and the wait is for its end.*)
NoWaitSlipsBy == active # NoOp => had \subseteq index \cup waitIds

(* The maps agree with the registered operation, and are empty when there  *)
(* is none, unless a displaced operation has changed its session id: then  *)
(* it writes into the entry of the one that displaced it.                  *)
MapsAgree ==
    ~intruded =>
        IF active = NoOp
        THEN session = NoId /\ index = {} /\ waitIds = {}
        ELSE session = sid[active] /\ index = {sid[active]}

(* A wait, an abort or a lookup by session id finds the registered turn,   *)
(* through displacements and compactions in any order.                     *)
IdsLead == NoWaitSlipsBy /\ MapsAgree

(* Whatever the order of an abort and of the attaching of a backend, an    *)
(* aborted operation has no backend that was not told to cancel.           *)
AbortReachesBackend ==
    \A o \in Ops : result[o] = "aborted" /\ backend[o] # "none" => cancelled[o]

(* A waiter that waited is told of the end only when the key is idle, not  *)
(* when a displaced operation ends under another one.                      *)
ToldWhenIdle ==
    [][\A w \in Waiters :
           waiter[w] = "waiting" /\ waiter'[w] = "ended" => active' = NoOp]_vars
=============================================================================
