---------------------------- MODULE ExecApprovals ----------------------------
(***************************************************************************)
(* Approvals of commands: the manager (gateway/exec-approval-manager.ts),  *)
(* the handlers of exec.approval.request, .waitDecision and .resolve       *)
(* (gateway/server-methods/exec-approval.ts, approval-shared.ts), and the  *)
(* gate of node.invoke that lets an approved command run                   *)
(* (gateway/node-invoke-system-run-approval.ts).                           *)
(*                                                                         *)
(* A request registers a record under its id and is delivered to whoever   *)
(* may decide; an operator decides it, or its timer expires it, and the    *)
(* record stays for a grace period.  The id can be used again after that.  *)
(* Only the delivery and the waits for the decision are interrupted.       *)
(*                                                                         *)
(* Left out: what is compared to bind a run to its approval (command,      *)
(* node, device, environment): the runs here are those that match; prefix  *)
(* lookups, which name a pending id; requests refused before they are      *)
(* registered and decisions the request does not allow, which change       *)
(* nothing.                                                                *)
(***************************************************************************)
EXTENDS Naturals

CONSTANTS
    Requests,   \* calls of exec.approval.request, each with its record
    NoRequest,
    Ids,        \* approval ids, given by the callers
    NoId,
    Waiters,    \* calls of exec.approval.waitDecision
    MaxRuns     \* runs of one record under one allow-once that are counted

ASSUME ApprovalsAssumption ==
    NoRequest \notin Requests /\ NoId \notin Ids /\ MaxRuns \in Nat

VARIABLES
    pending,    \* the manager's map, from ids to records
    id,         \* of each record
    stage,      \* of the handler: "new", "delivering", "waiting", "answered",
                \* or "unrouted" (answered for want of a route)
    timer,      \* the record's timer is armed
    clock,      \* now against expiresAtMs: "early", "due" (equal), "late"
    resolvedAt, \* resolvedAtMs is set
    decision, consumed, by, \* decision, consumedDecision, resolvedBy
    promise,    \* what the record's promise was resolved with
    grace,      \* the cleanup timer is armed
    answer,     \* the final answer to the request
    asked,      \* the record a waiter awaits
    told,       \* the answer to a waiter
    onceRuns,   \* history: runs let through by consuming the record
    otherRuns,  \* history: other reasons runs were let through for
    reply       \* the last reply to an operator: record, decision, confirmed

recordVars == <<timer, resolvedAt, decision, by, promise, grace>>
callVars == <<id, stage, answer, asked, told>>
history == <<onceRuns, otherRuns, reply>>
vars == <<pending, clock, consumed, recordVars, callVars, history>>

Decisions == {"allow-once", "allow-always", "deny"}

(* What a promise can be resolved with; "null" is no decision.             *)
Outcomes == Decisions \cup {"null"}

TypeOK ==
    /\ pending \in [Ids -> Requests \cup {NoRequest}]
    /\ id \in [Requests -> Ids \cup {NoId}]
    /\ stage \in [Requests -> {"new", "delivering", "waiting", "answered", "unrouted"}]
    /\ timer \in [Requests -> BOOLEAN]
    /\ clock \in [Requests -> {"early", "due", "late"}]
    /\ resolvedAt \in [Requests -> BOOLEAN]
    /\ decision \in [Requests -> Decisions \cup {"none"}]
    /\ consumed \in [Requests -> Decisions \cup {"none"}]
    /\ by \in [Requests -> {"unset", "null", "operator", "no-approval-route"}]
    /\ promise \in [Requests -> Outcomes \cup {"unset"}]
    /\ grace \in [Requests -> BOOLEAN]
    /\ answer \in [Requests -> Outcomes \cup {"unset"}]
    /\ asked \in [Waiters -> Requests \cup {NoRequest}]
    /\ told \in [Waiters -> Outcomes \cup {"unset", "missing"}]
    /\ onceRuns \in [Requests -> 0 .. MaxRuns]
    /\ otherRuns \in [Requests -> SUBSET {"allow-always", "fallback"}]
    /\ reply \in [to: Requests \cup {NoRequest}, decision: Decisions, ok: BOOLEAN]
    /\ \A r \in Requests :
           /\ grace[r] => resolvedAt[r] /\ ~timer[r]
           /\ stage[r] \in {"answered", "unrouted"} <=> answer[r] # "unset"

Init ==
    /\ pending = [i \in Ids |-> NoRequest]
    /\ id = [r \in Requests |-> NoId]
    /\ stage = [r \in Requests |-> "new"]
    /\ timer = [r \in Requests |-> FALSE]
    /\ clock = [r \in Requests |-> "early"]
    /\ resolvedAt = [r \in Requests |-> FALSE]
    /\ decision = [r \in Requests |-> "none"]
    /\ consumed = [r \in Requests |-> "none"]
    /\ by = [r \in Requests |-> "unset"]
    /\ promise = [r \in Requests |-> "unset"]
    /\ grace = [r \in Requests |-> FALSE]
    /\ answer = [r \in Requests |-> "unset"]
    /\ asked = [w \in Waiters |-> NoRequest]
    /\ told = [w \in Waiters |-> "unset"]
    /\ onceRuns = [r \in Requests |-> 0]
    /\ otherRuns = [r \in Requests |-> {}]
    /\ reply = [to |-> NoRequest, decision |-> "deny", ok |-> FALSE]

-----------------------------------------------------------------------------
(* The manager.                                                            *)

Unresolved(r) == r # NoRequest /\ ~resolvedAt[r]

(* What resolve and expire do to a record that is not resolved yet.        *)
SettleKeepingTimer(r, outcome, who) ==  \* mutant of Settle: no clearTimeout
    /\ timer' = timer
    /\ resolvedAt' = [resolvedAt EXCEPT ![r] = TRUE]
    /\ decision' = [decision EXCEPT ![r] = IF outcome = "null" THEN "none" ELSE outcome]
    /\ by' = [by EXCEPT ![r] = who]
    /\ promise' = [promise EXCEPT ![r] = outcome]
    /\ grace' = [grace EXCEPT ![r] = TRUE]

SettleSilently(r, outcome, who) ==      \* mutant of Settle: null ends no wait
    /\ timer' = [timer EXCEPT ![r] = FALSE]
    /\ resolvedAt' = [resolvedAt EXCEPT ![r] = TRUE]
    /\ decision' = [decision EXCEPT ![r] = IF outcome = "null" THEN "none" ELSE outcome]
    /\ by' = [by EXCEPT ![r] = who]
    /\ promise' = [promise EXCEPT ![r] = IF outcome = "null" THEN @ ELSE outcome]
    /\ grace' = [grace EXCEPT ![r] = TRUE]

Settle(r, outcome, who) ==
    /\ timer' = [timer EXCEPT ![r] = FALSE]
    /\ resolvedAt' = [resolvedAt EXCEPT ![r] = TRUE]
    /\ decision' = [decision EXCEPT ![r] = IF outcome = "null" THEN "none" ELSE outcome]
    /\ by' = [by EXCEPT ![r] = who]
    /\ promise' = [promise EXCEPT ![r] = outcome]
    /\ grace' = [grace EXCEPT ![r] = TRUE]

(* expire, of whichever record is under the id                             *)
Expire(i, who) ==
    IF Unresolved(pending[i])
    THEN Settle(pending[i], "null", who)
    ELSE UNCHANGED recordVars

(* The timer of register                                                   *)
TimerFires(r) ==
    /\ timer[r]
    /\ clock[r] # "early"
    /\ IF Unresolved(pending[id[r]])
       THEN Settle(pending[id[r]], "null", "null")
       ELSE /\ timer' = [timer EXCEPT ![r] = FALSE]
            /\ UNCHANGED <<resolvedAt, decision, by, promise, grace>>
    /\ UNCHANGED <<pending, clock, consumed, callVars, history>>

(* The cleanup of scheduleResolvedEntryCleanup: the entry, if it is still  *)
(* the record's.                                                           *)
GraceEnds(r) ==
    /\ grace[r]
    /\ grace' = [grace EXCEPT ![r] = FALSE]
    /\ pending' = IF pending[id[r]] = r THEN [pending EXCEPT ![id[r]] = NoRequest] ELSE pending
    /\ UNCHANGED <<clock, consumed, timer, resolvedAt, decision, by, promise,
                   callVars, history>>

(* Time passes the record's expiresAtMs, as long as anything depends on it.*)
Tick(r) ==
    /\ stage[r] # "new"
    /\ timer[r] \/ pending[id[r]] = r
    /\ clock[r] # "late"
    /\ clock' = [clock EXCEPT ![r] = IF @ = "early" THEN "due" ELSE "late"]
    /\ UNCHANGED <<pending, consumed, recordVars, callVars, history>>

-----------------------------------------------------------------------------
(* exec.approval.request: refused if the id is in the map.                 *)
RequestOverResolved(r, i) ==  \* mutant of Request: only a pending id counts
    /\ stage[r] = "new"
    /\ ~Unresolved(pending[i])
    /\ pending' = [pending EXCEPT ![i] = r]
    /\ id' = [id EXCEPT ![r] = i]
    /\ stage' = [stage EXCEPT ![r] = "delivering"]
    /\ timer' = [timer EXCEPT ![r] = TRUE]
    /\ UNCHANGED <<clock, consumed, resolvedAt, decision, by, promise, grace,
                   answer, asked, told, history>>

Request(r, i) ==
    /\ stage[r] = "new"
    /\ pending[i] = NoRequest
    /\ pending' = [pending EXCEPT ![i] = r]
    /\ id' = [id EXCEPT ![r] = i]
    /\ stage' = [stage EXCEPT ![r] = "delivering"]
    /\ timer' = [timer EXCEPT ![r] = TRUE]
    /\ UNCHANGED <<clock, consumed, resolvedAt, decision, by, promise, grace,
                   answer, asked, told, history>>

(* The delivery returns: routed if it reached somebody, approval clients   *)
(* were connected before it, or the turn came from a channel that can      *)
(* answer.  Without any route the approval is expired and the request      *)
(* answered.                                                               *)
Delivered(r, routed) ==
    /\ stage[r] = "delivering"
    /\ IF routed
       THEN /\ stage' = [stage EXCEPT ![r] = "waiting"]
            /\ UNCHANGED <<recordVars, answer>>
       ELSE /\ Expire(id[r], "no-approval-route")
            /\ stage' = [stage EXCEPT ![r] = "unrouted"]
            /\ answer' = [answer EXCEPT ![r] = "null"]
    /\ UNCHANGED <<pending, clock, consumed, id, asked, told, history>>

(* The awaited decision reaches the handler.                               *)
Answer(r) ==
    /\ stage[r] = "waiting"
    /\ promise[r] # "unset"
    /\ stage' = [stage EXCEPT ![r] = "answered"]
    /\ answer' = [answer EXCEPT ![r] = promise[r]]
    /\ UNCHANGED <<pending, clock, consumed, recordVars, id, asked,
                   told, history>>

(* exec.approval.waitDecision: a record in its grace period is found too.  *)
WaitDecision(w, i) ==
    /\ asked[w] = NoRequest /\ told[w] = "unset"
    /\ asked' = [asked EXCEPT ![w] = pending[i]]
    /\ told' = [told EXCEPT ![w] = IF pending[i] = NoRequest THEN "missing" ELSE @]
    /\ UNCHANGED <<pending, clock, consumed, recordVars, id, stage,
                   answer, history>>

Tell(w) ==
    /\ asked[w] # NoRequest /\ told[w] = "unset"
    /\ promise[asked[w]] # "unset"
    /\ told' = [told EXCEPT ![w] = promise[asked[w]]]
    /\ UNCHANGED <<pending, clock, consumed, recordVars, id, stage,
                   answer, asked, history>>

(* resolveRecordedApprovalDecision                                         *)
RecordedUnlessConsumed(r) ==  \* mutant of Recorded: forgets consumedDecision
    decision[r]

Recorded(r) == IF decision[r] # "none" THEN decision[r] ELSE consumed[r]

(* exec.approval.resolve: the first decision counts, and repeating it is   *)
(* confirmed as long as the record is there.                               *)
Resolve(i, d) ==
    LET r == pending[i] IN
    /\ r # NoRequest
    /\ reply' = [to |-> r, decision |-> d, ok |-> Unresolved(r) \/ Recorded(r) = d]
    /\ IF Unresolved(r) THEN Settle(r, d, "operator") ELSE UNCHANGED recordVars
    /\ UNCHANGED <<pending, clock, consumed, callVars, onceRuns, otherRuns>>

-----------------------------------------------------------------------------
(* sanitizeSystemRunParamsForForwarding, for a run that names the id and   *)
(* matches its record.  A single approval is consumed.                     *)
Usable(i) == pending[i] # NoRequest /\ clock[pending[i]] # "late"

RunOnceUnconsumed(i) ==       \* mutant of RunOnce: leaves the decision
    LET r == pending[i] IN
    /\ Usable(i)
    /\ decision[r] = "allow-once"
    /\ onceRuns[r] < MaxRuns
    /\ onceRuns' = [onceRuns EXCEPT ![r] = @ + 1]
    /\ UNCHANGED <<pending, clock, consumed, recordVars, callVars, otherRuns,
                   reply>>

RunOnce(i) ==
    LET r == pending[i] IN
    /\ Usable(i)
    /\ decision[r] = "allow-once"
    /\ onceRuns[r] < MaxRuns
    /\ consumed' = [consumed EXCEPT ![r] = decision[r]]
    /\ decision' = [decision EXCEPT ![r] = "none"]
    /\ onceRuns' = [onceRuns EXCEPT ![r] = @ + 1]
    /\ UNCHANGED <<pending, clock, timer, resolvedAt, by, promise, grace,
                   callVars, otherRuns, reply>>

RunAlways(i) ==
    LET r == pending[i] IN
    /\ Usable(i)
    /\ decision[r] = "allow-always"
    /\ otherRuns' = [otherRuns EXCEPT ![r] = @ \cup {"allow-always"}]
    /\ UNCHANGED <<pending, clock, consumed, recordVars, callVars, onceRuns,
                   reply>>

(* The approval timed out, and the caller may approve (askFallback).       *)
TimedOut(r) == resolvedAt[r] /\ decision[r] = "none" /\ by[r] = "null"

RunFallback(i) ==
    LET r == pending[i] IN
    /\ Usable(i)
    /\ TimedOut(r)
    /\ otherRuns' = [otherRuns EXCEPT ![r] = @ \cup {"fallback"}]
    /\ UNCHANGED <<pending, clock, consumed, recordVars, callVars, onceRuns,
                   reply>>

-----------------------------------------------------------------------------
RequestStep(r) ==
    \/ \E i \in Ids : Request(r, i)
    \/ \E routed \in BOOLEAN : Delivered(r, routed)
    \/ Answer(r)
    \/ TimerFires(r)
    \/ GraceEnds(r)
    \/ Tick(r)

ClientStep(i) ==
    \/ \E d \in Decisions : Resolve(i, d)
    \/ RunOnce(i)
    \/ RunAlways(i)
    \/ RunFallback(i)

WaiterStep(w) == Tell(w) \/ \E i \in Ids : WaitDecision(w, i)

Next ==
    \/ \E r \in Requests : RequestStep(r)
    \/ \E i \in Ids : ClientStep(i)
    \/ \E w \in Waiters : WaiterStep(w)

(* Time passes, an armed timer fires, a delivery returns, and a handler    *)
(* whose promise is resolved goes on.  Nobody has to decide or to ask.     *)
Fairness ==
    /\ \A r \in Requests :
           /\ WF_vars(Tick(r))
           /\ WF_vars(TimerFires(r))
           /\ WF_vars(GraceEnds(r))
           /\ WF_vars(\E routed \in BOOLEAN : Delivered(r, routed))
           /\ WF_vars(Answer(r))
    /\ \A w \in Waiters : WF_vars(Tell(w))

Spec == Init /\ [][Next]_vars /\ Fairness

-----------------------------------------------------------------------------
(* A command runs only as the operator decided: once, whatever the order   *)
(* of the runs, the decisions and the timer, if it was allowed once; under *)
(* the fallback only if nobody decided and it was the timer that ended the *)
(* approval.                                                               *)
RunsAsDecided ==
    \A r \in Requests :
        /\ onceRuns[r] <= 1
        /\ onceRuns[r] > 0 => promise[r] = "allow-once"
        /\ "allow-always" \in otherRuns[r] => promise[r] = "allow-always"
        /\ "fallback" \in otherRuns[r] => promise[r] = "null" /\ by[r] = "null"

(* Operators are told the same story: the one decision confirmed is the    *)
(* one the requester waits for, and repeating it, even after a run has     *)
(* consumed it, is never refused.                                          *)
OneVerdict ==
    reply.to # NoRequest => (reply.ok <=> promise[reply.to] = reply.decision)

(* Whoever waits is told the decision, also when a run consumed it before  *)
(* the answer went out, except a request without a route, which is told    *)
(* that there is none.                                                     *)
ToldAsDecided ==
    /\ \A r \in Requests :
           stage[r] = "answered" => answer[r] = promise[r] /\ promise[r] # "unset"
    /\ \A w \in Waiters :
           asked[w] # NoRequest => told[w] \in {"unset", promise[asked[w]]}

(* Operators, the requester and whoever waits all learn the same decision. *)
OneDecisionTold == OneVerdict /\ ToldAsDecided

(* An approval times out at its own time: the timer of an earlier record   *)
(* that had the same id never ends it.                                     *)
ExpiresInTime == \A r \in Requests : by[r] = "null" => clock[r] # "early"

(* While it is not resolved, and through its grace period, a record is     *)
(* found under its id: it can be decided, awaited and repeated, and no     *)
(* other request takes its id.                                             *)
FoundUnderItsId ==
    \A r \in Requests :
        stage[r] # "new" /\ (~resolvedAt[r] \/ grace[r]) => pending[id[r]] = r

(* The fallback serves an approval that timed out, as long as its record   *)
(* is kept.                                                                *)
FallbackUsable ==
    \A i \in Ids : pending[i] # NoRequest /\ TimedOut(pending[i]) => Usable(i)

(* Every request is answered, whether somebody decides or not, and its     *)
(* record leaves the map.                                                  *)
RequestsEnd ==
    \A r \in Requests :
        stage[r] # "new" ~> answer[r] # "unset" /\ pending[id[r]] # r
=============================================================================
