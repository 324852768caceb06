------------------------- MODULE ExecApprovalsProofs -------------------------
(***************************************************************************)
(* The safety of ExecApprovals, for any number of requests, ids, waiters   *)
(* and runs.                                                               *)
(*                                                                         *)
(* The argument: a record is settled once, because only the record under   *)
(* an id is settled and only while it is not resolved; from then on what   *)
(* its promise was resolved with is what the record has recorded, whether  *)
(* a run has consumed it or not (Recorded), and nothing settles it again.  *)
(* A timer is armed only as long as its record is unresolved, and such a   *)
(* record is under its id, so a timer settles its own record.              *)
(***************************************************************************)
EXTENDS ExecApprovals, TLAPS

(* What holds of one record: before it is settled, and after.              *)
RecordOK(r) ==
    /\ stage[r] = "new" => id[r] = NoId /\ ~timer[r] /\ ~resolvedAt[r]
    /\ stage[r] # "new" => id[r] \in Ids
    /\ ~resolvedAt[r] =>
           /\ promise[r] = "unset" /\ decision[r] = "none" /\ consumed[r] = "none"
           /\ by[r] = "unset" /\ onceRuns[r] = 0 /\ otherRuns[r] = {} /\ ~grace[r]
    /\ resolvedAt[r] =>
           /\ ~timer[r] /\ promise[r] # "unset"
           /\ Recorded(r) = IF promise[r] = "null" THEN "none" ELSE promise[r]
    /\ decision[r] # "none" => consumed[r] = "none"
    /\ decision[r] = "allow-once" => onceRuns[r] = 0
    /\ by[r] = "null" => promise[r] = "null"

Records == \A r \in Requests : RecordOK(r)

(* What is under an id is a record of that id that belongs there.          *)
Placed ==
    \A i \in Ids : pending[i] # NoRequest =>
        LET r == pending[i] IN
        stage[r] # "new" /\ id[r] = i /\ (~resolvedAt[r] \/ grace[r])

Replied == reply.to # NoRequest => resolvedAt[reply.to]

Core == Records /\ Placed /\ FoundUnderItsId /\ RunsAsDecided /\ ExpiresInTime

Answers == Replied /\ OneVerdict /\ ToldAsDecided

IInv == TypeOK /\ Core /\ Answers

-----------------------------------------------------------------------------
LEMMA InitIInv == Init => IInv
<1> SUFFICES ASSUME Init PROVE IInv
  OBVIOUS
<1>1. TypeOK
  BY ApprovalsAssumption DEF Init, TypeOK, Decisions, Outcomes
<1>2. Core
  BY DEF Init, Core, Records, RecordOK, Placed, FoundUnderItsId, RunsAsDecided, ExpiresInTime
<1>3. Answers
  BY DEF Init, Answers, Replied, OneVerdict, ToldAsDecided
<1> QED BY <1>1, <1>2, <1>3 DEF IInv

-----------------------------------------------------------------------------
(* Settling a record that is not resolved keeps what holds of the records, *)
(* provided that it times out only at its time, and touches no answer.     *)
LEMMA SettleCore ==
    ASSUME IInv, NEW r \in Requests, stage[r] # "new", ~resolvedAt[r],
           NEW outcome \in Outcomes,
           NEW who \in {"null", "operator", "no-approval-route"},
           who = "null" => outcome = "null" /\ clock[r] # "early",
           Settle(r, outcome, who),
           UNCHANGED <<pending, clock, consumed, id, onceRuns, otherRuns>>,
           \A q \in Requests : stage'[q] = "new" <=> stage[q] = "new"
    PROVE  Core'
<1> USE DEF IInv, Core, TypeOK, Outcomes, Decisions
<1>1. \A q \in Requests : q # r =>
          /\ timer'[q] = timer[q] /\ resolvedAt'[q] = resolvedAt[q]
          /\ decision'[q] = decision[q] /\ by'[q] = by[q]
          /\ promise'[q] = promise[q] /\ grace'[q] = grace[q]
  BY DEF Settle
<1>2. /\ ~timer'[r] /\ resolvedAt'[r] /\ by'[r] = who /\ promise'[r] = outcome /\ grace'[r]
      /\ decision'[r] = IF outcome = "null" THEN "none" ELSE outcome
  BY DEF Settle
<1>3. RecordOK(r)
  BY DEF Records
<1>4. Records'
  <2>1. ASSUME NEW q \in Requests, q # r PROVE RecordOK(q)'
    BY <1>1, <2>1 DEF Records, RecordOK, Recorded
  <2>2. RecordOK(r)'
    BY <1>2, <1>3 DEF RecordOK, Recorded
  <2> QED BY <2>1, <2>2 DEF Records
<1>5. Placed'
  BY <1>1, <1>2 DEF Placed
<1>6. FoundUnderItsId'
  BY <1>1, <1>2 DEF FoundUnderItsId
<1>7. RunsAsDecided'
  BY <1>1, <1>2, <1>3 DEF RunsAsDecided, RecordOK
<1>8. ExpiresInTime'
  BY <1>1, <1>2 DEF ExpiresInTime
<1> QED BY <1>4, <1>5, <1>6, <1>7, <1>8

(* It changes no promise that somebody has been told.                      *)
LEMMA SettleKeepsPromises ==
    ASSUME IInv, NEW r \in Requests, ~resolvedAt[r], NEW outcome, NEW who,
           Settle(r, outcome, who)
    PROVE  \A q \in Requests :
               /\ resolvedAt[q] => resolvedAt'[q]
               /\ promise[q] # "unset" => promise'[q] = promise[q]
<1>1. promise[r] = "unset"
  BY DEF IInv, Core, Records, RecordOK
<1> QED BY <1>1 DEF IInv, TypeOK, Settle

LEMMA SettleTypes ==
    ASSUME TypeOK, NEW r \in Requests, NEW outcome \in Outcomes,
           NEW who \in {"null", "operator", "no-approval-route"},
           Settle(r, outcome, who)
    PROVE  /\ timer' \in [Requests -> BOOLEAN]
           /\ resolvedAt' \in [Requests -> BOOLEAN]
           /\ decision' \in [Requests -> Decisions \cup {"none"}]
           /\ by' \in [Requests -> {"unset", "null", "operator", "no-approval-route"}]
           /\ promise' \in [Requests -> Outcomes \cup {"unset"}]
           /\ grace' \in [Requests -> BOOLEAN]
           /\ \A q \in Requests : grace'[q] => resolvedAt'[q] /\ ~timer'[q]
BY DEF TypeOK, Settle, Outcomes, Decisions

(* The answers, in a step that gives none and changes no promise that was  *)
(* told.                                                                   *)
LEMMA AnswersKept ==
    ASSUME IInv, UNCHANGED <<answer, asked, told, reply>>,
           \A q \in Requests :
               /\ resolvedAt[q] => resolvedAt'[q]
               /\ promise[q] # "unset" => promise'[q] = promise[q]
               /\ stage'[q] = "answered" => stage[q] = "answered"
    PROVE  Answers'
<1>1. Replied' /\ OneVerdict'
  <2>1. CASE reply.to = NoRequest
    BY <2>1 DEF Replied, OneVerdict
  <2>2. CASE reply.to # NoRequest
    <3>1. reply.to \in Requests /\ resolvedAt[reply.to]
      BY <2>2 DEF IInv, Answers, Replied, TypeOK
    <3>2. promise[reply.to] # "unset"
      BY <3>1 DEF IInv, Core, Records, RecordOK
    <3> QED BY <2>2, <3>1, <3>2 DEF IInv, Answers, Replied, OneVerdict
  <2> QED BY <2>1, <2>2
<1>2. ToldAsDecided'
  <2>1. ASSUME NEW r \in Requests, stage'[r] = "answered"
        PROVE  answer'[r] = promise'[r] /\ promise'[r] # "unset"
    BY <2>1 DEF IInv, Answers, ToldAsDecided
  <2>2. ASSUME NEW w \in Waiters, asked'[w] # NoRequest
        PROVE  told'[w] \in {"unset", promise'[asked'[w]]}
    BY <2>2 DEF IInv, TypeOK, Answers, ToldAsDecided
  <2> QED BY <2>1, <2>2 DEF ToldAsDecided
<1> QED BY <1>1, <1>2 DEF Answers

-----------------------------------------------------------------------------
(* The steps that settle a record.                                         *)
LEMMA TimerIInv ==
    ASSUME IInv, NEW r \in Requests, TimerFires(r)
    PROVE  IInv'
<1>1. timer[r] /\ stage[r] # "new" /\ ~resolvedAt[r] /\ clock[r] # "early"
  BY DEF IInv, Core, Records, RecordOK, TimerFires
<1>2. pending[id[r]] = r
  BY <1>1 DEF IInv, Core, FoundUnderItsId
<1>3. r # NoRequest
  BY ApprovalsAssumption
<1>4. Settle(r, "null", "null")
  BY <1>1, <1>2, <1>3 DEF TimerFires, Unresolved
<1>5. UNCHANGED <<pending, clock, consumed, callVars, history>>
  BY DEF TimerFires
<1>6. TypeOK'
  BY <1>4, <1>5, SettleTypes DEF IInv, TypeOK, Outcomes, callVars, history
<1>7. Core'
  BY <1>1, <1>4, <1>5, SettleCore DEF Outcomes, callVars, history
<1>8. Answers'
  BY <1>1, <1>4, <1>5, SettleKeepsPromises, AnswersKept DEF callVars, history
<1> QED BY <1>6, <1>7, <1>8 DEF IInv

LEMMA DeliveredIInv ==
    ASSUME IInv, NEW r \in Requests, NEW routed \in BOOLEAN, Delivered(r, routed)
    PROVE  IInv'
<1> USE ApprovalsAssumption
<1>1. UNCHANGED <<pending, clock, consumed, id, asked, told, history>>
  BY DEF Delivered
<1>2. stage[r] = "delivering" /\ id[r] \in Ids
  BY DEF Delivered, IInv, Core, Records, RecordOK
<1>3. CASE routed
  <2>1. UNCHANGED <<recordVars, answer>> /\ stage' = [stage EXCEPT ![r] = "waiting"]
    BY <1>3 DEF Delivered
  <2>2. TypeOK'
    BY <1>1, <1>2, <2>1 DEF IInv, TypeOK, recordVars, history
  <2>3. Core'
    BY <1>1, <1>2, <2>1
       DEF IInv, TypeOK, Core, Records, RecordOK, Recorded, Placed, FoundUnderItsId,
           RunsAsDecided, ExpiresInTime, recordVars, history
  <2>4. Answers'
    BY <1>1, <2>1, AnswersKept DEF IInv, TypeOK, recordVars, history
  <2> QED BY <2>2, <2>3, <2>4 DEF IInv
<1>4. CASE ~routed
  <2>1. /\ Expire(id[r], "no-approval-route")
        /\ stage' = [stage EXCEPT ![r] = "unrouted"]
        /\ answer' = [answer EXCEPT ![r] = "null"]
    BY <1>4 DEF Delivered
  <2> DEFINE q == pending[id[r]]
  <2>2. \A s \in Requests : stage'[s] = "new" <=> stage[s] = "new"
    BY <1>2, <2>1 DEF IInv, TypeOK
  <2>3. CASE Unresolved(q)
    <3>1. q \in Requests /\ ~resolvedAt[q] /\ Settle(q, "null", "no-approval-route")
      BY <1>2, <2>1, <2>3 DEF IInv, TypeOK, Expire, Unresolved
    <3>2. stage[q] # "new"
      BY <1>2, <2>3 DEF IInv, Core, Placed, Unresolved
    <3>3. TypeOK'
      BY <1>1, <1>2, <2>1, <3>1, SettleTypes DEF IInv, TypeOK, Outcomes, history
    <3>4. Core'
      BY <1>1, <2>2, <3>1, <3>2, SettleCore DEF Outcomes, history
    <3>5. Answers'
      <4>1. \A s \in Requests : /\ resolvedAt[s] => resolvedAt'[s]
                                /\ promise[s] # "unset" => promise'[s] = promise[s]
        BY <3>1, SettleKeepsPromises
      <4> QED BY <1>1, <1>2, <2>1, <4>1 DEF IInv, TypeOK, Core, Records, RecordOK,
                 Answers, Replied, OneVerdict, ToldAsDecided, history
    <3> QED BY <3>3, <3>4, <3>5 DEF IInv
  <2>4. CASE ~Unresolved(q)
    <3>1. UNCHANGED recordVars
      BY <2>1, <2>4 DEF Expire
    <3>2. TypeOK'
      BY <1>1, <1>2, <2>1, <3>1 DEF IInv, TypeOK, Outcomes, recordVars, history
    <3>3. Core'
      BY <1>1, <1>2, <2>1, <2>2, <3>1
         DEF IInv, TypeOK, Core, Records, RecordOK, Recorded, Placed, FoundUnderItsId,
             RunsAsDecided, ExpiresInTime, recordVars, history
    <3>4. Answers'
      BY <1>1, <1>2, <2>1, <3>1
         DEF IInv, TypeOK, Answers, Replied, OneVerdict, ToldAsDecided, recordVars, history
    <3> QED BY <3>2, <3>3, <3>4 DEF IInv
  <2> QED BY <2>3, <2>4
<1> QED BY <1>3, <1>4

LEMMA ResolveIInv ==
    ASSUME IInv, NEW i \in Ids, NEW d \in Decisions, Resolve(i, d)
    PROVE  IInv'
<1> DEFINE r == pending[i]
<1>1. r \in Requests /\ r # NoRequest /\ stage[r] # "new"
  BY DEF Resolve, IInv, TypeOK, Core, Placed
<1>2. /\ UNCHANGED <<pending, clock, consumed, callVars, onceRuns, otherRuns>>
      /\ reply' = [to |-> r, decision |-> d, ok |-> Unresolved(r) \/ Recorded(r) = d]
  BY DEF Resolve
<1>3. reply' \in [to: Requests \cup {NoRequest}, decision: Decisions, ok: BOOLEAN]
  <2>1. (Unresolved(r) \/ Recorded(r) = d) \in BOOLEAN
    OBVIOUS
  <2> QED BY <1>1, <1>2, <2>1
<1>4. CASE Unresolved(r)
  <2>1. ~resolvedAt[r] /\ Settle(r, d, "operator")
    BY <1>4 DEF Resolve, Unresolved
  <2>2. TypeOK'
    BY <1>1, <1>2, <1>3, <2>1, SettleTypes DEF IInv, TypeOK, Outcomes, callVars
  <2>3. Core'
    BY <1>1, <1>2, <2>1, SettleCore DEF Outcomes, callVars
  <2>4. resolvedAt'[r] /\ promise'[r] = d
    BY <1>1, <2>1 DEF IInv, TypeOK, Settle
  <2>5. reply'.to = r /\ reply'.decision = d /\ reply'.ok
    BY <1>2, <1>4
  <2>6. ToldAsDecided'
    <3>1. \A s \in Requests : promise[s] # "unset" => promise'[s] = promise[s]
      BY <1>1, <2>1, SettleKeepsPromises
    <3> QED BY <1>2, <3>1 DEF IInv, TypeOK, Answers, ToldAsDecided, callVars
  <2> QED BY <2>2, <2>3, <2>4, <2>5, <2>6 DEF IInv, Answers, Replied, OneVerdict
<1>5. CASE ~Unresolved(r)
  <2>1. UNCHANGED recordVars /\ resolvedAt[r]
    BY <1>1, <1>5 DEF Resolve, Unresolved
  <2>2. TypeOK'
    BY <1>2, <1>3, <2>1 DEF IInv, TypeOK, callVars, recordVars
  <2>3. Core'
    BY <1>2, <2>1 DEF IInv, Core, Records, RecordOK, Recorded, Placed, FoundUnderItsId,
                      RunsAsDecided, ExpiresInTime, callVars, recordVars
  <2>4. Recorded(r) = IF promise[r] = "null" THEN "none" ELSE promise[r]
    BY <1>1, <2>1 DEF IInv, Core, Records, RecordOK
  <2>5. reply'.ok <=> Recorded(r) = d
    BY <1>2, <1>5
  <2>6. Recorded(r) = d <=> promise[r] = d
    BY <2>4 DEF Decisions
  <2>7. OneVerdict' /\ Replied'
    BY <1>2, <2>1, <2>5, <2>6 DEF OneVerdict, Replied, recordVars
  <2>8. ToldAsDecided'
    BY <1>2, <2>1 DEF IInv, Answers, ToldAsDecided, callVars, recordVars
  <2> QED BY <2>2, <2>3, <2>7, <2>8 DEF IInv, Answers
<1> QED BY <1>4, <1>5

-----------------------------------------------------------------------------
(* The steps that settle nothing.                                          *)
LEMMA RequestIInv ==
    ASSUME IInv, NEW r \in Requests, NEW i \in Ids, Request(r, i)
    PROVE  IInv'
<1> USE ApprovalsAssumption
<1>1. stage[r] = "new" /\ pending[i] = NoRequest /\ RecordOK(r)
  BY DEF Request, IInv, Core, Records
<1>2. TypeOK'
  BY <1>1 DEF IInv, TypeOK, Request, RecordOK, history
<1>3. Core'
  <2>1. Records'
    BY DEF IInv, TypeOK, Core, Records, RecordOK, Recorded, Request, history
  <2>2. \A j \in Ids : pending[j] # r
    BY <1>1 DEF IInv, Core, Placed
  <2>3. Placed'
    BY <1>1, <2>2 DEF IInv, TypeOK, Core, Placed, RecordOK, Request
  <2>4. FoundUnderItsId'
    <3>1. ASSUME NEW q \in Requests, q # r, stage'[q] # "new", ~resolvedAt'[q] \/ grace'[q]
          PROVE  pending'[id'[q]] = q
      <4>1. stage[q] # "new" /\ (~resolvedAt[q] \/ grace[q]) /\ id'[q] = id[q] /\ id[q] \in Ids
        BY <3>1 DEF IInv, TypeOK, Core, Records, RecordOK, Request
      <4>2. pending[id[q]] = q
        BY <4>1 DEF IInv, Core, FoundUnderItsId
      <4> QED BY <1>1, <4>1, <4>2 DEF IInv, TypeOK, Request
    <3>2. pending'[id'[r]] = r
      BY DEF IInv, TypeOK, Request
    <3> QED BY <3>1, <3>2 DEF FoundUnderItsId
  <2>5. RunsAsDecided' /\ ExpiresInTime'
    BY DEF IInv, Core, RunsAsDecided, ExpiresInTime, Request, history
  <2> QED BY <2>1, <2>3, <2>4, <2>5 DEF Core
<1>4. Answers'
  BY AnswersKept DEF IInv, TypeOK, Request, history
<1> QED BY <1>2, <1>3, <1>4 DEF IInv

LEMMA AnswerIInv ==
    ASSUME IInv, NEW r \in Requests, Answer(r)
    PROVE  IInv'
<1>1. TypeOK'
  BY DEF IInv, TypeOK, Answer, Outcomes, recordVars, history
<1>2. Core'
  BY DEF IInv, TypeOK, Core, Records, RecordOK, Recorded, Placed, FoundUnderItsId,
         RunsAsDecided, ExpiresInTime, Answer, recordVars, history
<1>3. Answers'
  BY DEF IInv, TypeOK, Answers, Replied, OneVerdict, ToldAsDecided, Answer,
         recordVars, history
<1> QED BY <1>1, <1>2, <1>3 DEF IInv

LEMMA GraceIInv ==
    ASSUME IInv, NEW r \in Requests, GraceEnds(r)
    PROVE  IInv'
<1> USE ApprovalsAssumption
<1>1. grace[r] /\ resolvedAt[r] /\ stage[r] # "new" /\ id[r] \in Ids
  BY DEF GraceEnds, IInv, TypeOK, Core, Records, RecordOK
<1>2. pending[id[r]] = r
  BY <1>1 DEF IInv, Core, FoundUnderItsId
<1>3. pending' = [pending EXCEPT ![id[r]] = NoRequest]
  BY <1>2 DEF GraceEnds
<1>4. TypeOK'
  <2>1. /\ grace' \in [Requests -> BOOLEAN]
        /\ \A q \in Requests : grace'[q] => grace[q]
    BY DEF IInv, TypeOK, GraceEnds
  <2>2. UNCHANGED <<clock, consumed, timer, resolvedAt, decision, by, promise,
                    callVars, history>>
    BY DEF GraceEnds
  <2>3. pending' \in [Ids -> Requests \cup {NoRequest}]
    BY <1>3 DEF IInv, TypeOK
  <2> QED BY <2>1, <2>2, <2>3 DEF IInv, TypeOK, callVars, history
<1>5. Core'
  <2>1. Records' /\ RunsAsDecided' /\ ExpiresInTime'
    BY <1>1 DEF IInv, TypeOK, Core, Records, RecordOK, Recorded, RunsAsDecided,
                ExpiresInTime, GraceEnds, callVars, history
  <2>2. Placed'
    BY <1>1, <1>2, <1>3 DEF IInv, TypeOK, Core, Placed, GraceEnds, callVars
  <2>3. FoundUnderItsId'
    <3>1. ASSUME NEW q \in Requests, stage'[q] # "new", ~resolvedAt'[q] \/ grace'[q]
          PROVE  pending'[id'[q]] = q
      <4>1. q # r /\ stage[q] # "new" /\ (~resolvedAt[q] \/ grace[q]) /\ id'[q] = id[q]
            /\ id[q] \in Ids
        BY <1>1, <3>1 DEF IInv, TypeOK, Core, Records, RecordOK, GraceEnds, callVars
      <4>2. pending[id[q]] = q
        BY <4>1 DEF IInv, Core, FoundUnderItsId
      <4> QED BY <1>1, <1>2, <1>3, <4>1, <4>2 DEF IInv, TypeOK
    <3> QED BY <3>1 DEF FoundUnderItsId
  <2> QED BY <2>1, <2>2, <2>3 DEF Core
<1>6. Answers'
  BY AnswersKept DEF GraceEnds, callVars, history
<1> QED BY <1>4, <1>5, <1>6 DEF IInv

LEMMA TickIInv ==
    ASSUME IInv, NEW r \in Requests, Tick(r)
    PROVE  IInv'
<1>1. TypeOK'
  BY DEF IInv, TypeOK, Tick, callVars, recordVars, history
<1>2. Core'
  BY DEF IInv, TypeOK, Core, Records, RecordOK, Recorded, Placed, FoundUnderItsId,
         RunsAsDecided, ExpiresInTime, Tick, callVars, recordVars, history
<1>3. Answers'
  BY AnswersKept DEF Tick, callVars, recordVars, history
<1> QED BY <1>1, <1>2, <1>3 DEF IInv

LEMMA WaiterIInv ==
    ASSUME IInv, NEW w \in Waiters, WaiterStep(w)
    PROVE  IInv'
<1> DEFINE Rest == UNCHANGED <<pending, clock, consumed, recordVars, id, stage, answer, history>>
           Typed == /\ asked' \in [Waiters -> Requests \cup {NoRequest}]
                    /\ told' \in [Waiters -> Outcomes \cup {"unset", "missing"}]
           Right == \A v \in Waiters :
               asked'[v] # NoRequest => told'[v] \in {"unset", promise[asked'[v]]}
<1>1. Rest /\ Typed /\ Right
  <2>1. ASSUME Tell(w) PROVE Rest /\ Typed /\ Right
    BY <2>1 DEF Tell, IInv, TypeOK, Answers, ToldAsDecided
  <2>2. ASSUME NEW i \in Ids, WaitDecision(w, i) PROVE Rest /\ Typed /\ Right
    <3>1. Rest /\ Typed
      BY <2>2 DEF WaitDecision, IInv, TypeOK
    <3>2. Right
      BY <2>2 DEF WaitDecision, IInv, TypeOK, Answers, ToldAsDecided
    <3> QED BY <3>1, <3>2
  <2> QED BY <2>1, <2>2 DEF WaiterStep
<1>2. TypeOK'
  BY <1>1 DEF IInv, TypeOK, recordVars, history
<1>3. Core'
  BY <1>1 DEF IInv, Core, Records, RecordOK, Recorded, Placed, FoundUnderItsId,
              RunsAsDecided, ExpiresInTime, recordVars, history
<1>4. Answers'
  BY <1>1 DEF IInv, Answers, Replied, OneVerdict, ToldAsDecided, recordVars, history
<1> QED BY <1>2, <1>3, <1>4 DEF IInv

(* A run consumes the decision, and what is recorded stays the same.       *)
LEMMA RunOnceIInv ==
    ASSUME IInv, NEW i \in Ids, RunOnce(i)
    PROVE  IInv'
<1>1. PICK r \in Requests :
          r = pending[i] /\ decision[r] = "allow-once" /\ onceRuns[r] < MaxRuns
  BY DEF RunOnce, Usable, IInv, TypeOK
<1>2. /\ consumed' = [consumed EXCEPT ![r] = "allow-once"]
      /\ decision' = [decision EXCEPT ![r] = "none"]
      /\ onceRuns' = [onceRuns EXCEPT ![r] = @ + 1]
      /\ UNCHANGED <<pending, clock, timer, resolvedAt, by, promise, grace,
                     callVars, otherRuns, reply>>
  BY <1>1 DEF RunOnce
<1>3. RecordOK(r)
  BY <1>1 DEF IInv, Core, Records
<1>4. resolvedAt[r] /\ promise[r] = "allow-once" /\ onceRuns[r] = 0 /\ consumed[r] = "none"
  BY <1>1, <1>3 DEF RecordOK, Recorded
<1>5. TypeOK'
  BY <1>1, <1>2, <1>4, ApprovalsAssumption DEF IInv, TypeOK, Decisions, callVars
<1>6. Records'
  <2>1. ASSUME NEW q \in Requests, q # r PROVE RecordOK(q)'
    BY <1>1, <1>2, <2>1 DEF IInv, TypeOK, Core, Records, RecordOK, Recorded, callVars
  <2>2. RecordOK(r)'
    BY <1>1, <1>2, <1>3, <1>4 DEF IInv, TypeOK, RecordOK, Recorded, callVars
  <2> QED BY <2>1, <2>2 DEF Records
<1>7. RunsAsDecided'
  BY <1>1, <1>2, <1>4 DEF IInv, TypeOK, Core, RunsAsDecided
<1>8. Placed' /\ FoundUnderItsId' /\ ExpiresInTime'
  BY <1>2 DEF IInv, Core, Placed, FoundUnderItsId, ExpiresInTime, callVars
<1>9. Answers'
  BY <1>2, AnswersKept DEF callVars
<1> QED BY <1>5, <1>6, <1>7, <1>8, <1>9 DEF IInv, Core

LEMMA OtherRunIInv ==
    ASSUME IInv, NEW i \in Ids, RunAlways(i) \/ RunFallback(i)
    PROVE  IInv'
<1> DEFINE r == pending[i]
<1>1. r \in Requests /\ RecordOK(r)
  BY DEF RunAlways, RunFallback, Usable, IInv, TypeOK, Core, Records
<1>2. PICK reason \in {"allow-always", "fallback"} :
          /\ otherRuns' = [otherRuns EXCEPT ![r] = @ \cup {reason}]
          /\ resolvedAt[r]
          /\ reason = "allow-always" => promise[r] = "allow-always"
          /\ reason = "fallback" => promise[r] = "null" /\ by[r] = "null"
          /\ UNCHANGED <<pending, clock, consumed, recordVars, callVars, onceRuns, reply>>
  <2>1. CASE RunAlways(i)
    BY <1>1, <2>1 DEF RunAlways, RecordOK, Recorded
  <2>2. CASE RunFallback(i)
    BY <1>1, <2>2 DEF RunFallback, TimedOut, RecordOK
  <2> QED BY <2>1, <2>2
<1>3. TypeOK'
  BY <1>1, <1>2 DEF IInv, TypeOK, callVars, recordVars
<1>4. Core'
  BY <1>1, <1>2 DEF IInv, TypeOK, Core, Records, RecordOK, Recorded, Placed,
         FoundUnderItsId, RunsAsDecided, ExpiresInTime, callVars, recordVars
<1>5. Answers'
  BY <1>2, AnswersKept DEF callVars, recordVars
<1> QED BY <1>3, <1>4, <1>5 DEF IInv

-----------------------------------------------------------------------------
(* Every step keeps the invariant.                                         *)
LEMMA NextIInv == IInv /\ [Next]_vars => IInv'
<1> SUFFICES ASSUME IInv, [Next]_vars PROVE IInv'
  OBVIOUS
<1>1. ASSUME NEW r \in Requests, RequestStep(r) PROVE IInv'
  BY <1>1, RequestIInv, DeliveredIInv, AnswerIInv, TimerIInv, GraceIInv, TickIInv
     DEF RequestStep
<1>2. ASSUME NEW i \in Ids, ClientStep(i) PROVE IInv'
  BY <1>2, ResolveIInv, RunOnceIInv, OtherRunIInv DEF ClientStep
<1>3. ASSUME NEW w \in Waiters, WaiterStep(w) PROVE IInv'
  BY <1>3, WaiterIInv
<1>4. ASSUME UNCHANGED vars PROVE IInv'
  <2>1. TypeOK' /\ Core'
    BY <1>4 DEF IInv, TypeOK, Core, Records, RecordOK, Recorded, Placed, FoundUnderItsId,
                RunsAsDecided, ExpiresInTime, vars, callVars, recordVars, history
  <2>2. Answers'
    BY <1>4, AnswersKept DEF vars, callVars, recordVars, history
  <2> QED BY <2>1, <2>2 DEF IInv
<1> QED BY <1>1, <1>2, <1>3, <1>4 DEF Next

LEMMA AlwaysIInv == Spec => []IInv
BY InitIInv, NextIInv, PTL DEF Spec

(* Every variable has its type; no timer is armed in a grace period.       *)
THEOREM TypeCorrect == Spec => []TypeOK
<1>1. IInv => TypeOK
  BY DEF IInv
<1> QED BY AlwaysIInv, <1>1, PTL

(* Commands run only as decided, a single approval once.                   *)
THEOREM RunsFollowDecisions == Spec => []RunsAsDecided
<1>1. IInv => RunsAsDecided
  BY DEF IInv, Core
<1> QED BY AlwaysIInv, <1>1, PTL

(* Operators who decide the same record are told the same verdict, and so  *)
(* is whoever waits for it.                                                *)
THEOREM VerdictsAgree == Spec => []OneDecisionTold
<1>1. IInv => OneDecisionTold
  BY DEF IInv, Answers, OneDecisionTold
<1> QED BY AlwaysIInv, <1>1, PTL

(* No approval times out before its time, whatever records had its id.     *)
THEOREM NoEarlyTimeout == Spec => []ExpiresInTime
<1>1. IInv => ExpiresInTime
  BY DEF IInv, Core
<1> QED BY AlwaysIInv, <1>1, PTL

(* An unresolved record, and one in its grace period, is under its id.     *)
THEOREM RecordsFound == Spec => []FoundUnderItsId
<1>1. IInv => FoundUnderItsId
  BY DEF IInv, Core
<1> QED BY AlwaysIInv, <1>1, PTL

-----------------------------------------------------------------------------
(* Why every wait ends: the facts about states under RequestsEnd.  Whoever *)
(* waits for a decision waits for a record that is resolved already or     *)
(* that has a timer of its own armed, though an id serves several records  *)
(* and an expiry names only the id; and what is in the map has a timer or  *)
(* a grace period that takes it out.                                       *)
WaitsAreTimed ==
    /\ \A r \in Requests : stage[r] # "new" => promise[r] # "unset" \/ timer[r]
    /\ \A w \in Waiters :
           asked[w] # NoRequest => promise[asked[w]] # "unset" \/ timer[asked[w]]
    /\ \A i \in Ids :
           pending[i] # NoRequest => timer[pending[i]] \/ grace[pending[i]]

(* Of the records alone, since a waiter asks only for one in the map.      *)
Timed ==
    /\ \A r \in Requests : stage[r] # "new" => promise[r] # "unset" \/ timer[r]
    /\ \A w \in Waiters : asked[w] # NoRequest => stage[asked[w]] # "new"

LEMMA TimedKept == ASSUME IInv, Timed, [Next]_vars PROVE Timed'
<1> DEFINE Armed == \A r \in Requests : stage[r] # "new" => promise[r] # "unset" \/ timer[r]
           Asked == \A w \in Waiters : asked[w] # NoRequest => stage[asked[w]] # "new"
<1>0. TypeOK /\ Armed /\ Asked
  BY DEF IInv, Timed
<1>1. ASSUME NEW r \in Requests, NEW outcome \in Outcomes, NEW who, Settle(r, outcome, who)
      PROVE  \A q \in Requests : \/ promise'[q] # "unset"
                                 \/ promise'[q] = promise[q] /\ timer'[q] = timer[q]
  <2>1. promise'[r] # "unset"
    BY <1>0, <1>1 DEF TypeOK, Settle, Outcomes, Decisions
  <2>2. \A q \in Requests : q # r => promise'[q] = promise[q] /\ timer'[q] = timer[q]
    BY <1>0, <1>1 DEF TypeOK, Settle
  <2> QED BY <2>1, <2>2
<1>2. ASSUME NEW r \in Requests, NEW i \in Ids, Request(r, i) PROVE Armed' /\ Asked'
  BY <1>0, <1>2 DEF TypeOK, Request
<1>3. ASSUME NEW r \in Requests, NEW routed \in BOOLEAN, Delivered(r, routed)
      PROVE  Armed' /\ Asked'
  <2>1. \A q \in Requests : stage'[q] = "new" <=> stage[q] = "new"
    BY <1>0, <1>3 DEF TypeOK, Delivered
  <2>2. CASE UNCHANGED recordVars
    BY <1>0, <1>3, <2>1, <2>2 DEF TypeOK, Delivered, recordVars
  <2>3. CASE ~UNCHANGED recordVars
    <3>1. /\ pending[id[r]] # NoRequest
          /\ Settle(pending[id[r]], "null", "no-approval-route")
      BY <1>3, <2>3 DEF Delivered, Expire, Unresolved
    <3>2. id[r] \in Ids
      BY <1>3 DEF Delivered, IInv, Core, Records, RecordOK
    <3>3. pending[id[r]] \in Requests
      BY <1>0, <3>1, <3>2 DEF TypeOK
    <3>4. \A q \in Requests : \/ promise'[q] # "unset"
                              \/ promise'[q] = promise[q] /\ timer'[q] = timer[q]
      BY <1>1, <3>1, <3>3 DEF Outcomes
    <3>5. asked' = asked
      BY <1>3 DEF Delivered
    <3> QED BY <1>0, <2>1, <3>4, <3>5 DEF TypeOK
  <2> QED BY <2>2, <2>3
<1>4. ASSUME NEW r \in Requests, TimerFires(r) PROVE Armed' /\ Asked'
  <2>1. timer[r] /\ stage[r] # "new" /\ ~resolvedAt[r]
    BY <1>4 DEF TimerFires, IInv, Core, Records, RecordOK
  <2>2. pending[id[r]] = r /\ r # NoRequest
    BY <2>1, ApprovalsAssumption DEF IInv, Core, FoundUnderItsId
  <2>3. Settle(r, "null", "null")
    BY <1>4, <2>1, <2>2 DEF TimerFires, Unresolved
  <2> QED BY <1>0, <1>1, <1>4, <2>3 DEF TimerFires, callVars, Outcomes
<1>5. ASSUME NEW r \in Requests, Answer(r) PROVE Armed' /\ Asked'
  BY <1>0, <1>5 DEF TypeOK, Answer, recordVars
<1>6. ASSUME NEW r \in Requests, GraceEnds(r) \/ Tick(r) PROVE Armed' /\ Asked'
  BY <1>0, <1>6 DEF GraceEnds, Tick, callVars, recordVars
<1>7. ASSUME NEW i \in Ids, NEW d \in Decisions, Resolve(i, d) PROVE Armed' /\ Asked'
  <2>1. pending[i] \in Requests
    BY <1>0, <1>7 DEF TypeOK, Resolve
  <2> QED BY <1>0, <1>1, <1>7, <2>1 DEF Resolve, callVars, recordVars, Outcomes
<1>8. ASSUME NEW i \in Ids, RunOnce(i) \/ RunAlways(i) \/ RunFallback(i)
      PROVE  Armed' /\ Asked'
  BY <1>0, <1>8 DEF RunOnce, RunAlways, RunFallback, callVars, recordVars
<1>9. ASSUME NEW w \in Waiters, Tell(w) PROVE Armed' /\ Asked'
  BY <1>0, <1>9 DEF Tell, recordVars
<1>10. ASSUME NEW w \in Waiters, NEW i \in Ids, WaitDecision(w, i) PROVE Armed' /\ Asked'
  <2>1. pending[i] # NoRequest => stage[pending[i]] # "new"
    BY DEF IInv, Core, Placed
  <2> QED BY <1>0, <1>10, <2>1 DEF TypeOK, WaitDecision, recordVars
<1>11. ASSUME UNCHANGED vars PROVE Armed' /\ Asked'
  BY <1>0, <1>11 DEF vars, callVars, recordVars
<1> HIDE DEF Armed, Asked
<1>12. Armed' /\ Asked'
  BY <1>2, <1>3, <1>4, <1>5, <1>6, <1>7, <1>8, <1>9, <1>10, <1>11
     DEF Next, RequestStep, ClientStep, WaiterStep
<1> QED BY <1>12 DEF Timed, Armed, Asked

(* No request and no caller of waitDecision can be left waiting: whatever  *)
(* decisions, runs, reuses of an id and unrouted deliveries come in        *)
(* between, a timer that will end the wait is armed, or it is over.        *)
THEOREM EveryWaitIsTimed == Spec => []WaitsAreTimed
<1>1. Init => Timed
  BY ApprovalsAssumption DEF Init, Timed
<1>2. IInv /\ Timed => WaitsAreTimed
  <2> SUFFICES ASSUME IInv, Timed PROVE WaitsAreTimed
    OBVIOUS
  <2>1. ASSUME NEW w \in Waiters, asked[w] # NoRequest
        PROVE  promise[asked[w]] # "unset" \/ timer[asked[w]]
    BY <2>1 DEF IInv, TypeOK, Timed
  <2>2. ASSUME NEW i \in Ids, pending[i] # NoRequest
        PROVE  timer[pending[i]] \/ grace[pending[i]]
    <3>1. pending[i] \in Requests /\ RecordOK(pending[i])
      BY <2>2 DEF IInv, TypeOK, Core, Records
    <3>2. stage[pending[i]] # "new" /\ (~resolvedAt[pending[i]] \/ grace[pending[i]])
      BY <2>2 DEF IInv, Core, Placed
    <3> QED BY <3>1, <3>2 DEF RecordOK, Timed
  <2> QED BY <2>1, <2>2 DEF WaitsAreTimed, Timed
<1>3. IInv /\ Timed /\ [Next]_vars => Timed'
  BY TimedKept
<1> QED BY AlwaysIInv, <1>1, <1>2, <1>3, PTL DEF Spec
=============================================================================
