--------------------------- MODULE ReplyRunsProofs ---------------------------
(***************************************************************************)
(* What ReplyRuns promises, for any number of operations, session ids and  *)
(* waiters.                                                                *)
(*                                                                         *)
(* The properties need each other, and two facts that none of them states: *)
(* the registered operation has not cleared its state (Uncleared), without *)
(* which its end would leave it registered, and an operation has a session *)
(* id from the start (BornWithId), so that its change leaves one to wait   *)
(* for.                                                                    *)
(***************************************************************************)
EXTENDS ReplyRuns, TLAPS

Uncleared == active # NoOp => ~cleared[active]

BornWithId == \A o \in Ops : Born(o) => sid[o] \in Ids

IInv ==
    /\ TypeOK
    /\ Uncleared
    /\ BornWithId
    /\ LiveIsRegistered
    /\ RegisteredIsLive
    /\ WaiterHasOwner
    /\ NoWaitSlipsBy
    /\ MapsAgree
    /\ AbortReachesBackend

-----------------------------------------------------------------------------
(* Nothing is registered at first, and nobody waits.                       *)
LEMMA InitIInv == Init => IInv
BY ReplyRunsAssumption
   DEF Init, IInv, TypeOK, Uncleared, BornWithId, LiveIsRegistered, RegisteredIsLive,
       WaiterHasOwner, NoWaitSlipsBy, MapsAgree, AbortReachesBackend, Born,
       Phases

(* A new operation is the registered one; one it finds is displaced, and   *)
(* takes its id out of the maps.                                           *)
LEMMA CreateIInv ==
    ASSUME IInv, NEW o \in Ops, NEW i \in Ids, Create(o, i)
    PROVE  IInv'
<1> USE ReplyRunsAssumption
<1>1. o # NoOp /\ active # o
  BY DEF IInv, TypeOK, Uncleared, RegisteredIsLive, Create, Over, Born
<1>2. TypeOK' /\ BornWithId'
  BY DEF IInv, TypeOK, BornWithId, Born, Create, Phases
<1>3. Uncleared' /\ RegisteredIsLive' /\ WaiterHasOwner'
  BY <1>1 DEF IInv, TypeOK, Create, Uncleared, RegisteredIsLive, WaiterHasOwner, Born, Ended
<1>4. LiveIsRegistered'
  BY <1>1 DEF IInv, TypeOK, Create, LiveIsRegistered, Born
<1>5. NoWaitSlipsBy'
  BY DEF IInv, TypeOK, Create, NoWaitSlipsBy
<1>6. MapsAgree'
  BY <1>1 DEF IInv, TypeOK, Create, MapsAgree
<1>7. AbortReachesBackend'
  BY DEF IInv, TypeOK, Create, AbortReachesBackend
<1> QED BY <1>2, <1>3, <1>4, <1>5, <1>6, <1>7 DEF IInv

(* A change of the session id keeps the former one among those that can be *)
(* waited for, whoever makes it.                                           *)
LEMMA UpdateIInv ==
    ASSUME IInv, NEW o \in Ops, NEW i \in Ids, UpdateSessionId(o, i)
    PROVE  IInv'
<1> USE ReplyRunsAssumption
<1>1. TypeOK'
  <2>1. intruded' \in BOOLEAN
    BY Zenon DEF UpdateSessionId
  <2>2. /\ sid' \in [Ops -> Ids \cup {NoId}]
        /\ session' \in Ids \cup {NoId}
        /\ index' \subseteq Ids /\ waitIds' \subseteq Ids /\ had' \subseteq Ids
    <3>1. sid[o] \in Ids
      BY DEF IInv, BornWithId, UpdateSessionId
    <3> QED BY <3>1 DEF IInv, TypeOK, UpdateSessionId
  <2> QED BY <2>1, <2>2 DEF IInv, TypeOK, UpdateSessionId
<1>2. BornWithId'
  BY DEF IInv, TypeOK, BornWithId, Born, UpdateSessionId
<1>3. Uncleared' /\ LiveIsRegistered' /\ RegisteredIsLive' /\ WaiterHasOwner'
  BY DEF IInv, UpdateSessionId, Uncleared, LiveIsRegistered, RegisteredIsLive,
         WaiterHasOwner, Born, Ended
<1>4. NoWaitSlipsBy'
  BY DEF IInv, TypeOK, UpdateSessionId, NoWaitSlipsBy
<1>5. MapsAgree'
  BY DEF IInv, TypeOK, UpdateSessionId, MapsAgree
<1>6. AbortReachesBackend'
  BY DEF IInv, UpdateSessionId, AbortReachesBackend
<1> QED BY <1>1, <1>2, <1>3, <1>4, <1>5, <1>6 DEF IInv

(* The steps of an operation that touch neither the maps nor the waiters.  *)
LEMMA BackendIInv ==
    ASSUME IInv, NEW o \in Ops,
           \/ \E p \in Phases : SetPhase(o, p)
           \/ AttachBackend(o)
           \/ Stream(o)
           \/ DetachBackend(o)
    PROVE  IInv'
<1>1. ASSUME NEW p \in Phases, SetPhase(o, p) PROVE IInv'
  BY <1>1 DEF IInv, TypeOK, Uncleared, BornWithId, LiveIsRegistered, RegisteredIsLive,
              WaiterHasOwner, NoWaitSlipsBy, MapsAgree, AbortReachesBackend,
              SetPhase, Born, Ended, Phases, keyVars
<1>2. ASSUME AttachBackend(o) PROVE IInv'
  BY <1>2 DEF IInv, TypeOK, Uncleared, BornWithId, LiveIsRegistered, RegisteredIsLive,
              WaiterHasOwner, NoWaitSlipsBy, MapsAgree, AbortReachesBackend,
              AttachBackend, Born, Ended, keyVars
<1>3. ASSUME Stream(o) PROVE IInv'
  BY <1>3 DEF IInv, TypeOK, Uncleared, BornWithId, LiveIsRegistered, RegisteredIsLive,
              WaiterHasOwner, NoWaitSlipsBy, MapsAgree, AbortReachesBackend,
              Stream, Born, Ended, keyVars
<1>4. ASSUME DetachBackend(o) PROVE IInv'
  BY <1>4 DEF IInv, TypeOK, Uncleared, BornWithId, LiveIsRegistered, RegisteredIsLive,
              WaiterHasOwner, NoWaitSlipsBy, MapsAgree, AbortReachesBackend,
              DetachBackend, Born, Ended, keyVars
<1> QED BY <1>1, <1>2, <1>3, <1>4

-----------------------------------------------------------------------------
(* Clearing, for an operation that has a result by then.                   *)
LEMMA ClearFacts ==
    ASSUME IInv, NEW o \in Ops, Clear(o)
    PROVE  /\ cleared' \in [Ops -> BOOLEAN]
           /\ \A q \in Ops : cleared'[q] <=> cleared[q] \/ q = o
           /\ waiter' \in [Waiters -> {"none", "waiting", "ended", "timeout"}]
           /\ active' \in Ops \cup {NoOp}
           /\ session' \in Ids \cup {NoId}
           /\ index' \subseteq Ids
           /\ waitIds' \subseteq Ids
           /\ active' # NoOp => active # o /\ UNCHANGED <<active, index, waitIds>>
           /\ \A q \in Ops : active = q /\ q # o => active' = q
           /\ (\E w \in Waiters : waiter'[w] = "waiting") => active' # NoOp
           /\ \A w \in Waiters :
                  waiter[w] = "waiting" /\ waiter'[w] = "ended" => active' = NoOp
<1> USE ReplyRunsAssumption
<1>1. CASE active = o
  <2>1. ~cleared[o] /\ o # NoOp
    BY <1>1 DEF IInv, Uncleared
  <2>2. active' = NoOp /\ session' = NoId /\ index' = index \ {sid[o]}
        /\ waitIds' = {} /\ waiter' = Notified
    BY <1>1, <2>1 DEF Clear
  <2>3. cleared' \in [Ops -> BOOLEAN] /\ \A q \in Ops : cleared'[q] <=> cleared[q] \/ q = o
    BY DEF IInv, TypeOK, Clear
  <2>4. /\ waiter' \in [Waiters -> {"none", "waiting", "ended", "timeout"}]
        /\ \A w \in Waiters : waiter'[w] # "waiting"
    BY <2>2 DEF IInv, TypeOK, Notified
  <2> QED BY <1>1, <2>2, <2>3, <2>4 DEF IInv, TypeOK
<1>2. CASE active # o
  <2>1. UNCHANGED <<keyVars, waiter>>
    BY <1>2 DEF Clear
  <2>2. cleared' \in [Ops -> BOOLEAN] /\ \A q \in Ops : cleared'[q] <=> cleared[q] \/ q = o
    BY DEF IInv, TypeOK, Clear
  <2> QED BY <1>2, <2>1, <2>2 DEF IInv, TypeOK, WaiterHasOwner, keyVars
<1> QED BY <1>1, <1>2

(* The end of an operation, as it is or with an abort.                     *)
LEMMA EndIInv ==
    ASSUME IInv, NEW o \in Ops, NEW kind \in {"completed", "failed"}, End(o, kind)
    PROVE  IInv'
<1> USE ReplyRunsAssumption
<1>1. Clear(o)
  BY DEF End
<1>2. TypeOK' /\ BornWithId'
  BY <1>1, ClearFacts DEF IInv, TypeOK, BornWithId, Born, End, Phases
<1>3. Uncleared' /\ RegisteredIsLive' /\ WaiterHasOwner'
  BY <1>1, ClearFacts
     DEF IInv, TypeOK, End, Uncleared, RegisteredIsLive, WaiterHasOwner, Born, Ended
<1>4. LiveIsRegistered'
  BY <1>1, ClearFacts DEF IInv, TypeOK, End, LiveIsRegistered, Born
<1>5. NoWaitSlipsBy'
  BY <1>1, ClearFacts DEF IInv, End, NoWaitSlipsBy
<1>6. MapsAgree'
  BY <1>1 DEF IInv, End, Clear, MapsAgree, Uncleared, keyVars
<1>7. AbortReachesBackend'
  BY DEF IInv, TypeOK, End, AbortReachesBackend
<1> QED BY <1>2, <1>3, <1>4, <1>5, <1>6, <1>7 DEF IInv

LEMMA AbortIInv ==
    ASSUME IInv, Abort
    PROVE  IInv'
<1> USE ReplyRunsAssumption
<1>1. active \in Ops
  BY DEF IInv, TypeOK, Abort
<1>2. TypeOK'
  <2>1. CASE phase[active] = "queued"
    BY <1>1, <2>1, ClearFacts DEF IInv, TypeOK, Abort, Phases
  <2>2. CASE phase[active] # "queued"
    BY <1>1, <2>2 DEF IInv, TypeOK, Abort, Phases, keyVars
  <2> QED BY <2>1, <2>2
<1>3. BornWithId' /\ AbortReachesBackend'
  <2>1. Born(active)
    BY <1>1 DEF IInv, RegisteredIsLive, Abort
  <2> QED BY <1>1, <2>1 DEF IInv, TypeOK, BornWithId, Born, Abort, AbortReachesBackend
<1>4. CASE phase[active] = "queued"
  <2>1. Clear(active)
    BY <1>4 DEF Abort
  <2>2. active' = NoOp
    BY <1>1, <2>1, ClearFacts DEF IInv, TypeOK
  <2>3. Uncleared' /\ RegisteredIsLive' /\ NoWaitSlipsBy'
    BY <2>2 DEF Uncleared, RegisteredIsLive, NoWaitSlipsBy
  <2>4. WaiterHasOwner'
    BY <1>1, <2>1, ClearFacts DEF WaiterHasOwner
  <2>5. LiveIsRegistered'
    BY <1>1, <2>1, ClearFacts DEF IInv, TypeOK, Abort, LiveIsRegistered, Born
  <2>6. MapsAgree'
    BY <2>1, <2>2 DEF IInv, Abort, Clear, MapsAgree, Uncleared
  <2> QED BY <1>2, <1>3, <2>3, <2>4, <2>5, <2>6 DEF IInv
<1>5. CASE phase[active] # "queued"
  <2>1. UNCHANGED <<cleared, keyVars, waiter>>
    BY <1>5 DEF Abort
  <2>2. Uncleared' /\ WaiterHasOwner' /\ NoWaitSlipsBy' /\ MapsAgree'
    BY <2>1 DEF IInv, Abort, Uncleared, WaiterHasOwner, NoWaitSlipsBy, MapsAgree, keyVars
  <2>3. RegisteredIsLive' /\ LiveIsRegistered'
    BY <1>1, <2>1 DEF IInv, TypeOK, Abort, RegisteredIsLive, LiveIsRegistered, Born, Ended, keyVars
  <2> QED BY <1>2, <1>3, <2>2, <2>3 DEF IInv
<1> QED BY <1>4, <1>5

(* A wait begins or gives up.                                              *)
LEMMA WaiterIInv ==
    ASSUME IInv, NEW w \in Waiters, WaiterStep(w)
    PROVE  IInv'
<1>1. /\ UNCHANGED <<opVars, keyVars, had, displaced, intruded>>
      /\ waiter' \in [Waiters -> {"none", "waiting", "ended", "timeout"}]
      /\ WaiterHasOwner'
  <2>1. ASSUME NEW known \in BOOLEAN, Wait(w, known)
        PROVE  /\ UNCHANGED <<opVars, keyVars, had, displaced, intruded>>
               /\ waiter' \in [Waiters -> {"none", "waiting", "ended", "timeout"}]
               /\ WaiterHasOwner'
    BY <2>1 DEF IInv, TypeOK, WaiterHasOwner, Wait, keyVars
  <2>2. ASSUME WaitForIdle(w) PROVE Wait(w, TRUE)
    BY <2>2 DEF WaitForIdle
  <2>3. ASSUME NEW i \in Ids, WaitForEndBySessionId(w, i)
        PROVE  Wait(w, i \in index \cup waitIds)
    BY <2>3 DEF WaitForEndBySessionId
  <2>4. ASSUME Timeout(w)
        PROVE  /\ UNCHANGED <<opVars, keyVars, had, displaced, intruded>>
               /\ waiter' \in [Waiters -> {"none", "waiting", "ended", "timeout"}]
               /\ WaiterHasOwner'
    BY <2>4 DEF IInv, TypeOK, WaiterHasOwner, Timeout, keyVars
  <2>5. \A i \in Ids : (i \in index \cup waitIds) \in BOOLEAN
    OBVIOUS
  <2> QED BY <2>1, <2>2, <2>3, <2>4, <2>5 DEF WaiterStep
<1> QED
  BY <1>1 DEF IInv, TypeOK, Uncleared, BornWithId, LiveIsRegistered, RegisteredIsLive,
              NoWaitSlipsBy, MapsAgree, AbortReachesBackend, Born, Ended, opVars, keyVars

-----------------------------------------------------------------------------
(* Every step keeps the invariant.                                         *)
LEMMA NextIInv == IInv /\ [Next]_vars => IInv'
<1> SUFFICES ASSUME IInv, [Next]_vars PROVE IInv'
  OBVIOUS
<1>1. ASSUME NEW o \in Ops, OpStep(o) PROVE IInv'
  BY <1>1, CreateIInv, UpdateIInv, BackendIInv, EndIInv DEF OpStep
<1>2. ASSUME Abort PROVE IInv'
  BY <1>2, AbortIInv
<1>3. ASSUME NEW w \in Waiters, WaiterStep(w) PROVE IInv'
  BY <1>3, WaiterIInv
<1>4. ASSUME UNCHANGED vars PROVE IInv'
  BY <1>4 DEF IInv, TypeOK, Uncleared, BornWithId, LiveIsRegistered, RegisteredIsLive,
              WaiterHasOwner, NoWaitSlipsBy, MapsAgree, AbortReachesBackend,
              Born, Ended, vars, opVars, keyVars
<1> QED BY <1>1, <1>2, <1>3, <1>4 DEF Next

LEMMA AlwaysIInv == Spec => []IInv
BY InitIInv, NextIInv, PTL DEF Spec

(* Every variable has its type, and an operation that has cleared its      *)
(* state has a result.                                                     *)
THEOREM TypeCorrect == Spec => []TypeOK
<1>1. IInv => TypeOK
  BY DEF IInv
<1> QED BY AlwaysIInv, <1>1, PTL

(* Only a displaced operation, or one that is over, is not registered, so  *)
(* the end of a displaced one never unregisters its successor.             *)
THEOREM LiveRegistered == Spec => []OneRegistered
<1>1. IInv => OneRegistered
  BY DEF IInv, OneRegistered
<1> QED BY AlwaysIInv, <1>1, PTL

(* As long as anybody waits an operation is registered whose end wakes     *)
(* them, although displacing one wakes nobody.                             *)
THEOREM NobodyForgotten == Spec => []WaiterHasOwner
<1>1. IInv => WaiterHasOwner
  BY DEF IInv
<1> QED BY AlwaysIInv, <1>1, PTL

(* Every id the registered operation has had leads a wait to it, and the   *)
(* maps agree with it as long as no displaced operation has changed its    *)
(* session id.                                                             *)
THEOREM IdsLeadToTheRun == Spec => []IdsLead
<1>1. IInv => IdsLead
  BY DEF IInv, IdsLead
<1> QED BY AlwaysIInv, <1>1, PTL

(* An aborted operation has no backend that was not told to cancel.        *)
THEOREM AbortDelivered == Spec => []AbortReachesBackend
<1>1. IInv => AbortReachesBackend
  BY DEF IInv
<1> QED BY AlwaysIInv, <1>1, PTL

(* Nobody who waits is told of an end while an operation is registered.    *)
THEOREM ToldOnlyWhenIdle == Spec => ToldWhenIdle
<1> DEFINE Told == \A w \in Waiters :
               waiter[w] = "waiting" /\ waiter'[w] = "ended" => active' = NoOp
<1>1. IInv /\ [Next]_vars => [Told]_vars
  <2> SUFFICES ASSUME IInv, Next PROVE Told
    BY DEF Told
  <2>1. ASSUME NEW o \in Ops, OpStep(o) PROVE Told
    <3>1. ASSUME NEW kind \in {"completed", "failed"}, End(o, kind) PROVE Told
      BY <3>1, ClearFacts DEF End
    <3>2. ASSUME UNCHANGED waiter PROVE Told
      BY <3>2
    <3> QED
      BY <2>1, <3>1, <3>2
         DEF OpStep, Create, UpdateSessionId, SetPhase, AttachBackend, Stream, DetachBackend
  <2>2. ASSUME Abort PROVE Told
    <3>1. active \in Ops
      BY <2>2 DEF IInv, TypeOK, Abort
    <3> QED BY <2>2, <3>1, ClearFacts DEF Abort
  <2>3. ASSUME NEW v \in Waiters, WaiterStep(v) PROVE Told
    BY <2>3 DEF WaiterStep, WaitForIdle, WaitForEndBySessionId, Wait, Timeout, IInv, TypeOK
  <2> QED BY <2>1, <2>2, <2>3 DEF Next
<1> QED BY AlwaysIInv, <1>1, PTL DEF Spec, ToldWhenIdle
=============================================================================
