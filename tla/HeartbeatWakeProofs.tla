------------------------- MODULE HeartbeatWakeProofs -------------------------
(***************************************************************************)
(* What HeartbeatWake promises, for any targets, lanes of them, batches,   *)
(* priorities, requests and registrations.                                 *)
(***************************************************************************)
EXTENDS HeartbeatWake, FiniteSetTheorems, TLAPS

Timers == {"none", "normal", "retry"}
Queues == [Wakes -> Priorities]
Hands == [all : Queues, todo : SUBSET Wakes, call : Wakes \cup {NoWake}]

(* What a batch has in hand, it took from the queue.                       *)
Wanted ==
    \A b \in Active : batch[b].all[batch[b].call] > 0
                      /\ \A v \in batch[b].todo : batch[b].all[v] > 0

(* Another round is asked for only when something is pending.              *)
ScheduledHasWake == scheduled => ~Empty(pending)

Overlap == IsFiniteSet(Active) /\ OverlapBounded

IInv == /\ TypeOK /\ Wanted /\ ScheduledHasWake
        /\ NoWakeStranded /\ NoIdleTimer /\ NoWakeLost /\ Overlap

-----------------------------------------------------------------------------
(* Queues and timers.                                                      *)

LEMMA QueueType ==
    ASSUME NEW p \in Queues, NEW q \in Queues, NEW S PROVE Queue(p, S, q) \in Queues
BY DEF Queues, Queue

(* Queueing neither forgets nor weakens a wake, and admits those of S.     *)
LEMMA QueueRaises ==
    ASSUME NEW p \in Queues, NEW q \in Queues, NEW S
    PROVE  \A w \in Wakes :
               /\ Queue(p, S, q)[w] >= p[w]
               /\ w \in S => Queue(p, S, q)[w] >= q[w]
BY WakesAssumption DEF Queues, Queue, Priorities

LEMMA NotEmptyKept ==
    ASSUME NEW p \in Queues, NEW q \in Queues, NEW S,
           ~Empty(p) \/ \E v \in S \cap Wakes : q[v] > 0
    PROVE  ~Empty(Queue(p, S, q))
<1>1. PICK w \in Wakes : p[w] # 0 \/ (w \in S /\ q[w] > 0)
  BY DEF Empty
<1>2. p[w] \in Nat /\ q[w] \in Nat /\ Queue(p, S, q)[w] \in Nat
  BY QueueType, WakesAssumption DEF Queues, Priorities
<1>3. Queue(p, S, q)[w] >= p[w] /\ (w \in S => Queue(p, S, q)[w] >= q[w])
  BY QueueRaises
<1>4. Queue(p, S, q)[w] # 0
  BY <1>1, <1>2, <1>3
<1> QED BY <1>4 DEF Empty

(* A call of schedule leaves a timer armed.                                *)
LEMMA ScheduleArms ==
    ASSUME NEW ts \in SUBSET Timers, NEW kind \in {"normal", "retry"},
           NEW t \in Schedule(ts, kind)
    PROVE  t \in {"normal", "retry"}
<1>1. PICK u \in ts : t \in CASE u = "none" -> {kind}
                              [] u = "retry" -> {u}
                              [] u = "normal" -> {u, kind}
  BY DEF Schedule
<1> QED BY <1>1 DEF Timers

-----------------------------------------------------------------------------
(* One stretch of a batch, from an await to the next.                      *)

(* The hypotheses the calls of Advance have in common: what it is given    *)
(* has its type, no timer is armed for nothing, and what is still owed is  *)
(* pending, in this batch or in another one.                               *)
Given(b, all, todo, p, ts, owed) ==
    /\ b \in Batches /\ all \in Queues /\ todo \in SUBSET Wakes /\ p \in Queues
    /\ ts \in SUBSET Timers /\ owed \in Queues
    /\ \A v \in todo : all[v] > 0
    /\ (\E t \in ts : t # "none") => ~Empty(p)
    /\ scheduled => ~Empty(p) \/ todo # {}
    /\ \A w \in Wakes :
           owed[w] > 0 =>
               \/ p[w] >= owed[w]
               \/ w \in todo /\ all[w] >= owed[w]
               \/ \E c \in Active \ {b} : w \in batch[c].todo /\ batch[c].all[w] >= owed[w]

(* The batch goes on with the call of w, or ends.                          *)
GoesOn(b, all, todo, p, ts, owed, w, skip) ==
    /\ batch' = [batch EXCEPT ![b] =
                    [all |-> all, todo |-> todo \ (skip \cup {w}), call |-> w]]
    /\ pending' = Queue(p, skip, all)
    /\ timer' \in IF skip = {} THEN ts ELSE Schedule(ts, "retry")
    /\ asked' = [owed EXCEPT ![w] = 0]
    /\ running' = (running \/ b \notin Active)

LEMMA AdvanceCases ==
    ASSUME NEW b, NEW all, NEW todo, NEW p, NEW ts, NEW owed,
           Advance(b, all, todo, p, ts, owed)
    PROVE  \/ \E w \in todo : \E skip \in SUBSET (todo \ {w}) :
                  GoesOn(b, all, todo, p, ts, owed, w, skip)
           \/ /\ End(b, Queue(p, todo, all), IF todo = {} THEN ts ELSE Schedule(ts, "retry"))
              /\ asked' = owed
BY DEF Advance, GoesOn

LEMMA GoesOnActive ==
    ASSUME TypeOK, NEW b \in Batches, NEW all, NEW todo, NEW p, NEW ts, NEW owed,
           NEW w \in Wakes, NEW skip, GoesOn(b, all, todo, p, ts, owed, w, skip)
    PROVE  /\ Active' = Active \cup {b}
           /\ batch'[b] = [all |-> all, todo |-> todo \ (skip \cup {w}), call |-> w]
           /\ \A c \in Batches : c # b => batch'[c] = batch[c]
BY WakesAssumption DEF TypeOK, GoesOn, Active

LEMMA EndActive ==
    ASSUME TypeOK, NEW b \in Batches, NEW p, NEW ts, End(b, p, ts)
    PROVE  /\ Active' = Active \ {b}
           /\ \A c \in Batches : c # b => batch'[c] = batch[c]
BY DEF TypeOK, End, Active, Idle

LEMMA GoesOnKeeps ==
    ASSUME TypeOK, Wanted, NEW b, NEW all, NEW todo, NEW p, NEW ts, NEW owed,
           Given(b, all, todo, p, ts, owed), NEW w \in todo,
           NEW skip \in SUBSET (todo \ {w}), GoesOn(b, all, todo, p, ts, owed, w, skip)
    PROVE  /\ pending' \in Queues /\ timer' \in Timers /\ asked' \in Queues
           /\ running' \in BOOLEAN /\ (running' => Active' # {})
           /\ batch' \in [Batches -> Hands]
           /\ Wanted' /\ NoWakeStranded' /\ NoIdleTimer' /\ NoWakeLost'
           /\ ~Empty(p) => ~Empty(pending')
<1>0. /\ b \in Batches /\ all \in Queues /\ todo \in SUBSET Wakes /\ p \in Queues
      /\ ts \in SUBSET Timers /\ owed \in Queues /\ w \in Wakes
  BY DEF Given
<1>1. /\ Active' = Active \cup {b}
      /\ batch'[b] = [all |-> all, todo |-> todo \ (skip \cup {w}), call |-> w]
      /\ \A c \in Batches : c # b => batch'[c] = batch[c]
  BY <1>0, GoesOnActive
<1>2. /\ pending' \in Queues
      /\ \A v \in Wakes : pending'[v] >= p[v]
      /\ \A v \in skip : pending'[v] >= all[v]
  BY <1>0, QueueType, QueueRaises DEF GoesOn
<1>3. timer' \in Timers /\ (timer' # "none" => skip # {} \/ \E t \in ts : t # "none")
  BY <1>0, ScheduleArms DEF GoesOn, Timers
<1>4. asked' \in Queues
  BY <1>0, WakesAssumption DEF GoesOn, Queues, Priorities
<1>5. batch' \in [Batches -> Hands]
  BY <1>0 DEF TypeOK, GoesOn, Hands, Queues
<1>6. running' \in BOOLEAN /\ (running' => Active' # {})
  BY <1>1 DEF TypeOK, GoesOn
<1>7. Wanted'
  <2> SUFFICES ASSUME NEW c \in Active'
               PROVE  batch'[c].all[batch'[c].call] > 0
                      /\ \A v \in batch'[c].todo : batch'[c].all[v] > 0
    BY DEF Wanted
  <2>1. CASE c = b
    BY <1>0, <1>1, <2>1 DEF Given
  <2>2. CASE c # b
    BY <1>1, <2>2 DEF Wanted, Active
  <2> QED BY <2>1, <2>2
<1>8. NoWakeStranded'
  BY <1>1 DEF NoWakeStranded
<1>9. ~Empty(p) => ~Empty(pending')
  BY <1>0, NotEmptyKept DEF GoesOn
<1>10. NoIdleTimer'
  <2>1. CASE skip = {}
    BY <1>3, <1>9, <2>1 DEF Given, NoIdleTimer
  <2>2. CASE skip # {}
    <3>1. \E v \in skip \cap Wakes : all[v] > 0
      BY <1>0, <2>2 DEF Given
    <3> QED BY <1>0, <3>1, NotEmptyKept DEF GoesOn, NoIdleTimer
  <2> QED BY <2>1, <2>2
<1>11. NoWakeLost'
  <2> SUFFICES ASSUME NEW v \in Wakes, asked'[v] > 0
               PROVE  \/ pending'[v] >= asked'[v]
                      \/ \E c \in Active' : v \in batch'[c].todo
                                            /\ batch'[c].all[v] >= asked'[v]
    BY DEF NoWakeLost
  <2>1. v # w /\ asked'[v] = owed[v]
    BY <1>0 DEF GoesOn, Queues
  <2>2. CASE p[v] >= owed[v]
    <3>1. pending'[v] \in Nat /\ p[v] \in Nat /\ owed[v] \in Nat
      BY <1>0, <1>2, WakesAssumption DEF Queues, Priorities
    <3> QED BY <1>2, <2>1, <2>2, <3>1
  <2>3. CASE v \in todo /\ all[v] >= owed[v]
    <3>1. CASE v \in skip
      <4>1. pending'[v] \in Nat /\ all[v] \in Nat /\ owed[v] \in Nat
        BY <1>0, <1>2, WakesAssumption DEF Queues, Priorities
      <4> QED BY <1>2, <2>1, <2>3, <3>1, <4>1
    <3>2. CASE v \notin skip
      BY <1>1, <2>1, <2>3, <3>2
    <3> QED BY <3>1, <3>2
  <2>4. ASSUME NEW c \in Active \ {b}, v \in batch[c].todo, batch[c].all[v] >= owed[v]
        PROVE  c \in Active' /\ v \in batch'[c].todo /\ batch'[c].all[v] >= asked'[v]
    BY <1>1, <2>1, <2>4 DEF Active
  <2> QED BY <2>1, <2>2, <2>3, <2>4 DEF Given
<1> QED BY <1>2, <1>3, <1>4, <1>5, <1>6, <1>7, <1>8, <1>9, <1>10, <1>11

(* The finally block with the wakes of p pending, nothing owed to b.       *)
LEMMA EndKeeps ==
    ASSUME TypeOK, Wanted, NEW b \in Batches, NEW p \in Queues, NEW ts \in SUBSET Timers,
           End(b, p, ts), asked' \in Queues,
           (\E t \in ts : t # "none") => ~Empty(p), scheduled => ~Empty(p),
           \A w \in Wakes :
               asked'[w] > 0 =>
                   \/ p[w] >= asked'[w]
                   \/ \E c \in Active \ {b} : w \in batch[c].todo
                                              /\ batch[c].all[w] >= asked'[w]
    PROVE  /\ pending' \in Queues /\ timer' \in Timers
           /\ running' \in BOOLEAN /\ (running' => Active' # {})
           /\ batch' \in [Batches -> Hands]
           /\ Wanted' /\ NoWakeStranded' /\ NoIdleTimer' /\ NoWakeLost'
<1>1. /\ Active' = Active \ {b}
      /\ \A c \in Batches : c # b => batch'[c] = batch[c]
  BY EndActive
<1>2. pending' = p /\ running' = FALSE
  BY DEF End
<1>3. IF Empty(p) THEN timer' = "none" ELSE timer' \in {"normal", "retry"}
  <2>1. CASE Empty(p)
    BY <2>1 DEF End
  <2>2. CASE ~Empty(p)
    BY <2>2, ScheduleArms DEF End
  <2> QED BY <2>1, <2>2
<1>4. batch' \in [Batches -> Hands]
  <2>1. Idle \in Hands
    BY WakesAssumption DEF Idle, Hands, Queues, Priorities
  <2> QED BY <2>1 DEF TypeOK, End, Hands, Queues
<1>5. Wanted'
  BY <1>1 DEF Wanted, Active
<1>6. NoWakeStranded' /\ NoIdleTimer'
  BY <1>2, <1>3 DEF NoWakeStranded, NoIdleTimer, Empty
<1>7. NoWakeLost'
  BY <1>1, <1>2 DEF NoWakeLost, Active
<1> QED BY <1>2, <1>3, <1>4, <1>5, <1>6, <1>7 DEF Timers

(* What a call of Advance keeps, whoever makes it.                         *)
LEMMA AdvanceKeeps ==
    ASSUME TypeOK, Wanted, NEW b, NEW all, NEW todo, NEW p, NEW ts, NEW owed,
           Given(b, all, todo, p, ts, owed), Advance(b, all, todo, p, ts, owed)
    PROVE  /\ pending' \in Queues /\ timer' \in Timers /\ asked' \in Queues
           /\ running' \in BOOLEAN /\ (running' => Active' # {})
           /\ batch' \in [Batches -> Hands]
           /\ Wanted' /\ NoWakeStranded' /\ NoIdleTimer' /\ NoWakeLost'
           /\ ~Empty(p) => ~Empty(pending')
<1>1. CASE \E w \in todo : \E skip \in SUBSET (todo \ {w}) :
               GoesOn(b, all, todo, p, ts, owed, w, skip)
  BY <1>1, GoesOnKeeps
<1>2. ASSUME End(b, Queue(p, todo, all), IF todo = {} THEN ts ELSE Schedule(ts, "retry")),
             asked' = owed
      PROVE  /\ pending' \in Queues /\ timer' \in Timers /\ asked' \in Queues
             /\ running' \in BOOLEAN /\ (running' => Active' # {})
             /\ batch' \in [Batches -> Hands]
             /\ Wanted' /\ NoWakeStranded' /\ NoIdleTimer' /\ NoWakeLost'
             /\ ~Empty(p) => ~Empty(pending')
  <2>0. /\ b \in Batches /\ all \in Queues /\ todo \in SUBSET Wakes /\ p \in Queues
        /\ ts \in SUBSET Timers /\ owed \in Queues
    BY DEF Given
  <2>1. PICK p2 \in Queues : p2 = Queue(p, todo, all)
    BY <2>0, QueueType
  <2>2. PICK ts2 \in SUBSET Timers : ts2 = IF todo = {} THEN ts ELSE Schedule(ts, "retry")
    <3>1. Schedule(ts, "retry") \in SUBSET Timers
      BY <2>0, ScheduleArms DEF Timers
    <3> QED BY <2>0, <3>1
  <2>3. End(b, p2, ts2)
    BY <1>2, <2>1, <2>2
  <2>4. ~Empty(p) \/ todo # {} => ~Empty(p2)
    <3>1. todo # {} => \E v \in todo \cap Wakes : all[v] > 0
      BY <2>0 DEF Given
    <3> QED BY <2>0, <2>1, <3>1, NotEmptyKept
  <2>5. (\E t \in ts2 : t # "none") => ~Empty(p2)
    BY <2>2, <2>4 DEF Given
  <2>6. scheduled => ~Empty(p2)
    BY <2>4 DEF Given
  <2>7. ASSUME NEW w \in Wakes, asked'[w] > 0
        PROVE  \/ p2[w] >= asked'[w]
               \/ \E c \in Active \ {b} : w \in batch[c].todo
                                          /\ batch[c].all[w] >= asked'[w]
    <3>1. p2[w] >= p[w] /\ (w \in todo => p2[w] >= all[w])
      BY <2>0, <2>1, QueueRaises
    <3>2. p2[w] \in Nat /\ p[w] \in Nat /\ all[w] \in Nat /\ owed[w] \in Nat
      BY <2>0, WakesAssumption DEF Queues, Priorities
    <3>3. CASE p[w] >= owed[w] \/ (w \in todo /\ all[w] >= owed[w])
      BY <1>2, <3>1, <3>2, <3>3
    <3> QED BY <1>2, <2>7, <3>3 DEF Given
  <2>8. pending' = p2
    BY <2>3 DEF End
  <2> QED BY <1>2, <2>0, <2>3, <2>4, <2>5, <2>6, <2>7, <2>8, EndKeeps
<1> QED BY <1>1, <1>2, AdvanceCases

(* One batch more only if none is running, and none is after one ends.     *)
LEMMA StartOverlaps ==
    ASSUME TypeOK, Overlap, NEW b \in Batches, b \in Active \/ ~running,
           Active' = Active \cup {b}, running' = (running \/ b \notin Active),
           UNCHANGED interrupted
    PROVE  Overlap'
<1>1. IsFiniteSet(Active) /\ Cardinality(Active) \in Nat /\ interrupted \in Nat
  BY FS_CardinalityType DEF TypeOK, Overlap
<1>2. CASE b \in Active
  <2>1. Active' = Active
    BY <1>2
  <2> QED BY <1>2, <2>1 DEF TypeOK, Overlap, OverlapBounded
<1>3. CASE b \notin Active
  <2>1. IsFiniteSet(Active') /\ Cardinality(Active') = Cardinality(Active) + 1
    BY <1>1, <1>3, FS_AddElement
  <2>2. Cardinality(Active) <= interrupted
    BY <1>3 DEF Overlap, OverlapBounded
  <2>3. Cardinality(Active') <= interrupted' + 1
    BY <1>1, <2>1, <2>2
  <2>4. running' = TRUE
    BY <1>3
  <2> QED BY <2>1, <2>3, <2>4 DEF Overlap, OverlapBounded
<1> QED BY <1>2, <1>3

LEMMA EndOverlaps ==
    ASSUME TypeOK, Overlap, NEW b \in Batches, b \in Active \/ ~running,
           Active' = Active \ {b}, running' = FALSE, UNCHANGED interrupted
    PROVE  Overlap'
<1>1. IsFiniteSet(Active) /\ Cardinality(Active) \in Nat /\ interrupted \in Nat
  BY FS_CardinalityType DEF TypeOK, Overlap
<1>2. /\ IsFiniteSet(Active')
      /\ Cardinality(Active') = IF b \in Active THEN Cardinality(Active) - 1
                                ELSE Cardinality(Active)
  BY <1>1, FS_RemoveElement
<1> QED BY <1>1, <1>2 DEF TypeOK, Overlap, OverlapBounded

LEMMA AdvanceOverlaps ==
    ASSUME TypeOK, Overlap, NEW b, NEW all, NEW todo, NEW p, NEW ts, NEW owed,
           Given(b, all, todo, p, ts, owed), Advance(b, all, todo, p, ts, owed),
           b \in Active \/ ~running, UNCHANGED interrupted
    PROVE  Overlap'
<1>1. ASSUME NEW w \in todo, NEW skip \in SUBSET (todo \ {w}),
             GoesOn(b, all, todo, p, ts, owed, w, skip)
      PROVE  Overlap'
  <2>1. b \in Batches /\ w \in Wakes
    BY DEF Given
  <2>2. Active' = Active \cup {b}
    BY <1>1, <2>1, GoesOnActive
  <2> QED BY <1>1, <2>1, <2>2, StartOverlaps DEF GoesOn
<1>2. ASSUME End(b, Queue(p, todo, all), IF todo = {} THEN ts ELSE Schedule(ts, "retry"))
      PROVE  Overlap'
  <2>1. b \in Batches /\ Active' = Active \ {b} /\ running' = FALSE
    BY <1>2, EndActive DEF Given, End
  <2> QED BY <2>1, EndOverlaps
<1> QED BY <1>1, <1>2, AdvanceCases

-----------------------------------------------------------------------------
(* The actions.                                                            *)

LEMMA InitIInv == Init => IInv
<1> SUFFICES ASSUME Init PROVE IInv
  OBVIOUS
<1>1. Active = {}
  BY DEF Init, Active, Idle
<1>2. TypeOK
  <2>1. Idle \in [all : [Wakes -> Priorities], todo : SUBSET Wakes,
                  call : Wakes \cup {NoWake}]
    BY WakesAssumption DEF Idle, Priorities
  <2>2. /\ pending \in [Wakes -> Priorities] /\ asked \in [Wakes -> Priorities]
        /\ requests \in 0..MaxRequests /\ registrations \in [Lanes -> Nat]
        /\ interrupted \in Nat
    BY WakesAssumption DEF Init, Priorities
  <2> QED BY <2>1, <2>2 DEF Init, TypeOK
<1>3. Overlap
  BY <1>1, FS_EmptySet DEF Init, Overlap, OverlapBounded
<1>4. Wanted /\ ScheduledHasWake /\ NoWakeStranded /\ NoIdleTimer /\ NoWakeLost
  BY <1>1 DEF Init, Wanted, ScheduledHasWake, NoWakeStranded, NoIdleTimer, NoWakeLost
<1> QED BY <1>2, <1>3, <1>4 DEF IInv

(* What the three actions that go on with a batch have in common.          *)
LEMMA AdvancePreserves ==
    ASSUME IInv, NEW b, NEW all, NEW todo, NEW p, NEW ts, NEW owed,
           Given(b, all, todo, p, ts, owed), Advance(b, all, todo, p, ts, owed),
           b \in Active \/ ~running, scheduled' \in BOOLEAN, scheduled' => ~Empty(p),
           UNCHANGED <<wired, registrations, interrupted, requests>>
    PROVE  IInv'
<1>1. TypeOK /\ Wanted /\ Overlap
  BY DEF IInv
<1>2. /\ pending' \in Queues /\ timer' \in Timers /\ asked' \in Queues
      /\ running' \in BOOLEAN /\ (running' => Active' # {})
      /\ batch' \in [Batches -> Hands]
      /\ Wanted' /\ NoWakeStranded' /\ NoIdleTimer' /\ NoWakeLost'
      /\ ~Empty(p) => ~Empty(pending')
  BY <1>1, AdvanceKeeps
<1>3. TypeOK'
  BY <1>1, <1>2 DEF TypeOK, Queues, Hands, Timers
<1>4. Overlap'
  BY <1>1, AdvanceOverlaps
<1> QED BY <1>2, <1>3, <1>4 DEF IInv, ScheduledHasWake

LEMMA FirePreserves ==
    ASSUME IInv, NEW b \in Batches, Fire(b) PROVE IInv'
<1> DEFINE todo == {w \in Wakes : pending[w] > 0}
           none == [w \in Wakes |-> 0]
<1>1. b \notin Active /\ ~running /\ Advance(b, pending, todo, none, {"none"}, asked)
  BY DEF Fire
<1>2. Given(b, pending, todo, none, {"none"}, asked)
  <2>1. pending \in Queues /\ none \in Queues /\ asked \in Queues
    BY WakesAssumption DEF IInv, TypeOK, Queues, Priorities
  <2>2. todo # {}
    BY WakesAssumption DEF Fire, Empty, IInv, TypeOK, Priorities
  <2>3. ASSUME NEW w \in Wakes, asked[w] > 0
        PROVE  \/ w \in todo /\ pending[w] >= asked[w]
               \/ \E c \in Active \ {b} : w \in batch[c].todo
                                          /\ batch[c].all[w] >= asked[w]
    <3>1. pending[w] \in Nat /\ asked[w] \in Nat
      BY <2>1, WakesAssumption DEF Queues, Priorities
    <3> QED BY <1>1, <2>3, <3>1 DEF IInv, NoWakeLost
  <2> QED BY <2>1, <2>2, <2>3 DEF Given, Timers
<1>3. scheduled' = FALSE /\ UNCHANGED <<wired, registrations, interrupted, requests>>
  BY DEF Fire
<1> HIDE DEF todo, none
<1> QED BY <1>1, <1>2, <1>3, AdvancePreserves

(* What a batch at work is given.                                          *)
LEMMA AtWork ==
    ASSUME IInv, NEW b \in Active
    PROVE  /\ b \in Batches /\ batch[b].all \in Queues /\ batch[b].todo \in SUBSET Wakes
           /\ batch[b].call \in Wakes /\ batch[b].all[batch[b].call] > 0
           /\ \A v \in batch[b].todo : batch[b].all[v] > 0
           /\ pending \in Queues /\ asked \in Queues /\ timer \in Timers
           /\ timer # "none" => ~Empty(pending)
           /\ scheduled => ~Empty(pending)
BY DEF IInv, TypeOK, Active, Queues, Timers, Wanted, NoIdleTimer, ScheduledHasWake

LEMMA AnsweredPreserves ==
    ASSUME IInv, NEW b \in Batches, Answered(b) PROVE IInv'
<1>1. b \in Active /\ Advance(b, batch[b].all, batch[b].todo, pending, {timer}, asked)
  BY DEF Answered
<1>2. Given(b, batch[b].all, batch[b].todo, pending, {timer}, asked)
  <2>1. \A w \in Wakes : asked[w] > 0 =>
            \/ pending[w] >= asked[w]
            \/ w \in batch[b].todo /\ batch[b].all[w] >= asked[w]
            \/ \E c \in Active \ {b} : w \in batch[c].todo /\ batch[c].all[w] >= asked[w]
    BY DEF IInv, NoWakeLost
  <2> QED BY <1>1, <2>1, AtWork DEF Given
<1>3. UNCHANGED <<scheduled, wired, registrations, interrupted, requests>>
      /\ scheduled' \in BOOLEAN /\ (scheduled' => ~Empty(pending))
  BY DEF Answered, IInv, TypeOK, ScheduledHasWake
<1> QED BY <1>1, <1>2, <1>3, AdvancePreserves

(* A wake that is queued again is owed, and pending.                       *)
LEMMA OwedAgain ==
    ASSUME IInv, NEW b \in Active, NEW S, batch[b].call \in S
    PROVE  LET w == batch[b].call
               p == Queue(pending, S, batch[b].all)
               owed == Queue(asked, {w}, batch[b].all)
           IN  /\ p \in Queues /\ owed \in Queues /\ ~Empty(p)
               /\ \A v \in Wakes : owed[v] > 0 =>
                      \/ p[v] >= owed[v]
                      \/ asked[v] = owed[v] /\ v \in batch[b].todo
                         /\ batch[b].all[v] >= owed[v]
                      \/ \E c \in Active \ {b} : v \in batch[c].todo
                                                 /\ batch[c].all[v] >= owed[v]
<1> DEFINE w == batch[b].call
           all == batch[b].all
           p == Queue(pending, S, all)
           owed == Queue(asked, {w}, all)
<1>1. p \in Queues /\ owed \in Queues
  BY AtWork, QueueType
<1>2. ~Empty(p)
  BY AtWork, NotEmptyKept
<1>3. ASSUME NEW v \in Wakes, owed[v] > 0
      PROVE  \/ p[v] >= owed[v]
             \/ asked[v] = owed[v] /\ v \in batch[b].todo /\ all[v] >= owed[v]
             \/ \E c \in Active \ {b} : v \in batch[c].todo /\ batch[c].all[v] >= owed[v]
  <2>0. \A f \in Queues : f[v] \in Nat
    BY WakesAssumption DEF Queues, Priorities
  <2>1. p[v] \in Nat /\ owed[v] \in Nat /\ pending[v] \in Nat /\ all[v] \in Nat
    BY <1>1, <2>0, AtWork
  <2>2. p[v] >= pending[v] /\ (v = w => p[v] >= all[v])
    BY AtWork, QueueRaises
  <2>3. owed[v] = asked[v] \/ (v = w /\ owed[v] = all[v])
    BY DEF Queue
  <2>4. CASE owed[v] = asked[v]
    <3>1. \/ pending[v] >= owed[v]
          \/ \E c \in Active : v \in batch[c].todo /\ batch[c].all[v] >= owed[v]
      BY <1>3, <2>4 DEF IInv, NoWakeLost
    <3>2. CASE pending[v] >= owed[v]
      BY <2>1, <2>2, <3>2
    <3> QED BY <2>4, <3>1, <3>2
  <2>5. CASE v = w /\ owed[v] = all[v]
    BY <2>1, <2>2, <2>5
  <2> QED BY <2>3, <2>4, <2>5
<1> QED BY <1>1, <1>2, <1>3

LEMMA BusyPreserves ==
    ASSUME IInv, NEW b \in Batches, Busy(b) PROVE IInv'
<1>0. PICK p, owed, ts : /\ p = Queue(pending, {batch[b].call}, batch[b].all)
                         /\ owed = Queue(asked, {batch[b].call}, batch[b].all)
                         /\ ts = Schedule({timer}, "retry")
  OBVIOUS
<1>1. b \in Active /\ Advance(b, batch[b].all, batch[b].todo, p, ts, owed)
  BY <1>0 DEF Busy
<1>2. ts \in SUBSET Timers
  BY <1>0, <1>1, AtWork, ScheduleArms DEF Timers
<1>3. Given(b, batch[b].all, batch[b].todo, p, ts, owed) /\ ~Empty(p)
  BY <1>0, <1>1, <1>2, AtWork, OwedAgain DEF Given
<1>4. UNCHANGED <<scheduled, wired, registrations, interrupted, requests>>
      /\ scheduled' \in BOOLEAN
  BY DEF Busy, IInv, TypeOK
<1> QED BY <1>1, <1>3, <1>4, AdvancePreserves

LEMMA ThrewPreserves ==
    ASSUME IInv, NEW b \in Batches, Threw(b) PROVE IInv'
<1>0. PICK p, owed, ts : /\ p = Queue(pending, Wakes, batch[b].all)
                         /\ owed = Queue(asked, {batch[b].call}, batch[b].all)
                         /\ ts = Schedule({timer}, "retry")
  OBVIOUS
<1>1. b \in Active /\ End(b, p, ts) /\ asked' = owed
  BY <1>0 DEF Threw
<1>2. ts \in SUBSET Timers
  BY <1>0, <1>1, AtWork, ScheduleArms DEF Timers
<1>3. p \in Queues /\ owed \in Queues /\ ~Empty(p)
  BY <1>0, <1>1, AtWork, OwedAgain
<1>4. ASSUME NEW v \in Wakes, owed[v] > 0
      PROVE  \/ p[v] >= owed[v]
             \/ \E c \in Active \ {b} : v \in batch[c].todo /\ batch[c].all[v] >= owed[v]
  <2>1. p[v] >= batch[b].all[v]
    BY <1>0, <1>1, AtWork, QueueRaises
  <2>2. p[v] \in Nat /\ owed[v] \in Nat /\ batch[b].all[v] \in Nat
    BY <1>1, <1>3, AtWork, WakesAssumption DEF Queues, Priorities
  <2>3. CASE batch[b].all[v] >= owed[v]
    BY <2>1, <2>2, <2>3
  <2> QED BY <1>0, <1>1, <1>4, <2>3, AtWork, OwedAgain
<1>5. TypeOK /\ Wanted /\ Overlap
  BY DEF IInv
<1>6. /\ pending' \in Queues /\ timer' \in Timers
      /\ running' \in BOOLEAN /\ (running' => Active' # {})
      /\ batch' \in [Batches -> Hands]
      /\ Wanted' /\ NoWakeStranded' /\ NoIdleTimer' /\ NoWakeLost'
  BY <1>1, <1>2, <1>3, <1>4, <1>5, EndKeeps
<1>7. UNCHANGED <<scheduled, wired, registrations, interrupted, requests>>
  BY DEF Threw
<1>8. TypeOK'
  BY <1>1, <1>3, <1>5, <1>6, <1>7 DEF TypeOK, Queues, Hands, Timers
<1>9. Overlap'
  BY <1>1, <1>5, <1>7, EndActive, EndOverlaps DEF End
<1>10. pending' = p
  BY <1>1 DEF End
<1> QED BY <1>3, <1>6, <1>8, <1>9, <1>10 DEF IInv, ScheduledHasWake

(* The actions that touch no batch.                                        *)

LEMMA RequestPreserves ==
    ASSUME IInv, NEW w \in Wakes, NEW priority \in 1..MaxPriority, Request(w, priority)
    PROVE  IInv'
<1> DEFINE all == [v \in Wakes |-> priority]
<1>1. pending \in Queues /\ all \in Queues /\ asked \in Queues /\ timer \in Timers
  BY WakesAssumption DEF IInv, TypeOK, Queues, Priorities, Timers
<1>2. pending' = Queue(pending, {w}, all)
  BY DEF Request
<1>3. pending' \in Queues /\ ~Empty(pending')
  <2>1. \E v \in {w} \cap Wakes : all[v] > 0
    BY WakesAssumption
  <2> QED BY <1>1, <1>2, <2>1, QueueType, NotEmptyKept
<1>4. timer' \in {"normal", "retry"}
  BY <1>1, ScheduleArms DEF Request, Timers
<1>5. Active' = Active /\ UNCHANGED <<scheduled, running, batch, interrupted>>
  BY DEF Request, Active
<1>6. TypeOK'
  <2>1. asked' \in Queues
    BY <1>1, WakesAssumption DEF Request, Queues, Priorities
  <2>2. requests' \in 0..MaxRequests
    BY WakesAssumption DEF Request, IInv, TypeOK
  <2>3. /\ scheduled' \in BOOLEAN /\ running' \in BOOLEAN /\ (running' => Active' # {})
    BY <1>5 DEF IInv, TypeOK
  <2>4. /\ batch' = batch /\ registrations' = registrations /\ wired' = wired
        /\ interrupted' = interrupted
    BY DEF Request
  <2> QED BY <1>3, <1>4, <2>1, <2>2, <2>3, <2>4 DEF IInv, TypeOK, Queues
<1>7. NoWakeLost'
  <2> SUFFICES ASSUME NEW v \in Wakes, asked'[v] > 0
               PROVE  \/ pending'[v] >= asked'[v]
                      \/ \E b \in Active : v \in batch[b].todo
                                           /\ batch[b].all[v] >= asked'[v]
    BY <1>5 DEF NoWakeLost
  <2>1. pending'[v] >= pending[v] /\ (v = w => pending'[v] >= priority)
    BY <1>1, <1>2, QueueRaises
  <2>2. asked'[v] = asked[v] \/ (v = w /\ asked'[v] = priority)
    BY <1>1 DEF Request, Queues
  <2>3. pending'[v] \in Nat /\ pending[v] \in Nat /\ asked[v] \in Nat /\ priority \in Nat
    BY <1>1, <1>3, WakesAssumption DEF Queues, Priorities
  <2>4. CASE asked'[v] = asked[v]
    <3>1. \/ pending[v] >= asked[v]
          \/ \E b \in Active : v \in batch[b].todo /\ batch[b].all[v] >= asked[v]
      BY <2>4 DEF IInv, NoWakeLost
    <3>2. CASE pending[v] >= asked[v]
      <4>1. pending'[v] >= asked[v]
        BY <2>1, <2>3, <3>2
      <4> QED BY <2>4, <4>1
    <3> QED BY <2>4, <3>1, <3>2
  <2>5. CASE v = w /\ asked'[v] = priority
    BY <2>1, <2>5
  <2> QED BY <2>2, <2>4, <2>5
<1>8. Wanted' /\ Overlap'
  BY <1>5 DEF IInv, Wanted, Overlap, OverlapBounded
<1> QED BY <1>3, <1>4, <1>6, <1>7, <1>8
        DEF IInv, ScheduledHasWake, NoWakeStranded, NoIdleTimer

LEMMA UnstartedPreserves ==
    ASSUME IInv, FireUnwired \/ FireRunning \/ \E l \in Lanes : Dispose(l)
    PROVE  IInv'
<1>1. UNCHANGED <<pending, running, batch, registrations, asked, interrupted, requests>>
  BY DEF FireUnwired, FireRunning, Dispose
<1>2. Active' = Active
  BY <1>1 DEF Active
<1>3. TypeOK'
  BY <1>1, <1>2 DEF IInv, TypeOK, FireUnwired, FireRunning, Dispose
<1>4. Wanted' /\ NoWakeLost' /\ Overlap'
  BY <1>1, <1>2 DEF IInv, Wanted, NoWakeLost, Overlap, OverlapBounded
<1>5. ScheduledHasWake' /\ NoIdleTimer'
  BY <1>1 DEF IInv, ScheduledHasWake, NoIdleTimer, FireUnwired, FireRunning, Dispose, Empty
<1>6. NoWakeStranded'
  BY <1>1, <1>2 DEF IInv, NoWakeStranded, FireUnwired, FireRunning, Dispose, Empty
<1> QED BY <1>3, <1>4, <1>5, <1>6 DEF IInv

LEMMA SetHeartbeatPreserves == ASSUME IInv, SetHeartbeatWakeHandler PROVE IInv'
<1>1. UNCHANGED <<pending, batch, asked, requests>> /\ running' = FALSE /\ scheduled' = FALSE
      /\ timer' = (IF Empty(pending) THEN "none" ELSE "normal")
  BY DEF SetHeartbeatWakeHandler
<1>2. Active' = Active
  BY <1>1 DEF Active
<1>3. TypeOK'
  <2>1. registrations' \in [Lanes -> Nat] /\ wired' \in SUBSET Lanes /\ interrupted' \in Nat
    BY DEF IInv, TypeOK, SetHeartbeatWakeHandler, Lanes
  <2>2. timer' \in {"none", "normal", "retry"}
    BY <1>1
  <2> QED BY <1>1, <2>1, <2>2 DEF IInv, TypeOK
<1>4. Overlap'
  <2>1. IsFiniteSet(Active) /\ Cardinality(Active) \in Nat /\ interrupted \in Nat
    BY FS_CardinalityType DEF IInv, TypeOK, Overlap
  <2>2. CASE Active = {}
    BY <1>1, <1>2, <2>1, <2>2, FS_EmptySet
       DEF SetHeartbeatWakeHandler, Overlap, OverlapBounded
  <2>3. CASE Active # {}
    <3>1. interrupted' = interrupted + 1
      BY <2>3 DEF SetHeartbeatWakeHandler
    <3>2. Cardinality(Active) <= interrupted + 1
      BY <2>1 DEF IInv, Overlap, OverlapBounded
    <3> QED BY <1>1, <1>2, <2>1, <3>1, <3>2 DEF Overlap, OverlapBounded
  <2> QED BY <2>2, <2>3
<1>5. Wanted' /\ ScheduledHasWake' /\ NoWakeStranded' /\ NoIdleTimer' /\ NoWakeLost'
  BY <1>1, <1>2 DEF IInv, Wanted, ScheduledHasWake, NoWakeStranded, NoIdleTimer,
     NoWakeLost, Empty
<1> QED BY <1>3, <1>4, <1>5 DEF IInv

LEMMA SetCronPreserves == ASSUME IInv, SetCronWakeHandler PROVE IInv'
<1>1. UNCHANGED <<pending, scheduled, running, batch, asked, interrupted, requests>>
  BY DEF SetCronWakeHandler
<1>2. Active' = Active
  BY <1>1 DEF Active
<1>3. IF Empty(pending) THEN timer' = timer ELSE timer' \in {"normal", "retry"}
  BY ScheduleArms DEF IInv, TypeOK, SetCronWakeHandler, Timers
<1>4. TypeOK'
  BY <1>1, <1>2, <1>3 DEF IInv, TypeOK, SetCronWakeHandler, Lanes
<1>5. Wanted' /\ ScheduledHasWake' /\ NoWakeLost' /\ Overlap'
  BY <1>1, <1>2 DEF IInv, Wanted, ScheduledHasWake, NoWakeLost, Overlap, OverlapBounded,
     Empty
<1>6. NoWakeStranded' /\ NoIdleTimer'
  BY <1>1, <1>3 DEF IInv, NoWakeStranded, NoIdleTimer, Empty
<1> QED BY <1>4, <1>5, <1>6 DEF IInv

LEMMA StepPreserves == IInv /\ [Next]_vars => IInv'
<1>1. ASSUME IInv, Next PROVE IInv'
  BY <1>1, RequestPreserves, FirePreserves, AnsweredPreserves, BusyPreserves,
     ThrewPreserves, UnstartedPreserves, SetHeartbeatPreserves, SetCronPreserves
     DEF Next, Fires, Register
<1>2. ASSUME IInv, UNCHANGED vars PROVE IInv'
  BY <1>2 DEF vars, IInv, TypeOK, Wanted, ScheduledHasWake, NoWakeStranded, NoIdleTimer,
     NoWakeLost, Overlap, OverlapBounded, Active, Empty
<1> QED BY <1>1, <1>2

-----------------------------------------------------------------------------
(* What follows.                                                           *)

LEMMA Inductive == Spec => []IInv
BY InitIInv, StepPreserves, PTL DEF Spec

(* Every variable keeps its type, and a batch is at work while running is  *)
(* set, so a timer that fires under it is not re-armed for ever.           *)
THEOREM TypeCorrect == Spec => []TypeOK
<1>1. IInv => TypeOK
  BY DEF IInv
<1> QED BY <1>1, Inductive, PTL

(* A pending wake with a handler always has a timer or a batch that arms   *)
(* one, through any replacement of the handlers.                           *)
THEOREM NothingStranded == Spec => []NoWakeStranded
<1>1. IInv => NoWakeStranded
  BY DEF IInv
<1> QED BY <1>1, Inductive, PTL

(* A timer never fires into an empty queue.                                *)
THEOREM NoTimerIdles == Spec => []NoIdleTimer
<1>1. IInv => NoIdleTimer
  BY DEF IInv
<1> QED BY <1>1, Inductive, PTL

(* Coalescing, retries, exceptions and changes of handlers neither lose    *)
(* nor weaken a wake.                                                      *)
THEOREM NothingLost == Spec => []NoWakeLost
<1>1. IInv => NoWakeLost
  BY DEF IInv
<1> QED BY <1>1, Inductive, PTL

(* Batches overlap at most once per replacement of the handler under one.  *)
THEOREM OverlapsOnlyByReplacement == Spec => []OverlapBounded
<1>1. IInv => OverlapBounded
  BY DEF IInv, Overlap
<1> QED BY <1>1, Inductive, PTL
=============================================================================
