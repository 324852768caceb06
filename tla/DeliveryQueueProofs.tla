------------------------- MODULE DeliveryQueueProofs -------------------------
(***************************************************************************)
(* What DeliveryQueue promises, for any number of messages, recoveries,    *)
(* drains, retries and crashes.                                            *)
(***************************************************************************)
EXTENDS DeliveryQueue, FiniteSetTheorems, TLAPS

(* Worker w has entry e in hand under a claim.                             *)
Holds(w, e) == w \in Workers \ Notices /\ step[w] \in Working /\ Target(w) = e

Claimed == \A e \in Entries : e \in claims <=> \E w \in Workers : Holds(w, e)

Exclusive ==
    \A e \in Entries : \A v, w \in Workers : Holds(v, e) /\ Holds(w, e) => v = w

Answered(e) == e \in bestEffort \cup delivered \cup cancelled

AckedKnowingly == \A w \in Workers : step[w] = "ack" => Answered(Target(w))

NotLost ==
    \A e \in Entries :
        file[e] = NoFile /\ step[e] # "idle" => Answered(e) \/ e \in failed

(* A notice is sent without a claim.                                       *)
Unclaimed == \A e \in Notices : step[e] # "written"

Claims == Claimed /\ Exclusive
Files == AckedKnowingly /\ NotLost
IInv == TypeOK /\ Unclaimed /\ Claims /\ Files /\ MarkersCollected

-----------------------------------------------------------------------------
LEMMA InitIInv == Init => IInv
<1> SUFFICES ASSUME Init PROVE IInv
  OBVIOUS
<1>1. TypeOK
  BY QueueAssumption DEF Init, TypeOK, Counts, Working, NoFile, NoCall, Due, Workers,
     Entries
<1>2. Claims
  BY DEF Init, Claims, Claimed, Exclusive, Holds, Working
<1>3. Files
  BY DEF Init, Files, AckedKnowingly, NotLost, Workers
<1>4. MarkersCollected
  BY DEF Init, MarkersCollected
<1>5. Unclaimed
  BY DEF Init, Unclaimed, Workers, Entries
<1> QED BY <1>1, <1>2, <1>3, <1>4, <1>5 DEF IInv

(* Whoever works has an entry.                                             *)
LEMMA TargetInEntries ==
    ASSUME TypeOK, NEW w \in Workers, step[w] \in Working
    PROVE  Target(w) \in Entries
BY DEF TypeOK, Target, Workers

LEMMA BumpInCounts ==
    ASSUME NEW n \in Counts PROVE Bump(n) \in Counts
BY QueueAssumption DEF Counts, Bump

LEMMA FinishTypes ==
    ASSUME TypeOK, NEW w \in Workers, Finish(w), step[w] \in Working
    PROVE  /\ step' \in [Workers -> Working \cup {"idle", "written", "scanned", "looping", "done"}]
           /\ target' \in [Recoveries -> Entries \cup {NoEntry}]
           /\ \A r \in Recoveries : step'[r] \in Working <=> target'[r] # NoEntry
           /\ seen' \in [Workers -> Counts]
           /\ claims' \subseteq Entries
BY QueueAssumption DEF TypeOK, Finish, GoTo, Workers, Counts, Working

(* Handle keeps the types.                                                 *)
LEMMA HandleTypes ==
    ASSUME TypeOK, NEW w \in Workers, Handle(w), UNCHANGED bestEffort
    PROVE  TypeOK'
<1> DEFINE e == Target(w)
<1>1. step[w] \in Working /\ e \in Entries
  BY TargetInEntries DEF Handle, SendSucceeds, SendFails, SendSwallowsFailure, AckRename,
     AckFails, AckUnlink, FailRead, FailWrite, MoveToFailed, MoveFails, Working
<1> USE DEF TypeOK, GoTo, Workers, Working
<1>2. CASE SendSucceeds(w)
  BY <1>1, <1>2 DEF SendSucceeds, disk, work
<1>3. CASE SendFails(w) \/ SendSwallowsFailure(w)
  BY <1>1, <1>3 DEF SendFails, SendSwallowsFailure, disk, work, history
<1>4. CASE AckRename(w)
  BY <1>1, <1>4, FinishTypes DEF AckRename
<1>5. CASE AckFails(w)
  BY <1>1, <1>5, FinishTypes DEF AckFails, disk, history
<1>6. CASE AckUnlink(w)
  BY <1>1, <1>6, FinishTypes DEF AckUnlink, history
<1>7. CASE FailRead(w)
  BY <1>1, <1>7, FinishTypes DEF FailRead, disk, history
<1>8. CASE FailWrite(w)
  BY <1>1, <1>8, FinishTypes, BumpInCounts DEF FailWrite, history
<1>9. CASE MoveToFailed(w)
  BY <1>1, <1>9, FinishTypes DEF MoveToFailed, history
<1>10. CASE MoveFails(w)
  BY <1>1, <1>10, FinishTypes DEF MoveFails, disk, history
<1> QED BY <1>2, <1>3, <1>4, <1>5, <1>6, <1>7, <1>8, <1>9, <1>10 DEF Handle

LEMMA SendTypes ==
    ASSUME TypeOK, NEW e \in Entries, Send(e), UNCHANGED bestEffort
    PROVE  TypeOK'
<1> USE QueueAssumption DEF TypeOK, GoTo, Workers, Working
<1>1. CASE Enqueue(e)
  BY <1>1 DEF Enqueue, work, history, Counts
<1>2. ASSUME NEW accepted \in BOOLEAN, SendUnqueued(e, accepted) PROVE TypeOK'
  BY <1>2 DEF SendUnqueued, work, disk
<1>3. CASE ClaimToSend(e)
  BY <1>3 DEF ClaimToSend, work, disk, history
<1>4. CASE SendAborted(e)
  BY <1>4 DEF SendAborted, work, disk
<1> QED BY <1>1, <1>2, <1>3, <1>4 DEF Send

LEMMA DeferTypes ==
    ASSUME TypeOK, NEW e \in Entries, DeferRead(e) \/ DeferWrite(e), UNCHANGED bestEffort
    PROVE  TypeOK'
<1>1. CASE DeferRead(e)
  BY <1>1 DEF TypeOK, DeferRead, disk, work, history
<1>2. CASE DeferWrite(e)
  BY <1>2, BumpInCounts DEF TypeOK, DeferWrite, work, history
<1> QED BY <1>1, <1>2

LEMMA RecoverTypes ==
    ASSUME TypeOK, NEW r \in Recoveries, Recover(r), UNCHANGED bestEffort
    PROVE  TypeOK'
<1> USE QueueAssumption DEF TypeOK, GoTo, Workers, Working
<1>1. CASE Scan(r)
  BY <1>1 DEF Scan, history
<1>2. ASSUME NEW e \in Entries, Visit(r, e) PROVE TypeOK'
  BY <1>2 DEF Visit, disk, history
<1>3. CASE Reread(r)
  BY <1>3, FinishTypes DEF Reread, disk, history
<1>4. CASE ScanOver(r)
  BY <1>4 DEF ScanOver, disk, work, history
<1>5. CASE BudgetExceeded(r)
  BY <1>5 DEF BudgetExceeded, disk, history
<1>6. CASE RecoveryThrows(r)
  BY <1>6 DEF RecoveryThrows, disk, history, Counts
<1> QED BY <1>1, <1>2, <1>3, <1>4, <1>5, <1>6 DEF Recover

LEMMA CrashTypes ==
    ASSUME TypeOK, Crash, UNCHANGED bestEffort
    PROVE  TypeOK'
BY QueueAssumption DEF TypeOK, Crash, disk, history, Workers, Working, Counts

LEMMA NextTypes == TypeOK /\ [Next]_vars => TypeOK'
<1>1. ASSUME TypeOK, Next PROVE TypeOK'
  BY <1>1, HandleTypes, SendTypes, DeferTypes, RecoverTypes, CrashTypes DEF Next
<1>2. ASSUME TypeOK, UNCHANGED vars PROVE TypeOK'
  BY <1>2 DEF TypeOK, vars, disk, work, history
<1> QED BY <1>1, <1>2

-----------------------------------------------------------------------------
(* Claims and the workers that hold them.                                  *)

(* A step of a worker with its entry in its hands.                         *)
LEMMA StayKeepsClaims ==
    ASSUME TypeOK, Claims, NEW w \in Workers, step[w] \in Working,
           NEW s \in Working, GoTo(w, s), UNCHANGED <<claims, target>>
    PROVE  Claims'
<1>1. \A v \in Workers, e \in Entries : Holds(v, e)' <=> Holds(v, e)
  BY DEF TypeOK, GoTo, Holds, Target
<1> QED BY <1>1 DEF Claims, Claimed, Exclusive

(* The end of its work on the entry.                                       *)
LEMMA FinishKeepsClaims ==
    ASSUME TypeOK, Claims, NEW w \in Workers, step[w] \in Working, Finish(w)
    PROVE  Claims'
<1>1. step'[w] \notin Working
  BY DEF TypeOK, Finish, GoTo, Working
<1>2. \A v \in Workers, e \in Entries : Holds(v, e)' <=> Holds(v, e) /\ v # w
  BY <1>1 DEF TypeOK, Finish, GoTo, Holds, Target
<1>3. Exclusive'
  BY <1>2 DEF Claims, Exclusive
<1>4. CASE w \in Notices
  <2>1. claims' = claims /\ \A e \in Entries : ~ Holds(w, e)
    BY <1>4 DEF Finish, Holds
  <2> QED BY <1>2, <1>3, <2>1 DEF Claims, Claimed
<1>5. CASE w \notin Notices
  <2>1. Holds(w, Target(w)) /\ Target(w) \in Entries
    BY <1>5, TargetInEntries DEF Holds
  <2>2. claims' = claims \ {Target(w)}
    BY <1>5 DEF Finish
  <2>3. \A e \in Entries : Holds(w, e) => e = Target(w)
    BY DEF Holds
  <2>4. \A e \in Entries : e \in claims' <=> \E v \in Workers : Holds(v, e) /\ v # w
    BY <2>1, <2>2, <2>3 DEF Claims, Claimed, Exclusive
  <2> QED BY <1>2, <1>3, <2>4 DEF Claims, Claimed
<1> QED BY <1>4, <1>5

(* A worker without an entry takes an unclaimed one.                       *)
LEMMA TakeKeepsClaims ==
    ASSUME Claims, NEW w \in Workers, NEW e \in Entries, e \notin claims,
           claims' = claims \cup {e},
           \A x \in Entries : Holds(w, x)' <=> x = e,
           \A v \in Workers, x \in Entries : v # w => (Holds(v, x)' <=> Holds(v, x)),
           \A x \in Entries : ~ Holds(w, x)
    PROVE  Claims'
<1>1. Claimed'
  <2> SUFFICES ASSUME NEW x \in Entries
               PROVE  x \in claims' <=> \E v \in Workers : Holds(v, x)'
    BY DEF Claimed
  <2>1. CASE x = e
    BY <2>1
  <2>2. CASE x # e
    BY <2>2 DEF Claims, Claimed
  <2> QED BY <2>1, <2>2
<1>2. Exclusive'
  <2> SUFFICES ASSUME NEW x \in Entries, NEW u \in Workers, NEW v \in Workers,
                      Holds(u, x)', Holds(v, x)'
               PROVE  u = v
    BY DEF Exclusive
  <2>1. CASE x = e
    BY <2>1 DEF Claims, Claimed
  <2>2. CASE x # e
    BY <2>2 DEF Claims, Exclusive
  <2> QED BY <2>1, <2>2
<1> QED BY <1>1, <1>2 DEF Claims

(* A step between two states without an entry in hand.                     *)
LEMMA IdleKeepsClaims ==
    ASSUME TypeOK, Claims, NEW w \in Workers, step[w] \notin Working \/ w \in Notices,
           NEW s, s \notin Working \/ w \in Notices, GoTo(w, s), UNCHANGED <<claims, target>>
    PROVE  Claims'
<1>1. \A v \in Workers, e \in Entries : Holds(v, e)' <=> Holds(v, e)
  BY DEF TypeOK, GoTo, Holds, Target
<1> QED BY <1>1 DEF Claims, Claimed, Exclusive

LEMMA HandleKeepsClaims ==
    ASSUME TypeOK, Claims, NEW w \in Workers, Handle(w)
    PROVE  Claims'
<1>1. step[w] \in Working
  BY DEF Handle, SendSucceeds, SendFails, SendSwallowsFailure, AckRename,
     AckFails, AckUnlink, FailRead, FailWrite, MoveToFailed, MoveFails, Working
<1>2. \/ Finish(w)
      \/ UNCHANGED <<claims, target>> /\ \E s \in Working : GoTo(w, s)
  BY DEF Handle, SendSucceeds, SendFails, SendSwallowsFailure, AckRename,
     AckFails, AckUnlink, FailRead, FailWrite, MoveToFailed, MoveFails, Working, work
<1> QED BY <1>1, <1>2, FinishKeepsClaims, StayKeepsClaims

LEMMA SendKeepsClaims ==
    ASSUME TypeOK, Unclaimed, Claims, NEW e \in Entries, Send(e)
    PROVE  Claims'
<1>0. e \in Workers /\ e \notin Recoveries
  BY QueueAssumption DEF Workers
<1>1. CASE Enqueue(e)
  BY <1>0, <1>1, IdleKeepsClaims DEF Enqueue, work, Working
<1>2. ASSUME NEW accepted \in BOOLEAN, SendUnqueued(e, accepted) PROVE Claims'
  BY <1>0, <1>2, IdleKeepsClaims DEF SendUnqueued, work, Working
<1>3. CASE ClaimToSend(e)
  <2>1. CASE e \in claims
    BY <1>0, <1>3, <2>1, IdleKeepsClaims DEF ClaimToSend, work, Working
  <2>2. CASE e \notin claims /\ e \in Notices
    BY <1>3, <2>2 DEF ClaimToSend, Unclaimed
  <2>3. CASE e \notin claims /\ e \notin Notices
    <3>1. /\ step[e] = "written" /\ step' = [step EXCEPT ![e] = "sending"]
          /\ claims' = claims \cup {e} /\ target' = target
      BY <1>3, <2>3 DEF ClaimToSend, GoTo, work
    <3>2. \A x \in Entries : (Holds(e, x)' <=> x = e) /\ ~ Holds(e, x)
      BY <1>0, <2>3, <3>1 DEF TypeOK, Holds, Target, Working
    <3>3. \A v \in Workers, x \in Entries : v # e => (Holds(v, x)' <=> Holds(v, x))
      BY <3>1 DEF TypeOK, Holds, Target
    <3> QED BY <1>0, <2>3, <3>1, <3>2, <3>3, TakeKeepsClaims
  <2> QED BY <2>1, <2>2, <2>3
<1>4. CASE SendAborted(e)
  BY <1>0, <1>4, StayKeepsClaims DEF SendAborted, work, Working
<1> QED BY <1>1, <1>2, <1>3, <1>4 DEF Send

LEMMA RecoverKeepsClaims ==
    ASSUME TypeOK, Claims, NEW r \in Recoveries, Recover(r)
    PROVE  Claims'
<1>0. r \in Workers /\ r \notin Notices
  BY QueueAssumption DEF Workers, Entries
<1>1. CASE Scan(r) \/ ScanOver(r) \/ BudgetExceeded(r)
  BY <1>0, <1>1, IdleKeepsClaims DEF Scan, ScanOver, BudgetExceeded, work, Working
<1>2. ASSUME NEW e \in Entries, Visit(r, e) PROVE Claims'
  <2>1. CASE e \in claims
    BY <1>0, <1>2, <2>1, IdleKeepsClaims DEF Visit, Working
  <2>2. CASE e \notin claims
    <3>1. /\ step[r] \notin Working /\ step' = [step EXCEPT ![r] = "reread"]
          /\ claims' = claims \cup {e} /\ target' = [target EXCEPT ![r] = e]
      BY <1>2, <2>2 DEF Visit, GoTo, Working
    <3>2. \A x \in Entries : (Holds(r, x)' <=> x = e) /\ ~ Holds(r, x)
      BY <1>0, <2>2, <3>1 DEF TypeOK, Holds, Target, Working
    <3>3. \A v \in Workers, x \in Entries : v # r => (Holds(v, x)' <=> Holds(v, x))
      BY <3>1 DEF TypeOK, Holds, Target
    <3> QED BY <1>0, <2>2, <3>1, <3>2, <3>3, TakeKeepsClaims
  <2> QED BY <2>1, <2>2
<1>3. CASE Reread(r)
  <2>1. step[r] \in Working
    BY <1>3 DEF Reread, Working
  <2>2. \/ Finish(r)
        \/ UNCHANGED <<claims, target>> /\ \E s \in Working : GoTo(r, s)
    BY <1>3 DEF Reread, Working
  <2> QED BY <1>0, <2>1, <2>2, FinishKeepsClaims, StayKeepsClaims
<1>4. CASE RecoveryThrows(r)
  <2>1. /\ step[r] \in Working /\ step' = [step EXCEPT ![r] = "done"]
        /\ claims' = claims \ {target[r]} /\ target' = [target EXCEPT ![r] = NoEntry]
    BY <1>4 DEF RecoveryThrows, GoTo, Working
  <2>2. /\ target[r] \in Entries /\ Holds(r, target[r])
        /\ \A x \in Entries : Holds(r, x) => x = target[r]
    BY <1>0, <2>1 DEF TypeOK, Holds, Target
  <2>3. \A v \in Workers, x \in Entries : Holds(v, x)' <=> Holds(v, x) /\ v # r
    BY <2>1 DEF TypeOK, Holds, Target, Working
  <2> QED BY <1>0, <2>1, <2>2, <2>3 DEF Claims, Claimed, Exclusive
<1> QED BY <1>1, <1>2, <1>3, <1>4 DEF Recover

LEMMA CrashKeepsClaims == ASSUME TypeOK, Crash PROVE Claims'
<1>1. \A v \in Workers, e \in Entries : ~ Holds(v, e)'
  BY DEF Crash, Holds, Working
<1> QED BY <1>1 DEF Crash, Claims, Claimed, Exclusive

LEMMA NextUnclaimed == TypeOK /\ Unclaimed /\ [Next]_vars => Unclaimed'
<1>1. ASSUME TypeOK, Unclaimed, NEW w \in Workers, NEW s,
             GoTo(w, s), s # "written" \/ w \notin Notices
      PROVE  Unclaimed'
  BY <1>1 DEF TypeOK, Unclaimed, GoTo
<1>2. ASSUME TypeOK, Unclaimed, NEW w \in Workers,
             Handle(w) \/ (w \in Entries /\ Send(w)) \/ (w \in Recoveries /\ Recover(w))
      PROVE  Unclaimed'
  <2>1. \E s : GoTo(w, s) /\ (s # "written" \/ w \notin Notices)
    BY <1>2 DEF Handle, SendSucceeds, SendFails, SendSwallowsFailure, AckRename, AckFails,
       AckUnlink, FailRead, FailWrite, MoveToFailed, MoveFails, Finish, Send, Enqueue,
       SendUnqueued, ClaimToSend, SendAborted, Recover, Scan, Visit, Reread,
       RecoveryThrows, ScanOver, BudgetExceeded
  <2> QED BY <1>1, <1>2, <2>1
<1>3. ASSUME TypeOK, Unclaimed, Next PROVE Unclaimed'
  <2>1. CASE Crash
    BY <1>3, <2>1 DEF Crash, Unclaimed, Workers, Entries
  <2>2. ASSUME NEW e \in Entries, DeferRead(e) \/ DeferWrite(e) PROVE Unclaimed'
    BY <1>3, <2>2 DEF DeferRead, DeferWrite, Unclaimed
  <2> QED BY <1>2, <1>3, <2>1, <2>2 DEF Next, Workers
<1>4. ASSUME Unclaimed, UNCHANGED vars PROVE Unclaimed'
  BY <1>4 DEF Unclaimed, vars
<1> QED BY <1>3, <1>4

LEMMA NextClaims == TypeOK /\ Unclaimed /\ Claims /\ [Next]_vars => Claims'
<1>1. ASSUME TypeOK, Unclaimed, Claims, Next PROVE Claims'
  <2>1. ASSUME NEW e \in Entries, DeferRead(e) \/ DeferWrite(e) PROVE Claims'
    BY <1>1, <2>1
       DEF DeferRead, DeferWrite, work, Claims, Claimed, Exclusive, Holds, Target
  <2> QED BY <1>1, <2>1, HandleKeepsClaims, SendKeepsClaims, RecoverKeepsClaims,
             CrashKeepsClaims DEF Next
<1>2. ASSUME Claims, UNCHANGED vars PROVE Claims'
  BY <1>2 DEF vars, work, Claims, Claimed, Exclusive, Holds, Target
<1> QED BY <1>1, <1>2

-----------------------------------------------------------------------------
(* Acknowledgements, files and markers.                                    *)

(* The parts of a step of worker w that the files' invariants depend on:   *)
(* its own new step, and an entry it removes the file of.                  *)
LEMMA AckedKept ==
    ASSUME TypeOK, AckedKnowingly, NEW w \in Workers, NEW s, GoTo(w, s),
           \A v \in Workers : v # w => Target(v)' = Target(v),
           bestEffort' = bestEffort, delivered \subseteq delivered',
           cancelled \subseteq cancelled',
           s = "ack" => (Answered(Target(w)))'
    PROVE  AckedKnowingly'
BY DEF TypeOK, GoTo, AckedKnowingly, Answered

LEMMA HandleKeepsFiles ==
    ASSUME TypeOK, Files, NEW w \in Workers, Handle(w), UNCHANGED bestEffort
    PROVE  Files'
<1> DEFINE e == Target(w)
<1>1. step[w] \in Working /\ e \in Entries
  BY TargetInEntries DEF Handle, SendSucceeds, SendFails, SendSwallowsFailure, AckRename,
     AckFails, AckUnlink, FailRead, FailWrite, MoveToFailed, MoveFails, Working
<1>2. AckedKnowingly'
  <2>1. \A v \in Workers : v # w => Target(v)' = Target(v)
    BY DEF TypeOK, Target, Handle, SendSucceeds, SendFails, SendSwallowsFailure, AckRename,
       AckFails, AckUnlink, FailRead, FailWrite, MoveToFailed, MoveFails, Finish, work
  <2>2. delivered \subseteq delivered' /\ cancelled \subseteq cancelled'
    BY DEF Handle, SendSucceeds, SendFails, SendSwallowsFailure, AckRename,
       AckFails, AckUnlink, FailRead, FailWrite, MoveToFailed, MoveFails, history
  <2>3. CASE SendSucceeds(w)
    <3>1. GoTo(w, "ack") /\ Target(w)' = e /\ e \in delivered'
      BY <2>3 DEF SendSucceeds, Target, work
    <3> QED BY <2>1, <2>2, <3>1, AckedKept DEF Files, Answered
  <2>4. CASE SendSwallowsFailure(w)
    <3>1. GoTo(w, "ack") /\ Target(w)' = e /\ e \in bestEffort'
      BY <2>4 DEF SendSwallowsFailure, Target, work
    <3> QED BY <2>1, <2>2, <3>1, AckedKept DEF Files, Answered
  <2>5. CASE ~ SendSucceeds(w) /\ ~ SendSwallowsFailure(w)
    <3>1. \E s : GoTo(w, s) /\ s # "ack"
      BY <2>5 DEF Handle, SendFails, AckRename, AckFails, AckUnlink, FailRead, FailWrite,
         MoveToFailed, MoveFails, Finish
    <3> QED BY <2>1, <2>2, <3>1, AckedKept DEF Files
  <2> QED BY <2>3, <2>4, <2>5
<1>3. NotLost'
  <2> SUFFICES ASSUME NEW x \in Entries, file'[x] = NoFile, step'[x] # "idle",
                      ~ Answered(x)'
               PROVE  x \in failed'
    BY DEF NotLost
  <2>1. step[x] # "idle"
    BY <1>1 DEF TypeOK, Workers, Handle, SendSucceeds, SendFails, SendSwallowsFailure,
       AckRename, AckFails, AckUnlink, FailRead, FailWrite, MoveToFailed, MoveFails,
       Finish, GoTo, Working
  <2>2. ~ Answered(x)
    BY DEF Answered, Handle, SendSucceeds, SendFails, SendSwallowsFailure,
       AckRename, AckFails, AckUnlink, FailRead, FailWrite, MoveToFailed, MoveFails, history
  <2>3. file[x] = NoFile => x \in failed
    BY <2>1, <2>2 DEF Files, NotLost
  <2>4. failed \subseteq failed'
    BY DEF Handle, SendSucceeds, SendFails, SendSwallowsFailure, AckRename,
       AckFails, AckUnlink, FailRead, FailWrite, MoveToFailed, MoveFails, disk
  <2>5. CASE file[x] = NoFile
    BY <2>3, <2>4, <2>5
  <2>6. CASE file[x] # NoFile
    <3>1. CASE AckRename(w)
      <4>1. e = x
        BY <1>1, <2>6, <3>1 DEF TypeOK, AckRename
      <4> QED BY <2>2, <3>1, <4>1 DEF AckRename, Files, AckedKnowingly
    <3>2. CASE MoveToFailed(w)
      BY <1>1, <2>6, <3>2 DEF TypeOK, MoveToFailed
    <3>3. CASE FailWrite(w)
      <4>1. Bump(seen[w]) # NoFile
        BY BumpInCounts, QueueAssumption DEF TypeOK, Counts, NoFile
      <4> QED BY <1>1, <2>6, <3>3, <4>1 DEF TypeOK, FailWrite
    <3>4. CASE ~ (AckRename(w) \/ MoveToFailed(w) \/ FailWrite(w))
      BY <2>6, <3>4 DEF Handle, SendSucceeds, SendFails, SendSwallowsFailure,
         AckFails, AckUnlink, FailRead, MoveFails, disk
    <3> QED BY <3>1, <3>2, <3>3, <3>4
  <2> QED BY <2>5, <2>6
<1> QED BY <1>2, <1>3 DEF Files

LEMMA SendKeepsFiles ==
    ASSUME TypeOK, Files, NEW e \in Entries, Send(e), UNCHANGED bestEffort
    PROVE  Files'
<1>0. e \in Workers /\ e \notin Recoveries
  BY QueueAssumption DEF Workers
<1>1. AckedKnowingly'
  <2>1. \A v \in Workers : Target(v)' = Target(v)
    BY DEF Target, Send, Enqueue, SendUnqueued, ClaimToSend, SendAborted, work
  <2>2. delivered \subseteq delivered' /\ cancelled \subseteq cancelled'
    BY DEF Send, Enqueue, SendUnqueued, ClaimToSend, SendAborted, history
  <2>3. CASE SendAborted(e)
    <3>1. GoTo(e, "ack") /\ Target(e)' = e /\ e \in cancelled'
      BY <1>0, <2>3 DEF SendAborted, Target
    <3> QED BY <1>0, <2>1, <2>2, <3>1, AckedKept DEF Files, Answered
  <2>4. CASE ~ SendAborted(e)
    <3>1. \E s : GoTo(e, s) /\ s # "ack"
      BY <2>4 DEF Send, Enqueue, SendUnqueued, ClaimToSend
    <3> QED BY <1>0, <2>1, <2>2, <3>1, AckedKept DEF Files
  <2> QED BY <2>3, <2>4
<1>2. NotLost'
  <2>1. CASE Enqueue(e)
    <3>1. NoFile # 0
      BY QueueAssumption DEF NoFile
    <3> QED BY <1>0, <2>1, <3>1
            DEF TypeOK, Files, NotLost, Answered, Enqueue, GoTo, history
  <2>2. ASSUME NEW accepted \in BOOLEAN, SendUnqueued(e, accepted) PROVE NotLost'
    BY <1>0, <2>2 DEF TypeOK, Files, NotLost, Answered, SendUnqueued, GoTo, disk
  <2>3. CASE ClaimToSend(e)
    <3>1. UNCHANGED <<file, failed, delivered, cancelled>>
      BY <2>3 DEF ClaimToSend, disk, history
    <3>2. \A x \in Entries : step[x] = "idle" => step'[x] = "idle"
      BY <1>0, <2>3 DEF TypeOK, Workers, ClaimToSend, GoTo
    <3> QED BY <3>1, <3>2 DEF Files, NotLost, Answered
  <2>4. CASE SendAborted(e)
    BY <1>0, <2>4 DEF TypeOK, Files, NotLost, Answered, SendAborted, GoTo, disk
  <2> QED BY <2>1, <2>2, <2>3, <2>4 DEF Send
<1> QED BY <1>1, <1>2 DEF Files

LEMMA RecoverKeepsFiles ==
    ASSUME TypeOK, Files, NEW r \in Recoveries, Recover(r), UNCHANGED bestEffort
    PROVE  Files'
<1>0. r \in Workers /\ r \notin Entries
  BY QueueAssumption DEF Workers
<1>1. UNCHANGED <<file, failed, delivered, cancelled>>
  BY DEF Recover, Scan, Visit, Reread, RecoveryThrows, ScanOver, BudgetExceeded, disk, history
<1>2. \E s : GoTo(r, s) /\ s # "ack"
  BY <1>0 DEF Recover, Scan, Visit, Reread, RecoveryThrows, ScanOver, BudgetExceeded, Finish
<1>3. \A v \in Workers : v # r => Target(v)' = Target(v)
  BY DEF TypeOK, Target, Recover, Scan, Visit, Reread, RecoveryThrows, ScanOver,
     BudgetExceeded, Finish, work
<1>4. AckedKnowingly'
  BY <1>0, <1>1, <1>2, <1>3, AckedKept DEF Files
<1>5. NotLost'
  BY <1>0, <1>1, <1>2 DEF TypeOK, Files, NotLost, Answered, GoTo
<1> QED BY <1>4, <1>5 DEF Files

LEMMA CrashKeepsFiles ==
    ASSUME TypeOK, Files, Crash, UNCHANGED bestEffort
    PROVE  Files'
<1>1. AckedKnowingly'
  BY DEF Crash, AckedKnowingly
<1>2. NotLost'
  BY DEF Crash, Files, NotLost, Answered, disk, history, Workers
<1> QED BY <1>1, <1>2 DEF Files

LEMMA DeferKeepsFiles ==
    ASSUME TypeOK, Files, NEW e \in Entries, DeferRead(e) \/ DeferWrite(e),
           UNCHANGED bestEffort
    PROVE  Files'
<1>1. AckedKnowingly'
  BY DEF DeferRead, DeferWrite, work, history, Files, AckedKnowingly, Answered, Target
<1>2. CASE DeferRead(e)
  BY <1>1, <1>2 DEF DeferRead, disk, history, Files, NotLost, Answered
<1>3. CASE DeferWrite(e)
  <2>1. Bump(deferral[e]) # NoFile
    BY <1>3, BumpInCounts, QueueAssumption DEF DeferWrite, Counts, NoFile
  <2> QED BY <1>1, <1>3, <2>1 DEF TypeOK, DeferWrite, history, Files, NotLost, Answered
<1> QED BY <1>2, <1>3

LEMMA NextFiles == TypeOK /\ Files /\ [Next]_vars => Files'
<1>1. ASSUME TypeOK, Files, Next PROVE Files'
  BY <1>1, HandleKeepsFiles, SendKeepsFiles, RecoverKeepsFiles, CrashKeepsFiles,
     DeferKeepsFiles DEF Next
<1>2. ASSUME Files, UNCHANGED vars PROVE Files'
  BY <1>2 DEF vars, disk, work, history, Files, AckedKnowingly, NotLost, Answered, Target
<1> QED BY <1>1, <1>2

LEMMA NextMarkers == TypeOK /\ MarkersCollected /\ [Next]_vars => MarkersCollected'
<1> SUFFICES ASSUME TypeOK, MarkersCollected, [Next]_vars, NEW x \in marker'
             PROVE  \/ \E v \in Workers : step'[v] = "unlink" /\ Target(v)' = x
                    \/ crashes' > 0 /\ \A r \in Startups : step'[r] = "idle"
  BY DEF MarkersCollected
<1>1. ASSUME NEW w \in Workers, Handle(w)
      PROVE  \/ \E v \in Workers : step'[v] = "unlink" /\ Target(v)' = x
             \/ crashes' > 0 /\ \A r \in Startups : step'[r] = "idle"
  <2>1. step[w] \in Working /\ Target(w) \in Entries
    BY <1>1, TargetInEntries DEF Handle, SendSucceeds, SendFails, SendSwallowsFailure,
       AckRename, AckFails, AckUnlink, FailRead, FailWrite, MoveToFailed, MoveFails, Working
  <2>2. \A v \in Workers : v # w => step'[v] = step[v] /\ Target(v)' = Target(v)
    BY <1>1 DEF TypeOK, GoTo, Target, Handle, SendSucceeds, SendFails, SendSwallowsFailure,
       AckRename, AckFails, AckUnlink, FailRead, FailWrite, MoveToFailed, MoveFails,
       Finish, work
  <2>3. crashes' = crashes
    BY <1>1 DEF Handle, SendSucceeds, SendFails, SendSwallowsFailure, AckRename, AckFails,
       AckUnlink, FailRead, FailWrite, MoveToFailed, MoveFails
  <2>4. step[w] # "idle"
    BY <2>1 DEF Working
  <2>5. CASE x \in marker /\ (step[w] = "unlink" => x # Target(w))
    <3>1. CASE crashes > 0 /\ \A r \in Startups : step[r] = "idle"
      BY <2>2, <2>3, <2>4, <3>1 DEF Workers, Recoveries
    <3>2. ASSUME NEW v \in Workers, step[v] = "unlink", Target(v) = x
          PROVE  step'[v] = "unlink" /\ Target(v)' = x
      BY <2>2, <2>5, <3>2
    <3> QED BY <2>5, <3>1, <3>2 DEF MarkersCollected
  <2>6. CASE x \notin marker
    <3>1. AckRename(w) /\ file[Target(w)] # NoFile
      BY <1>1, <2>6 DEF Handle, SendSucceeds, SendFails, SendSwallowsFailure,
         AckRename, AckFails, AckUnlink, FailRead, FailWrite, MoveToFailed, MoveFails, disk
    <3>2. step'[w] = "unlink" /\ Target(w)' = Target(w) /\ x = Target(w)
      BY <2>6, <3>1 DEF TypeOK, AckRename, GoTo, Target
    <3> QED BY <3>2
  <2>7. CASE step[w] = "unlink" /\ x = Target(w)
    BY <1>1, <2>7 DEF Handle, SendSucceeds, SendFails, SendSwallowsFailure, AckRename,
       AckFails, AckUnlink, FailRead, FailWrite, MoveToFailed, MoveFails
  <2> QED BY <2>5, <2>6, <2>7
<1>2. ASSUME NEW e \in Entries, Send(e)
      PROVE  \/ \E v \in Workers : step'[v] = "unlink" /\ Target(v)' = x
             \/ crashes' > 0 /\ \A r \in Startups : step'[r] = "idle"
  <2>1. x \in marker /\ crashes' = crashes /\ \A v \in Workers : Target(v)' = Target(v)
    BY <1>2 DEF Send, Enqueue, SendUnqueued, ClaimToSend, SendAborted, disk, work, Target
  <2>2. step[e] # "unlink" /\ \A v \in Workers : v # e => step'[v] = step[v]
    BY <1>2 DEF TypeOK, Send, Enqueue, SendUnqueued, ClaimToSend, SendAborted, GoTo
  <2>3. \A r \in Startups : r \in Workers /\ r # e
    BY QueueAssumption DEF Workers, Recoveries
  <2> QED BY <2>1, <2>2, <2>3 DEF MarkersCollected
<1>3. ASSUME NEW r \in Recoveries, Recover(r)
      PROVE  \/ \E v \in Workers : step'[v] = "unlink" /\ Target(v)' = x
             \/ crashes' > 0 /\ \A q \in Startups : step'[q] = "idle"
  <2>1. ~ Scan(r)
    BY DEF Scan
  <2>2. x \in marker /\ crashes' = crashes
    BY <1>3, <2>1 DEF Recover, Visit, Reread, RecoveryThrows, ScanOver, BudgetExceeded, disk
  <2>3. step[r] # "unlink" /\ step[r] # "idle"
    BY <1>3, <2>1 DEF Recover, Visit, Reread, RecoveryThrows, ScanOver, BudgetExceeded
  <2>4. \A v \in Workers : v # r => step'[v] = step[v] /\ Target(v)' = Target(v)
    BY <1>3 DEF TypeOK, GoTo, Target, Recover, Scan, Visit, Reread, RecoveryThrows, ScanOver,
       BudgetExceeded, Finish, work
  <2> QED BY <2>2, <2>3, <2>4 DEF MarkersCollected, Workers, Recoveries
<1>4. CASE Crash
  <2>1. crashes' > 0
    BY <1>4 DEF Crash, TypeOK
  <2> QED BY <1>4, <2>1 DEF Crash, Workers, Recoveries
<1>5. CASE UNCHANGED vars \/ \E e \in Entries : DeferRead(e) \/ DeferWrite(e)
  BY <1>5 DEF vars, disk, work, DeferRead, DeferWrite, MarkersCollected, Target
<1> QED BY <1>1, <1>2, <1>3, <1>4, <1>5 DEF Next

-----------------------------------------------------------------------------
(* The invariant and what follows from it.                                 *)

LEMMA Inductive == Spec => []IInv
<1>1. IInv /\ [Next]_vars => IInv'
  BY NextTypes, NextUnclaimed, NextClaims, NextFiles, NextMarkers DEF IInv
<1> QED BY <1>1, InitIInv, PTL DEF Spec

(* Every variable keeps its type; a recovery is at work on an entry if and *)
(* only if it has one in hand.                                             *)
THEOREM TypeCorrect == Spec => []TypeOK
<1>1. IInv => TypeOK
  BY DEF IInv
<1> QED BY <1>1, Inductive, PTL

(* No path through a send, a failure or a skipped entry leaks a claim, and *)
(* none drops the claim of an entry still in hand (releaseRecoveryEntry).  *)
THEOREM ClaimsAreExact == Spec => []ClaimsExact
<1>1. IInv => ClaimsExact
  BY DEF IInv, Claims, Claimed, Holds, ClaimsExact, Holders
<1> QED BY <1>1, Inductive, PTL

(* However many recoveries and drains visit an entry from however old a    *)
(* snapshot, at most one worker has it in hand under a claim.              *)
THEOREM AtMostOneHolder == Spec => []OneHolder
<1>1. ASSUME Exclusive PROVE OneHolder
  <2> SUFFICES ASSUME NEW e \in Entries PROVE Cardinality(Holders(e)) <= 1
    BY DEF OneHolder
  <2>1. CASE Holders(e) = {}
    BY <2>1, FS_EmptySet
  <2>2. CASE Holders(e) # {}
    <3>1. PICK w \in Workers : Holds(w, e)
      BY <2>2 DEF Holders, Holds
    <3>2. Holders(e) = {w}
      BY <1>1, <3>1 DEF Exclusive, Holders, Holds
    <3> QED BY <3>2, FS_Singleton
  <2> QED BY <2>1, <2>2
<1>2. IInv => OneHolder
  BY <1>1 DEF IInv, Claims
<1> QED BY <1>2, Inductive, PTL

(* A .delivered marker is about to be removed, or is a crash's and waits   *)
(* for the next scan.                                                      *)
THEOREM MarkersAreCollected == Spec => []MarkersCollected
<1>1. IInv => MarkersCollected
  BY DEF IInv
<1> QED BY <1>1, Inductive, PTL

-----------------------------------------------------------------------------
(* The queue implements its promise.                                       *)

Fates == [e \in Entries |-> Fate(e)]

(* What a step of the promise does to the message it is about.             *)
Promised(old, new) ==
    \/ new = old
    \/ old = "new" /\ new = "owed"
    \/ old # "delivered" /\ new = "delivered"
    \/ old \in {"new", "owed"} /\ new = "given up"

LEMMA OneFate ==
    ASSUME NEW m \in Entries, Promised(Fate(m), Fate(m)'),
           \A e \in Entries : e # m => Fate(e)' = Fate(e)
    PROVE  [Promise!Next]_Fates
<1>1. Fates' = [Fates EXCEPT ![m] = Fate(m)'] /\ Fates[m] = Fate(m)
  BY DEF Fates
<1>2. CASE Fate(m)' = Fate(m)
  BY <1>2 DEF Fates
<1>3. CASE Fate(m) = "new" /\ Fate(m)' = "owed"
  BY <1>1, <1>3 DEF Fates, Promise!Next, Promise!Accept
<1>4. CASE Fate(m) # "delivered" /\ Fate(m)' = "delivered"
  BY <1>1, <1>4 DEF Fates, Promise!Next, Promise!Deliver
<1>5. CASE Fate(m) \in {"new", "owed"} /\ Fate(m)' = "given up"
  BY <1>1, <1>5 DEF Fates, Promise!Next, Promise!GiveUp
<1> QED BY <1>2, <1>3, <1>4, <1>5 DEF Promised

(* A step that leaves what the fates depend on.                            *)
LEMMA SameFates ==
    ASSUME UNCHANGED <<bestEffort, file, failed, delivered, cancelled>>,
           \A e \in Entries : step'[e] = "idle" <=> step[e] = "idle"
    PROVE  UNCHANGED Fates
BY DEF Fates, Fate

(* One that changes them for one message.                                  *)
LEMMA OtherFates ==
    ASSUME NEW m, UNCHANGED bestEffort, NEW e \in Entries, e # m,
           file'[e] = file[e], step'[e] = "idle" <=> step[e] = "idle",
           e \in failed' <=> e \in failed, e \in delivered' <=> e \in delivered,
           e \in cancelled' <=> e \in cancelled
    PROVE  Fate(e)' = Fate(e)
BY DEF Fate

LEMMA NoLostFate ==
    ASSUME NotLost, NEW e \in Entries
    PROVE  Fate(e) \in {"new", "owed", "delivered", "given up"}
BY DEF NotLost, Answered, Fate

LEMMA HandlePromised ==
    ASSUME TypeOK, Files, NEW w \in Workers, Handle(w), UNCHANGED bestEffort
    PROVE  [Promise!Next]_Fates
<1>0. step[w] \in Working /\ Target(w) \in Entries
  BY TargetInEntries DEF Handle, SendSucceeds, SendFails, SendSwallowsFailure, AckRename,
     AckFails, AckUnlink, FailRead, FailWrite, MoveToFailed, MoveFails, Working
<1>1. PICK m \in Entries : m = Target(w)
  BY <1>0
<1>2. \A e \in Entries : step'[e] = "idle" <=> step[e] = "idle"
  BY <1>0 DEF TypeOK, Workers, Handle, SendSucceeds, SendFails, SendSwallowsFailure,
     AckRename, AckFails, AckUnlink, FailRead, FailWrite, MoveToFailed, MoveFails,
     Finish, GoTo, Working
<1>3. \A e \in Entries : e # m =>
          /\ file'[e] = file[e]
          /\ e \in failed' <=> e \in failed
          /\ e \in delivered' <=> e \in delivered
          /\ e \in cancelled' <=> e \in cancelled
  BY <1>1 DEF TypeOK, Handle, SendSucceeds, SendFails, SendSwallowsFailure, AckRename,
     AckFails, AckUnlink, FailRead, FailWrite, MoveToFailed, MoveFails, disk, history
<1>4. \A e \in Entries : e # m => Fate(e)' = Fate(e)
  BY <1>2, <1>3, OtherFates
<1>5. Fate(m) \in {"new", "owed", "delivered", "given up"}
  BY <1>1, NoLostFate DEF Files
<1>6. Promised(Fate(m), Fate(m)')
  <2>1. CASE SendSucceeds(w)
    BY <1>1, <1>5, <2>1 DEF SendSucceeds, disk, Promised, Fate
  <2>2. CASE \/ SendFails(w) \/ SendSwallowsFailure(w) \/ AckFails(w) \/ AckUnlink(w)
             \/ FailRead(w) \/ MoveFails(w)
    <3>1. UNCHANGED <<file, failed, delivered, cancelled>>
      BY <2>2 DEF SendFails, SendSwallowsFailure, AckFails, AckUnlink, FailRead,
             MoveFails, disk, history
    <3> QED BY <1>1, <1>2, <3>1 DEF Promised, Fate
  <2>3. CASE AckRename(w)
    <3>1. Answered(m) /\ UNCHANGED <<failed, delivered, cancelled>>
      BY <1>1, <2>3 DEF AckRename, Files, AckedKnowingly
    <3> QED BY <1>1, <3>1 DEF Answered, Promised, Fate
  <2>4. CASE FailWrite(w)
    <3>1. file'[m] # NoFile /\ UNCHANGED <<failed, delivered, cancelled>>
      BY <1>1, <2>4, BumpInCounts, QueueAssumption
         DEF FailWrite, history, TypeOK, Counts, NoFile
    <3> QED BY <1>1, <1>5, <3>1 DEF Promised, Fate
  <2>5. CASE MoveToFailed(w)
    <3>1. UNCHANGED <<delivered, cancelled>> /\
          \/ file[m] # NoFile /\ failed' = failed \cup {m}
          \/ UNCHANGED <<file, failed>>
      BY <1>1, <2>5 DEF MoveToFailed, history
    <3> QED BY <1>1, <1>2, <3>1 DEF Promised, Fate
  <2> QED BY <2>1, <2>2, <2>3, <2>4, <2>5 DEF Handle
<1> QED BY <1>4, <1>6, OneFate

LEMMA SendPromised ==
    ASSUME TypeOK, Files, NEW m \in Entries, Send(m), UNCHANGED bestEffort
    PROVE  [Promise!Next]_Fates
<1>1. \A e \in Entries : e # m =>
          /\ file'[e] = file[e]
          /\ step'[e] = step[e]
          /\ e \in failed' <=> e \in failed
          /\ e \in delivered' <=> e \in delivered
          /\ e \in cancelled' <=> e \in cancelled
  BY DEF TypeOK, Workers, Send, Enqueue, SendUnqueued, ClaimToSend, SendAborted, GoTo,
     disk, history
<1>2. \A e \in Entries : e # m => Fate(e)' = Fate(e)
  BY <1>1, OtherFates
<1>3. Fate(m) \in {"new", "owed", "delivered", "given up"}
  BY NoLostFate DEF Files
<1>4. Promised(Fate(m), Fate(m)')
  <2>1. CASE Enqueue(m)
    <3>1. file'[m] # NoFile /\ UNCHANGED <<failed, delivered, cancelled>>
      BY <2>1, QueueAssumption DEF Enqueue, history, TypeOK, NoFile
    <3> QED BY <1>3, <3>1 DEF Promised, Fate
  <2>2. ASSUME NEW accepted \in BOOLEAN, SendUnqueued(m, accepted)
        PROVE  Promised(Fate(m), Fate(m)')
    BY <1>3, <2>2 DEF SendUnqueued, disk, Promised, Fate
  <2>3. CASE ClaimToSend(m)
    <3>1. UNCHANGED <<file, failed, delivered, cancelled>>
      BY <2>3 DEF ClaimToSend, disk, history
    <3>2. step[m] # "idle" /\ step'[m] # "idle"
      BY <2>3 DEF TypeOK, Workers, ClaimToSend, GoTo
    <3> QED BY <3>1, <3>2 DEF Promised, Fate
  <2>4. CASE SendAborted(m)
    BY <1>3, <2>4 DEF SendAborted, disk, Promised, Fate
  <2> QED BY <2>1, <2>2, <2>3, <2>4 DEF Send
<1> QED BY <1>2, <1>4, OneFate

LEMMA DeferPromised ==
    ASSUME TypeOK, Files, NEW m \in Entries, DeferWrite(m), UNCHANGED bestEffort
    PROVE  [Promise!Next]_Fates
<1>1. UNCHANGED <<failed, step, delivered, cancelled>>
  BY DEF DeferWrite, history
<1>2. file'[m] # NoFile /\ \A e \in Entries : e # m => file'[e] = file[e]
  BY BumpInCounts, QueueAssumption DEF DeferWrite, TypeOK, Counts, NoFile
<1>3. \A e \in Entries : e # m => Fate(e)' = Fate(e)
  BY <1>1, <1>2, OtherFates
<1>4. Fate(m) \in {"new", "owed", "delivered", "given up"}
  BY NoLostFate DEF Files
<1>5. Promised(Fate(m), Fate(m)')
  BY <1>1, <1>2, <1>4 DEF Promised, Fate
<1> QED BY <1>3, <1>5, OneFate

(* Recovery, a crash and a stutter leave every fate as it is.              *)
LEMMA OthersPromised ==
    ASSUME TypeOK, UNCHANGED bestEffort,
           \/ \E r \in Recoveries : Recover(r)
           \/ \E e \in Entries : DeferRead(e)
           \/ Crash
    PROVE  [Promise!Next]_Fates
<1>1. UNCHANGED <<file, failed, delivered, cancelled>>
  BY DEF Recover, Scan, Visit, Reread, RecoveryThrows, ScanOver, BudgetExceeded,
     DeferRead, Crash,
     disk, history
<1>2. \A e \in Entries : step'[e] = "idle" <=> step[e] = "idle"
  <2>1. ASSUME NEW r \in Recoveries, Recover(r)
        PROVE  \A e \in Entries : step'[e] = step[e]
    BY <2>1, QueueAssumption DEF TypeOK, Workers, GoTo, Recover, Scan, Visit, Reread,
       RecoveryThrows, ScanOver, BudgetExceeded, Finish
  <2>2. ASSUME Crash PROVE \A e \in Entries : step'[e] = "idle" <=> step[e] = "idle"
    BY <2>2, QueueAssumption DEF Crash, Workers
  <2> QED BY <2>1, <2>2 DEF DeferRead
<1> QED BY <1>1, <1>2, SameFates

(* Whatever crashes and races there are, a message whose failures are      *)
(* reported is owed from its acceptance until it is delivered or given up  *)
(* for a known reason, and never owed or given up once delivered: every    *)
(* behaviour of the queue is one of OutboundPromise.                       *)
THEOREM PromiseKept == Spec => KeepsPromise
<1>1. Init => Promise!Init
  BY DEF Init, Promise!Init, Fate, Workers
<1>2. IInv /\ [Next]_vars => [Promise!Next]_Fates
  <2>1. ASSUME IInv, Next PROVE [Promise!Next]_Fates
    BY <2>1, HandlePromised, SendPromised, DeferPromised, OthersPromised DEF IInv, Next
  <2>2. ASSUME UNCHANGED vars PROVE UNCHANGED Fates
    BY <2>2, SameFates DEF vars, disk, history
  <2> QED BY <2>1, <2>2
<1> QED BY <1>1, <1>2, Inductive, PTL DEF Spec, KeepsPromise, Promise!Spec, Fates
=============================================================================
