---------------------------- MODULE DeliveryQueue ----------------------------
(***************************************************************************)
(* The write-ahead queue of outbound messages: infra/outbound/deliver.ts,  *)
(* delivery-queue-storage.ts and delivery-queue-recovery.ts, and the       *)
(* restart notice of gateway/server-restart-sentinel.ts that uses it.      *)
(*                                                                         *)
(* A message is written to a file before it is sent; the file is removed   *)
(* after the send succeeded, rewritten with a higher retry count after it  *)
(* failed, and moved to failed/ when it is given up.  The sender of a      *)
(* message, the recovery at startup and the drain at a reconnect of its    *)
(* channel work on the same files concurrently; a set of claims in memory  *)
(* keeps them apart.  Every action ends where the code awaits the file     *)
(* system or the channel.  A crash loses the memory, never the files.      *)
(***************************************************************************)
EXTENDS Naturals, FiniteSets

CONSTANTS
    Replies,        \* messages sent by deliverOutboundPayloads
    Notices,        \* restart notices: queued, but sent without a claim
    Lenient,        \* replies whose caller may set bestEffort
    Startups,       \* calls of recoverPendingDeliveries
    Drains,         \* calls of drainPendingDeliveries, all for one drainKey
    NoEntry,
    MAX_RETRIES,
    MaxCrashes      \* bound: crashes of the process

Entries == Replies \cup Notices
Recoveries == Startups \cup Drains
Workers == Entries \cup Recoveries   \* each message has a sender of its own

ASSUME QueueAssumption ==
    /\ Replies \cap Notices = {}
    /\ Lenient \subseteq Replies
    /\ Startups \cap Drains = {}
    /\ Entries \cap Recoveries = {}
    /\ NoEntry \notin Entries
    /\ MAX_RETRIES \in Nat \ {0}
    /\ MaxCrashes \in Nat

Counts == 0..MAX_RETRIES             \* larger retry counts behave alike
NoFile == MAX_RETRIES + 1
NoCall == MAX_RETRIES + 1            \* values of deferral that are no counts
Due == MAX_RETRIES + 2

VARIABLES
    bestEffort,  \* entries with bestEffort set and no onError callback
    file,        \* {id}.json: the retry count it holds, or NoFile
    marker,      \* the entries whose {id}.delivered exists
    failed,      \* the entries whose failed/{id}.json exists
    claims,      \* entriesInProgress
    step,        \* where each worker is
    target,      \* the entry a recovery has in hand
    seen,        \* the retry count failDelivery has read
    todo,        \* the rest of the snapshot a recovery visits
    deferral,    \* the call of failDelivery for an entry that
                 \* deferRemainingEntriesForBudget makes without a claim:
                 \* none, due, or the count it has read
    delivered,   \* history: messages the channel accepted at least once
    cancelled,   \* history: messages whose send was aborted, or failed with
                 \* nothing queued: their caller knows
    acked,       \* history: entries a recovery marked as delivered on disk
    crashes

disk == <<file, marker, failed>>
work == <<target, seen, todo>>
history == <<delivered, cancelled, acked>>
vars == <<bestEffort, disk, claims, step, work, deferral, history, crashes>>

Working == {"reread", "sending", "ack", "unlink", "fail", "rewrite", "move"}

Target(w) == IF w \in Recoveries THEN target[w] ELSE w

TypeOK ==
    /\ file \in [Entries -> Counts \cup {NoFile}]
    /\ step \in [Workers -> Working \cup {"idle", "written", "scanned", "looping", "done"}]
    /\ target \in [Recoveries -> Entries \cup {NoEntry}]
    /\ \A r \in Recoveries : step[r] \in Working <=> target[r] # NoEntry
    /\ seen \in [Workers -> Counts]
    /\ todo \in [Recoveries -> SUBSET Entries]
    /\ deferral \in [Entries -> Counts \cup {NoCall, Due}]
    /\ \A s \in {marker, failed, claims, delivered, cancelled, acked} :
           s \subseteq Entries
    /\ bestEffort \subseteq Lenient
    /\ crashes \in 0..MaxCrashes

Init ==
    /\ bestEffort \in SUBSET Lenient
    /\ file = [e \in Entries |-> NoFile]
    /\ marker = {} /\ failed = {}
    /\ claims = {}
    /\ step = [w \in Workers |-> "idle"]
    /\ target = [r \in Recoveries |-> NoEntry]
    /\ seen = [w \in Workers |-> 0]
    /\ todo = [r \in Recoveries |-> {}]
    /\ deferral = [e \in Entries |-> NoCall]
    /\ delivered = {} /\ cancelled = {} /\ acked = {}
    /\ crashes = 0

-----------------------------------------------------------------------------
(* Helpers.                                                                *)

GoTo(w, s) == step' = [step EXCEPT ![w] = s]

Bump(n) == IF n < MAX_RETRIES THEN n + 1 ELSE n

(* The end of a worker's work on its entry: the claim is released, a       *)
(* sender is done and a recovery goes on with its snapshot.                *)
FinishClaimed(w) ==           \* mutant of Finish: the claim is leaked
    /\ IF w \in Recoveries
       THEN GoTo(w, "looping") /\ target' = [target EXCEPT ![w] = NoEntry]
       ELSE GoTo(w, "done") /\ UNCHANGED target
    /\ seen' = [seen EXCEPT ![w] = 0]
    /\ UNCHANGED claims

Finish(w) ==
    /\ claims' = IF w \in Notices THEN claims ELSE claims \ {Target(w)}
    /\ IF w \in Recoveries
       THEN GoTo(w, "looping") /\ target' = [target EXCEPT ![w] = NoEntry]
       ELSE GoTo(w, "done") /\ UNCHANGED target
    /\ seen' = [seen EXCEPT ![w] = 0]

-----------------------------------------------------------------------------
(* Senders.                                                                *)

(* enqueueDelivery has renamed the temporary file to {id}.json.  A notice  *)
(* is sent right away, a reply is claimed first.                           *)
Enqueue(e) ==
    /\ step[e] = "idle"
    /\ file' = [file EXCEPT ![e] = 0]
    /\ GoTo(e, IF e \in Notices THEN "sending" ELSE "written")
    /\ UNCHANGED <<marker, failed, claims, work, deferral, history, crashes>>

(* The write of the queue file failed: the message is sent without one.    *)
SendUnqueued(e, accepted) ==
    /\ step[e] = "idle"
    /\ GoTo(e, "done")
    /\ IF accepted THEN delivered' = delivered \cup {e} /\ UNCHANGED cancelled
                   ELSE cancelled' = cancelled \cup {e} /\ UNCHANGED delivered
    /\ UNCHANGED <<disk, claims, work, deferral, acked, crashes>>

(* withActiveDeliveryClaim: claimed by another worker, the send is left to *)
(* that worker.                                                            *)
ClaimToSend(e) ==
    /\ step[e] = "written"
    /\ IF e \in claims THEN GoTo(e, "done") /\ UNCHANGED claims
                       ELSE GoTo(e, "sending") /\ claims' = claims \cup {e}
    /\ UNCHANGED <<disk, work, deferral, history, crashes>>

-----------------------------------------------------------------------------
(* What every worker does with the entry in its hands.                     *)

SendSucceeds(w) ==
    /\ step[w] = "sending"
    /\ delivered' = delivered \cup {Target(w)}
    /\ GoTo(w, "ack")
    /\ UNCHANGED <<disk, claims, work, deferral, cancelled, acked, crashes>>

(* The send fails, or only some of its payloads arrive; a recovery moves   *)
(* an entry whose error is permanent.                                      *)
SendFailsAcked(w) ==          \* mutant of SendFails: acknowledges a failure
    /\ step[w] = "sending"
    /\ GoTo(w, "ack")
    /\ UNCHANGED <<disk, claims, work, deferral, history, crashes>>

SendFails(w) ==
    /\ step[w] = "sending"
    /\ \/ GoTo(w, "fail")
       \/ w \in Recoveries /\ GoTo(w, "move")
    /\ UNCHANGED <<disk, claims, work, deferral, history, crashes>>

(* bestEffort catches the failure of a payload inside the send; with no    *)
(* onError to observe it, the send looks like a successful one.            *)
SendSwallowsFailure(w) ==
    /\ step[w] = "sending"
    /\ Target(w) \in bestEffort
    /\ GoTo(w, "ack")
    /\ UNCHANGED <<disk, claims, work, deferral, history, crashes>>

(* An aborted send of a reply is acknowledged like a successful one.       *)
SendAborted(e) ==
    /\ e \in Replies
    /\ step[e] = "sending"
    /\ cancelled' = cancelled \cup {e}
    /\ GoTo(e, "ack")
    /\ UNCHANGED <<disk, claims, work, deferral, delivered, acked, crashes>>

(* ackDelivery, first phase: rename the file to the marker; when the file  *)
(* is gone, remove a leftover marker instead.                              *)
AckRename(w) ==
    LET e == Target(w)
    IN  /\ step[w] = "ack"
        /\ IF file[e] # NoFile
           THEN /\ file' = [file EXCEPT ![e] = NoFile]
                /\ marker' = marker \cup {e}
                /\ acked' = IF w \in Recoveries THEN acked \cup {e} ELSE acked
                /\ GoTo(w, "unlink")
                /\ UNCHANGED <<claims, target, seen>>
           ELSE /\ marker' = marker \ {e}
                /\ Finish(w)
                /\ UNCHANGED <<file, acked>>
        /\ UNCHANGED <<failed, todo, deferral, delivered, cancelled, crashes>>

(* The rename fails for another reason: a sender ignores the error, a      *)
(* recovery takes it for a failed delivery.                                *)
AckFails(w) ==
    /\ step[w] = "ack"
    /\ IF w \in Recoveries
       THEN GoTo(w, "fail") /\ UNCHANGED <<claims, target, seen>>
       ELSE Finish(w)
    /\ UNCHANGED <<disk, todo, deferral, history, crashes>>

(* ackDelivery, second phase.                                              *)
AckUnlink(w) ==
    /\ step[w] = "unlink"
    /\ marker' = marker \ {Target(w)}
    /\ Finish(w)
    /\ UNCHANGED <<file, failed, todo, deferral, history, crashes>>

(* failDelivery reads the file and, in a later step, replaces it.          *)
FailRead(w) ==
    LET e == Target(w)
    IN  /\ step[w] = "fail"
        /\ IF file[e] = NoFile
           THEN Finish(w)
           ELSE /\ seen' = [seen EXCEPT ![w] = file[e]]
                /\ GoTo(w, "rewrite")
                /\ UNCHANGED <<claims, target>>
        /\ UNCHANGED <<disk, todo, deferral, history, crashes>>

FailWrite(w) ==
    /\ step[w] = "rewrite"
    /\ file' = [file EXCEPT ![Target(w)] = Bump(seen[w])]
    /\ Finish(w)
    /\ UNCHANGED <<marker, failed, todo, deferral, history, crashes>>

(* moveToFailed; nothing happens when the file is gone.                    *)
MoveToFailed(w) ==
    LET e == Target(w)
    IN  /\ step[w] = "move"
        /\ IF file[e] # NoFile
           THEN /\ file' = [file EXCEPT ![e] = NoFile]
                /\ failed' = failed \cup {e}
           ELSE UNCHANGED <<file, failed>>
        /\ Finish(w)
        /\ UNCHANGED <<marker, todo, deferral, history, crashes>>

(* The file cannot be moved: the error is logged, and the entry stays.  (A *)
(* drain may also throw over an exhausted entry, see RecoveryThrows.)      *)
MoveFails(w) ==
    /\ step[w] = "move"
    /\ Finish(w)
    /\ UNCHANGED <<disk, todo, deferral, history, crashes>>

-----------------------------------------------------------------------------
(* Recovery at startup and drain at a reconnect.                           *)

(* loadPendingDeliveries: the entries on disk now; leftover markers are    *)
(* removed.  A drain does not start while another one runs.                *)
ScanKeeping(r) ==             \* mutant of Scan: leaves the markers
    /\ step[r] = "idle"
    /\ r \in Drains => \A d \in Drains : step[d] \in {"idle", "done"}
    /\ todo' = [todo EXCEPT ![r] = {e \in Entries : file[e] # NoFile}]
    /\ GoTo(r, "scanned")
    /\ UNCHANGED <<disk, claims, target, seen, deferral, history, crashes>>

Scan(r) ==
    /\ step[r] = "idle"
    /\ r \in Drains => \A d \in Drains : step[d] \in {"idle", "done"}
    /\ todo' = [todo EXCEPT ![r] = {e \in Entries : file[e] # NoFile}]
    /\ marker' = {}
    /\ GoTo(r, "scanned")
    /\ UNCHANGED <<file, failed, claims, target, seen, deferral, history, crashes>>

(* The next entry of the snapshot, unless another worker claims it.        *)
VisitUnchecked(r, e) ==       \* mutant of Visit: claims without looking
    /\ step[r] \in {"scanned", "looping"}
    /\ e \in todo[r]
    /\ todo' = [todo EXCEPT ![r] = @ \ {e}]
    /\ claims' = claims \cup {e}
    /\ target' = [target EXCEPT ![r] = e]
    /\ GoTo(r, "reread")
    /\ UNCHANGED <<disk, seen, deferral, history, crashes>>

VisitSkipping(r, e) ==        \* mutant of Visit: the entry is set before the check
    /\ step[r] \in {"scanned", "looping"}
    /\ e \in todo[r]
    /\ todo' = [todo EXCEPT ![r] = @ \ {e}]
    /\ target' = [target EXCEPT ![r] = e]
    /\ GoTo(r, IF e \in claims THEN "looping" ELSE "reread")
    /\ claims' = claims \cup {e}
    /\ UNCHANGED <<disk, seen, deferral, history, crashes>>

Visit(r, e) ==
    /\ step[r] \in {"scanned", "looping"}
    /\ e \in todo[r]
    /\ todo' = [todo EXCEPT ![r] = @ \ {e}]
    /\ IF e \in claims
       THEN GoTo(r, "looping") /\ UNCHANGED <<claims, target>>
       ELSE /\ claims' = claims \cup {e}
            /\ target' = [target EXCEPT ![r] = e]
            /\ GoTo(r, "reread")
    /\ UNCHANGED <<disk, seen, deferral, history, crashes>>

(* loadPendingDelivery after the claim: the entry is gone or no longer one *)
(* of this drain's, has no retries left, has to wait for its backoff       *)
(* (never at its first attempt after a crash), or is sent.                 *)
Reread(r) ==
    LET e == target[r]
    IN  /\ step[r] = "reread"
        /\ \/ /\ \/ r \in Drains
                 \/ file[e] = NoFile \/ file[e] \in 1..(MAX_RETRIES - 1)
              /\ Finish(r)
           \/ /\ file[e] = MAX_RETRIES
              /\ GoTo(r, "move")
              /\ UNCHANGED <<claims, target, seen>>
           \/ /\ file[e] < MAX_RETRIES
              /\ GoTo(r, "sending")
              /\ UNCHANGED <<claims, target, seen>>
        /\ UNCHANGED <<disk, todo, deferral, history, crashes>>

(* An entry that cannot be read ends the whole recovery, and a drain also  *)
(* when one without retries cannot be moved.                               *)
RecoveryThrows(r) ==
    /\ \/ step[r] = "reread"
       \/ r \in Drains /\ step[r] = "move" /\ file[target[r]] = MAX_RETRIES
    /\ claims' = claims \ {target[r]}
    /\ GoTo(r, "done")
    /\ target' = [target EXCEPT ![r] = NoEntry]
    /\ seen' = [seen EXCEPT ![r] = 0]
    /\ todo' = [todo EXCEPT ![r] = {}]
    /\ UNCHANGED <<disk, deferral, history, crashes>>

ScanOver(r) ==
    /\ step[r] \in {"scanned", "looping"}
    /\ todo[r] = {}
    /\ GoTo(r, "done")
    /\ UNCHANGED <<disk, claims, work, deferral, history, crashes>>

(* The time budget of a startup recovery is spent, after some entry at     *)
(* least: the rest of its snapshot is deferred, all entries at once and    *)
(* without a claim.                                                        *)
BudgetExceeded(r) ==
    /\ r \in Startups
    /\ step[r] = "looping"
    /\ todo[r] # {}
    /\ deferral' = [e \in Entries |->
                       IF e \in todo[r] /\ deferral[e] = NoCall THEN Due
                       ELSE deferral[e]]
    /\ todo' = [todo EXCEPT ![r] = {}]
    /\ GoTo(r, "done")
    /\ UNCHANGED <<disk, claims, target, seen, history, crashes>>

DeferRead(e) ==
    /\ deferral[e] = Due
    /\ deferral' = [deferral EXCEPT ![e] = IF file[e] = NoFile THEN NoCall
                                          ELSE file[e]]
    /\ UNCHANGED <<disk, claims, step, work, history, crashes>>

DeferWrite(e) ==
    /\ deferral[e] \in Counts
    /\ file' = [file EXCEPT ![e] = Bump(deferral[e])]
    /\ deferral' = [deferral EXCEPT ![e] = NoCall]
    /\ UNCHANGED <<marker, failed, claims, step, work, history, crashes>>

-----------------------------------------------------------------------------
(* The process dies: only the files stay.  The next one recovers.          *)
Crash ==
    /\ crashes < MaxCrashes
    /\ crashes' = crashes + 1
    /\ claims' = {}
    /\ step' = [w \in Workers |->
                   IF w \in Recoveries \/ step[w] = "idle" THEN "idle" ELSE "done"]
    /\ target' = [r \in Recoveries |-> NoEntry]
    /\ seen' = [w \in Workers |-> 0]
    /\ todo' = [r \in Recoveries |-> {}]
    /\ deferral' = [e \in Entries |-> NoCall]
    /\ UNCHANGED <<disk, history>>

Send(e) ==
    \/ Enqueue(e)
    \/ \E accepted \in BOOLEAN : SendUnqueued(e, accepted)
    \/ ClaimToSend(e)
    \/ SendAborted(e)

Handle(w) ==
    \/ SendSucceeds(w) \/ SendFails(w) \/ SendSwallowsFailure(w)
    \/ AckRename(w) \/ AckFails(w) \/ AckUnlink(w)
    \/ FailRead(w) \/ FailWrite(w) \/ MoveToFailed(w) \/ MoveFails(w)

Recover(r) ==
    \/ Scan(r) \/ (\E e \in Entries : Visit(r, e)) \/ Reread(r)
    \/ RecoveryThrows(r) \/ ScanOver(r) \/ BudgetExceeded(r)

Next ==
    /\ \/ \E e \in Entries : Send(e) \/ DeferRead(e) \/ DeferWrite(e)
       \/ \E w \in Workers : Handle(w)
       \/ \E r \in Recoveries : Recover(r)
       \/ Crash
    /\ UNCHANGED bestEffort

Spec == Init /\ [][Next]_vars

-----------------------------------------------------------------------------
(* The claims are exact: an entry is claimed if and only if a worker that  *)
(* takes claims has it in hand, so no path through a send, a failure or a  *)
(* skipped entry leaks a claim and blocks the entry until a restart        *)
(* (releaseRecoveryEntry in the finally blocks).                           *)
Holders(e) ==
    {w \in Workers \ Notices : step[w] \in Working /\ Target(w) = e}

ClaimsExact == \A e \in Entries : e \in claims <=> Holders(e) # {}

(* Two workers never have the same entry in hand under a claim, whatever   *)
(* snapshots they work from (entriesInProgress).                           *)
OneHolder == \A e \in Entries : Cardinality(Holders(e)) <= 1

(* A .delivered marker does not outlive its ack: it is there only while    *)
(* some worker is about to remove it, or a crash has left it for the next  *)
(* scan ("the marker is cleaned up by loadPendingDeliveries on the next    *)
(* startup without re-sending").                                           *)
MarkersCollected ==
    \A e \in marker :
        \/ \E w \in Workers : step[w] = "unlink" /\ Target(w) = e
        \/ crashes > 0 /\ \A r \in Startups : step[r] = "idle"

-----------------------------------------------------------------------------
(* The queue keeps the promise of OutboundPromise for every message whose  *)
(* failures are reported; to a best-effort message it promises nothing.    *)
(* The fate of a message is read off the files and the history: one that   *)
(* is neither sent nor given up nor on disk any more would be "lost",      *)
(* which no step of the abstract specification allows.                     *)
Fate(e) ==
    CASE e \in bestEffort -> "new"
      [] e \notin bestEffort /\ e \in delivered -> "delivered"
      [] e \notin bestEffort \cup delivered /\ e \in cancelled \cup failed -> "given up"
      [] OTHER -> IF file[e] # NoFile THEN "owed"
                  ELSE IF step[e] = "idle" THEN "new" ELSE "lost"

Promise == INSTANCE OutboundPromise
               WITH Messages <- Entries, fate <- [e \in Entries |-> Fate(e)]

KeepsPromise == Promise!Spec

-----------------------------------------------------------------------------
(* What a comment says and the code does not do: the re-read after the     *)
(* claim "prevents stale startup/reconnect snapshots from re-sending an    *)
(* entry that another recovery path already acked".                        *)
AckedNotResent ==
    [][\A r \in Recoveries :
           step[r] # "sending" /\ step'[r] = "sending"
               => target[r] \notin acked]_vars
=============================================================================
