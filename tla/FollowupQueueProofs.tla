------------------------ MODULE FollowupQueueProofs ------------------------
(***************************************************************************)
(* What becomes of a message, and that a waiting one has someone to start  *)
(* its drain, for any messages, settings, queue objects, caps and numbers  *)
(* of clears, runs and failures.                                           *)
(*                                                                         *)
(* The first part is about contents.  A run's messages stay in the queue   *)
(* and are removed by number, so that what matters is where they are by    *)
(* then.  They are never behind the place they had (InFront): the removal  *)
(* takes them, and as a message is in one place (Single) no other run gets *)
(* it.  And unless something was dropped under the run (hit) they are      *)
(* still exactly the front of the queue, or it was cleared (Unhit): the    *)
(* removal takes nothing else.                                             *)
(*                                                                         *)
(* The second part is about objects, not what is in them: only the         *)
(* registered object or an orphaned one holds anything (HeldByOwner), and  *)
(* a registered one that does is being drained, or is left behind, or      *)
(* something is under way whose end schedules its drain (OwnerDriven).     *)
(***************************************************************************)
EXTENDS FollowupQueue, FiniteSetTheorems, TLAPS

(* What the objects hold and what the drains have in hand.                 *)

Phases == {"idle", "wait", "item", "carry", "note", "batch"}
Stores == [items : Seq(Messages), lines : Seq(Messages)]
Hands == [at : Phases, handed : Seq(Messages), rest : Seq(Messages),
          telling : Seq(Messages), forced : BOOLEAN, hit : BOOLEAN]

Typed ==
    /\ TypeOK
    /\ queue \in [Queues -> Stores]
    /\ drain \in [Queues -> Hands]
    /\ \A q \in Queues :
           /\ ~Out(q) => /\ drain[q].handed = <<>>
                         /\ drain[q].rest = <<>>
                         /\ drain[q].telling = <<>>
           /\ drain[q].telling # <<>> => settings.policy = "summarize"
           /\ Held(queue[q]) \cup InHand(q) \subseteq recent
    /\ \A m \in Messages : ran[m] > 0 => m \in recent

Injective(s) == \A i, j \in 1..Len(s) : s[i] = s[j] => i = j

(* The messages object q and its drain may still hand to a run.            *)
Tokens(q) ==
    ToSet(queue[q].items) \cup ToSet(drain[q].handed) \cup ToSet(drain[q].rest)

(* A message is in one place, and in none once a run with it has returned. *)
Single ==
    /\ \A q \in Queues :
           /\ Injective(queue[q].items)
           /\ Injective(drain[q].handed)
           /\ Injective(drain[q].rest)
           /\ ToSet(drain[q].handed) \cap ToSet(drain[q].rest) = {}
    /\ \A p, q \in Queues : p # q => Tokens(p) \cap Tokens(q) = {}
    /\ \A m \in Messages :
           ran[m] > 0 => ran[m] = 1 /\ \A q \in Queues : m \notin Tokens(q)

(* Whatever has happened to the queue under a run, what the run was given  *)
(* is not behind the place it had then: removing by number removes it.     *)
InFront ==
    \A q \in Queues : \A i \in 1..Len(queue[q].items) :
        /\ \A j \in 1..Len(drain[q].handed) :
               queue[q].items[i] = drain[q].handed[j] => i <= j
        /\ \A j \in 1..Len(drain[q].rest) :
               queue[q].items[i] = drain[q].rest[j] => i <= Len(drain[q].handed) + j

(* Nothing was dropped under the run: what it and the later batches have   *)
(* is the front of the queue, and the summary they tell is the queue's.    *)
Intact(q) ==
    LET d == drain[q]
        s == queue[q].items
    IN  /\ Len(d.handed) + Len(d.rest) <= Len(s)
        /\ \A j \in 1..Len(d.handed) : s[j] = d.handed[j]
        /\ \A j \in 1..Len(d.rest) : s[Len(d.handed) + j] = d.rest[j]
        /\ d.telling # <<>> => d.telling = queue[q].lines

Cleared(q) == queue[q] = Empty /\ q # registered /\ InHand(q) \subseteq gone

Unhit == \A q \in Queues : Out(q) /\ ~drain[q].hit => Intact(q) \/ Cleared(q)

Contents == Typed /\ Single /\ InFront /\ Unhit /\ LostOnlyBehindOverflow

-----------------------------------------------------------------------------
(* The ends of a sequence.                                                 *)

LEMMA Members ==
    ASSUME NEW S, NEW s \in Seq(S)
    PROVE  /\ \A x : x \in ToSet(s) <=> \E i \in 1..Len(s) : s[i] = x
           /\ ToSet(s) \subseteq S
<1>1. DOMAIN s = 1..Len(s)
  OBVIOUS
<1> QED BY <1>1 DEF ToSet

LEMMA SuffixFacts ==
    ASSUME NEW S, NEW s \in Seq(S), NEW n \in Nat
    PROVE  /\ Suffix(s, n) \in Seq(S)
           /\ Len(Suffix(s, n)) = IF n <= Len(s) THEN Len(s) - n ELSE 0
           /\ \A i \in 1..Len(Suffix(s, n)) : Suffix(s, n)[i] = s[i + n]
           /\ ToSet(Suffix(s, n)) \subseteq ToSet(s)
<1>1. /\ Suffix(s, n) \in Seq(S)
      /\ Len(Suffix(s, n)) = IF n <= Len(s) THEN Len(s) - n ELSE 0
      /\ \A i \in 1..Len(Suffix(s, n)) : Suffix(s, n)[i] = s[i + n]
  BY DEF Suffix
<1>2. ToSet(Suffix(s, n)) \subseteq ToSet(s)
  <2> SUFFICES ASSUME NEW i \in 1..Len(Suffix(s, n))
               PROVE  Suffix(s, n)[i] \in ToSet(s)
    BY <1>1, Members
  <2>1. i + n \in 1..Len(s)
    BY <1>1
  <2> QED BY <1>1, <2>1, Members
<1> QED BY <1>1, <1>2

LEMMA PrefixFacts ==
    ASSUME NEW S, NEW s \in Seq(S), NEW n \in 0..Len(s)
    PROVE  /\ SubSeq(s, 1, n) \in Seq(S)
           /\ Len(SubSeq(s, 1, n)) = n
           /\ \A i \in 1..n : SubSeq(s, 1, n)[i] = s[i]
           /\ ToSet(SubSeq(s, 1, n)) \subseteq ToSet(s)
<1>1. /\ SubSeq(s, 1, n) \in Seq(S)
      /\ Len(SubSeq(s, 1, n)) = n
      /\ \A i \in 1..n : SubSeq(s, 1, n)[i] = s[i]
  OBVIOUS
<1>2. ASSUME NEW x \in ToSet(SubSeq(s, 1, n)) PROVE \E i \in 1..n : x = s[i]
  <2>1. \E i \in 1..Len(SubSeq(s, 1, n)) : SubSeq(s, 1, n)[i] = x
    BY <1>1, Members
  <2> QED BY <1>1, <2>1
<1>3. \A i \in 1..n : s[i] \in ToSet(s)
  BY Members
<1> QED BY <1>1, <1>2, <1>3

(* What lies between a prefix and the end.                                 *)
LEMMA SplitFacts ==
    ASSUME NEW S, NEW s \in Seq(S), NEW n \in 0..Len(s)
    PROVE  ToSet(s) = ToSet(SubSeq(s, 1, n)) \cup ToSet(Suffix(s, n))
<1>1. ASSUME NEW i \in 1..Len(s), i > n PROVE s[i] \in ToSet(Suffix(s, n))
  <2>1. i - n \in 1..Len(Suffix(s, n)) /\ Suffix(s, n)[i - n] = s[i]
    BY <1>1, SuffixFacts
  <2>2. Suffix(s, n) \in Seq(S)
    BY SuffixFacts
  <2> QED BY <2>1, <2>2, Members
<1>2. ASSUME NEW i \in 1..Len(s), i <= n PROVE s[i] \in ToSet(SubSeq(s, 1, n))
  <2>1. SubSeq(s, 1, n) \in Seq(S) /\ i \in 1..Len(SubSeq(s, 1, n))
        /\ SubSeq(s, 1, n)[i] = s[i]
    BY <1>2, PrefixFacts
  <2> QED BY <2>1, Members
<1>3. ASSUME NEW x \in ToSet(s)
      PROVE  x \in ToSet(SubSeq(s, 1, n)) \cup ToSet(Suffix(s, n))
  BY <1>1, <1>2, Members
<1>4. /\ ToSet(SubSeq(s, 1, n)) \subseteq ToSet(s)
      /\ ToSet(Suffix(s, n)) \subseteq ToSet(s)
  BY SuffixFacts, PrefixFacts
<1> QED BY <1>3, <1>4

LEMMA LastOfFacts ==
    ASSUME NEW S, NEW s \in Seq(S), NEW n \in Nat
    PROVE  /\ LastOf(s, n) \in Seq(S)
           /\ Len(LastOf(s, n)) <= n
           /\ ToSet(LastOf(s, n)) \subseteq ToSet(s)
           /\ Len(s) <= n => LastOf(s, n) = s
<1>1. CASE Len(s) > n
  <2>1. Len(s) - n \in Nat /\ Len(s) \in Nat
    BY <1>1
  <2>2. LastOf(s, n) = Suffix(s, Len(s) - n)
    BY <1>1 DEF LastOf
  <2>3. /\ LastOf(s, n) \in Seq(S)
        /\ Len(LastOf(s, n)) = Len(s) - (Len(s) - n)
        /\ ToSet(LastOf(s, n)) \subseteq ToSet(s)
    BY <2>1, <2>2, SuffixFacts
  <2> QED BY <1>1, <2>1, <2>3
<1>2. CASE ~(Len(s) > n)
  BY <1>2 DEF LastOf
<1> QED BY <1>1, <1>2

LEMMA ConcatFacts ==
    ASSUME NEW S, NEW s \in Seq(S), NEW t \in Seq(S)
    PROVE  ToSet(s \o t) \subseteq ToSet(s) \cup ToSet(t)
<1>1. s \o t \in Seq(S) /\ Len(s \o t) = Len(s) + Len(t)
      /\ \A i \in 1..(Len(s) + Len(t)) :
             (s \o t)[i] = IF i <= Len(s) THEN s[i] ELSE t[i - Len(s)]
  OBVIOUS
<1>2. ASSUME NEW i \in 1..(Len(s) + Len(t))
      PROVE  (s \o t)[i] \in ToSet(s) \cup ToSet(t)
  <2>1. CASE i <= Len(s)
    BY <1>1, <2>1, Members
  <2>2. CASE i > Len(s)
    <3>1. i - Len(s) \in 1..Len(t)
      BY <2>2
    <3>2. (s \o t)[i] = t[i - Len(s)]
      BY <1>1, <2>2
    <3> QED BY <3>1, <3>2, Members
  <2> QED BY <2>1, <2>2
<1> DEFINE u == s \o t
<1>3. \A x \in ToSet(u) : \E i \in 1..Len(u) : u[i] = x
  BY <1>1, Members
<1> QED BY <1>1, <1>2, <1>3

LEMMA StretchType ==
    ASSUME NEW S, NEW s \in Seq(S) PROVE Stretch(s) \in 0..Len(s)
<1> DEFINE T == {n \in 1..Len(s) :
                    \A i \in 1..n : settings.authority[s[i]] = settings.authority[s[1]]}
<1>1. IsFiniteSet(1..Len(s)) /\ Cardinality(1..Len(s)) = Len(s)
  <2>1. Len(s) \in Nat
    OBVIOUS
  <2>2. IF 1 > Len(s) THEN Cardinality(1..Len(s)) = 0
        ELSE Cardinality(1..Len(s)) = Len(s) - 1 + 1
    BY <2>1, FS_Interval
  <2>3. IsFiniteSet(1..Len(s))
    BY <2>1, FS_Interval
  <2> QED BY <2>1, <2>2, <2>3
<1>2. T \subseteq 1..Len(s)
  OBVIOUS
<1>3. Cardinality(T) \in Nat /\ Cardinality(T) <= Len(s)
  BY <1>1, <1>2, FS_Subset, FS_CardinalityType
<1> QED BY <1>3 DEF Stretch

-----------------------------------------------------------------------------
(* Drains that go on, and drains that end.                                 *)

(* p's drain has the same in hand and is in a run if it was.               *)
KeepsHand(p) ==
    /\ drain'[p].handed = drain[p].handed
    /\ drain'[p].rest = drain[p].rest
    /\ drain'[p].telling = drain[p].telling
    /\ Out(p)' <=> Out(p)
    /\ Out(p) => drain'[p].hit = drain[p].hit

EmptyHanded(p) ==
    /\ drain'[p].handed = <<>>
    /\ drain'[p].rest = <<>>
    /\ drain'[p].telling = <<>>
    /\ ~Out(p)'

LEMMA IdleHand ==
    /\ Idle \in Hands /\ Idle.at = "idle"
    /\ Idle.handed = <<>> /\ Idle.rest = <<>> /\ Idle.telling = <<>>
    /\ LET wait == [Idle EXCEPT !.at = "wait"]
       IN  /\ wait \in Hands /\ wait.at = "wait"
           /\ wait.handed = <<>> /\ wait.rest = <<>> /\ wait.telling = <<>>
<1> DEFINE wait == [Idle EXCEPT !.at = "wait"]
<1>1. Idle = [at |-> "idle", handed |-> <<>>, rest |-> <<>>, telling |-> <<>>,
              forced |-> FALSE, hit |-> FALSE]
  BY DEF Idle
<1>2. <<>> \in Seq(Messages) /\ FALSE \in BOOLEAN
  OBVIOUS
<1>3. Idle \in Hands
  BY <1>1, <1>2 DEF Hands, Phases
<1>4. /\ Idle.at = "idle" /\ Idle.handed = <<>> /\ Idle.rest = <<>>
      /\ Idle.telling = <<>>
  BY <1>1
<1>5. wait \in Hands
  BY <1>3 DEF Hands, Phases
<1>6. /\ wait.at = "wait" /\ wait.handed = <<>> /\ wait.rest = <<>>
      /\ wait.telling = <<>>
  BY <1>1, <1>4
<1> QED BY <1>3, <1>4, <1>5, <1>6

LEMMA ScheduleHands ==
    ASSUME NEW ds \in [Queues -> Hands], NEW r \in Queues \cup {NoQueue}, NEW qs,
           Schedule(r, qs, ds)
    PROVE  /\ registered' \in {r, NoQueue} /\ leftBehind' = FALSE
           /\ drain' \in [Queues -> Hands]
           /\ \A p \in Queues :
                  \/ drain'[p] = ds[p]
                  \/ ds[p].at = "idle" /\ drain'[p] = [Idle EXCEPT !.at = "wait"]
<1> DEFINE wait == [Idle EXCEPT !.at = "wait"]
<1>1. wait \in Hands
  BY IdleHand
<1> HIDE DEF wait
<1>2. CASE r = NoQueue \/ ds[r].at # "idle"
  BY <1>2 DEF Schedule
<1>3. CASE ~(r = NoQueue \/ ds[r].at # "idle") /\ qs[r] = Empty
  BY <1>3 DEF Schedule
<1>4. CASE ~(r = NoQueue \/ ds[r].at # "idle") /\ qs[r] # Empty
  <2>1. drain' = [ds EXCEPT ![r] = wait] /\ registered' = r /\ leftBehind' = FALSE
    BY <1>4 DEF Schedule, wait
  <2> QED BY <1>1, <1>4, <2>1 DEF wait
<1> QED BY <1>2, <1>3, <1>4

(* A drain of q that is scheduled, or ended, does not touch another run.   *)
LEMMA ScheduleKeepsHands ==
    ASSUME Typed, Schedule(registered, queue, drain)
    PROVE  /\ registered' \in {registered, NoQueue} /\ leftBehind' = FALSE
           /\ drain' \in [Queues -> Hands]
           /\ \A p \in Queues : KeepsHand(p)
<1>1. /\ registered' \in {registered, NoQueue} /\ leftBehind' = FALSE
      /\ drain' \in [Queues -> Hands]
      /\ \A p \in Queues :
             \/ drain'[p] = drain[p]
             \/ drain[p].at = "idle" /\ drain'[p] = [Idle EXCEPT !.at = "wait"]
  BY ScheduleHands DEF Typed, TypeOK
<1>2. ASSUME NEW p \in Queues PROVE KeepsHand(p)
  <2>1. CASE drain'[p] = drain[p]
    BY <2>1 DEF KeepsHand, Out
  <2>2. CASE drain[p].at = "idle" /\ drain'[p] = [Idle EXCEPT !.at = "wait"]
    BY <2>2, IdleHand DEF KeepsHand, Out, Typed
  <2> QED BY <1>1, <2>1, <2>2
<1> QED BY <1>1, <1>2

LEMMA EndDrainHands ==
    ASSUME Typed, NEW q \in Queues, NEW qs, EndDrain(q, qs)
    PROVE  /\ registered' \in {registered, NoQueue} /\ leftBehind' \in BOOLEAN
           /\ orphaned' \subseteq Queues
           /\ drain' \in [Queues -> Hands]
           /\ EmptyHanded(q)
           /\ \A p \in Queues \ {q} : KeepsHand(p)
<1> DEFINE ds == [drain EXCEPT ![q] = Idle]
<1>1. /\ ds \in [Queues -> Hands] /\ ds[q] = Idle
      /\ \A p \in Queues \ {q} : ds[p] = drain[p]
  BY IdleHand DEF Typed
<1>2. registered \in Queues \cup {NoQueue} /\ orphaned \subseteq Queues
  BY DEF Typed, TypeOK
<1>3. \/ /\ drain' = ds /\ registered' = NoQueue /\ leftBehind' = FALSE
         /\ orphaned' \subseteq Queues
      \/ Schedule(registered, qs, ds) /\ orphaned' = orphaned
  BY <1>2 DEF EndDrain
<1> HIDE DEF ds
<1>4. /\ registered' \in {registered, NoQueue} /\ leftBehind' = FALSE
      /\ drain' \in [Queues -> Hands]
      /\ \A p \in Queues :
             \/ drain'[p] = ds[p]
             \/ ds[p].at = "idle" /\ drain'[p] = [Idle EXCEPT !.at = "wait"]
  BY <1>1, <1>2, <1>3, ScheduleHands
<1>5. EmptyHanded(q)
  BY <1>1, <1>4, IdleHand DEF EmptyHanded, Out
<1>6. ASSUME NEW p \in Queues \ {q} PROVE KeepsHand(p)
  <2>1. CASE drain'[p] = drain[p]
    BY <2>1 DEF KeepsHand, Out
  <2>2. CASE drain[p].at = "idle" /\ drain'[p] = [Idle EXCEPT !.at = "wait"]
    BY <2>2, IdleHand DEF KeepsHand, Out, Typed
  <2> QED BY <1>1, <1>4, <2>1, <2>2
<1> QED BY <1>2, <1>3, <1>4, <1>5, <1>6

(* What Typed says of a state, to be shown part by part.                   *)
LEMMA TypedAfter ==
    ASSUME queue' \in [Queues -> Stores], drain' \in [Queues -> Hands],
           settings \in Settings, settings' = settings, registered' \in Queues \cup {NoQueue},
           run' \in {"none", "reply", "ended", "outside"},
           arriving' \subseteq Messages, recent' \subseteq Messages,
           ran' \in [Messages -> Nat],
           (told \cup gone \cup overrun)' \subseteq recent',
           orphaned' \subseteq Queues, leftBehind' \in BOOLEAN,
           \A m \in Messages : ran'[m] > 0 => m \in recent',
           \A q \in Queues :
               /\ Len(queue'[q].items) <= settings.cap /\ Len(queue'[q].lines) <= settings.cap
               /\ ~Out(q)' => EmptyHanded(q)
               /\ drain'[q].telling # <<>> => settings'.policy = "summarize"
               /\ Held(queue'[q]) \cup InHand(q)' \subseteq recent'
    PROVE  Typed'
<1>1. ASSUME NEW q \in Queues
      PROVE  /\ queue'[q].items \in Seq(Messages) /\ queue'[q].lines \in Seq(Messages)
             /\ drain'[q].at \in Phases /\ drain'[q].handed \in Seq(Messages)
  BY DEF Stores, Hands
<1>2. TypeOK'
  BY <1>1 DEF TypeOK, Phases, EmptyHanded
<1> QED BY <1>2 DEF Typed, EmptyHanded

(* A run under which nothing was dropped, when another object changes.     *)
LEMMA UnhitElsewhere ==
    ASSUME Unhit, NEW p \in Queues, KeepsHand(p), queue'[p] = queue[p],
           gone \subseteq gone', p # registered' \/ registered' = registered,
           Out(p)', ~drain'[p].hit
    PROVE  Intact(p)' \/ Cleared(p)'
<1>1. Out(p) /\ ~drain[p].hit
  BY DEF KeepsHand
<1>2. Intact(p) => Intact(p)'
  BY DEF Intact, KeepsHand
<1>3. InHand(p)' = InHand(p)
  BY DEF InHand, KeepsHand
<1>4. Cleared(p) => Cleared(p)'
  BY <1>3 DEF Cleared, Empty
<1> QED BY <1>1, <1>2, <1>4 DEF Unhit

(* A step that changes neither the queues nor what the drains have in hand. *)
LEMMA NothingMoved ==
    ASSUME Contents, \A p \in Queues : KeepsHand(p), drain' \in [Queues -> Hands],
           registered' \in Queues \cup {NoQueue}, leftBehind' \in BOOLEAN,
           registered' \in {registered, NoQueue} \/ ~Out(registered'),
           run' \in {"none", "reply", "ended", "outside"}, arriving' \subseteq Messages,
           orphaned' \subseteq Queues,
           UNCHANGED <<settings, queue, recent, ran, told, gone, overrun>>
    PROVE  Contents'
<1> USE DEF Contents
<1>1. \A p \in Queues : InHand(p)' = InHand(p) /\ Tokens(p)' = Tokens(p)
  BY DEF KeepsHand, InHand, Tokens
<1>2. /\ settings \in Settings /\ settings' = settings /\ recent' \subseteq Messages
      /\ ran' \in [Messages -> Nat]
      /\ (told \cup gone \cup overrun)' \subseteq recent'
      /\ \A m \in Messages : ran'[m] > 0 => m \in recent'
      /\ queue' \in [Queues -> Stores]
  BY DEF Typed, TypeOK
<1>3. \A p \in Queues :
          /\ Len(queue'[p].items) <= settings.cap /\ Len(queue'[p].lines) <= settings.cap
          /\ ~Out(p)' => EmptyHanded(p)
          /\ drain'[p].telling # <<>> => settings'.policy = "summarize"
          /\ Held(queue'[p]) \cup InHand(p)' \subseteq recent'
  <2> SUFFICES ASSUME NEW p \in Queues
               PROVE  /\ Len(queue'[p].items) <= settings.cap /\ Len(queue'[p].lines) <= settings.cap
                      /\ ~Out(p)' => EmptyHanded(p)
                      /\ drain'[p].telling # <<>> => settings'.policy = "summarize"
                      /\ Held(queue'[p]) \cup InHand(p)' \subseteq recent'
    OBVIOUS
  <2>1. Len(queue[p].items) <= settings.cap /\ Len(queue[p].lines) <= settings.cap
    BY DEF Typed, TypeOK
  <2>2. /\ ~Out(p) => /\ drain[p].handed = <<>>
                      /\ drain[p].rest = <<>>
                      /\ drain[p].telling = <<>>
        /\ drain[p].telling # <<>> => settings.policy = "summarize"
        /\ Held(queue[p]) \cup InHand(p) \subseteq recent
    BY DEF Typed
  <2>3. ~Out(p)' => EmptyHanded(p)
    BY <2>2 DEF KeepsHand, EmptyHanded
  <2>4. drain'[p].telling = drain[p].telling
    BY DEF KeepsHand
  <2> QED BY <1>1, <2>1, <2>2, <2>3, <2>4
<1>4. Typed'
  <2> HIDE DEF Contents
  <2> QED BY <1>2, <1>3, TypedAfter
<1>5. Single'
  <2>1. \A p \in Queues : /\ Injective(queue[p].items)
                          /\ Injective(drain[p].handed) /\ Injective(drain[p].rest)
                          /\ ToSet(drain[p].handed) \cap ToSet(drain[p].rest) = {}
    BY DEF Single
  <2>2. \A p \in Queues : /\ Injective(queue'[p].items)
                          /\ Injective(drain'[p].handed) /\ Injective(drain'[p].rest)
                          /\ ToSet(drain'[p].handed) \cap ToSet(drain'[p].rest) = {}
    BY <2>1 DEF KeepsHand
  <2>3. \A p, r \in Queues : p # r => Tokens(p)' \cap Tokens(r)' = {}
    BY <1>1 DEF Single
  <2>4. \A m \in Messages :
            ran'[m] > 0 => ran'[m] = 1 /\ \A p \in Queues : m \notin Tokens(p)'
    BY <1>1 DEF Single
  <2> QED BY <2>2, <2>3, <2>4 DEF Single
<1>6. InFront'
  <2> SUFFICES ASSUME NEW p \in Queues
               PROVE  \A i \in 1..Len(queue'[p].items) :
                          /\ \A j \in 1..Len(drain'[p].handed) :
                                 queue'[p].items[i] = drain'[p].handed[j] => i <= j
                          /\ \A j \in 1..Len(drain'[p].rest) :
                                 queue'[p].items[i] = drain'[p].rest[j]
                                     => i <= Len(drain'[p].handed) + j
    BY DEF InFront
  <2>1. /\ drain'[p].handed = drain[p].handed /\ drain'[p].rest = drain[p].rest
        /\ queue' = queue /\ InFront
    BY DEF KeepsHand
  <2> QED BY ONLY <2>1, p \in Queues DEF InFront
<1>7. Unhit'
  <2> SUFFICES ASSUME NEW p \in Queues, Out(p)', ~drain'[p].hit
               PROVE  Intact(p)' \/ Cleared(p)'
    BY DEF Unhit
  <2>1. p # registered' \/ registered' = registered
    BY FollowupAssumption DEF KeepsHand
  <2> QED BY <2>1, UnhitElsewhere
<1>8. LostOnlyBehindOverflow'
  BY <1>1 DEF LostOnlyBehindOverflow, Accounted, Held
<1> QED BY <1>4, <1>5, <1>6, <1>7, <1>8

-----------------------------------------------------------------------------
(* A message is queued.                                                    *)

LEMMA PushedFacts ==
    ASSUME Typed, NEW q \in Queues, NEW m \in Messages, m \notin recent,
           Injective(queue[q].items), ~Refused(q, m)
    PROVE  LET s == queue[q].items
               t == Pushed(q, m).items
               n == DropCount(s)
           IN  /\ n \in 0..Len(s)
               /\ Pushed(q, m) \in Stores
               /\ Len(t) = Len(s) - n + 1
               /\ Len(t) <= settings.cap
               /\ \A i \in 1..(Len(s) - n) : t[i] = s[i + n]
               /\ t[Len(s) - n + 1] = m
               /\ Injective(t)
               /\ ToSet(t) \subseteq ToSet(s) \cup {m}
               /\ m \in ToSet(t)
               /\ n > 0 => ToSet(s) \ ToSet(t) # {}
               /\ Len(Pushed(q, m).lines) <= settings.cap
               /\ ToSet(Pushed(q, m).lines) \subseteq Held(queue[q])
               /\ n = 0 /\ settings.policy = "summarize" =>
                      Pushed(q, m).lines = queue[q].lines
<1> DEFINE s == queue[q].items
           n == DropCount(s)
           t == Append(Suffix(s, n), m)
<1>1. s \in Seq(Messages) /\ Len(s) <= settings.cap /\ settings.cap \in Nat \ {0} /\ Len(s) \in Nat
      /\ queue[q].lines \in Seq(Messages)
  BY FollowupAssumption DEF Typed, TypeOK, Stores
<1>2. n \in 0..Len(s) /\ Len(s) - n + 1 <= settings.cap
  BY <1>1 DEF DropCount, Refused
<1> HIDE DEF s, n
<1>3. /\ Suffix(s, n) \in Seq(Messages) /\ Len(Suffix(s, n)) = Len(s) - n
      /\ \A i \in 1..(Len(s) - n) : Suffix(s, n)[i] = s[i + n]
      /\ ToSet(Suffix(s, n)) \subseteq ToSet(s)
  BY <1>1, <1>2, SuffixFacts
<1>4. /\ t \in Seq(Messages) /\ Len(t) = Len(s) - n + 1
      /\ \A i \in 1..(Len(s) - n) : t[i] = s[i + n]
      /\ t[Len(s) - n + 1] = m
  BY <1>1, <1>2, <1>3
<1>5. Pushed(q, m).items = t
  BY DEF Pushed, s, n
<1>6. Pushed(q, m) \in Stores
  <2>1. SubSeq(s, 1, n) \in Seq(Messages)
    BY <1>1, <1>2, PrefixFacts
  <2>2. queue[q].lines \o SubSeq(s, 1, n) \in Seq(Messages) /\ <<>> \in Seq(Messages)
    BY <1>1, <2>1
  <2>3. /\ LastOf(queue[q].lines \o SubSeq(s, 1, n), settings.cap) \in Seq(Messages)
        /\ LastOf(<<>>, settings.cap) \in Seq(Messages)
    BY <1>1, <2>2, LastOfFacts
  <2> QED BY <1>4, <2>3 DEF Pushed, Stores, s, n
<1>14. /\ Len(Pushed(q, m).lines) <= settings.cap
       /\ ToSet(Pushed(q, m).lines) \subseteq Held(queue[q])
       /\ n = 0 /\ settings.policy = "summarize" =>
              Pushed(q, m).lines = queue[q].lines
  <2> DEFINE dropped == SubSeq(s, 1, n)
             all == queue[q].lines \o dropped
  <2>1. dropped \in Seq(Messages) /\ Len(dropped) = n /\ ToSet(dropped) \subseteq ToSet(s)
    BY <1>1, <1>2, PrefixFacts
  <2> HIDE DEF dropped
  <2>2. all \in Seq(Messages)
    BY <1>1, <2>1
  <2>3. ToSet(all) \subseteq ToSet(queue[q].lines) \cup ToSet(dropped)
    BY <1>1, <2>1, ConcatFacts
  <2>4. Len(queue[q].lines) <= settings.cap
    BY DEF Typed, TypeOK
  <2>5. n = 0 => all = queue[q].lines
    BY <1>1, <2>1
  <2> HIDE DEF all
  <2>6. CASE settings.policy = "summarize"
    <3>1. Pushed(q, m).lines = LastOf(all, settings.cap)
      BY <2>6 DEF Pushed, all, dropped, s, n
    <3>2. /\ Len(LastOf(all, settings.cap)) <= settings.cap /\ ToSet(LastOf(all, settings.cap)) \subseteq ToSet(all)
          /\ Len(all) <= settings.cap => LastOf(all, settings.cap) = all
      BY <1>1, <2>2, LastOfFacts
    <3> QED BY <2>1, <2>3, <2>4, <2>5, <2>6, <3>1, <3>2 DEF Held, s
  <2>7. CASE settings.policy # "summarize"
    <3>1. Pushed(q, m).lines = LastOf(<<>>, settings.cap)
      BY <2>7 DEF Pushed
    <3>2. Pushed(q, m).lines = <<>>
      BY <1>1, <3>1 DEF LastOf
    <3>3. Len(<<>>) <= settings.cap /\ ToSet(<<>>) = {}
      BY <1>1 DEF ToSet
    <3> QED BY <2>7, <3>2, <3>3
  <2> QED BY <2>6, <2>7
<1> HIDE DEF t
<1>7. m \notin ToSet(s)
  BY DEF Typed, Held, s
<1>8. \A i \in 1..Len(s) : s[i] # m /\ s[i] \in ToSet(s)
  BY <1>1, <1>7, Members
<1>12. \A i, j \in 1..Len(s) : s[i] = s[j] => i = j
  BY DEF Injective, s
<1>13. \A i \in 1..Len(t) :
           \/ i = Len(s) - n + 1 /\ t[i] = m
           \/ i \in 1..(Len(s) - n) /\ i + n \in 1..Len(s) /\ t[i] = s[i + n] /\ t[i] # m
  <2> SUFFICES ASSUME NEW i \in 1..Len(t), i # Len(s) - n + 1
               PROVE  i \in 1..(Len(s) - n) /\ i + n \in 1..Len(s) /\ t[i] = s[i + n] /\ t[i] # m
    BY <1>4
  <2>2. Len(s) \in Nat /\ n \in Nat /\ n <= Len(s) /\ Len(t) = Len(s) - n + 1
    BY <1>1, <1>2, <1>4
  <2>1. i \in 1..(Len(s) - n) /\ i + n \in 1..Len(s)
    BY <2>2
  <2> QED BY <1>4, <1>8, <2>1
<1>9. Injective(t)
  <2> SUFFICES ASSUME NEW i \in 1..Len(t), NEW j \in 1..Len(t), t[i] = t[j] PROVE i = j
    BY DEF Injective
  <2>1. CASE t[i] = m
    BY <1>13, <2>1
  <2>2. CASE t[i] # m
    <3>1. i + n = j + n
      BY <1>12, <1>13, <2>2
    <3> QED BY <1>1, <1>2, <3>1
  <2> QED BY <2>1, <2>2
<1>10. ToSet(t) \subseteq ToSet(s) \cup {m} /\ m \in ToSet(t)
  <2>1. \A x \in ToSet(t) : \E i \in 1..Len(t) : t[i] = x
    BY <1>4, Members
  <2>2. Len(t) \in 1..Len(t)
    BY <1>1, <1>2, <1>4
  <2>3. \A i \in 1..Len(t) : t[i] \in ToSet(s) \cup {m}
    BY <1>8, <1>13
  <2>4. \A i \in 1..Len(t) : t[i] \in ToSet(t)
    BY <1>4, Members
  <2>5. Len(t) = Len(s) - n + 1
    BY <1>4
  <2> QED BY <1>4, <2>1, <2>2, <2>3, <2>4, <2>5
<1>11. ASSUME n > 0 PROVE s[1] \in ToSet(s) \ ToSet(t)
  <2>1. 1 \in 1..Len(s)
    BY <1>1, <1>2, <1>11
  <2>2. ASSUME NEW i \in 1..Len(t) PROVE t[i] # s[1]
    <3>1. CASE t[i] = m
      BY <1>8, <2>1, <3>1
    <3>2. CASE t[i] # m
      <4>1. t[i] = s[i + n] /\ i + n \in 1..Len(s) /\ i + n # 1
        BY <1>1, <1>2, <1>11, <1>13, <3>2
      <4> QED BY <1>12, <2>1, <4>1
    <3> QED BY <3>1, <3>2
  <2> QED BY <1>4, <1>8, <2>1, <2>2, Members
<1> QED BY <1>1, <1>2, <1>4, <1>5, <1>6, <1>9, <1>10, <1>11, <1>14 DEF s, n

(* An entry that is turned away, or queued: no more than that is true of   *)
(* the drains, whoever schedules one afterwards.                           *)
LEMMA EnqueueHands ==
    ASSUME Typed, NEW q \in Queues, NEW m \in Messages, Enqueue(q, m)
    PROVE  /\ registered' \in {q, NoQueue} /\ leftBehind' \in BOOLEAN
           /\ drain' \in [Queues -> Hands]
           /\ \A p \in Queues \ {q} : KeepsHand(p)
           /\ drain'[q].handed = drain[q].handed
           /\ drain'[q].rest = drain[q].rest
           /\ drain'[q].telling = drain[q].telling
           /\ Out(q)' <=> Out(q)
           /\ Out(q) => (drain'[q].hit <=>
                  drain[q].hit \/ ToSet(queue[q].items) \ ToSet(queue'[q].items) # {})
<1> DEFINE after == IF Refused(q, m) THEN queue[q] ELSE Pushed(q, m)
           dropped == ToSet(queue[q].items) \ ToSet(after.items)
           qs == [queue EXCEPT ![q] = after]
           h == drain[q].hit \/ (Out(q) /\ dropped # {})
           ds == [drain EXCEPT ![q].hit = @ \/ (Out(q) /\ dropped # {})]
<1>1. /\ queue' = qs
      /\ \/ /\ registered' = q
            /\ drain' = ds
            /\ UNCHANGED leftBehind
         \/ Schedule(q, qs, ds)
  BY DEF Enqueue
<1>2. queue'[q] = after
  BY <1>1 DEF Typed
<1> HIDE DEF after, qs
<1>3. h \in BOOLEAN /\ drain[q] \in Hands /\ DOMAIN drain = Queues
  BY DEF Typed, Hands
<1>4. /\ ds \in [Queues -> Hands]
      /\ \A p \in Queues \ {q} : ds[p] = drain[p]
      /\ ds[q] = [drain[q] EXCEPT !.hit = h]
  <2>1. ds = [drain EXCEPT ![q] = [drain[q] EXCEPT !.hit = h]]
    OBVIOUS
  <2> HIDE DEF h, dropped, ds
  <2>2. [drain[q] EXCEPT !.hit = h] \in Hands
    BY <1>3 DEF Hands
  <2> QED BY <1>3, <2>1, <2>2 DEF Typed
<1>5. h <=> (drain[q].hit \/ (Out(q) /\ dropped # {}))
  OBVIOUS
<1> HIDE DEF ds, h
<1>6. /\ ds[q].at = drain[q].at /\ ds[q].handed = drain[q].handed
      /\ ds[q].rest = drain[q].rest /\ ds[q].telling = drain[q].telling
      /\ ds[q].hit = h
  BY <1>3, <1>4 DEF Hands
<1>7. /\ registered' \in {q, NoQueue} /\ leftBehind' \in BOOLEAN
      /\ drain' \in [Queues -> Hands]
      /\ \A p \in Queues :
             \/ drain'[p] = ds[p]
             \/ ds[p].at = "idle" /\ drain'[p] = [Idle EXCEPT !.at = "wait"]
  <2>1. leftBehind \in BOOLEAN
    BY DEF Typed, TypeOK
  <2>2. CASE Schedule(q, qs, ds)
    BY <1>4, <2>2, ScheduleHands
  <2> QED BY <1>1, <1>4, <2>1, <2>2
<1>8. ASSUME NEW p \in Queues \ {q} PROVE KeepsHand(p)
  <2>1. CASE drain'[p] = drain[p]
    BY <2>1 DEF KeepsHand, Out
  <2>2. CASE drain[p].at = "idle" /\ drain'[p] = [Idle EXCEPT !.at = "wait"]
    BY <2>2, IdleHand DEF KeepsHand, Out, Typed
  <2> QED BY <1>4, <1>7, <2>1, <2>2
<1>9. CASE drain'[q] = ds[q]
  BY <1>2, <1>5, <1>6, <1>7, <1>8, <1>9 DEF Out, dropped
<1>10. CASE ds[q].at = "idle" /\ drain'[q] = [Idle EXCEPT !.at = "wait"]
  <2>1. ~Out(q) /\ ~Out(q)'
    BY <1>6, <1>10, IdleHand DEF Out
  <2>2. /\ drain'[q].handed = drain[q].handed /\ drain'[q].rest = drain[q].rest
        /\ drain'[q].telling = drain[q].telling
    BY <1>10, <2>1, IdleHand DEF Typed
  <2> QED BY <1>7, <1>8, <2>1, <2>2
<1> QED BY <1>7, <1>9, <1>10

LEMMA RefusedKeeps ==
    ASSUME Contents, NEW q \in Queues, NEW m \in Messages, Enqueue(q, m), Refused(q, m)
    PROVE  Contents'
<1>1. Typed
  BY DEF Contents
<1>2. queue' = queue /\ recent' = recent /\ gone' = gone /\ arriving' \subseteq Messages
  <2>1. queue' = [queue EXCEPT ![q] = queue[q]]
    BY DEF Enqueue
  <2>2. gone' = gone \cup (((ToSet(queue[q].items) \ ToSet(queue[q].items))
                               \cup ToSet(queue[q].lines)) \ ToSet(queue[q].lines))
    BY DEF Enqueue
  <2>3. recent' = recent /\ arriving' = arriving \ {m}
    BY DEF Enqueue
  <2> QED BY <1>1, <2>1, <2>2, <2>3 DEF Typed, TypeOK
<1>3. orphaned' = orphaned \ {q} /\ UNCHANGED <<settings, run, ran, told, overrun>>
  BY DEF Enqueue
<1>4. \A p \in Queues : KeepsHand(p)
  <2>1. \A p \in Queues \ {q} : KeepsHand(p)
    BY <1>1, EnqueueHands
  <2>2. KeepsHand(q)
    <3>1. ToSet(queue[q].items) \ ToSet(queue'[q].items) = {}
      BY <1>2
    <3>2. drain[q].hit \in BOOLEAN /\ drain'[q].hit \in BOOLEAN
      BY <1>1, EnqueueHands DEF Typed, Hands
    <3>3. Out(q) => (drain'[q].hit <=> drain[q].hit)
      BY <1>1, <3>1, EnqueueHands
    <3> QED BY <1>1, <3>2, <3>3, EnqueueHands DEF KeepsHand
  <2> QED BY <2>1, <2>2
<1>5. /\ registered' \in {q, NoQueue} /\ leftBehind' \in BOOLEAN
      /\ drain' \in [Queues -> Hands]
  BY <1>1, EnqueueHands
<1>6. q = registered \/ ~Out(q)
  BY DEF Enqueue, Object, Unused, Out
<1>7. run \in {"none", "reply", "ended", "outside"} /\ orphaned' \subseteq Queues
  BY <1>1, <1>3 DEF Typed, TypeOK
<1>8. registered' \in {registered, NoQueue} \/ ~Out(registered')
  BY <1>5, <1>6
<1> QED BY <1>2, <1>3, <1>4, <1>5, <1>7, <1>8, NothingMoved

LEMMA PushedKeeps ==
    ASSUME Contents, NEW q \in Queues, NEW m \in Messages, Enqueue(q, m), ~Refused(q, m)
    PROVE  Contents'
<1> DEFINE s == queue[q].items
           n == DropCount(s)
           t == queue'[q].items
<1>1. Typed /\ Single /\ InFront /\ Unhit /\ LostOnlyBehindOverflow
  BY DEF Contents
<1>2. m \notin recent
  BY DEF Refused
<1>3. Injective(s)
  BY <1>1 DEF Single
<1>4. /\ queue' = [queue EXCEPT ![q] = Pushed(q, m)]
      /\ recent' = recent \cup {m}
      /\ arriving' = arriving \ {m}
      /\ gone' = gone \cup (((ToSet(s) \ ToSet(Pushed(q, m).items))
                                \cup ToSet(queue[q].lines)) \ ToSet(Pushed(q, m).lines))
      /\ orphaned' = orphaned \ {q}
      /\ UNCHANGED <<settings, run, ran, told, overrun>>
  BY DEF Enqueue
<1>5. queue'[q] = Pushed(q, m) /\ \A p \in Queues \ {q} : queue'[p] = queue[p]
  BY <1>1, <1>4 DEF Typed
<1>6. /\ n \in 0..Len(s) /\ Pushed(q, m) \in Stores
      /\ Len(t) = Len(s) - n + 1
      /\ Len(t) <= settings.cap
      /\ \A i \in 1..(Len(s) - n) : t[i] = s[i + n]
      /\ t[Len(s) - n + 1] = m
      /\ Injective(t)
      /\ ToSet(t) \subseteq ToSet(s) \cup {m}
      /\ m \in ToSet(t)
      /\ n > 0 => ToSet(s) \ ToSet(t) # {}
      /\ Len(queue'[q].lines) <= settings.cap
      /\ ToSet(queue'[q].lines) \subseteq Held(queue[q])
      /\ n = 0 /\ settings.policy = "summarize" => queue'[q].lines = queue[q].lines
  <2>1. t = Pushed(q, m).items /\ queue'[q].lines = Pushed(q, m).lines
    BY <1>5
  <2> DEFINE v == Pushed(q, m).items
  <2>2. /\ n \in 0..Len(s) /\ Pushed(q, m) \in Stores
        /\ Len(v) = Len(s) - n + 1
        /\ Len(v) <= settings.cap
        /\ \A i \in 1..(Len(s) - n) : v[i] = s[i + n]
        /\ v[Len(s) - n + 1] = m
        /\ Injective(v)
        /\ ToSet(v) \subseteq ToSet(s) \cup {m}
        /\ m \in ToSet(v)
        /\ n > 0 => ToSet(s) \ ToSet(v) # {}
    BY <1>1, <1>2, <1>3, PushedFacts
  <2>3. /\ Len(Pushed(q, m).lines) <= settings.cap
        /\ ToSet(Pushed(q, m).lines) \subseteq Held(queue[q])
        /\ n = 0 /\ settings.policy = "summarize" =>
               Pushed(q, m).lines = queue[q].lines
    BY <1>1, <1>2, <1>3, PushedFacts
  <2> HIDE DEF t, n, s
  <2> QED BY <2>1, <2>2, <2>3
<1> HIDE DEF t, n
<1>7. /\ registered' \in {q, NoQueue} /\ leftBehind' \in BOOLEAN
      /\ drain' \in [Queues -> Hands]
      /\ \A p \in Queues \ {q} : KeepsHand(p)
      /\ \A p \in Queues : /\ drain'[p].handed = drain[p].handed
                           /\ drain'[p].rest = drain[p].rest
                           /\ drain'[p].telling = drain[p].telling
                           /\ Out(p)' <=> Out(p)
      /\ Out(q) => (drain'[q].hit <=> drain[q].hit \/ ToSet(s) \ ToSet(t) # {})
  BY <1>1, EnqueueHands DEF KeepsHand, t
<1>8. q = registered \/ ~Out(q)
  BY DEF Enqueue, Object, Unused, Out
<1>9. \A p \in Queues : InHand(p)' = InHand(p)
  BY <1>7 DEF InHand
<1>10. /\ \A p \in Queues \ {q} : Held(queue'[p]) = Held(queue[p])
       /\ Held(queue'[q]) \subseteq Held(queue[q]) \cup {m}
  BY <1>5, <1>6 DEF Held, t
<1>11. \A p \in Queues : Held(queue[p]) \cup InHand(p) \subseteq recent
  BY <1>1 DEF Typed
<1>12. queue' \in [Queues -> Stores]
  BY <1>1, <1>4, <1>6 DEF Typed
<1>13. gone \subseteq gone' /\ gone' \subseteq recent
  <2>1. gone \subseteq recent
    BY <1>1 DEF Typed, TypeOK
  <2> QED BY <1>4, <1>11, <2>1 DEF Held
<1>14. Typed'
  <2>1. /\ settings \in Settings /\ settings' = settings
        /\ registered' \in Queues \cup {NoQueue}
        /\ run' \in {"none", "reply", "ended", "outside"}
        /\ arriving' \subseteq Messages /\ recent' \subseteq Messages
        /\ ran' \in [Messages -> Nat]
        /\ (told \cup gone \cup overrun)' \subseteq recent'
        /\ orphaned' \subseteq Queues /\ leftBehind' \in BOOLEAN
        /\ \A x \in Messages : ran'[x] > 0 => x \in recent'
    BY <1>1, <1>4, <1>7, <1>13 DEF Typed, TypeOK
  <2>2. \A p \in Queues : /\ Held(queue'[p]) \cup InHand(p)' \subseteq recent'
                          /\ ~Out(p)' => EmptyHanded(p)
                          /\ drain'[p].telling # <<>> => settings'.policy = "summarize"
    BY <1>1, <1>4, <1>7, <1>9, <1>10, <1>11 DEF Typed, EmptyHanded
  <2>3. \A p \in Queues : Len(queue'[p].items) <= settings.cap /\ Len(queue'[p].lines) <= settings.cap
    BY <1>1, <1>5, <1>6 DEF Typed, TypeOK, t
  <2> QED BY <1>7, <1>12, <2>1, <2>2, <2>3, TypedAfter
<1>15. Single'
  <2>1. \A p \in Queues : m \notin Tokens(p)
    BY <1>2, <1>11 DEF Tokens, Held, InHand
  <2>2. /\ \A p \in Queues \ {q} : Tokens(p)' = Tokens(p)
        /\ Tokens(q)' \subseteq Tokens(q) \cup {m}
    BY <1>5, <1>6, <1>7 DEF Tokens, t
  <2>3. /\ \A p, r \in Queues : p # r => Tokens(p)' \cap Tokens(r)' = {}
    BY <1>1, <2>1, <2>2 DEF Single
  <2>4. ~(ran[m] > 0)
    BY <1>1, <1>2 DEF Typed
  <2>5. \A x \in Messages :
            ran'[x] > 0 => ran'[x] = 1 /\ \A p \in Queues : x \notin Tokens(p)'
    BY <1>1, <1>4, <2>2, <2>4 DEF Single
  <2>6. \A p \in Queues : Injective(queue'[p].items)
    BY <1>1, <1>5, <1>6 DEF Single, t
  <2>7. \A p \in Queues : /\ Injective(drain'[p].handed) /\ Injective(drain'[p].rest)
                          /\ ToSet(drain'[p].handed) \cap ToSet(drain'[p].rest) = {}
    BY <1>1, <1>7 DEF Single
  <2> QED BY <2>3, <2>5, <2>6, <2>7 DEF Single
<1>16. InFront'
  <2>1. ASSUME NEW i \in 1..Len(t)
        PROVE  \/ i \in 1..(Len(s) - n) /\ i + n \in 1..Len(s) /\ t[i] = s[i + n]
               \/ t[i] = m
    <3>1. Len(s) \in Nat
      BY <1>1 DEF Typed, Stores
    <3>2. i = Len(s) - n + 1 \/ (i \in 1..(Len(s) - n) /\ i + n \in 1..Len(s))
      <4>1. n \in 0..Len(s) /\ Len(t) = Len(s) - n + 1
        BY <1>6
      <4> HIDE DEF s
      <4> QED BY <3>1, <4>1
    <3> QED BY <1>6, <3>2
  <2>2. /\ \A j \in 1..Len(drain[q].handed) : drain[q].handed[j] # m
        /\ \A j \in 1..Len(drain[q].rest) : drain[q].rest[j] # m
    <3>1. drain[q].handed \in Seq(Messages) /\ drain[q].rest \in Seq(Messages)
      BY <1>1 DEF Typed, Hands
    <3> QED BY <1>2, <1>11, <3>1, Members DEF InHand
  <2>3. \A i \in 1..Len(t) :
            /\ \A j \in 1..Len(drain[q].handed) : t[i] = drain[q].handed[j] => i <= j
            /\ \A j \in 1..Len(drain[q].rest) :
                   t[i] = drain[q].rest[j] => i <= Len(drain[q].handed) + j
    <3>1. Len(drain[q].handed) \in Nat
      BY <1>1 DEF Typed, Hands
    <3>2. \A i \in 1..Len(s) :
            /\ \A j \in 1..Len(drain[q].handed) : s[i] = drain[q].handed[j] => i <= j
            /\ \A j \in 1..Len(drain[q].rest) :
                   s[i] = drain[q].rest[j] => i <= Len(drain[q].handed) + j
      BY <1>1 DEF InFront
    <3> SUFFICES ASSUME NEW i \in 1..Len(t), t[i] # m
                 PROVE  /\ \A j \in 1..Len(drain[q].handed) : t[i] = drain[q].handed[j] => i <= j
                        /\ \A j \in 1..Len(drain[q].rest) :
                               t[i] = drain[q].rest[j] => i <= Len(drain[q].handed) + j
      BY <2>2
    <3>3. i + n \in 1..Len(s) /\ t[i] = s[i + n] /\ n \in Nat /\ i \in Nat
      BY <1>6, <2>1
    <3>4. i <= i + n
      BY <3>3
    <3> DEFINE k == i + n
    <3>5. /\ \A j \in 1..Len(drain[q].handed) : t[i] = drain[q].handed[j] => k <= j
          /\ \A j \in 1..Len(drain[q].rest) :
                 t[i] = drain[q].rest[j] => k <= Len(drain[q].handed) + j
      BY <3>2, <3>3
    <3>6. k \in Nat /\ i <= k
      BY <3>3, <3>4
    <3> HIDE DEF s, k
    <3>7. ASSUME NEW j \in 1..Len(drain[q].handed), t[i] = drain[q].handed[j]
          PROVE  i <= j
      BY <3>1, <3>3, <3>5, <3>6, <3>7
    <3>8. ASSUME NEW j \in 1..Len(drain[q].rest), t[i] = drain[q].rest[j]
          PROVE  i <= Len(drain[q].handed) + j
      <4>1. k <= Len(drain[q].handed) + j
        BY <3>5, <3>8
      <4> QED BY <3>1, <3>3, <3>6, <4>1
    <3> QED BY <3>7, <3>8
  <2>4. \A p \in Queues \ {q} : queue'[p].items = queue[p].items
    BY <1>5
  <2> SUFFICES ASSUME NEW p \in Queues
               PROVE  \A i \in 1..Len(queue'[p].items) :
                          /\ \A j \in 1..Len(drain'[p].handed) :
                                 queue'[p].items[i] = drain'[p].handed[j] => i <= j
                          /\ \A j \in 1..Len(drain'[p].rest) :
                                 queue'[p].items[i] = drain'[p].rest[j]
                                     => i <= Len(drain'[p].handed) + j
    BY DEF InFront
  <2>5. drain'[p].handed = drain[p].handed /\ drain'[p].rest = drain[p].rest
    BY <1>7
  <2>6. CASE p = q
    BY <2>3, <2>5, <2>6 DEF t
  <2>7. CASE p # q
    BY <1>1, <2>4, <2>5, <2>7 DEF InFront
  <2> QED BY <2>6, <2>7
<1>17. Unhit'
  <2> SUFFICES ASSUME NEW p \in Queues, Out(p)', ~drain'[p].hit
               PROVE  Intact(p)' \/ Cleared(p)'
    BY DEF Unhit
  <2>1. CASE p # q
    BY <1>1, <1>5, <1>7, <1>13, <2>1, FollowupAssumption, UnhitElsewhere
  <2>2. CASE p = q
    <3>1. Out(q) /\ ~drain[q].hit /\ ToSet(s) \ ToSet(t) = {}
      BY <1>7, <2>2
    <3>2. Intact(q)
      BY <1>1, <1>8, <3>1 DEF Unhit, Cleared
    <3>3. n = 0
      BY <1>6, <3>1
    <3>4. Len(s) \in Nat /\ Len(t) = Len(s) + 1 /\ \A i \in 1..Len(s) : t[i] = s[i]
      <4>1. Len(s) \in Nat
        BY <1>1 DEF Typed, Stores
      <4> QED BY <1>6, <3>3, <4>1
    <3>5. drain[q].telling # <<>> => queue'[q].lines = queue[q].lines
      BY <1>1, <1>6, <3>3 DEF Typed
    <3>6. Len(drain[q].handed) \in Nat /\ Len(drain[q].rest) \in Nat
      BY <1>1 DEF Typed, Hands
    <3>7. Intact(q)'
      <4>1. /\ Len(drain[q].handed) + Len(drain[q].rest) <= Len(s)
            /\ \A j \in 1..Len(drain[q].handed) : s[j] = drain[q].handed[j]
            /\ \A j \in 1..Len(drain[q].rest) :
                   s[Len(drain[q].handed) + j] = drain[q].rest[j]
            /\ drain[q].telling # <<>> => drain[q].telling = queue[q].lines
        BY <3>2 DEF Intact
      <4> HIDE DEF s
      <4>2. /\ Len(drain[q].handed) + Len(drain[q].rest) <= Len(t)
            /\ \A j \in 1..Len(drain[q].handed) : t[j] = drain[q].handed[j]
            /\ \A j \in 1..Len(drain[q].rest) :
                   t[Len(drain[q].handed) + j] = drain[q].rest[j]
        <5> DEFINE h == drain[q].handed
                   r == drain[q].rest
        <5>1. /\ Len(h) + Len(r) <= Len(s)
              /\ \A j \in 1..Len(h) : s[j] = h[j]
              /\ \A j \in 1..Len(r) : s[Len(h) + j] = r[j]
              /\ Len(h) \in Nat /\ Len(r) \in Nat
          BY <3>6, <4>1
        <5> HIDE DEF h, r
        <5>2. /\ Len(h) + Len(r) <= Len(t)
              /\ \A j \in 1..Len(h) : t[j] = h[j]
          BY <3>4, <5>1
        <5>3. ASSUME NEW j \in 1..Len(r) PROVE t[Len(h) + j] = r[j]
          <6>1. Len(h) + j \in 1..Len(s)
            BY <3>4, <5>1
          <6> QED BY <3>4, <5>1, <6>1
        <5> QED BY <5>2, <5>3 DEF h, r
      <4>3. /\ drain'[q].handed = drain[q].handed /\ drain'[q].rest = drain[q].rest
            /\ drain'[q].telling = drain[q].telling
        BY <1>7
      <4>4. drain[q].telling # <<>> => drain[q].telling = queue'[q].lines
        BY <3>5, <4>1
      <4> QED BY <4>2, <4>3, <4>4 DEF Intact, t
    <3> QED BY <2>2, <3>7
  <2> QED BY <2>1, <2>2
<1>18. LostOnlyBehindOverflow'
  <2> SUFFICES ASSUME NEW x \in recent' PROVE Accounted(x)' \/ x \in overrun'
    BY DEF LostOnlyBehindOverflow
  <2>1. CASE x = m
    BY <1>6, <2>1 DEF Accounted, Held, t
  <2>2. CASE x # m /\ (ran[x] > 0 \/ x \in told \cup gone \/ x \in overrun)
    BY <1>4, <1>13, <2>2 DEF Accounted
  <2>3. CASE \E p \in Queues : x \in Held(queue[p]) \cup InHand(p)
    <3> PICK p \in Queues : x \in Held(queue[p]) \cup InHand(p)
      BY <2>3
    <3>1. CASE p # q \/ x \in InHand(p)
      BY <1>9, <1>10, <3>1 DEF Accounted
    <3>2. CASE p = q /\ x \in Held(queue[q])
      BY <1>4, <1>5, <3>2 DEF Accounted, Held
    <3> QED BY <3>1, <3>2
  <2> QED BY <1>1, <1>4, <2>1, <2>2, <2>3 DEF LostOnlyBehindOverflow, Accounted
<1> QED BY <1>14, <1>15, <1>16, <1>17, <1>18 DEF Contents

LEMMA EnqueueKeepsContents ==
    ASSUME Contents, NEW q \in Queues, NEW m \in Messages, Enqueue(q, m)
    PROVE  Contents'
BY RefusedKeeps, PushedKeeps

-----------------------------------------------------------------------------
(* The drain hands messages to a run.                                      *)

(* What Hand and HandBatch leave of q's drain.                             *)
LEMMA NewHand ==
    ASSUME drain \in [Queues -> Hands], NEW q \in Queues, NEW d \in Hands,
           drain' = [drain EXCEPT ![q] = d]
    PROVE  /\ drain' \in [Queues -> Hands] /\ drain'[q] = d
           /\ \A p \in Queues \ {q} : KeepsHand(p)
BY DEF KeepsHand, Out

LEMMA BatchResult ==
    ASSUME drain \in [Queues -> Hands], NEW q \in Queues, NEW items \in Seq(Messages),
           NEW telling \in Seq(Messages), NEW hit \in BOOLEAN,
           HandBatch(q, items, telling, hit)
    PROVE  /\ drain' \in [Queues -> Hands]
           /\ \A p \in Queues \ {q} : KeepsHand(p)
           /\ \E k \in 0..Len(items) : /\ drain'[q].handed = SubSeq(items, 1, k)
                                       /\ drain'[q].rest = Suffix(items, k)
           /\ drain'[q].at = "batch" /\ drain'[q].telling = telling /\ drain'[q].hit = hit
           /\ UNCHANGED <<registered, orphaned, leftBehind>>
<1> DEFINE n == Stretch(items)
<1>1. n \in 0..Len(items)
  BY StretchType
<1> DEFINE d == [at |-> "batch", handed |-> SubSeq(items, 1, n), rest |-> Suffix(items, n),
                 telling |-> telling, forced |-> FALSE, hit |-> hit]
<1>2. drain' = [drain EXCEPT ![q] = d] /\ UNCHANGED <<registered, orphaned, leftBehind>>
  BY DEF HandBatch, Hand
<1> HIDE DEF n
<1>3. n \in Nat /\ SubSeq(items, 1, n) \in Seq(Messages) /\ Suffix(items, n) \in Seq(Messages)
  BY <1>1, PrefixFacts, SuffixFacts
<1>4. d \in Hands
  BY <1>3 DEF Hands, Phases
<1>5. /\ d.at = "batch" /\ d.handed = SubSeq(items, 1, n) /\ d.rest = Suffix(items, n)
      /\ d.telling = telling /\ d.hit = hit
  OBVIOUS
<1> HIDE DEF d
<1> QED BY <1>1, <1>2, <1>4, <1>5, NewHand

(* The two parts of a sequence with no repetition have none in common.     *)
LEMMA Parts ==
    ASSUME NEW S, NEW s \in Seq(S), NEW k \in 0..Len(s), Injective(s)
    PROVE  /\ Injective(SubSeq(s, 1, k)) /\ Injective(Suffix(s, k))
           /\ ToSet(SubSeq(s, 1, k)) \cap ToSet(Suffix(s, k)) = {}
<1> DEFINE u == SubSeq(s, 1, k)
           v == Suffix(s, k)
<1>1. /\ u \in Seq(S) /\ Len(u) = k /\ \A i \in 1..k : u[i] = s[i]
      /\ v \in Seq(S) /\ Len(v) = Len(s) - k
      /\ \A i \in 1..(Len(s) - k) : v[i] = s[i + k]
  <2>1. k \in Nat /\ k <= Len(s) /\ Len(s) \in Nat
    OBVIOUS
  <2>2. /\ u \in Seq(S) /\ Len(u) = k /\ \A i \in 1..k : u[i] = s[i]
    BY PrefixFacts
  <2>3. /\ v \in Seq(S) /\ Len(v) = Len(s) - k
        /\ \A i \in 1..Len(v) : v[i] = s[i + k]
    BY <2>1, SuffixFacts
  <2> HIDE DEF u, v
  <2> QED BY <2>1, <2>2, <2>3
<1> HIDE DEF u, v
<1>2. \A i, j \in 1..Len(s) : s[i] = s[j] => i = j
  BY DEF Injective
<1>3. Injective(u)
  <2> SUFFICES ASSUME NEW i \in 1..k, NEW j \in 1..k, u[i] = u[j] PROVE i = j
    BY <1>1 DEF Injective
  <2>1. i \in 1..Len(s) /\ j \in 1..Len(s)
    OBVIOUS
  <2>2. s[i] = s[j]
    BY <1>1
  <2> QED BY <1>2, <2>1, <2>2
<1>4. Injective(v)
  <2> SUFFICES ASSUME NEW i \in 1..(Len(s) - k), NEW j \in 1..(Len(s) - k), v[i] = v[j]
               PROVE  i = j
    BY <1>1 DEF Injective
  <2>1. i + k \in 1..Len(s) /\ j + k \in 1..Len(s) /\ s[i + k] = s[j + k]
    BY <1>1
  <2> QED BY <1>2, <2>1
<1>5. ToSet(u) \cap ToSet(v) = {}
  <2> SUFFICES ASSUME NEW i \in 1..k, NEW j \in 1..(Len(s) - k), u[i] = v[j] PROVE FALSE
    BY <1>1, Members
  <2>1. i \in 1..Len(s) /\ j + k \in 1..Len(s) /\ s[i] = s[j + k] /\ i # j + k
    BY <1>1
  <2> QED BY <1>2, <2>1
<1> QED BY <1>3, <1>4, <1>5 DEF u, v

(* A run is handed the front of its queue, the rest of it waits for later  *)
(* batches or stays for the next debounce.                                 *)
LEMMA HandsFront ==
    ASSUME Contents, NEW q \in Queues, ~Out(q), NEW k \in 0..Len(queue[q].items),
           drain' \in [Queues -> Hands],
           \A p \in Queues \ {q} : KeepsHand(p),
           drain'[q].handed = SubSeq(queue[q].items, 1, k),
           drain'[q].rest = <<>> \/ drain'[q].rest = Suffix(queue[q].items, k),
           drain'[q].telling = <<>> \/
               (drain'[q].telling = queue[q].lines /\ settings.policy = "summarize"),
           Out(q)', ~drain'[q].hit,
           UNCHANGED <<settings, registered, queue, run, arriving, recent, histories,
                       orphaned, leftBehind>>
    PROVE  Contents'
<1> DEFINE s == queue[q].items
           h == drain'[q].handed
           r == drain'[q].rest
<1>1. Typed /\ Single /\ InFront /\ Unhit /\ LostOnlyBehindOverflow
  BY DEF Contents
<1>2. UNCHANGED <<ran, told, gone, overrun>>
  BY DEF histories
<1>3. s \in Seq(Messages) /\ queue[q].lines \in Seq(Messages) /\ Len(s) \in Nat
  BY <1>1 DEF Typed, Stores
<1>4. h = SubSeq(s, 1, k) /\ (r = <<>> \/ r = Suffix(s, k)) /\ Injective(s)
  BY <1>1 DEF Single
<1> HIDE DEF s, h, r
<1>5. /\ h \in Seq(Messages) /\ Len(h) = k
      /\ \A i \in 1..k : h[i] = s[i]
      /\ ToSet(h) \subseteq ToSet(s)
  BY <1>3, <1>4, PrefixFacts DEF s
<1>6. /\ r \in Seq(Messages) /\ Len(r) \in 0..(Len(s) - k)
      /\ \A i \in 1..Len(r) : r[i] = s[k + i]
      /\ ToSet(r) \subseteq ToSet(s)
  <2>1. CASE r = <<>>
    <3>1. Len(r) = 0 /\ ToSet(r) = {} /\ r \in Seq(Messages)
      BY <2>1 DEF ToSet
    <3>2. 0 \in 0..(Len(s) - k)
      BY <1>3 DEF s
    <3> QED BY <3>1, <3>2
  <2>2. CASE r = Suffix(s, k)
    <3>1. k \in Nat /\ k <= Len(s)
      BY <1>3 DEF s
    <3>2. /\ r \in Seq(Messages) /\ Len(r) = Len(s) - k
          /\ \A i \in 1..Len(r) : r[i] = s[i + k]
          /\ ToSet(r) \subseteq ToSet(s)
      BY <1>3, <2>2, <3>1, SuffixFacts
    <3> QED BY <1>3, <3>1, <3>2
  <2> QED BY <1>4, <2>1, <2>2
<1>7. /\ Injective(h) /\ Injective(r) /\ ToSet(h) \cap ToSet(r) = {}
  <2>1. Injective(<<>>) /\ ToSet(<<>>) = {}
    BY DEF Injective, ToSet
  <2> QED BY <1>3, <1>4, <2>1, Parts DEF s
<1>8. /\ InHand(q)' \subseteq Held(queue[q])
      /\ Tokens(q)' \subseteq Tokens(q)
  <2>1. ToSet(drain'[q].telling) \subseteq ToSet(queue[q].lines)
    BY DEF ToSet
  <2> QED BY <1>5, <1>6, <2>1 DEF InHand, Held, Tokens, s, h, r
<1>9. \A p \in Queues \ {q} : InHand(p)' = InHand(p) /\ Tokens(p)' = Tokens(p)
  BY DEF KeepsHand, InHand, Tokens
<1>10. Typed'
  <2>1. /\ settings \in Settings /\ settings' = settings
        /\ registered' \in Queues \cup {NoQueue}
        /\ run' \in {"none", "reply", "ended", "outside"}
        /\ arriving' \subseteq Messages /\ recent' \subseteq Messages
        /\ ran' \in [Messages -> Nat]
        /\ (told \cup gone \cup overrun)' \subseteq recent'
        /\ orphaned' \subseteq Queues /\ leftBehind' \in BOOLEAN
        /\ \A m \in Messages : ran'[m] > 0 => m \in recent'
        /\ queue' \in [Queues -> Stores]
    BY <1>1, <1>2 DEF Typed, TypeOK
  <2>2. \A p \in Queues : Held(queue[p]) \subseteq recent /\ InHand(p)' \subseteq recent
    BY <1>1, <1>8, <1>9 DEF Typed
  <2>3. \A p \in Queues :
            /\ Len(queue'[p].items) <= settings.cap /\ Len(queue'[p].lines) <= settings.cap
            /\ ~Out(p)' => EmptyHanded(p)
            /\ drain'[p].telling # <<>> => settings'.policy = "summarize"
    BY <1>1 DEF Typed, TypeOK, KeepsHand, EmptyHanded
  <2> QED BY <2>1, <2>2, <2>3, TypedAfter
<1>11. Single'
  <2>1. \A p \in Queues : /\ Injective(queue'[p].items)
                          /\ Injective(drain'[p].handed) /\ Injective(drain'[p].rest)
                          /\ ToSet(drain'[p].handed) \cap ToSet(drain'[p].rest) = {}
    BY <1>1, <1>7 DEF Single, KeepsHand, h, r
  <2>2. \A p \in Queues : Tokens(p)' \subseteq Tokens(p)
    BY <1>8, <1>9
  <2>3. \A p, o \in Queues : p # o => Tokens(p)' \cap Tokens(o)' = {}
    BY <1>1, <2>2 DEF Single
  <2>4. \A m \in Messages :
            ran'[m] > 0 => ran'[m] = 1 /\ \A p \in Queues : m \notin Tokens(p)'
    BY <1>1, <1>2, <2>2 DEF Single
  <2> QED BY <2>1, <2>3, <2>4 DEF Single
<1>12. InFront'
  <2> SUFFICES ASSUME NEW p \in Queues
               PROVE  \A i \in 1..Len(queue'[p].items) :
                          /\ \A j \in 1..Len(drain'[p].handed) :
                                 queue'[p].items[i] = drain'[p].handed[j] => i <= j
                          /\ \A j \in 1..Len(drain'[p].rest) :
                                 queue'[p].items[i] = drain'[p].rest[j]
                                     => i <= Len(drain'[p].handed) + j
    BY DEF InFront
  <2>1. CASE p # q
    <3>1. /\ drain'[p].handed = drain[p].handed /\ drain'[p].rest = drain[p].rest
          /\ queue' = queue
      BY <2>1 DEF KeepsHand
    <3> QED BY <1>1, <3>1 DEF InFront
  <2>2. CASE p = q
    <3>1. \A i \in 1..Len(s) : \A j \in 1..k : s[i] = h[j] => i <= j
      <4>1. ASSUME NEW i \in 1..Len(s), NEW j \in 1..k, s[i] = h[j] PROVE i = j
        <5>1. j \in 1..Len(s) /\ s[i] = s[j]
          BY <1>3, <1>5, <4>1 DEF s
        <5> QED BY <1>4, <5>1 DEF Injective
      <4> QED BY <1>3, <4>1
    <3>2. \A i \in 1..Len(s) : \A j \in 1..Len(r) : s[i] = r[j] => i <= k + j
      <4>1. ASSUME NEW i \in 1..Len(s), NEW j \in 1..Len(r), s[i] = r[j] PROVE i = k + j
        <5>1. k + j \in 1..Len(s) /\ s[i] = s[k + j]
          BY <1>3, <1>6, <4>1 DEF s
        <5> QED BY <1>4, <5>1 DEF Injective
      <4> QED BY <1>3, <4>1
    <3>3. queue'[q].items = s
      BY DEF s
    <3> QED BY <1>5, <2>2, <3>1, <3>2, <3>3 DEF h, r
  <2> QED BY <2>1, <2>2
<1>13. Unhit'
  <2> SUFFICES ASSUME NEW p \in Queues, Out(p)', ~drain'[p].hit
               PROVE  Intact(p)' \/ Cleared(p)'
    BY DEF Unhit
  <2>1. CASE p # q
    BY <1>1, <1>2, <2>1, UnhitElsewhere
  <2>2. CASE p = q
    <3>1. /\ Len(h) + Len(r) <= Len(s)
          /\ \A j \in 1..Len(h) : s[j] = h[j]
          /\ \A j \in 1..Len(r) : s[Len(h) + j] = r[j]
      BY <1>3, <1>5, <1>6 DEF s
    <3>2. Intact(q)'
      BY <3>1 DEF Intact, s, h, r
    <3> QED BY <2>2, <3>2
  <2> QED BY <2>1, <2>2
<1>14. LostOnlyBehindOverflow'
  <2>1. InHand(q) = {}
    BY <1>1 DEF Typed, InHand, ToSet
  <2> QED BY <1>1, <1>2, <1>9, <2>1 DEF LostOnlyBehindOverflow, Accounted
<1> QED BY <1>10, <1>11, <1>12, <1>13, <1>14 DEF Contents

LEMMA DebounceKeepsContents ==
    ASSUME Contents, NEW q \in Queues, Debounced(q)
    PROVE  Contents'
<1> DEFINE s == queue[q].items
           summary == Summary(q)
           single == settings.mode = "collect" /\ (drain[q].forced \/ CrossChannel(s))
           One == SubSeq(s, 1, 1)
<1>1. Typed
  BY DEF Contents
<1>2. /\ ~Out(q)
      /\ UNCHANGED <<settings, queue, run, arriving, recent, histories>>
  BY DEF Debounced, Out
<1>3. /\ s \in Seq(Messages) /\ summary \in Seq(Messages) /\ <<>> \in Seq(Messages)
      /\ Len(s) \in Nat /\ Len(<<>>) = 0
      /\ summary = <<>> \/ (summary = queue[q].lines /\ settings.policy = "summarize")
  BY <1>1 DEF Typed, Stores, Summary
<1>4. single \in BOOLEAN /\ FALSE \in BOOLEAN /\ drain \in [Queues -> Hands]
  BY <1>1 DEF Typed
<1>5. CASE s = <<>> /\ settings.mode = "collect" /\ summary # <<>>
  <2>1. Hand(q, "note", <<>>, <<>>, summary, single, FALSE)
    BY <1>5 DEF Debounced
  <2>2. /\ drain' \in [Queues -> Hands]
        /\ \A p \in Queues \ {q} : KeepsHand(p)
        /\ drain'[q].at = "note" /\ drain'[q].handed = <<>> /\ drain'[q].rest = <<>>
        /\ drain'[q].telling = summary /\ drain'[q].hit = FALSE
        /\ UNCHANGED <<registered, orphaned, leftBehind>>
    <3> HIDE DEF summary, single
    <3>1. "note" \in Phases
      BY DEF Phases
    <3> DEFINE d == [at |-> "note", handed |-> <<>>, rest |-> <<>>,
                     telling |-> summary, forced |-> single, hit |-> FALSE]
    <3>2. drain' = [drain EXCEPT ![q] = d] /\ UNCHANGED <<registered, orphaned, leftBehind>>
      BY <2>1 DEF Hand
    <3>3. d \in Hands
      BY <1>3, <1>4, <3>1 DEF Hands
    <3>4. /\ d.at = "note" /\ d.handed = <<>> /\ d.rest = <<>>
          /\ d.telling = summary /\ d.hit = FALSE
      OBVIOUS
    <3> HIDE DEF d
    <3> QED BY <1>4, <3>2, <3>3, <3>4, NewHand
  <2>3. <<>> = SubSeq(queue[q].items, 1, 0) /\ 0 \in 0..Len(queue[q].items)
    BY <1>3, <1>5
  <2>4. Out(q)'
    BY <2>2 DEF Out
  <2> HIDE DEF summary, single
  <2> QED BY <1>2, <1>3, <2>2, <2>3, <2>4, HandsFront
<1>6. CASE s = <<>> /\ ~(settings.mode = "collect" /\ summary # <<>>)
  <2>1. EndDrain(q, queue)
    BY <1>6 DEF Debounced
  <2>2. /\ registered' \in {registered, NoQueue} /\ leftBehind' \in BOOLEAN
        /\ orphaned' \subseteq Queues
        /\ drain' \in [Queues -> Hands]
        /\ EmptyHanded(q)
        /\ \A p \in Queues \ {q} : KeepsHand(p)
    BY <1>1, <2>1, EndDrainHands
  <2>3. KeepsHand(q)
    BY <1>1, <1>2, <2>2 DEF KeepsHand, EmptyHanded, Typed
  <2>4. UNCHANGED <<ran, told, gone, overrun>> /\ run' = run /\ arriving' = arriving
    BY <1>2 DEF histories
  <2>5. /\ run \in {"none", "reply", "ended", "outside"} /\ arriving \subseteq Messages
        /\ registered \in Queues \cup {NoQueue}
    BY <1>1 DEF Typed, TypeOK
  <2> QED BY <1>2, <2>2, <2>3, <2>4, <2>5, NothingMoved
<1>7. CASE s # <<>> /\ (single \/ (settings.mode = "followup" /\ summary = <<>>))
  <2>1. Hand(q, "item", One, <<>>, <<>>, single, FALSE)
    BY <1>7 DEF Debounced
  <2>2. 1 \in 0..Len(s)
    BY <1>3, <1>7
  <2>3. One \in Seq(Messages)
    BY <1>3, <2>2, PrefixFacts
  <2>4. /\ drain' \in [Queues -> Hands]
        /\ \A p \in Queues \ {q} : KeepsHand(p)
        /\ drain'[q].at = "item" /\ drain'[q].handed = One /\ drain'[q].rest = <<>>
        /\ drain'[q].telling = <<>> /\ drain'[q].hit = FALSE
        /\ UNCHANGED <<registered, orphaned, leftBehind>>
    <3> HIDE DEF single, One
    <3>1. "item" \in Phases
      BY DEF Phases
    <3> DEFINE d == [at |-> "item", handed |-> One, rest |-> <<>>,
                     telling |-> <<>>, forced |-> single, hit |-> FALSE]
    <3>2. drain' = [drain EXCEPT ![q] = d] /\ UNCHANGED <<registered, orphaned, leftBehind>>
      BY <2>1 DEF Hand
    <3>3. d \in Hands
      BY <1>3, <1>4, <2>3, <3>1 DEF Hands
    <3>4. /\ d.at = "item" /\ d.handed = One /\ d.rest = <<>>
          /\ d.telling = <<>> /\ d.hit = FALSE
      OBVIOUS
    <3> HIDE DEF d
    <3> QED BY <1>4, <3>2, <3>3, <3>4, NewHand
  <2>5. Out(q)'
    BY <2>4 DEF Out
  <2> QED BY <1>2, <2>2, <2>4, <2>5, HandsFront
<1>8. CASE /\ s # <<>> /\ ~(single \/ (settings.mode = "followup" /\ summary = <<>>))
           /\ settings.mode = "followup"
  <2>1. Hand(q, "carry", One, <<>>, summary, FALSE, FALSE)
    BY <1>8 DEF Debounced
  <2>2. 1 \in 0..Len(s)
    BY <1>3, <1>8
  <2>3. One \in Seq(Messages)
    BY <1>3, <2>2, PrefixFacts
  <2>4. /\ drain' \in [Queues -> Hands]
        /\ \A p \in Queues \ {q} : KeepsHand(p)
        /\ drain'[q].at = "carry" /\ drain'[q].handed = One /\ drain'[q].rest = <<>>
        /\ drain'[q].telling = summary /\ drain'[q].hit = FALSE
        /\ UNCHANGED <<registered, orphaned, leftBehind>>
    <3> HIDE DEF summary, One
    <3>1. "carry" \in Phases
      BY DEF Phases
    <3> DEFINE d == [at |-> "carry", handed |-> One, rest |-> <<>>,
                     telling |-> summary, forced |-> FALSE, hit |-> FALSE]
    <3>2. drain' = [drain EXCEPT ![q] = d] /\ UNCHANGED <<registered, orphaned, leftBehind>>
      BY <2>1 DEF Hand
    <3>3. d \in Hands
      BY <1>3, <1>4, <2>3, <3>1 DEF Hands
    <3>4. /\ d.at = "carry" /\ d.handed = One /\ d.rest = <<>>
          /\ d.telling = summary /\ d.hit = FALSE
      OBVIOUS
    <3> HIDE DEF d
    <3> QED BY <1>4, <3>2, <3>3, <3>4, NewHand
  <2>5. Out(q)'
    BY <2>4 DEF Out
  <2> HIDE DEF summary
  <2> QED BY <1>2, <1>3, <2>2, <2>4, <2>5, HandsFront
<1>9. CASE /\ s # <<>> /\ ~(single \/ (settings.mode = "followup" /\ summary = <<>>))
           /\ settings.mode # "followup"
  <2>1. HandBatch(q, s, summary, FALSE)
    BY <1>9 DEF Debounced
  <2> HIDE DEF summary
  <2>2. /\ drain' \in [Queues -> Hands]
        /\ \A p \in Queues \ {q} : KeepsHand(p)
        /\ \E k \in 0..Len(s) : /\ drain'[q].handed = SubSeq(s, 1, k)
                                /\ drain'[q].rest = Suffix(s, k)
        /\ drain'[q].at = "batch" /\ drain'[q].telling = summary /\ drain'[q].hit = FALSE
        /\ UNCHANGED <<registered, orphaned, leftBehind>>
    BY <1>3, <1>4, <2>1, BatchResult
  <2>3. PICK k \in 0..Len(s) : /\ drain'[q].handed = SubSeq(s, 1, k)
                               /\ drain'[q].rest = Suffix(s, k)
    BY <2>2
  <2>4. Out(q)'
    BY <2>2 DEF Out
  <2> QED BY <1>2, <1>3, <2>2, <2>3, <2>4, HandsFront
<1> QED BY <1>5, <1>6, <1>7, <1>8, <1>9

-----------------------------------------------------------------------------
(* A run returns, throws, or is cleared behind.                            *)

LEMMA RemainsStore ==
    ASSUME Typed, NEW q \in Queues
    PROVE  /\ Remains(q) \in Stores
           /\ Remains(q).items = Suffix(queue[q].items, Len(drain[q].handed))
           /\ Remains(q).lines = IF drain[q].telling = <<>> THEN queue[q].lines ELSE <<>>
           /\ Len(drain[q].handed) \in Nat
<1>1. /\ queue[q].items \in Seq(Messages) /\ queue[q].lines \in Seq(Messages)
      /\ Len(drain[q].handed) \in Nat
  BY DEF Typed, Stores, Hands
<1>2. Suffix(queue[q].items, Len(drain[q].handed)) \in Seq(Messages)
  BY <1>1, SuffixFacts
<1> QED BY <1>1, <1>2 DEF Remains, Stores

(* Once a run of q has returned, q's drain has what the run left: another  *)
(* batch of the same copy, or nothing.                                     *)
LEMMA FinishHands ==
    ASSUME Contents, NEW q \in Queues, Finish(q)
    PROVE  LET r == drain[q].rest
               h2 == drain'[q].handed
               r2 == drain'[q].rest
           IN  /\ registered' \in {registered, NoQueue} /\ leftBehind' \in BOOLEAN
               /\ orphaned' \subseteq Queues
               /\ drain' \in [Queues -> Hands]
               /\ \A p \in Queues \ {q} : KeepsHand(p)
               /\ drain'[q].telling = <<>>
               /\ Len(h2) + Len(r2) = Len(r)
               /\ \A j \in 1..Len(h2) : h2[j] = r[j]
               /\ \A j \in 1..Len(r2) : r2[j] = r[Len(h2) + j]
               /\ ToSet(h2) \cup ToSet(r2) = ToSet(r)
               /\ Injective(h2) /\ Injective(r2) /\ ToSet(h2) \cap ToSet(r2) = {}
               /\ ~Out(q)' => EmptyHanded(q)
               /\ Out(q)' => drain'[q].hit = drain[q].hit
<1> DEFINE r == drain[q].rest
           qs == [queue EXCEPT ![q] = Remains(q)]
<1>1. Typed /\ Injective(r) /\ r \in Seq(Messages) /\ drain[q].hit \in BOOLEAN
      /\ drain[q].forced \in BOOLEAN
  BY DEF Contents, Typed, Single, Hands
<1>2. /\ registered \in Queues \cup {NoQueue} /\ leftBehind \in BOOLEAN
      /\ orphaned \subseteq Queues /\ drain \in [Queues -> Hands]
  BY <1>1 DEF Typed, TypeOK
<1>3. /\ <<>> \in Seq(Messages) /\ Len(<<>>) = 0 /\ ToSet(<<>>) = {} /\ Injective(<<>>)
      /\ FALSE \in BOOLEAN
  BY DEF ToSet, Injective
<1>4. CASE r # <<>>
  <2>1. HandBatch(q, r, <<>>, drain[q].hit)
    BY <1>4 DEF Finish
  <2>2. /\ drain' \in [Queues -> Hands]
        /\ \A p \in Queues \ {q} : KeepsHand(p)
        /\ \E k \in 0..Len(r) : /\ drain'[q].handed = SubSeq(r, 1, k)
                                /\ drain'[q].rest = Suffix(r, k)
        /\ drain'[q].at = "batch" /\ drain'[q].telling = <<>>
        /\ drain'[q].hit = drain[q].hit
        /\ UNCHANGED <<registered, orphaned, leftBehind>>
    <3> DEFINE hit == drain[q].hit
    <3>1. hit \in BOOLEAN /\ HandBatch(q, r, <<>>, hit) /\ r \in Seq(Messages)
      BY <1>1, <2>1
    <3> HIDE DEF r, hit
    <3>2. /\ drain' \in [Queues -> Hands]
          /\ \A p \in Queues \ {q} : KeepsHand(p)
          /\ \E k \in 0..Len(r) : /\ drain'[q].handed = SubSeq(r, 1, k)
                                  /\ drain'[q].rest = Suffix(r, k)
          /\ drain'[q].at = "batch" /\ drain'[q].telling = <<>> /\ drain'[q].hit = hit
          /\ UNCHANGED <<registered, orphaned, leftBehind>>
      BY <1>2, <1>3, <3>1, BatchResult
    <3> QED BY <3>2 DEF hit
  <2>3. PICK k \in 0..Len(r) : /\ drain'[q].handed = SubSeq(r, 1, k)
                               /\ drain'[q].rest = Suffix(r, k)
    BY <2>2
  <2> DEFINE h2 == drain'[q].handed
             r2 == drain'[q].rest
  <2>4. /\ Len(h2) = k /\ \A j \in 1..k : h2[j] = r[j]
        /\ Len(r2) = Len(r) - k /\ \A j \in 1..Len(r2) : r2[j] = r[j + k]
    <3>1. k \in Nat /\ k <= Len(r) /\ r \in Seq(Messages)
      BY <1>1
    <3> HIDE DEF r
    <3>2. Len(SubSeq(r, 1, k)) = k /\ \A j \in 1..k : SubSeq(r, 1, k)[j] = r[j]
      BY <3>1, PrefixFacts
    <3>3. /\ Len(Suffix(r, k)) = Len(r) - k
          /\ \A j \in 1..Len(Suffix(r, k)) : Suffix(r, k)[j] = r[j + k]
      BY <3>1, SuffixFacts
    <3> QED BY <2>3, <3>2, <3>3
  <2>5. ToSet(h2) \cup ToSet(r2) = ToSet(r)
    BY <1>1, <2>3, SplitFacts
  <2>6. Injective(h2) /\ Injective(r2) /\ ToSet(h2) \cap ToSet(r2) = {}
    BY <1>1, <2>3, Parts
  <2>7. Out(q)'
    BY <2>2 DEF Out
  <2>8. Len(r) \in Nat /\ k \in 0..Len(r)
    BY <1>1
  <2> HIDE DEF h2, r2, r
  <2>9. /\ Len(h2) + Len(r2) = Len(r) /\ \A j \in 1..Len(h2) : h2[j] = r[j]
        /\ \A j \in 1..Len(r2) : r2[j] = r[Len(h2) + j]
    BY <2>4, <2>8
  <2> QED BY <1>2, <2>2, <2>5, <2>6, <2>7, <2>9 DEF h2, r2, r
<1>5. ASSUME /\ registered' \in {registered, NoQueue} /\ leftBehind' \in BOOLEAN
             /\ orphaned' \subseteq Queues
             /\ drain' \in [Queues -> Hands]
             /\ \A p \in Queues \ {q} : KeepsHand(p),
             EmptyHanded(q), r = <<>>
      PROVE  /\ drain'[q].telling = <<>>
             /\ Len(drain'[q].handed) + Len(drain'[q].rest) = Len(r)
             /\ \A j \in 1..Len(drain'[q].handed) : drain'[q].handed[j] = r[j]
             /\ \A j \in 1..Len(drain'[q].rest) :
                    drain'[q].rest[j] = r[Len(drain'[q].handed) + j]
             /\ ToSet(drain'[q].handed) \cup ToSet(drain'[q].rest) = ToSet(r)
             /\ Injective(drain'[q].handed) /\ Injective(drain'[q].rest)
             /\ ToSet(drain'[q].handed) \cap ToSet(drain'[q].rest) = {}
             /\ ~Out(q)' => EmptyHanded(q)
             /\ Out(q)' => drain'[q].hit = drain[q].hit
  BY <1>3, <1>5 DEF EmptyHanded
<1>6. CASE r = <<>> /\ qs[q] # Empty
  <2>1. Hand(q, "wait", <<>>, <<>>, <<>>, drain[q].forced, FALSE)
    BY <1>6 DEF Finish
  <2>2. /\ drain' \in [Queues -> Hands]
        /\ \A p \in Queues \ {q} : KeepsHand(p)
        /\ drain'[q].at = "wait" /\ drain'[q].handed = <<>> /\ drain'[q].rest = <<>>
        /\ drain'[q].telling = <<>>
        /\ UNCHANGED <<registered, orphaned, leftBehind>>
    <3> DEFINE d == [at |-> "wait", handed |-> <<>>, rest |-> <<>>,
                     telling |-> <<>>, forced |-> drain[q].forced, hit |-> FALSE]
    <3>1. drain' = [drain EXCEPT ![q] = d] /\ UNCHANGED <<registered, orphaned, leftBehind>>
      BY <2>1 DEF Hand
    <3>2. d \in Hands /\ d.at = "wait" /\ d.handed = <<>> /\ d.rest = <<>> /\ d.telling = <<>>
      BY <1>1, <1>3 DEF Hands, Phases
    <3> HIDE DEF d
    <3> QED BY <1>2, <3>1, <3>2, NewHand
  <2>3. EmptyHanded(q)
    BY <2>2 DEF EmptyHanded, Out
  <2> QED BY <1>2, <1>5, <1>6, <2>2, <2>3
<1>7. CASE r = <<>> /\ ~(qs[q] # Empty)
  <2>1. EndDrain(q, qs)
    BY <1>7 DEF Finish
  <2> QED BY <1>1, <1>5, <1>7, <2>1, EndDrainHands
<1> QED BY <1>4, <1>6, <1>7

LEMMA FinishKeepsContents ==
    ASSUME Contents, NEW q \in Queues, Finish(q)
    PROVE  Contents'
<1> DEFINE s == queue[q].items
           t == queue'[q].items
           h == drain[q].handed
           r == drain[q].rest
           n == Len(h)
           h2 == drain'[q].handed
           r2 == drain'[q].rest
           carry == drain[q].at = "carry"
           behind == Held(queue[q]) \ (Held(queue'[q]) \cup InHand(q))
<1>1. Typed /\ Single /\ InFront /\ Unhit /\ LostOnlyBehindOverflow
  BY DEF Contents
<1>2. /\ queue' = [queue EXCEPT ![q] = Remains(q)]
      /\ UNCHANGED <<settings, run, arriving, recent>>
  BY DEF Finish
<1>3. queue'[q] = Remains(q) /\ \A p \in Queues \ {q} : queue'[p] = queue[p]
  BY <1>1, <1>2 DEF Typed
<1>4. /\ ran' = [m \in Messages |-> IF ~carry /\ m \in ToSet(h) THEN ran[m] + 1 ELSE ran[m]]
      /\ told' = told \cup ToSet(drain[q].telling)
      /\ gone' = IF carry THEN gone \cup ToSet(h) ELSE gone
      /\ overrun' = IF drain[q].hit THEN overrun \cup behind ELSE overrun
      /\ Out(q)
  <2>1. queue' = [queue EXCEPT ![q] = Remains(q)]
    BY <1>2
  <2>2. LET read == IF carry THEN {} ELSE ToSet(h)
        IN  ran' = [m \in Messages |-> IF m \in read THEN ran[m] + 1 ELSE ran[m]]
    BY DEF Finish
  <2> QED BY <2>1, <2>2 DEF Finish
<1>5. /\ registered' \in {registered, NoQueue} /\ leftBehind' \in BOOLEAN
      /\ orphaned' \subseteq Queues
      /\ drain' \in [Queues -> Hands]
      /\ \A p \in Queues \ {q} : KeepsHand(p)
      /\ drain'[q].telling = <<>>
      /\ Len(h2) + Len(r2) = Len(r)
      /\ \A j \in 1..Len(h2) : h2[j] = r[j]
      /\ \A j \in 1..Len(r2) : r2[j] = r[Len(h2) + j]
      /\ ToSet(h2) \cup ToSet(r2) = ToSet(r)
      /\ Injective(h2) /\ Injective(r2) /\ ToSet(h2) \cap ToSet(r2) = {}
      /\ ~Out(q)' => EmptyHanded(q)
      /\ Out(q)' => drain'[q].hit = drain[q].hit
  BY FinishHands
<1>6. /\ s \in Seq(Messages) /\ h \in Seq(Messages) /\ r \in Seq(Messages)
      /\ queue[q].lines \in Seq(Messages)
      /\ Len(s) \in Nat /\ n \in Nat /\ Len(r) \in Nat
      /\ h2 \in Seq(Messages) /\ r2 \in Seq(Messages)
      /\ Len(h2) \in Nat /\ Len(r2) \in Nat /\ Injective(s)
  BY <1>1, <1>5 DEF Typed, Stores, Hands, Single
<1>7. /\ Remains(q) \in Stores /\ t = Suffix(s, n)
      /\ queue'[q].lines = IF drain[q].telling = <<>> THEN queue[q].lines ELSE <<>>
  BY <1>1, <1>3, RemainsStore
<1>8. /\ t \in Seq(Messages)
      /\ Len(t) = IF n <= Len(s) THEN Len(s) - n ELSE 0
      /\ \A i \in 1..Len(t) : t[i] = s[i + n]
      /\ ToSet(t) \subseteq ToSet(s)
  <2>1. n \in Nat /\ s \in Seq(Messages) /\ t = Suffix(s, n)
    BY <1>6, <1>7
  <2> HIDE DEF s, t, h, n
  <2> QED BY <2>1, SuffixFacts
<1> HIDE DEF s, t, h, r, h2, r2, n
<1>9. \A i \in 1..Len(t) : i + n \in 1..Len(s) /\ t[i] = s[i + n] /\ i \in Nat
  BY <1>6, <1>8
<1>10. Injective(t)
  <2> SUFFICES ASSUME NEW i \in 1..Len(t), NEW j \in 1..Len(t), t[i] = t[j] PROVE i = j
    BY DEF Injective
  <2>1. i + n = j + n
    BY <1>6, <1>9 DEF Injective
  <2> QED BY <1>6, <2>1
<1>11. ToSet(h) \cap ToSet(t) = {}
  <2> SUFFICES ASSUME NEW i \in 1..Len(t), NEW j \in 1..Len(h), t[i] = h[j] PROVE FALSE
    <3>1. t \in Seq(Messages) /\ h \in Seq(Messages)
      BY <1>6, <1>8
    <3>2. /\ \A x \in ToSet(t) : \E i \in 1..Len(t) : t[i] = x
          /\ \A x \in ToSet(h) : \E i \in 1..Len(h) : h[i] = x
      BY <3>1, Members
    <3> QED BY <3>2
  <2>1. i + n <= j
    BY <1>1, <1>9 DEF InFront, s, h
  <2> QED BY <1>6, <2>1 DEF n
<1>12. /\ \A p \in Queues \ {q} : Tokens(p)' = Tokens(p) /\ InHand(p)' = InHand(p)
       /\ Tokens(q)' \subseteq Tokens(q)
       /\ Tokens(q)' \cap ToSet(h) = {}
       /\ InHand(q)' = ToSet(r)
  <2>1. \A p \in Queues \ {q} : Tokens(p)' = Tokens(p) /\ InHand(p)' = InHand(p)
    BY <1>3, <1>5 DEF Tokens, InHand, KeepsHand
  <2>2. Tokens(q)' = ToSet(t) \cup ToSet(r) /\ Tokens(q) = ToSet(s) \cup ToSet(h) \cup ToSet(r)
    BY <1>5 DEF Tokens, t, h2, r2, s, h, r
  <2>3. ToSet(h) \cap ToSet(r) = {}
    BY <1>1 DEF Single, h, r
  <2>4. InHand(q)' = ToSet(r)
    <3>1. ToSet(drain'[q].telling) = {}
      BY <1>5 DEF ToSet
    <3> QED BY <1>5, <3>1 DEF InHand, h2, r2
  <2> QED BY <1>8, <1>11, <2>1, <2>2, <2>3, <2>4
<1>13. /\ Held(queue'[q]) \subseteq Held(queue[q])
       /\ \A p \in Queues \ {q} : Held(queue'[p]) = Held(queue[p])
  <2>1. ToSet(<<>>) = {}
    BY DEF ToSet
  <2>2. ToSet(queue'[q].items) \subseteq ToSet(queue[q].items)
    BY <1>8 DEF s, t
  <2>3. ToSet(queue'[q].lines) \subseteq ToSet(queue[q].lines)
    BY <1>7, <2>1
  <2> QED BY <1>3, <2>2, <2>3 DEF Held
<1>14. \A p \in Queues : Held(queue[p]) \cup InHand(p) \subseteq recent
  BY <1>1 DEF Typed
<1>15. ToSet(h) \subseteq InHand(q) /\ ToSet(r) \subseteq InHand(q)
       /\ ToSet(drain[q].telling) \subseteq InHand(q)
  BY DEF InHand, h, r
<1>16. /\ ran' \in [Messages -> Nat]
       /\ \A m \in Messages : ran[m] > 0 => ran'[m] > 0
       /\ \A m \in Messages : ran'[m] > 0 => ran[m] > 0 \/ m \in ToSet(h)
  <2>1. ran \in [Messages -> Nat]
    BY <1>1 DEF Typed, TypeOK
  <2> QED BY <1>4, <2>1
<1>17. /\ told \subseteq told' /\ gone \subseteq gone' /\ overrun \subseteq overrun'
       /\ told' \cup gone' \cup overrun' \subseteq recent
  <2>1. told \cup gone \cup overrun \subseteq recent
    BY <1>1 DEF Typed, TypeOK
  <2> QED BY <1>4, <1>14, <1>15, <2>1
<1>18. Typed'
  <2>1. queue' \in [Queues -> Stores]
    BY <1>1, <1>2, <1>7 DEF Typed
  <2>2. /\ settings \in Settings /\ settings' = settings
        /\ registered' \in Queues \cup {NoQueue}
        /\ run' \in {"none", "reply", "ended", "outside"}
        /\ arriving' \subseteq Messages /\ recent' \subseteq Messages
    BY <1>1, <1>2, <1>5 DEF Typed, TypeOK
  <2>3. \A m \in Messages : ran'[m] > 0 => m \in recent'
    BY <1>1, <1>2, <1>14, <1>15, <1>16 DEF Typed
  <2>4. \A p \in Queues : Held(queue'[p]) \cup InHand(p)' \subseteq recent'
    BY <1>2, <1>12, <1>13, <1>14, <1>15
  <2>5. ASSUME NEW p \in Queues
        PROVE  Len(queue'[p].items) <= settings.cap /\ Len(queue'[p].lines) <= settings.cap
    <3>1. Len(queue[p].items) <= settings.cap /\ Len(queue[p].lines) <= settings.cap /\ settings.cap \in Nat
      BY <1>1, FollowupAssumption DEF Typed, TypeOK
    <3>2. CASE p # q
      BY <1>3, <3>1, <3>2
    <3>3. CASE p = q
      <4>1. Len(t) <= settings.cap
        BY <1>6, <1>8, <3>1, <3>3 DEF s
      <4>2. Len(queue'[q].lines) <= settings.cap
        BY <1>7, <3>1, <3>3
      <4> QED BY <3>3, <4>1, <4>2 DEF t
    <3> QED BY <3>2, <3>3
  <2>6. \A p \in Queues : /\ ~Out(p)' => EmptyHanded(p)
                          /\ drain'[p].telling # <<>> => settings'.policy = "summarize"
    BY <1>1, <1>2, <1>5 DEF Typed, KeepsHand, EmptyHanded
  <2> QED BY <1>2, <1>5, <1>16, <1>17, <2>1, <2>2, <2>3, <2>4, <2>5, <2>6, TypedAfter
<1>19. Single'
  <2>1. \A p \in Queues : /\ Injective(queue'[p].items)
                          /\ Injective(drain'[p].handed) /\ Injective(drain'[p].rest)
                          /\ ToSet(drain'[p].handed) \cap ToSet(drain'[p].rest) = {}
    BY <1>1, <1>3, <1>5, <1>10 DEF Single, KeepsHand, t, h2, r2
  <2>2. \A p \in Queues : Tokens(p)' \subseteq Tokens(p)
    BY <1>12
  <2>3. \A p, o \in Queues : p # o => Tokens(p)' \cap Tokens(o)' = {}
    BY <1>1, <2>2 DEF Single
  <2>4. ToSet(h) \subseteq Tokens(q)
    BY DEF Tokens, h
  <2>5. ASSUME NEW m \in Messages, ran'[m] > 0
        PROVE  ran'[m] = 1 /\ \A p \in Queues : m \notin Tokens(p)'
    <3>1. ran \in [Messages -> Nat]
      BY <1>1 DEF Typed, TypeOK
    <3>2. CASE ran[m] > 0
      <4>1. ran[m] = 1 /\ \A p \in Queues : m \notin Tokens(p)
        BY <1>1, <3>2 DEF Single
      <4> QED BY <1>4, <2>2, <2>4, <4>1
    <3>3. CASE ~(ran[m] > 0)
      <4>1. m \in ToSet(h) /\ ran'[m] = 1
        BY <1>4, <1>16, <2>5, <3>1, <3>3
      <4>2. \A p \in Queues \ {q} : m \notin Tokens(p)
        BY <1>1, <2>4, <4>1 DEF Single
      <4> QED BY <1>12, <4>1, <4>2
    <3> QED BY <3>2, <3>3
  <2> QED BY <2>1, <2>3, <2>5 DEF Single
<1>20. InFront'
  <2> SUFFICES ASSUME NEW p \in Queues
               PROVE  \A i \in 1..Len(queue'[p].items) :
                          /\ \A j \in 1..Len(drain'[p].handed) :
                                 queue'[p].items[i] = drain'[p].handed[j] => i <= j
                          /\ \A j \in 1..Len(drain'[p].rest) :
                                 queue'[p].items[i] = drain'[p].rest[j]
                                     => i <= Len(drain'[p].handed) + j
    BY DEF InFront
  <2>1. CASE p # q
    <3>1. /\ drain'[p].handed = drain[p].handed /\ drain'[p].rest = drain[p].rest
          /\ queue'[p] = queue[p]
      BY <1>3, <1>5, <2>1 DEF KeepsHand
    <3> QED BY <1>1, <3>1 DEF InFront
  <2>2. CASE p = q
    <3>1. \A i \in 1..Len(s) : \A j \in 1..Len(r) : s[i] = r[j] => i <= n + j
      BY <1>1 DEF InFront, s, r, h, n
    <3>2. \A i \in 1..Len(t) : \A j \in 1..Len(r) : t[i] = r[j] => i <= j
      <4> SUFFICES ASSUME NEW i \in 1..Len(t), NEW j \in 1..Len(r), t[i] = r[j]
                   PROVE  i <= j
        OBVIOUS
      <4>1. i + n <= n + j
        BY <1>9, <3>1
      <4> QED BY <1>6, <1>9, <4>1
    <3>3. \A i \in 1..Len(t) : \A j \in 1..Len(h2) : t[i] = h2[j] => i <= j
      <4> SUFFICES ASSUME NEW i \in 1..Len(t), NEW j \in 1..Len(h2), t[i] = h2[j]
                   PROVE  i <= j
        OBVIOUS
      <4>1. j \in 1..Len(r) /\ t[i] = r[j]
        BY <1>5, <1>6
      <4> QED BY <3>2, <4>1
    <3>4. \A i \in 1..Len(t) : \A j \in 1..Len(r2) : t[i] = r2[j] => i <= Len(h2) + j
      <4> SUFFICES ASSUME NEW i \in 1..Len(t), NEW j \in 1..Len(r2), t[i] = r2[j]
                   PROVE  i <= Len(h2) + j
        OBVIOUS
      <4>1. Len(h2) + j \in 1..Len(r) /\ t[i] = r[Len(h2) + j]
        BY <1>5, <1>6
      <4> QED BY <3>2, <4>1
    <3> QED BY <2>2, <3>3, <3>4 DEF t, h2, r2
  <2> QED BY <2>1, <2>2
<1>21. Unhit'
  <2> SUFFICES ASSUME NEW p \in Queues, Out(p)', ~drain'[p].hit
               PROVE  Intact(p)' \/ Cleared(p)'
    BY DEF Unhit
  <2>1. p # registered' \/ registered' = registered
    BY <1>5, FollowupAssumption
  <2>2. CASE p # q
    BY <1>1, <1>3, <1>5, <1>17, <2>1, <2>2, UnhitElsewhere
  <2>3. CASE p = q /\ Intact(q)
    <3>1. /\ n + Len(r) <= Len(s) /\ \A j \in 1..Len(r) : s[n + j] = r[j]
      BY <2>3 DEF Intact, n, s, r, h
    <3>2. Len(t) = Len(s) - n /\ Len(r) <= Len(t)
      BY <1>6, <1>8, <3>1
    <3>3. ASSUME NEW j \in 1..Len(r) PROVE t[j] = r[j]
      <4>1. j \in Nat /\ j \in 1..Len(t)
        BY <1>6, <1>8, <3>2
      <4>2. t[j] = s[j + n] /\ j + n = n + j
        BY <1>6, <1>9, <4>1
      <4> QED BY <3>1, <4>1, <4>2
    <3>4. /\ Len(h2) + Len(r2) <= Len(t)
          /\ \A j \in 1..Len(h2) : t[j] = h2[j]
      BY <1>5, <1>6, <3>2, <3>3
    <3>5. ASSUME NEW j \in 1..Len(r2) PROVE t[Len(h2) + j] = r2[j]
      <4>1. Len(h2) + j \in 1..Len(r)
        BY <1>5, <1>6
      <4>2. r2[j] = r[Len(h2) + j]
        BY <1>5
      <4> QED BY <3>3, <4>1, <4>2
    <3>6. Intact(q)'
      BY <1>5, <3>4, <3>5 DEF Intact, t, h2, r2
    <3> QED BY <2>3, <3>6
  <2>4. CASE p = q /\ Cleared(q)
    <3>1. queue[q] = Empty /\ q # registered /\ InHand(q) \subseteq gone
      BY <2>4 DEF Cleared
    <3>2. s = <<>> /\ queue[q].lines = <<>>
      BY <3>1 DEF Empty, s
    <3>3. t = <<>> /\ queue'[q].lines = <<>>
      BY <1>6, <1>7, <1>8, <3>2
    <3>4. queue'[q] = Empty
      BY <1>3, <1>7, <3>3 DEF Empty, Remains, t
    <3> QED BY <1>12, <1>15, <1>17, <2>1, <2>4, <3>1, <3>4 DEF Cleared
  <2>5. p = q => Intact(q) \/ Cleared(q)
    BY <1>1, <1>4, <1>5 DEF Unhit
  <2> QED BY <2>2, <2>3, <2>4, <2>5
<1>22. LostOnlyBehindOverflow'
  <2> SUFFICES ASSUME NEW x \in recent PROVE Accounted(x)' \/ x \in overrun'
    BY <1>2 DEF LostOnlyBehindOverflow
  <2>0. x \in Messages
    BY <1>1 DEF Typed, TypeOK
  <2>1. CASE ran[x] > 0 \/ x \in told \cup gone \/ x \in overrun
    BY <1>16, <1>17, <2>0, <2>1 DEF Accounted
  <2>2. CASE \E p \in Queues \ {q} : x \in Held(queue[p]) \cup InHand(p)
    BY <1>12, <1>13, <2>2 DEF Accounted
  <2>3. CASE x \in InHand(q)
    <3>1. CASE x \in ToSet(h)
      <4>1. ran \in [Messages -> Nat]
        BY <1>1 DEF Typed, TypeOK
      <4> QED BY <1>4, <2>0, <3>1, <4>1 DEF Accounted
    <3>2. CASE x \in ToSet(drain[q].telling)
      BY <1>4, <3>2 DEF Accounted
    <3>3. CASE x \in ToSet(r)
      BY <1>12, <3>3 DEF Accounted
    <3> QED BY <2>3, <3>1, <3>2, <3>3 DEF InHand, h, r
  <2>4. CASE x \in Held(queue[q]) /\ x \notin InHand(q) /\ x \notin Held(queue'[q])
    <3>1. CASE drain[q].hit
      BY <1>4, <2>4, <3>1
    <3>2. CASE ~drain[q].hit
      <4>1. Intact(q)
        <5>1. Held(Empty) = {}
          BY DEF Held, Empty, ToSet
        <5> QED BY <1>1, <1>4, <2>4, <3>2, <5>1 DEF Unhit, Cleared
      <4>2. x \notin ToSet(s)
        <5> SUFFICES ASSUME NEW i \in 1..Len(s), s[i] = x PROVE FALSE
          BY <1>6, Members
        <5>1. CASE i <= n
          <6>1. i \in 1..Len(h) /\ s[i] = h[i]
            BY <1>6, <4>1, <5>1 DEF Intact, s, h, n
          <6>2. x \in ToSet(h)
            BY <1>6, <6>1, Members
          <6> QED BY <1>15, <2>4, <6>2
        <5>2. CASE i > n
          <6>1. i - n \in 1..Len(t) /\ t[i - n] = s[i]
            BY <1>6, <1>8, <5>2
          <6>2. x \in ToSet(t)
            BY <1>8, <6>1, Members
          <6> QED BY <2>4, <6>2 DEF Held, t
        <5> QED BY <1>6, <5>1, <5>2
      <4>3. x \in ToSet(queue[q].lines)
        BY <2>4, <4>2 DEF Held, s
      <4> QED BY <1>7, <1>15, <2>4, <4>1, <4>3 DEF Intact, Held
    <3> QED BY <3>1, <3>2
  <2>5. CASE x \in Held(queue'[q])
    BY <2>5 DEF Accounted
  <2> QED BY <1>1, <2>1, <2>2, <2>3, <2>4, <2>5 DEF LostOnlyBehindOverflow, Accounted
<1> QED BY <1>18, <1>19, <1>20, <1>21, <1>22 DEF Contents

(* What a run that nothing was dropped under has in hand is in the queue.  *)
LEMMA IntactHolds ==
    ASSUME Typed, NEW q \in Queues, Intact(q)
    PROVE  InHand(q) \subseteq Held(queue[q])
<1> DEFINE s == queue[q].items
           h == drain[q].handed
           r == drain[q].rest
<1>1. /\ s \in Seq(Messages) /\ h \in Seq(Messages) /\ r \in Seq(Messages)
      /\ Len(s) \in Nat /\ Len(h) \in Nat /\ Len(r) \in Nat
  BY DEF Typed, Stores, Hands
<1>2. /\ Len(h) + Len(r) <= Len(s)
      /\ \A j \in 1..Len(h) : s[j] = h[j]
      /\ \A j \in 1..Len(r) : s[Len(h) + j] = r[j]
      /\ drain[q].telling # <<>> => drain[q].telling = queue[q].lines
  BY DEF Intact
<1> HIDE DEF s, h, r
<1>3. ToSet(h) \subseteq ToSet(s)
  <2> SUFFICES ASSUME NEW j \in 1..Len(h) PROVE h[j] \in ToSet(s)
    BY <1>1, Members
  <2>1. j \in 1..Len(s) /\ s[j] = h[j]
    BY <1>1, <1>2
  <2> QED BY <1>1, <2>1, Members
<1>4. ToSet(r) \subseteq ToSet(s)
  <2> SUFFICES ASSUME NEW j \in 1..Len(r) PROVE r[j] \in ToSet(s)
    BY <1>1, Members
  <2>1. Len(h) + j \in 1..Len(s) /\ s[Len(h) + j] = r[j]
    BY <1>1, <1>2
  <2> QED BY <1>1, <2>1, Members
<1>5. ToSet(<<>>) = {}
  BY DEF ToSet
<1> QED BY <1>2, <1>3, <1>4, <1>5 DEF InHand, Held, s, h, r

LEMMA ThrowKeepsContents ==
    ASSUME Contents, NEW q \in Queues, Throw(q)
    PROVE  Contents'
<1>1. Typed /\ Single /\ InFront /\ Unhit /\ LostOnlyBehindOverflow
  BY DEF Contents
<1>2. /\ UNCHANGED <<settings, queue, run, arriving, recent, ran, told, gone>>
      /\ overrun' = IF drain[q].hit
                    THEN overrun \cup (InHand(q) \ Held(queue[q])) ELSE overrun
      /\ Out(q)
  BY DEF Throw
<1>3. /\ registered' \in {registered, NoQueue} /\ leftBehind' \in BOOLEAN
      /\ orphaned' \subseteq Queues
      /\ drain' \in [Queues -> Hands]
      /\ EmptyHanded(q)
      /\ \A p \in Queues \ {q} : KeepsHand(p)
  BY <1>1, EndDrainHands DEF Throw
<1>4. ToSet(<<>>) = {} /\ Injective(<<>>) /\ Len(<<>>) = 0
  BY DEF ToSet, Injective
<1>5. /\ \A p \in Queues \ {q} : InHand(p)' = InHand(p) /\ Tokens(p)' = Tokens(p)
      /\ InHand(q)' = {} /\ Tokens(q)' \subseteq Tokens(q)
  <2>1. \A p \in Queues \ {q} : InHand(p)' = InHand(p) /\ Tokens(p)' = Tokens(p)
    BY <1>2, <1>3 DEF InHand, Tokens, KeepsHand
  <2> QED BY <1>2, <1>3, <1>4, <2>1 DEF InHand, Tokens, EmptyHanded
<1>6. overrun \subseteq overrun' /\ overrun' \subseteq overrun \cup InHand(q)
  BY <1>2
<1>7. \A p \in Queues : Held(queue[p]) \cup InHand(p) \subseteq recent
  BY <1>1 DEF Typed
<1>8. Typed'
  <2>1. /\ settings \in Settings /\ settings' = settings
        /\ registered' \in Queues \cup {NoQueue}
        /\ run' \in {"none", "reply", "ended", "outside"}
        /\ arriving' \subseteq Messages /\ recent' \subseteq Messages
        /\ ran' \in [Messages -> Nat]
        /\ (told \cup gone \cup overrun)' \subseteq recent'
        /\ \A m \in Messages : ran'[m] > 0 => m \in recent'
        /\ queue' \in [Queues -> Stores]
    BY <1>1, <1>2, <1>3, <1>6, <1>7 DEF Typed, TypeOK
  <2>2. \A p \in Queues : Held(queue'[p]) \cup InHand(p)' \subseteq recent'
    BY <1>2, <1>5, <1>7
  <2>3. \A p \in Queues :
            /\ Len(queue'[p].items) <= settings.cap /\ Len(queue'[p].lines) <= settings.cap
            /\ ~Out(p)' => EmptyHanded(p)
            /\ drain'[p].telling # <<>> => settings'.policy = "summarize"
    BY <1>1, <1>2, <1>3 DEF Typed, TypeOK, KeepsHand, EmptyHanded
  <2> QED BY <1>3, <2>1, <2>2, <2>3, TypedAfter
<1>9. Single'
  <2>1. \A p \in Queues : /\ Injective(queue'[p].items)
                          /\ Injective(drain'[p].handed) /\ Injective(drain'[p].rest)
                          /\ ToSet(drain'[p].handed) \cap ToSet(drain'[p].rest) = {}
    BY <1>1, <1>2, <1>3, <1>4 DEF Single, KeepsHand, EmptyHanded
  <2>2. \A p \in Queues : Tokens(p)' \subseteq Tokens(p)
    BY <1>5
  <2>3. \A p, o \in Queues : p # o => Tokens(p)' \cap Tokens(o)' = {}
    BY <1>1, <2>2 DEF Single
  <2>4. \A m \in Messages :
            ran'[m] > 0 => ran'[m] = 1 /\ \A p \in Queues : m \notin Tokens(p)'
    BY <1>1, <1>2, <2>2 DEF Single
  <2> QED BY <2>1, <2>3, <2>4 DEF Single
<1>10. InFront'
  <2> SUFFICES ASSUME NEW p \in Queues
               PROVE  \A i \in 1..Len(queue'[p].items) :
                          /\ \A j \in 1..Len(drain'[p].handed) :
                                 queue'[p].items[i] = drain'[p].handed[j] => i <= j
                          /\ \A j \in 1..Len(drain'[p].rest) :
                                 queue'[p].items[i] = drain'[p].rest[j]
                                     => i <= Len(drain'[p].handed) + j
    BY DEF InFront
  <2>1. CASE p # q
    <3>1. /\ drain'[p].handed = drain[p].handed /\ drain'[p].rest = drain[p].rest
          /\ queue'[p] = queue[p]
      BY <1>2, <1>3, <2>1 DEF KeepsHand
    <3> QED BY <1>1, <3>1 DEF InFront
  <2>2. CASE p = q
    <3>1. Len(drain'[q].handed) = 0 /\ Len(drain'[q].rest) = 0
      BY <1>3, <1>4 DEF EmptyHanded
    <3> QED BY <2>2, <3>1
  <2> QED BY <2>1, <2>2
<1>11. Unhit'
  <2> SUFFICES ASSUME NEW p \in Queues, Out(p)', ~drain'[p].hit
               PROVE  Intact(p)' \/ Cleared(p)'
    BY DEF Unhit
  <2>1. p # q
    BY <1>3 DEF EmptyHanded
  <2>2. KeepsHand(p) /\ queue'[p] = queue[p] /\ gone \subseteq gone'
        /\ (p # registered' \/ registered' = registered)
    BY <1>2, <1>3, <2>1, FollowupAssumption
  <2> QED BY <1>1, <2>2, UnhitElsewhere
<1>12. LostOnlyBehindOverflow'
  <2> SUFFICES ASSUME NEW x \in recent PROVE Accounted(x)' \/ x \in overrun'
    BY <1>2 DEF LostOnlyBehindOverflow
  <2>1. CASE ran[x] > 0 \/ x \in told \cup gone \/ x \in overrun
    BY <1>2, <1>6, <2>1 DEF Accounted
  <2>2. CASE \E p \in Queues : x \in Held(queue[p]) \/ (p # q /\ x \in InHand(p))
    BY <1>2, <1>5, <2>2 DEF Accounted
  <2>3. CASE x \in InHand(q) /\ x \notin Held(queue[q])
    <3>1. CASE drain[q].hit
      BY <1>2, <2>3, <3>1
    <3>2. CASE ~drain[q].hit
      <4>1. Cleared(q)
        BY <1>1, <1>2, <2>3, <3>2, IntactHolds DEF Unhit
      <4> QED BY <1>2, <2>3, <4>1 DEF Cleared, Accounted
    <3> QED BY <3>1, <3>2
  <2> QED BY <1>1, <2>1, <2>2, <2>3 DEF LostOnlyBehindOverflow, Accounted
<1> QED BY <1>8, <1>9, <1>10, <1>11, <1>12 DEF Contents

LEMMA ClearKeepsContents ==
    ASSUME Contents, Clear
    PROVE  Contents'
<1>1. Typed /\ Single /\ InFront /\ Unhit /\ LostOnlyBehindOverflow
  BY DEF Contents
<1>2. PICK q \in Queues : q = registered
  BY <1>1 DEF Typed, TypeOK, Clear
<1>3. /\ queue' = [queue EXCEPT ![q] = Empty]
      /\ registered' = NoQueue /\ leftBehind' = FALSE
      /\ gone' = gone \cup Held(queue[q])
      /\ UNCHANGED <<settings, drain, run, arriving, recent, ran, told, overrun, orphaned>>
  BY <1>2 DEF Clear
<1>4. queue'[q] = Empty /\ \A p \in Queues \ {q} : queue'[p] = queue[p]
  BY <1>1, <1>3, <1>2 DEF Typed
<1>5. /\ ToSet(<<>>) = {} /\ Injective(<<>>) /\ Len(<<>>) = 0 /\ <<>> \in Seq(Messages)
      /\ Empty \in Stores /\ Empty.items = <<>> /\ Empty.lines = <<>>
      /\ Held(Empty) = {}
  BY DEF ToSet, Injective, Empty, Stores, Held
<1>6. \A p \in Queues : KeepsHand(p) /\ InHand(p)' = InHand(p) /\ Tokens(p)' \subseteq Tokens(p)
  BY <1>3, <1>4, <1>5 DEF KeepsHand, Out, InHand, Tokens
<1>7. \A p \in Queues : Held(queue[p]) \cup InHand(p) \subseteq recent
  BY <1>1 DEF Typed
<1>8. Typed'
  <2>1. /\ settings \in Settings /\ settings' = settings
        /\ registered' \in Queues \cup {NoQueue}
        /\ run' \in {"none", "reply", "ended", "outside"}
        /\ arriving' \subseteq Messages /\ recent' \subseteq Messages
        /\ ran' \in [Messages -> Nat]
        /\ (told \cup gone \cup overrun)' \subseteq recent'
        /\ \A m \in Messages : ran'[m] > 0 => m \in recent'
        /\ queue' \in [Queues -> Stores] /\ drain' \in [Queues -> Hands]
        /\ orphaned' \subseteq Queues /\ leftBehind' \in BOOLEAN
    BY <1>1, <1>3, <1>2, <1>5, <1>7 DEF Typed, TypeOK
  <2>2. \A p \in Queues : Held(queue'[p]) \cup InHand(p)' \subseteq recent'
    BY <1>3, <1>4, <1>5, <1>6, <1>7
  <2>3. \A p \in Queues :
            /\ ~Out(p)' => EmptyHanded(p)
            /\ drain'[p].telling # <<>> => settings'.policy = "summarize"
    BY <1>1, <1>3 DEF Typed, EmptyHanded, Out
  <2>4. \A p \in Queues : Len(queue'[p].items) <= settings.cap /\ Len(queue'[p].lines) <= settings.cap
    <3>1. 0 <= settings.cap
      BY <2>1, FollowupAssumption
    <3> QED BY <1>1, <1>4, <1>5, <3>1 DEF Typed, TypeOK
  <2> QED BY <2>1, <2>2, <2>3, <2>4, TypedAfter
<1>9. Single'
  <2>1. \A p \in Queues : /\ Injective(queue'[p].items)
                          /\ Injective(drain'[p].handed) /\ Injective(drain'[p].rest)
                          /\ ToSet(drain'[p].handed) \cap ToSet(drain'[p].rest) = {}
    BY <1>1, <1>3, <1>4, <1>5 DEF Single
  <2>2. \A p, o \in Queues : p # o => Tokens(p)' \cap Tokens(o)' = {}
    BY <1>1, <1>6 DEF Single
  <2>3. \A m \in Messages :
            ran'[m] > 0 => ran'[m] = 1 /\ \A p \in Queues : m \notin Tokens(p)'
    BY <1>1, <1>3, <1>6 DEF Single
  <2> QED BY <2>1, <2>2, <2>3 DEF Single
<1>10. InFront'
  <2> SUFFICES ASSUME NEW p \in Queues
               PROVE  \A i \in 1..Len(queue'[p].items) :
                          /\ \A j \in 1..Len(drain'[p].handed) :
                                 queue'[p].items[i] = drain'[p].handed[j] => i <= j
                          /\ \A j \in 1..Len(drain'[p].rest) :
                                 queue'[p].items[i] = drain'[p].rest[j]
                                     => i <= Len(drain'[p].handed) + j
    BY DEF InFront
  <2>1. CASE p # q
    <3>1. drain' = drain /\ queue'[p] = queue[p]
      BY <1>3, <1>4, <2>1
    <3> QED BY <1>1, <3>1 DEF InFront
  <2>2. CASE p = q
    <3>1. Len(queue'[q].items) = 0
      BY <1>4, <1>5
    <3> QED BY <2>2, <3>1
  <2> QED BY <2>1, <2>2
<1>11. Unhit'
  <2> SUFFICES ASSUME NEW p \in Queues, Out(p)', ~drain'[p].hit
               PROVE  Intact(p)' \/ Cleared(p)'
    BY DEF Unhit
  <2>1. CASE p # q
    <3>1. queue'[p] = queue[p] /\ gone \subseteq gone' /\ p # registered'
      BY <1>3, <1>4, <2>1, FollowupAssumption
    <3> QED BY <1>1, <1>6, <3>1, UnhitElsewhere
  <2>2. CASE p = q
    <3>1. Out(q) /\ ~drain[q].hit
      BY <1>3, <2>2 DEF Out
    <3>2. Intact(q)
      BY <1>1, <1>2, <3>1 DEF Unhit, Cleared
    <3>3. InHand(q)' \subseteq gone'
      BY <1>1, <1>3, <1>2, <1>6, <3>2, IntactHolds
    <3>4. q # registered' /\ Empty' = Empty
      BY <1>3, FollowupAssumption DEF Empty
    <3> QED BY <1>4, <2>2, <3>3, <3>4 DEF Cleared
  <2> QED BY <2>1, <2>2
<1>12. LostOnlyBehindOverflow'
  <2> SUFFICES ASSUME NEW x \in recent PROVE Accounted(x)' \/ x \in overrun'
    BY <1>3 DEF LostOnlyBehindOverflow
  <2>1. CASE ran[x] > 0 \/ x \in told \cup gone \/ x \in overrun
    BY <1>3, <2>1 DEF Accounted
  <2>2. CASE \E p \in Queues : x \in InHand(p) \/ (p # q /\ x \in Held(queue[p]))
    BY <1>4, <1>6, <2>2 DEF Accounted
  <2>3. CASE x \in Held(queue[q])
    BY <1>3, <2>3 DEF Accounted
  <2> QED BY <1>1, <2>1, <2>2, <2>3 DEF LostOnlyBehindOverflow, Accounted
<1> QED BY <1>8, <1>9, <1>10, <1>11, <1>12 DEF Contents

-----------------------------------------------------------------------------
(* Every step.                                                             *)

LEMMA InitContents ==
    ASSUME Init
    PROVE  Contents
<1>1. /\ <<>> \in Seq(Messages) /\ Len(<<>>) = 0 /\ ToSet(<<>>) = {} /\ Injective(<<>>)
      /\ Empty \in Stores /\ Empty.items = <<>> /\ Empty.lines = <<>>
  BY DEF ToSet, Injective, Empty, Stores
<1>2. /\ queue \in [Queues -> Stores] /\ drain \in [Queues -> Hands]
      /\ \A q \in Queues : queue[q] = Empty /\ drain[q] = Idle
  BY <1>1, IdleHand DEF Init
<1>3. \A q \in Queues : /\ ~Out(q)
                        /\ drain[q].handed = <<>> /\ drain[q].rest = <<>>
                        /\ drain[q].telling = <<>>
                        /\ Held(queue[q]) = {} /\ InHand(q) = {} /\ Tokens(q) = {}
  BY <1>1, <1>2, IdleHand DEF Out, Held, InHand, Tokens
<1>4. /\ settings \in Settings /\ registered = NoQueue /\ run = "none"
      /\ arriving = {} /\ recent = {}
      /\ ran = [m \in Messages |-> 0]
      /\ told = {} /\ gone = {} /\ overrun = {} /\ orphaned = {} /\ leftBehind = FALSE
  BY DEF Init
<1>5. \A m \in Messages : ran[m] = 0
  BY <1>4
<1>6. Typed
  <2>1. ran \in [Messages -> Nat] /\ settings.cap \in Nat
    BY <1>4, FollowupAssumption
  <2>2. \A q \in Queues :
            /\ queue[q].items \in Seq(Messages) /\ queue[q].lines \in Seq(Messages)
            /\ Len(queue[q].items) <= settings.cap /\ Len(queue[q].lines) <= settings.cap
    <3>1. 0 <= settings.cap
      BY <2>1
    <3> QED BY <1>1, <1>2, <3>1
  <2>3. \A q \in Queues : /\ drain[q].at \in Phases /\ drain[q].handed \in Seq(Messages)
    BY <1>2 DEF Hands
  <2>4. TypeOK
    BY <1>3, <1>4, <2>1, <2>2, <2>3 DEF TypeOK, Phases
  <2> QED BY <1>2, <1>3, <1>5, <2>4 DEF Typed
<1>7. Single
  BY <1>1, <1>2, <1>3, <1>5 DEF Single
<1>8. InFront
  BY <1>1, <1>2 DEF InFront
<1>9. Unhit
  BY <1>3 DEF Unhit
<1>10. LostOnlyBehindOverflow
  BY <1>4 DEF LostOnlyBehindOverflow
<1> QED BY <1>6, <1>7, <1>8, <1>9, <1>10 DEF Contents

LEMMA StepKeepsContents ==
    ASSUME Contents, [Next]_vars
    PROVE  Contents'
<1>1. /\ Typed /\ registered \in Queues \cup {NoQueue} /\ leftBehind \in BOOLEAN
      /\ run \in {"none", "reply", "ended", "outside"} /\ arriving \subseteq Messages
      /\ drain \in [Queues -> Hands] /\ orphaned \subseteq Queues
  BY DEF Contents, Typed, TypeOK
<1>2. ASSUME UNCHANGED <<settings, registered, queue, drain, recent, ran, told, gone,
                         overrun, orphaned>>,
             leftBehind' \in BOOLEAN, arriving' \subseteq Messages,
             run' \in {"none", "reply", "ended", "outside"}
      PROVE  Contents'
  <2>1. \A p \in Queues : KeepsHand(p)
    BY <1>2 DEF KeepsHand, Out
  <2> QED BY <1>1, <1>2, <2>1, NothingMoved
<1>3. ASSUME NEW m \in Messages, Arrive(m) PROVE Contents'
  BY <1>1, <1>2, <1>3 DEF Arrive, histories
<1>4. ASSUME NEW q \in Queues, NEW m \in Messages, Enqueue(q, m) PROVE Contents'
  BY <1>4, EnqueueKeepsContents
<1>5. ASSUME NEW q \in Queues, Debounced(q) \/ Finish(q) PROVE Contents'
  BY <1>5, DebounceKeepsContents, FinishKeepsContents
<1>6. ASSUME NEW q \in Queues, Throw(q) PROVE Contents'
  BY <1>6, ThrowKeepsContents
<1>7. CASE Clear
  BY <1>7, ClearKeepsContents
<1>8. ASSUME NEW kind \in {"reply", "outside"}, StartRun(kind) PROVE Contents'
  BY <1>1, <1>2, <1>8 DEF StartRun, histories
<1>9. CASE EndEmbedded
  BY <1>1, <1>2, <1>9 DEF EndEmbedded, histories
<1>10. CASE FinalizeWithFollowup
  <2>1. /\ registered' \in {registered, NoQueue} /\ leftBehind' = FALSE
        /\ drain' \in [Queues -> Hands]
        /\ \A p \in Queues : KeepsHand(p)
    BY <1>1, <1>10, ScheduleKeepsHands DEF FinalizeWithFollowup
  <2>2. /\ UNCHANGED <<settings, queue, arriving, recent, ran, told, gone, overrun, orphaned>>
        /\ run' = "none"
    BY <1>10 DEF FinalizeWithFollowup, histories
  <2> QED BY <1>1, <2>1, <2>2, NothingMoved
<1>11. CASE EndOutside
  BY <1>1, <1>2, <1>11 DEF EndOutside, histories
<1>12. CASE UNCHANGED vars
  BY <1>1, <1>2, <1>12 DEF vars, histories
<1> QED BY <1>3, <1>4, <1>5, <1>6, <1>7, <1>8, <1>9, <1>10, <1>11, <1>12
        DEF Next, Enqueues, Drains, Ends

LEMMA ContentsInductive == Spec => []Contents
<1>1. Init => Contents
  BY InitContents
<1>2. Contents /\ [Next]_vars => Contents'
  BY StepKeepsContents
<1> QED BY <1>1, <1>2, PTL DEF Spec

(* Whatever is queued, dropped, cleared or handed over, the queues, the    *)
(* drains and the record of ids keep to their types and limits.            *)
THEOREM TypeCorrect == Spec => []TypeOK
<1>1. Contents => TypeOK
  BY DEF Contents, Typed
<1> QED BY <1>1, ContentsInductive, PTL

(* No prompt is answered by two runs, though a message may arrive again,   *)
(* stays in the queue under its run, and may be dropped or cleared there.  *)
THEOREM AnsweredOnce == Spec => []RunsOnce
<1>1. Contents => RunsOnce
  <2> SUFFICES ASSUME Contents, NEW m \in Messages PROVE ran[m] <= 1
    BY DEF RunsOnce
  <2>1. ran[m] \in Nat /\ (ran[m] > 0 => ran[m] = 1)
    BY DEF Contents, Typed, TypeOK, Single
  <2> QED BY <2>1
<1> QED BY <1>1, ContentsInductive, PTL

(* A message that was accepted is never lost unnoticed, but for one that a *)
(* returning or failing run leaves no trace of after an overflow under it. *)
THEOREM LostOnlyThere == Spec => []LostOnlyBehindOverflow
<1>1. Contents => LostOnlyBehindOverflow
  BY DEF Contents
<1> QED BY <1>1, ContentsInductive, PTL

-----------------------------------------------------------------------------
(* The item whose run tells of a summary is still there, but at a cap of   *)
(* one.                                                                    *)

(* Runs go out with one item at most; one that does not tell the summary   *)
(* cannot remove the last item once there are lines.                       *)
Tale(q) ==
    /\ queue[q].lines # <<>> => queue[q].items # <<>> /\ settings.policy = "summarize"
    /\ Out(q) => /\ Len(drain[q].handed) <= 1 /\ drain[q].rest = <<>>
                 /\ drain[q].telling = <<>> /\ queue[q].lines # <<>>
                        => Len(queue[q].items) > 1

TaleKept ==
    settings.mode = "followup" /\ settings.cap > 1 => \A q \in Queues : Tale(q)

LEMMA TaleElsewhere ==
    ASSUME NEW p \in Queues, Tale(p), KeepsHand(p) \/ EmptyHanded(p),
           queue'[p] = queue[p], settings' = settings
    PROVE  Tale(p)'
BY DEF Tale, KeepsHand, EmptyHanded

LEMMA EnqueueKeepsTale ==
    ASSUME Contents, NEW q \in Queues, NEW m \in Messages, Enqueue(q, m), Tale(q),
           settings.cap > 1
    PROVE  Tale(q)'
<1> DEFINE s == queue[q].items
           n == DropCount(s)
           t == Pushed(q, m).items
<1>1. Typed /\ Injective(s) /\ settings' = settings
  BY DEF Contents, Single, Enqueue
<1>2. /\ drain'[q].handed = drain[q].handed /\ drain'[q].rest = drain[q].rest
      /\ drain'[q].telling = drain[q].telling /\ (Out(q)' <=> Out(q))
  BY <1>1, EnqueueHands
<1>3. CASE Refused(q, m)
  <2>1. queue' = [queue EXCEPT ![q] = queue[q]]
    BY <1>3 DEF Enqueue
  <2> QED BY <1>1, <1>2, <2>1 DEF Tale, Typed
<1>4. CASE ~Refused(q, m)
  <2>1. queue'[q] = Pushed(q, m)
    BY <1>1, <1>4 DEF Enqueue, Typed
  <2>2. m \notin recent
    BY <1>4 DEF Refused
  <2>3. /\ n \in 0..Len(s) /\ Len(t) = Len(s) - n + 1 /\ m \in ToSet(t)
        /\ n = 0 /\ settings.policy = "summarize" => Pushed(q, m).lines = queue[q].lines
    BY <1>1, <1>4, <2>2, PushedFacts
  <2>4. Len(s) \in Nat /\ settings.cap \in Nat
    BY <1>1, FollowupAssumption DEF Typed, TypeOK, Stores
  <2>5. n > 0 => n = Len(s) - settings.cap + 1
    BY <2>4 DEF DropCount
  <2>6. t # <<>>
    BY <2>3 DEF ToSet
  <2>7. Pushed(q, m).lines # <<>> => settings.policy = "summarize"
    <3>1. LastOf(<<>>, settings.cap) = <<>>
      BY <2>4 DEF LastOf
    <3> QED BY <3>1 DEF Pushed
  <2>8. Out(q) /\ drain[q].telling = <<>> /\ Pushed(q, m).lines # <<>> => Len(t) > 1
    <3> SUFFICES ASSUME Out(q), drain[q].telling = <<>>, Pushed(q, m).lines # <<>>
                 PROVE  Len(t) > 1
      OBVIOUS
    <3> HIDE DEF s, t, n
    <3>1. CASE n > 0
      BY <2>3, <2>4, <2>5, <3>1
    <3>2. CASE n = 0
      <4>1. queue[q].lines # <<>>
        BY <2>3, <2>7, <3>2
      <4>2. Len(s) > 1
        BY <4>1 DEF Tale, s
      <4> QED BY <2>3, <2>4, <3>2, <4>2
    <3> QED BY <2>3, <3>1, <3>2
  <2> QED BY <1>1, <1>2, <2>1, <2>6, <2>7, <2>8 DEF Tale
<1> QED BY <1>3, <1>4

LEMMA DebounceKeepsTale ==
    ASSUME Contents, NEW q \in Queues, Debounced(q), settings.mode = "followup",
           \A p \in Queues : Tale(p)
    PROVE  \A p \in Queues : Tale(p)'
<1> DEFINE s == queue[q].items
           summary == Summary(q)
           One == SubSeq(s, 1, 1)
<1>1. Typed /\ queue' = queue /\ settings' = settings
  BY DEF Contents, Debounced
<1>2. \/ EndDrain(q, queue)
      \/ /\ s # <<>> /\ summary = <<>>
         /\ Hand(q, "item", One, <<>>, <<>>, FALSE, FALSE)
      \/ /\ s # <<>> /\ summary # <<>>
         /\ Hand(q, "carry", One, <<>>, summary, FALSE, FALSE)
  BY DEF Debounced
<1>3. CASE EndDrain(q, queue)
  <2>1. EmptyHanded(q) /\ \A p \in Queues \ {q} : KeepsHand(p)
    BY <1>1, <1>3, EndDrainHands
  <2> QED BY <1>1, <2>1, TaleElsewhere
<1>4. /\ s \in Seq(Messages) /\ Len(s) \in Nat
      /\ s # <<>> => One \in Seq(Messages) /\ Len(One) = 1
      /\ summary \in Seq(Messages) /\ <<>> \in Seq(Messages)
  <2>1. /\ s \in Seq(Messages) /\ Len(s) \in Nat
        /\ queue[q].lines \in Seq(Messages) /\ <<>> \in Seq(Messages)
    BY <1>1 DEF Typed, Stores
  <2>2. summary \in Seq(Messages)
    BY <2>1 DEF Summary
  <2>3. s # <<>> => One \in Seq(Messages) /\ Len(One) = 1
    <3> HIDE DEF s
    <3>1. s # <<>> => 1 \in 0..Len(s)
      BY <2>1
    <3> QED BY <2>1, <3>1, PrefixFacts
  <2> QED BY <2>1, <2>2, <2>3
<1> HIDE DEF One
<1>5. ASSUME NEW at \in Phases, NEW telling \in Seq(Messages),
             Hand(q, at, One, <<>>, telling, FALSE, FALSE),
             s # <<>>, telling # <<>> \/ queue[q].lines = <<>>
      PROVE  \A p \in Queues : Tale(p)'
  <2> DEFINE d == [at |-> at, handed |-> One, rest |-> <<>>, telling |-> telling,
                   forced |-> FALSE, hit |-> FALSE]
  <2>0. One \in Seq(Messages) /\ Len(One) = 1 /\ <<>> \in Seq(Messages)
    BY <1>4, <1>5
  <2>1. d \in Hands /\ d.handed = One /\ d.rest = <<>> /\ d.telling = telling
    BY <2>0 DEF Hands
  <2>2. drain' = [drain EXCEPT ![q] = d]
    BY <1>5 DEF Hand
  <2> HIDE DEF d
  <2>3. drain'[q] = d /\ \A p \in Queues \ {q} : KeepsHand(p)
    BY <1>1, <2>1, <2>2, NewHand DEF Typed
  <2>4. /\ queue'[q] = queue[q]
        /\ queue[q].lines # <<>> => queue[q].items # <<>> /\ settings.policy = "summarize"
    BY <1>1 DEF Tale
  <2>5. /\ Len(drain'[q].handed) <= 1 /\ drain'[q].rest = <<>>
        /\ drain'[q].telling = telling /\ settings' = settings
    <3>1. drain'[q].handed = One /\ drain'[q].rest = <<>> /\ drain'[q].telling = telling
      BY <2>1, <2>3
    <3>2. Len(drain'[q].handed) = 1
      BY <2>0, <3>1 DEF One
    <3> QED BY <1>1, <3>1, <3>2
  <2>6. telling # <<>> \/ queue[q].lines = <<>>
    BY <1>5
  <2>7. Tale(q)'
    BY ONLY <2>4, <2>5, <2>6 DEF Tale
  <2> QED BY <1>1, <2>3, <2>7, TaleElsewhere
<1>6. summary = <<>> => queue[q].lines = <<>>
  BY DEF Tale, Summary
<1>7. "item" \in Phases /\ "carry" \in Phases
  BY DEF Phases
<1> HIDE DEF summary
<1> QED BY <1>2, <1>3, <1>4, <1>5, <1>6, <1>7

LEMMA FinishKeepsTale ==
    ASSUME Contents, NEW q \in Queues, Finish(q), \A p \in Queues : Tale(p)
    PROVE  \A p \in Queues : Tale(p)'
<1> DEFINE s == queue[q].items
           h == drain[q].handed
           qs == [queue EXCEPT ![q] = Remains(q)]
           d == [at |-> "wait", handed |-> <<>>, rest |-> <<>>, telling |-> <<>>,
                 forced |-> drain[q].forced, hit |-> FALSE]
<1>1. Typed /\ settings' = settings /\ Out(q) /\ drain[q].rest = <<>>
  BY DEF Contents, Finish, Tale
<1>2. queue' = qs /\ (Hand(q, "wait", <<>>, <<>>, <<>>, drain[q].forced, FALSE)
                          \/ EndDrain(q, qs))
  BY <1>1 DEF Finish
<1>3. queue'[q] = Remains(q) /\ \A p \in Queues \ {q} : queue'[p] = queue[p]
  BY <1>1, <1>2 DEF Typed
<1>4. EmptyHanded(q) /\ \A p \in Queues \ {q} : KeepsHand(p)
  <2>1. CASE EndDrain(q, qs)
    <3> HIDE DEF qs
    <3> QED BY <1>1, <2>1, EndDrainHands
  <2>2. CASE Hand(q, "wait", <<>>, <<>>, <<>>, drain[q].forced, FALSE)
    <3>1. d \in Hands /\ d.at = "wait" /\ d.handed = <<>> /\ d.rest = <<>> /\ d.telling = <<>>
      BY <1>1 DEF Typed, Hands, Phases
    <3>2. drain' = [drain EXCEPT ![q] = d]
      BY <2>2 DEF Hand
    <3> HIDE DEF d
    <3>3. drain'[q] = d /\ \A p \in Queues \ {q} : KeepsHand(p)
      BY <1>1, <3>1, <3>2, NewHand DEF Typed
    <3> QED BY <3>1, <3>3 DEF EmptyHanded, Out
  <2> QED BY <1>2, <2>1, <2>2
<1>5. \A p \in Queues \ {q} : Tale(p)'
  BY <1>1, <1>3, <1>4, TaleElsewhere
<1>6. queue'[q].lines # <<>> => queue'[q].items # <<>> /\ settings.policy = "summarize"
  <2> SUFFICES ASSUME queue'[q].lines # <<>>
               PROVE  queue'[q].items # <<>> /\ settings.policy = "summarize"
    OBVIOUS
  <2>1. /\ queue'[q].items = Suffix(s, Len(h)) /\ Len(h) \in Nat
        /\ drain[q].telling = <<>> /\ queue[q].lines # <<>>
    BY <1>1, <1>3, RemainsStore
  <2>2. /\ s \in Seq(Messages) /\ Len(s) \in Nat /\ Len(s) > 1 /\ Len(h) <= 1
        /\ settings.policy = "summarize"
    BY <1>1, <2>1 DEF Tale, Typed, Stores
  <2>3. Len(Suffix(s, Len(h))) > 0
    <3> HIDE DEF s, h
    <3>1. Len(h) \in 0..Len(s)
      BY <2>1, <2>2
    <3>2. Len(Suffix(s, Len(h))) = Len(s) - Len(h)
      BY <2>2, <3>1, SuffixFacts
    <3> QED BY <2>1, <2>2, <3>2
  <2>4. Suffix(s, Len(h)) # <<>>
    BY <2>3
  <2> QED BY <2>1, <2>2, <2>4
<1>7. Tale(q)'
  BY <1>1, <1>4, <1>6 DEF Tale, EmptyHanded
<1> QED BY <1>5, <1>7

LEMMA StepKeepsTale ==
    ASSUME Contents, TaleKept, [Next]_vars
    PROVE  TaleKept'
<1>1. Typed /\ settings' = settings
  BY DEF Contents, Next, vars, Arrive, Enqueues, Enqueue, Drains, Debounced, Finish,
         Throw, Clear, StartRun, Ends, EndEmbedded, FinalizeWithFollowup, EndOutside
<1> SUFFICES ASSUME settings.mode = "followup", settings.cap > 1
             PROVE  \A p \in Queues : Tale(p)'
  BY <1>1 DEF TaleKept
<1>2. \A p \in Queues : Tale(p)
  BY DEF TaleKept
<1>3. ASSUME queue' = queue, drain' = drain PROVE \A p \in Queues : Tale(p)'
  BY <1>1, <1>2, <1>3 DEF Tale, Out
<1>4. ASSUME NEW q \in Queues, NEW m \in Messages, Enqueue(q, m)
      PROVE  \A p \in Queues : Tale(p)'
  <2>1. \A p \in Queues \ {q} : KeepsHand(p)
    BY <1>1, <1>4, EnqueueHands
  <2>2. \A p \in Queues \ {q} : queue'[p] = queue[p]
    BY <1>1, <1>4 DEF Enqueue, Typed
  <2>3. Tale(q)'
    BY <1>2, <1>4, EnqueueKeepsTale
  <2> QED BY <1>1, <1>2, <2>1, <2>2, <2>3, TaleElsewhere
<1>5. ASSUME NEW q \in Queues, Debounced(q) \/ Finish(q)
      PROVE  \A p \in Queues : Tale(p)'
  BY <1>2, <1>5, DebounceKeepsTale, FinishKeepsTale
<1>6. ASSUME NEW q \in Queues, Throw(q) PROVE \A p \in Queues : Tale(p)'
  <2>1. EmptyHanded(q) /\ (\A p \in Queues \ {q} : KeepsHand(p)) /\ queue' = queue
    BY <1>1, <1>6, EndDrainHands DEF Throw
  <2> QED BY <1>1, <1>2, <2>1, TaleElsewhere
<1>7. CASE Clear
  <2>1. PICK q \in Queues : q = registered
    BY <1>1, <1>7 DEF Typed, TypeOK, Clear
  <2>2. queue' = [queue EXCEPT ![q] = Empty] /\ drain' = drain
    BY <1>7, <2>1 DEF Clear
  <2>3. \A p \in Queues \ {q} : Tale(p)'
    BY <1>1, <1>2, <2>2 DEF Tale, Out, Typed
  <2>4. Tale(q)'
    BY <1>1, <1>2, <2>2 DEF Tale, Out, Typed, Empty
  <2> QED BY <2>3, <2>4
<1>8. CASE FinalizeWithFollowup
  <2>1. (\A p \in Queues : KeepsHand(p)) /\ queue' = queue
    BY <1>1, <1>8, ScheduleKeepsHands DEF FinalizeWithFollowup
  <2> QED BY <1>1, <1>2, <2>1, TaleElsewhere
<1> QED BY <1>3, <1>4, <1>5, <1>6, <1>7, <1>8
        DEF Next, vars, Arrive, Enqueues, Drains, StartRun, Ends, EndEmbedded, EndOutside

(* In mode followup a queue of two or more always keeps an item whose run  *)
(* can tell of the lines, whatever is dropped under a run: it is only at a *)
(* cap of one that a drain can go round over a summary for ever.           *)
THEOREM SpinsAtCapOneOnly ==
    Spec => [](settings.mode = "followup" /\ settings.cap > 1
                   => \A q \in Queues : queue[q].lines # <<>> => queue[q].items # <<>>)
<1> DEFINE Told == settings.mode = "followup" /\ settings.cap > 1
                       => \A q \in Queues : queue[q].lines # <<>> => queue[q].items # <<>>
<1>1. Init => TaleKept
  BY DEF Init, TaleKept, Tale, Empty, Idle, Out
<1>2. Contents /\ TaleKept /\ [Next]_vars => TaleKept'
  BY StepKeepsTale
<1>3. TaleKept => Told
  BY DEF TaleKept, Tale
<1> QED BY <1>1, <1>2, <1>3, ContentsInductive, PTL DEF Spec

-----------------------------------------------------------------------------
(* Who starts the drain of an object.                                      *)

IsDrain(d) == d = [at |-> d.at, handed |-> d.handed, rest |-> d.rest,
                   telling |-> d.telling, forced |-> d.forced, hit |-> d.hit]

ShapeOf(ds) ==
    /\ ds = [q \in Queues |-> ds[q]]
    /\ \A q \in Queues : IsDrain(ds[q])

Shape == DOMAIN queue = Queues /\ ShapeOf(drain)

HeldByOwner ==
    \A q \in Queues : queue[q] # Empty => q = registered \/ q \in orphaned

Draining(ds) == \E q \in Queues : ds[q].at # "idle"

OwnerDriven ==
    registered \in Queues /\ queue[registered] # Empty
        => Draining(drain) \/ run # "none" \/ leftBehind

Owned == Shape /\ registered \in Queues \cup {NoQueue} /\ HeldByOwner /\ OwnerDriven

-----------------------------------------------------------------------------
LEMMA InitOwned == Init => Owned
BY DEF Init, Owned, Shape, ShapeOf, IsDrain, HeldByOwner, OwnerDriven, Idle

(* Another drain in the place of one.                                      *)
LEMMA ShapePut ==
    ASSUME NEW ds, ShapeOf(ds), NEW q \in Queues, NEW d, IsDrain(d)
    PROVE  /\ ShapeOf([ds EXCEPT ![q] = d])
           /\ [ds EXCEPT ![q] = d][q] = d
<1> DEFINE es == [ds EXCEPT ![q] = d]
<1>1. DOMAIN ds = Queues
  BY DEF ShapeOf
<1>2. es = [p \in Queues |-> IF p = q THEN d ELSE ds[p]]
  BY <1>1
<1>3. \A p \in Queues : es[p] = IF p = q THEN d ELSE ds[p]
  BY <1>2
<1>4. es = [p \in Queues |-> es[p]]
  BY <1>2
<1> HIDE DEF es
<1>5. ShapeOf(es)
  BY <1>3, <1>4 DEF ShapeOf, IsDrain
<1> QED BY <1>3, <1>5 DEF es

(* Idle and its variant at the debounce are drains.                        *)
LEMMA ShapeIdle ==
    ASSUME NEW ds, ShapeOf(ds), NEW q \in Queues
    PROVE  /\ ShapeOf([ds EXCEPT ![q] = Idle])
           /\ ShapeOf([ds EXCEPT ![q] = [Idle EXCEPT !.at = "wait"]])
           /\ [ds EXCEPT ![q] = [Idle EXCEPT !.at = "wait"]][q].at = "wait"
<1>1. Idle = [at |-> "idle", handed |-> <<>>, rest |-> <<>>, telling |-> <<>>,
              forced |-> FALSE, hit |-> FALSE]
  BY DEF Idle
<1>2. IsDrain(Idle)
  BY <1>1 DEF IsDrain
<1> DEFINE wait == [Idle EXCEPT !.at = "wait"]
<1>3. IsDrain(wait) /\ wait.at = "wait"
  BY <1>2 DEF IsDrain
<1>4. ShapeOf([ds EXCEPT ![q] = Idle])
  BY <1>2, ShapePut
<1> HIDE DEF wait
<1>5. /\ ShapeOf([ds EXCEPT ![q] = wait])
      /\ [ds EXCEPT ![q] = wait][q].at = "wait"
  BY <1>3, ShapePut
<1> QED BY <1>4, <1>5 DEF wait

(* scheduleFollowupDrain: whatever object the key has is drained, or it is *)
(* empty and the key is free.                                              *)
LEMMA ScheduleDrives ==
    ASSUME NEW qs, NEW ds, ShapeOf(ds), NEW r \in Queues \cup {NoQueue}, Schedule(r, qs, ds),
           \A q \in Queues : qs[q] # Empty => q = r \/ q \in orphaned',
           queue' = qs, DOMAIN qs = Queues
    PROVE  Owned'
<1>1. CASE r = NoQueue \/ ds[r].at # "idle"
  <2>1. registered' = r /\ drain' = ds
    BY <1>1 DEF Schedule
  <2>2. r \in Queues => Draining(drain')
    BY <1>1, <2>1, FollowupAssumption DEF Draining
  <2> QED BY <2>1, <2>2 DEF Owned, Shape, ShapeOf, HeldByOwner, OwnerDriven
<1>2. CASE ~(r = NoQueue \/ ds[r].at # "idle") /\ qs[r] = Empty
  <2>1. registered' = NoQueue /\ drain' = ds
    BY <1>2 DEF Schedule
  <2> QED BY <1>2, <2>1, FollowupAssumption
          DEF Owned, Shape, ShapeOf, HeldByOwner, OwnerDriven
<1>3. CASE ~(r = NoQueue \/ ds[r].at # "idle") /\ qs[r] # Empty
  <2>1. r \in Queues
    BY <1>3
  <2>2. registered' = r /\ drain' = [ds EXCEPT ![r] = [Idle EXCEPT !.at = "wait"]]
    BY <1>3 DEF Schedule
  <2>3. ShapeOf(drain') /\ drain'[r].at = "wait"
    BY <2>1, <2>2, ShapeIdle
  <2>4. Draining(drain')
    BY <2>1, <2>3 DEF Draining
  <2> QED BY <2>2, <2>3, <2>4 DEF Owned, Shape, ShapeOf, HeldByOwner, OwnerDriven
<1> QED BY <1>1, <1>2, <1>3

(* The end of a drain: an object it unregisters by mistake is orphaned.    *)
LEMMA EndDrainDrives ==
    ASSUME Owned, NEW q \in Queues, NEW qs, EndDrain(q, qs), queue' = qs,
           DOMAIN qs = Queues,
           \A p \in Queues : qs[p] # Empty => queue[p] # Empty
    PROVE  Owned'
<1> DEFINE ds == [drain EXCEPT ![q] = Idle]
<1>1. ShapeOf(drain)
  BY DEF Owned, Shape, ShapeOf
<1>2. ShapeOf(ds)
  BY <1>1, ShapeIdle
<1>3. orphaned \subseteq orphaned'
  BY DEF EndDrain
<1>4. \A p \in Queues : qs[p] # Empty => p = registered \/ p \in orphaned'
  BY <1>3 DEF Owned, HeldByOwner
<1>5. CASE qs[q] = Empty
  <2>1. /\ drain' = ds /\ registered' = NoQueue
        /\ orphaned' = IF registered \in Queues \ {q} /\ qs[registered] # Empty
                       THEN orphaned \cup {registered} ELSE orphaned
    BY <1>5 DEF EndDrain
  <2>2. \A p \in Queues : qs[p] # Empty => p \in orphaned'
    BY <1>4, <1>5, <2>1
  <2> QED BY <1>2, <2>1, <2>2, FollowupAssumption
          DEF Owned, Shape, ShapeOf, HeldByOwner, OwnerDriven
<1>6. CASE qs[q] # Empty
  <2>1. Schedule(registered, qs, ds)
    BY <1>6 DEF EndDrain
  <2> QED BY <1>2, <1>4, <2>1, ScheduleDrives DEF Owned
<1> QED BY <1>5, <1>6

(* A run of a drain begins: the drain goes on.                             *)
LEMMA HandDrives ==
    ASSUME Owned, NEW q \in Queues, NEW at, at # "idle", NEW handed, NEW rest,
           NEW telling, NEW forced, NEW hit,
           Hand(q, at, handed, rest, telling, forced, hit),
           DOMAIN queue' = Queues,
           \A p \in Queues : queue'[p] # Empty => queue[p] # Empty
    PROVE  Owned'
<1>1. ShapeOf(drain)
  BY DEF Owned, Shape, ShapeOf
<1> DEFINE d == [at |-> at, handed |-> handed, rest |-> rest,
                 telling |-> telling, forced |-> forced, hit |-> hit]
<1>2. IsDrain(d) /\ d.at = at
  BY DEF IsDrain
<1>3. drain' = [drain EXCEPT ![q] = d]
  BY DEF Hand
<1> HIDE DEF d
<1>4. ShapeOf(drain') /\ drain'[q].at = at
  <2>1. ShapeOf([drain EXCEPT ![q] = d]) /\ [drain EXCEPT ![q] = d][q] = d
    BY <1>1, <1>2, ShapePut
  <2> QED BY <1>2, <1>3, <2>1
<1>5. Draining(drain')
  BY <1>4 DEF Draining
<1>6. registered' = registered /\ orphaned' = orphaned
  BY DEF Hand
<1> QED BY <1>4, <1>5, <1>6 DEF Owned, Shape, ShapeOf, HeldByOwner, OwnerDriven

-----------------------------------------------------------------------------
LEMMA EnqueueKeepsOwned ==
    ASSUME Owned, NEW q \in Queues, NEW m \in Messages, Enqueue(q, m) PROVE Owned'
<1> DEFINE after == IF Refused(q, m) THEN queue[q] ELSE Pushed(q, m)
           dropped == ToSet(queue[q].items) \ ToSet(after.items)
           qs == [queue EXCEPT ![q] = after]
           ds == [drain EXCEPT ![q].hit = @ \/ (Out(q) /\ dropped # {})]
<1>1. /\ Object(q) /\ queue' = qs /\ run' = run /\ orphaned' = orphaned \ {q}
      /\ \/ /\ MaybeActive
            /\ registered' = q
            /\ drain' = ds
            /\ UNCHANGED leftBehind
         \/ ~SeenActive /\ Schedule(q, qs, ds)
  BY DEF Enqueue
<1>2. DOMAIN qs = Queues /\ \A p \in Queues \ {q} : qs[p] = queue[p]
  BY DEF Owned, Shape
<1>3. ShapeOf(ds) /\ \A p \in Queues : ds[p].at = drain[p].at
  <2> DEFINE d == [drain[q] EXCEPT !.hit = @ \/ (Out(q) /\ dropped # {})]
  <2>1. ds = [drain EXCEPT ![q] = d]
    OBVIOUS
  <2>2. IsDrain(drain[q])
    BY DEF Owned, Shape, ShapeOf
  <2> HIDE DEF dropped
  <2>3. IsDrain(d) /\ d.at = drain[q].at
    BY <2>2 DEF IsDrain
  <2>4. ShapeOf(drain) /\ DOMAIN drain = Queues
    BY DEF Owned, Shape, ShapeOf
  <2> HIDE DEF d
  <2>5. ShapeOf([drain EXCEPT ![q] = d]) /\ [drain EXCEPT ![q] = d][q] = d
    BY <2>3, <2>4, ShapePut
  <2>6. \A p \in Queues \ {q} : [drain EXCEPT ![q] = d][p] = drain[p]
    BY <2>4
  <2> QED BY <2>1, <2>3, <2>5, <2>6
<1> HIDE DEF after, dropped, qs, ds
<1>4. \A p \in Queues : qs[p] # Empty => p = q \/ p \in orphaned'
  <2>1. \A p \in Queues \ {q} : queue[p] # Empty => p \in orphaned
    BY <1>1, FollowupAssumption DEF Owned, HeldByOwner, Object
  <2> QED BY <1>1, <1>2, <2>1
<1>5. CASE MaybeActive /\ registered' = q /\ drain' = ds
  <2>1. Draining(drain') \/ run' # "none"
    BY <1>1, <1>3, <1>5 DEF MaybeActive, SeenActive, Out, Draining
  <2> QED BY <1>1, <1>2, <1>3, <1>4, <1>5, <2>1
          DEF Owned, Shape, ShapeOf, HeldByOwner, OwnerDriven
<1>6. CASE Schedule(q, qs, ds)
  BY <1>1, <1>2, <1>3, <1>4, <1>6, ScheduleDrives
<1> QED BY <1>1, <1>5, <1>6

LEMMA DebounceKeepsOwned ==
    ASSUME Owned, NEW q \in Queues, Debounced(q) PROVE Owned'
<1>1. queue' = queue /\ DOMAIN queue' = Queues
  BY DEF Debounced, Owned, Shape
<1>2. \A p \in Queues : queue'[p] # Empty => queue[p] # Empty
  BY <1>1
<1>3. \/ EndDrain(q, queue)
      \/ \E at, handed, rest, telling, forced, hit :
             at # "idle" /\ Hand(q, at, handed, rest, telling, forced, hit)
  BY DEF Debounced, HandBatch
<1> QED BY <1>1, <1>2, <1>3, EndDrainDrives, HandDrives

LEMMA FinishKeepsOwned ==
    ASSUME Owned, NEW q \in Queues, Finish(q) PROVE Owned'
<1> DEFINE qs == [queue EXCEPT ![q] = Remains(q)]
<1>1. queue' = qs /\ DOMAIN qs = Queues
  BY DEF Finish, Owned, Shape
<1>2. \A p \in Queues : qs[p] # Empty => queue[p] # Empty
  <2>1. \A p \in Queues \ {q} : qs[p] = queue[p]
    OBVIOUS
  <2>2. queue[q] = Empty => Remains(q) = Empty
    BY DEF Remains, Empty, Suffix
  <2> QED BY <2>1, <2>2 DEF Owned, Shape
<1>3. \/ EndDrain(q, qs)
      \/ \E at, handed, rest, telling, forced, hit :
             at # "idle" /\ Hand(q, at, handed, rest, telling, forced, hit)
  BY DEF Finish, HandBatch
<1> HIDE DEF qs
<1> QED BY <1>1, <1>2, <1>3, EndDrainDrives, HandDrives

LEMMA ClearKeepsOwned == ASSUME Owned, Clear PROVE Owned'
<1>1. /\ registered \in Queues /\ registered' = NoQueue /\ UNCHANGED <<drain, orphaned>>
      /\ queue' = [queue EXCEPT ![registered] = Empty]
  BY DEF Owned, Clear
<1>2. /\ DOMAIN queue' = Queues /\ queue'[registered] = Empty
      /\ \A q \in Queues \ {registered} : queue'[q] = queue[q]
  BY <1>1 DEF Owned, Shape
<1> QED BY <1>1, <1>2, FollowupAssumption DEF Owned, Shape, HeldByOwner, OwnerDriven

LEMMA StepKeepsOwned == Owned /\ [Next]_vars => Owned'
<1> SUFFICES ASSUME Owned, [Next]_vars PROVE Owned'
  OBVIOUS
<1>1. ShapeOf(drain) /\ DOMAIN queue = Queues
  BY DEF Owned, Shape, ShapeOf
<1>2. ASSUME UNCHANGED <<registered, queue, drain, orphaned>>,
             run' # "none" \/ (run' = run /\ leftBehind' = leftBehind)
      PROVE  Owned'
  BY <1>2 DEF Owned, Shape, HeldByOwner, OwnerDriven
<1>3. ASSUME NEW m \in Messages, Arrive(m) PROVE Owned'
  BY <1>2, <1>3 DEF Arrive
<1>4. ASSUME NEW q \in Queues, NEW m \in Messages, Enqueue(q, m) PROVE Owned'
  BY <1>4, EnqueueKeepsOwned
<1>5. ASSUME NEW q \in Queues, Debounced(q) PROVE Owned'
  BY <1>5, DebounceKeepsOwned
<1>6. ASSUME NEW q \in Queues, Finish(q) PROVE Owned'
  BY <1>6, FinishKeepsOwned
<1>7. ASSUME NEW q \in Queues, Throw(q) PROVE Owned'
  BY <1>1, <1>7, EndDrainDrives DEF Throw
<1>8. CASE Clear
  BY <1>8, ClearKeepsOwned
<1>9. ASSUME NEW kind \in {"reply", "outside"}, StartRun(kind) PROVE Owned'
  BY <1>2, <1>9 DEF StartRun
<1>10. CASE EndEmbedded
  BY <1>2, <1>10 DEF EndEmbedded
<1>11. CASE FinalizeWithFollowup
  <2>1. /\ Schedule(registered, queue, drain)
        /\ UNCHANGED <<queue, orphaned>>
    BY <1>11 DEF FinalizeWithFollowup
  <2> QED BY <1>1, <2>1, ScheduleDrives DEF Owned, HeldByOwner
<1>12. CASE EndOutside
  <2>1. /\ UNCHANGED <<registered, queue, drain, orphaned>>
        /\ leftBehind' = \/ leftBehind
                         \/ /\ registered # NoQueue
                            /\ queue[registered] # Empty
                            /\ drain[registered].at = "idle"
    BY <1>12 DEF EndOutside
  <2>2. OwnerDriven'
    BY <2>1, FollowupAssumption DEF OwnerDriven, Draining
  <2> QED BY <2>1, <2>2 DEF Owned, Shape, HeldByOwner
<1>13. CASE UNCHANGED vars
  BY <1>2, <1>13 DEF vars
<1> QED BY <1>3, <1>4, <1>5, <1>6, <1>7, <1>8, <1>9, <1>10, <1>11, <1>12, <1>13
        DEF Next, Enqueues, Drains, Ends

LEMMA OwnedInductive == Spec => []Owned
BY InitOwned, StepKeepsOwned, PTL DEF Spec

(* No message waits in a queue without anybody who will start its drain,   *)
(* but for the two exceptions the property names.                          *)
THEOREM SomebodyDrains == Spec => []WaitingHasDriver
<1>1. Owned => WaitingHasDriver
  <2> SUFFICES ASSUME Owned, NEW q \in Queues, queue[q] # Empty
               PROVE  HasDriver(q) \/ Forsaken(q)
    BY DEF WaitingHasDriver
  <2>1. CASE q \in orphaned
    BY <2>1 DEF Forsaken
  <2>2. CASE q = registered
    BY <2>2 DEF Owned, OwnerDriven, Draining, HasDriver, Forsaken
  <2> QED BY <2>1, <2>2 DEF Owned, HeldByOwner
<1> QED BY <1>1, OwnedInductive, PTL
=============================================================================
