--------------------------- MODULE MCFollowupQueue ---------------------------
(* Three messages for a queue of two, and for a queue of one that keeps a  *)
(* summary.  When messages are collected, the third comes either with      *)
(* another authority, so that a batch is split, or by another route, so    *)
(* that they are answered one by one.                                      *)
EXTENDS FollowupQueue

MCMessages == 1..3
MCQueues == 1..3

MCOdd(usual, odd) == [m \in MCMessages |-> IF m = 3 THEN odd ELSE usual]

MCLayouts ==
    {[route |-> MCOdd("here", "here"), authority |-> MCOdd("owner", "guest")],
     [route |-> MCOdd("here", "away"), authority |-> MCOdd("owner", "owner")]}

MCSettings ==
    {[mode |-> mode, policy |-> policy, cap |-> cap,
      route |-> l.route, authority |-> l.authority] :
        mode \in {"collect", "followup"}, policy \in {"summarize", "old", "new"},
        cap \in 1..2, l \in MCLayouts}

(* Routes and authorities only matter when messages are collected, and the *)
(* odd route is combined with the drop policy that keeps a summary.        *)
MCOfTwo ==
    {s \in MCSettings :
        /\ s.cap = 2
        /\ s.mode = "followup" \/ s.policy # "summarize" => s.route[3] = "here"}

(* At a cap of one every message that comes in drops the one before.       *)
MCOfOne ==
    {s \in MCSettings :
        s.cap = 1 /\ s.policy = "summarize" /\ s.route[3] = "here"}

MCRelevant == MCOfTwo \cup MCOfOne
=============================================================================
