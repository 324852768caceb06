--------------------------- MODULE OutboundPromise ---------------------------
(***************************************************************************)
(* What the outbound delivery queue promises of a message: once it is      *)
(* accepted, the gateway owes it until it is either delivered, possibly    *)
(* more than once, or given up for a reason it knows.  Nothing else, no    *)
(* crash and no race of the senders, ends the obligation, and a message    *)
(* that was delivered is never owed or given up again.                     *)
(***************************************************************************)
CONSTANT Messages

VARIABLE fate     \* "new", "owed", "delivered" or "given up"

Init == fate = [m \in Messages |-> "new"]

Accept(m) ==
    /\ fate[m] = "new"
    /\ fate' = [fate EXCEPT ![m] = "owed"]

(* A message may be sent without being accepted first, and a message that  *)
(* was given up may still turn out to have been delivered.                 *)
Deliver(m) ==
    /\ fate[m] # "delivered"
    /\ fate' = [fate EXCEPT ![m] = "delivered"]

GiveUp(m) ==
    /\ fate[m] \in {"new", "owed"}
    /\ fate' = [fate EXCEPT ![m] = "given up"]

Next == \E m \in Messages : Accept(m) \/ Deliver(m) \/ GiveUp(m)

Spec == Init /\ [][Next]_fate
=============================================================================
