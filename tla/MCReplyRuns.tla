----------------------------- MODULE MCReplyRuns -----------------------------
(* Three turns of a session, two session ids and a waiter.  A second one   *)
(* would show nothing: waiters only read what the turns do, and every      *)
(* property is about each of them by itself.                               *)
EXTENDS ReplyRuns, TLC

CONSTANTS first, second, third, before, after, reset

MCOps == {first, second, third}
MCIds == {before, after}
MCWaiters == {reset}

(* Operations and ids are only ever compared with their own kind.          *)
MCSymmetry == Permutations(MCOps) \cup Permutations(MCIds)
=============================================================================
