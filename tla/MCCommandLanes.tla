--------------------------- MODULE MCCommandLanes ---------------------------
(* Model values for CommandLanes: three calls compete for one lane, so     *)
(* that its limit can be lowered below the number of running tasks while   *)
(* another entry waits; the first makes a nested call on a second lane.    *)
EXTENDS CommandLanes

CONSTANTS session, global, e1, e2, e3, e4, none, w1

MCLanes == {session, global}
MCEntries == {e1, e2, e3, e4}
MCLaneOf == [e \in MCEntries |-> IF e = e4 THEN global ELSE session]
MCOuter == [e \in MCEntries |-> IF e = e4 THEN e1 ELSE none]
MCBoundedWait == {e1}
MCWaiters == {w1}
=============================================================================
