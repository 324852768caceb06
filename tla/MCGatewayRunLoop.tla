-------------------------- MODULE MCGatewayRunLoop --------------------------
(* Two messages for one session: the run of the first occupies the session *)
(* lane, the second waits behind it and makes a nested call once started.  *)
EXTENDS GatewayRunLoop

CONSTANTS session, global, first, second, nested, none

MCLanes == {session, global}
MCEntries == {first, second, nested}
MCLaneOf == [e \in MCEntries |-> IF e = nested THEN global ELSE session]
MCOuter == [e \in MCEntries |-> IF e = nested THEN second ELSE none]
MCWaiters == 1..MaxRequests
=============================================================================
