---------------------------- MODULE MCAgentLanes ----------------------------
(* A reply whose run sends to a second session, from where the run it      *)
(* starts sends back; another message of the first session, which in       *)
(* interrupt mode clears what waits there; and a manual cron run and a     *)
(* timer run that share the cron-nested lane.                              *)
EXTENDS AgentLanes

CONSTANTS sA, sB, sC, sD, rA, rI, cC, tD, xAB, xBA, none

MCReplies == {rA, rI}
MCCronRuns == {cC}
MCTimerRuns == {tD}
MCSends == {xAB, xBA}
MCSessionOf == [r \in MCReplies \cup MCCronRuns \cup MCTimerRuns \cup MCSends |->
    CASE r \in {rA, rI, xBA} -> sA
      [] r = xAB -> sB
      [] r = cC -> sC
      [] r = tD -> sD]
MCSenderOf == [r \in MCSends |-> IF r = xAB THEN rA ELSE xAB]
=============================================================================
