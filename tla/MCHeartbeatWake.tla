--------------------------- MODULE MCHeartbeatWake ---------------------------
(* A periodic wake and a cron wake; the heartbeat handler is registered    *)
(* twice, so that it can be replaced under a running batch.                *)
EXTENDS HeartbeatWake

CONSTANTS poll, job

MCWakes == {poll, job}
MCCronWakes == {job}
MCBatches == 1..3
MCMaxRegistrations == [l \in Lanes |-> IF l = "heartbeat" THEN 2 ELSE 1]
=============================================================================
