--------------------------- MODULE MCExecApprovals ---------------------------
(* Two requests that use the same id, one after the other; one waiter. *)
EXTENDS ExecApprovals

CONSTANTS first, second, shared, agent

MCRequests == {first, second}
MCIds == {shared}
MCWaiters == {agent}
MCMaxRuns == 2
=============================================================================
