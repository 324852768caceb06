--------------------------- MODULE MCDeliveryQueue ---------------------------
(* A reply, best-effort or not, and a restart notice, one recovery of      *)
(* each kind; or two replies, one recovery at startup and two drains.      *)
EXTENDS DeliveryQueue

CONSTANTS reply, reply2, notice, startup, drain, drain2

OneReply == {reply}
TwoReplies == {reply, reply2}
OneNotice == {notice}
OneStartup == {startup}
OneDrain == {drain}
TwoDrains == {drain, drain2}

(* The bound on a best-effort reply, to which nothing is promised: it is    *)
(* followed up to a crash only.                                            *)
LenientUntilCrash == bestEffort = {} \/ crashes = 0
=============================================================================
