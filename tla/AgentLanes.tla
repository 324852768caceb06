----------------------------- MODULE AgentLanes -----------------------------
(***************************************************************************)
(* Which lanes an agent run occupies, on top of the queue of CommandLanes. *)
(*                                                                         *)
(* runEmbeddedPiAgent (agents/embedded-agent-runner/run.ts) enqueues a run *)
(* on its session's lane and, from inside that task, on a global lane      *)
(* chosen by the caller's lane parameter.  Runs nest: a manual cron run    *)
(* holds the cron lane while its agent run executes, and a run that calls  *)
(* sessions_send waits, up to a timeout, for a run in another session.     *)
(* A chain of lanes is held while the next one is awaited, so the choice   *)
(* of lanes decides whether runs can wait for each other forever.          *)
(***************************************************************************)
EXTENDS CommandLanes

CONSTANTS
    Replies,         \* runs for inbound messages: no lane parameter
    CronRuns,        \* agent runs of a manual cron run (cron.run)
    TimerRuns,       \* agent runs of a job started by the cron timer
    Sends,           \* runs started by a sessions_send call
    SessionOf,       \* the session of each run
    SenderOf,        \* the run that makes each sessions_send call
    CronMax,         \* cron.maxConcurrentRuns
    SessionsMax      \* agents.defaults: concurrent runs on the sessions lane

Runs == Replies \cup CronRuns \cup TimerRuns \cup Sends

ASSUME AgentRunsAssumption ==
    /\ SenderOf \in [Sends -> Runs]
    /\ CronMax \in Nat \ {0}
    /\ SessionsMax \in Nat \ {0}

-----------------------------------------------------------------------------
(* Lanes.  A lane is a pair of a name and, for the lanes kept per session, *)
(* the session.                                                            *)
NoKey == "-"
NoLane == <<"", NoKey>>
CronLane == <<"cron", NoKey>>
CronNestedLane == <<"cron-nested", NoKey>>
SessionsLane == <<"sessions", NoKey>>

ResolveSessionLane(s) == <<"session", s>>

ResolveNestedAgentLaneForSession(s) == <<"nested", s>>

ResolveCronAgentLane(lane) ==
    IF lane \in {NoLane, CronLane} THEN CronNestedLane ELSE lane

ResolveGlobalLane(lane) ==
    CASE lane = CronLane -> CronNestedLane
      [] lane = NoLane -> SessionsLane
      [] OTHER -> lane

(* The lane the caller of runEmbeddedPiAgent asks for: none for a reply,   *)
(* the cron lane passed through resolveCronAgentLane for a cron job, the   *)
(* nested lane of the target session for sessions_send.                    *)
LaneParam(r) ==
    CASE r \in Replies -> NoLane
      [] r \in CronRuns \cup TimerRuns -> ResolveCronAgentLane(CronLane)
      [] r \in Sends -> ResolveNestedAgentLaneForSession(SessionOf[r])

UnmappedLane(r) ==            \* mutant of GlobalLane: cron runs on the cron lane
    CASE r \in Replies -> SessionsLane
      [] r \in CronRuns \cup TimerRuns -> CronLane
      [] r \in Sends -> ResolveNestedAgentLaneForSession(SessionOf[r])

GlobalLane(r) == ResolveGlobalLane(LaneParam(r))

-----------------------------------------------------------------------------
(* Entries: the session and the global entry of each run, and the entry    *)
(* enqueueRun puts on the cron lane around a manual cron run.  They give   *)
(* the constants Entries, Lanes, LaneOf, Outer and BoundedWait of the      *)
(* queue their values.                                                     *)
SessionEntry(r) == <<"session", r>>
GlobalEntry(r) == <<"global", r>>
CronEntry(r) == <<"cron", r>>

RunEntries ==
    {SessionEntry(r) : r \in Runs} \cup {GlobalEntry(r) : r \in Runs}
        \cup {CronEntry(r) : r \in CronRuns}

RunLaneOf == [e \in RunEntries |->
    CASE e[1] = "session" -> ResolveSessionLane(SessionOf[e[2]])
      [] e[1] = "global" -> GlobalLane(e[2])
      [] e[1] = "cron" -> CronLane]

RunLanes == {RunLaneOf[e] : e \in RunEntries}

UnnestedOuter ==              \* mutant of RunOuter: the two entries side by side
    [e \in RunEntries |->
        IF e[1] = "session" /\ e[2] \in CronRuns THEN CronEntry(e[2]) ELSE NoEntry]

RunOuter == [e \in RunEntries |->
    CASE e[1] = "global" -> SessionEntry(e[2])
      [] e[1] = "session" /\ e[2] \in Sends -> GlobalEntry(SenderOf[e[2]])
      [] e[1] = "session" /\ e[2] \in CronRuns -> CronEntry(e[2])
      [] OTHER -> NoEntry]

(* A run waits for the run it asked sessions_send for only up to the       *)
(* timeout of the call, and then goes on.                                  *)
RunBoundedWait == {GlobalEntry(SenderOf[r]) : r \in Sends}

ASSUME LanesAssumption ==
    /\ Entries = RunEntries
    /\ LaneOf = RunLaneOf
    /\ Outer = RunOuter
    /\ BoundedWait = RunBoundedWait
    /\ {CronMax, SessionsMax} \subseteq 1..MaxConcurrency

-----------------------------------------------------------------------------
(* applyGatewayLaneConcurrency; a lane it does not name keeps limit 1.     *)
LaneLimit(l) ==
    CASE l \in {CronLane, CronNestedLane} -> CronMax
      [] l = SessionsLane -> SessionsMax
      [] OTHER -> 1

GatewayInit ==
    /\ queue = [l \in Lanes |-> <<>>]
    /\ active = [l \in Lanes |-> {}]
    /\ maxConcurrent = [l \in Lanes |-> LaneLimit(l)]
    /\ generation = [l \in Lanes |-> 0]
    /\ gatewayDraining = FALSE
    /\ status = [e \in Entries |-> "idle"]
    /\ taskGeneration = [e \in Entries |-> 0]
    /\ waiterState = [w \in Waiters |-> "idle"]
    /\ waiterIds = [w \in Waiters |-> {}]

(* An inbound message in interrupt mode clears the lane of its session     *)
(* before it enqueues its own run.                                         *)
Interrupt(r) ==
    /\ r \in Replies
    /\ status[SessionEntry(r)] = "idle"
    /\ ClearCommandLane(ResolveSessionLane(SessionOf[r]))

AgentNext ==
    \/ \E e \in Entries : Enqueue(e) \/ Complete(e)
    \/ \E r \in Replies : Interrupt(r)

(* While some task is held back by nothing, some task ends: runs have      *)
(* timeouts of their own.  Nothing is assumed about new work arriving.     *)
AgentSpec ==
    /\ GatewayInit
    /\ [][AgentNext]_vars
    /\ WF_vars(\E e \in Entries : Complete(e))

-----------------------------------------------------------------------------
(* No circular wait: all accepted work settles in the end, although runs   *)
(* hold their session, global and cron lanes while they wait for the lanes *)
(* of the runs they start.  Cron work does not wait for its own cron slot  *)
(* ("to avoid self-deadlock", agents/lanes.ts), and two sessions that send *)
(* to each other get out of each other's way.  An entry is called at most  *)
(* once, so only a wait without end can keep one queued or running.        *)
AllWorkSettles ==
    <>[](\A e \in Entries : status[e] \notin {"queued", "running"})

(* At most one run executes in a session, whatever global lane each run    *)
(* was routed to ("Per-session lanes guarantee that only one agent run     *)
(* touches a given session at a time", docs/concepts/queue.md).  The lanes *)
(* are not reset here: a run that outlives a restart in the same process   *)
(* is forgotten by its lane and may go on beside a new one.                *)
OneRunPerSession ==
    \A r1, r2 \in Runs :
        /\ SessionOf[r1] = SessionOf[r2]
        /\ status[GlobalEntry(r1)] = "running"
        /\ status[GlobalEntry(r2)] = "running"
        => r1 = r2
=============================================================================
