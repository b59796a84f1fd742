---------------------------- MODULE NodeLiveness ----------------------------
(***************************************************************************)
(* Whether a node is online.  The agent sends a heartbeat every            *)
(* HeartbeatInterval and waits for the answer at most HeartbeatTimeout.    *)
(* The handler reads the node's row, takes the time, writes the row and    *)
(* then reports node_online.  sweepOfflineNodes reads all rows, marks the  *)
(* ones whose last heartbeat is older than OfflineAfter, reads them again  *)
(* and reports node_offline.  The steps of both interleave.                *)
(*                                                                         *)
(* One node, since handlers and sweep treat nodes independently.  Time is  *)
(* discrete and every time stamp is kept as its age, capped where the code *)
(* no longer tells values apart, so that the clock needs no bound.         *)
(***************************************************************************)
EXTENDS Naturals, FiniteSets

CONSTANTS
  HeartbeatInterval, HeartbeatTimeout, OfflineAfter, SweepInterval,
  WriteDelay,     \* a statement waits at most this long for the database; not 0
  MaxNodeFaults   \* bound: stops of the agent or the controller, heartbeats lost
                  \* or given up, and sweeps that end with an SQL error

VARIABLES
  row,      \* nodes: is_online, last_heartbeat as [seen, age]
  agent,    \* the heartbeat goroutine: up, timer until the next tick
  calls,    \* heartbeats sent and not finished
  sweep,    \* the sweep goroutine: stage, timer, what it read before
  ctlUp,    \* the controller runs
  lastEvent,  \* the node notification sent last since the controller started
  \* history
  misses,   \* heartbeats without an answer since the last answer, capped
  steady,   \* the agent has not stopped since its last answered heartbeat
  wasOnline,  \* the row was online at some time since the controller started
  sweepFailed,  \* a sweep has ended with an error
  nodeFaults  \* faults so far

nodeVars == <<row, agent, calls, sweep, ctlUp, lastEvent, misses, steady,
              wasOnline, sweepFailed, nodeFaults>>

ASSUME NodeAssumption ==
  /\ {HeartbeatInterval, HeartbeatTimeout, OfflineAfter, SweepInterval, WriteDelay} \subseteq Nat \ {0}
  /\ MaxNodeFaults \in Nat
  /\ HeartbeatTimeout < HeartbeatInterval
  /\ 2 * WriteDelay < OfflineAfter

\* Two missed heartbeats fit into OfflineAfter.  With the values of the code (15 s,
\* 10 s and 45 s, and the busy_timeout of 5 s) nothing is left over.
ASSUME MissesAssumption ==
  WriteDelay + 2 * HeartbeatInterval + HeartbeatTimeout <= OfflineAfter

AgeCap == OfflineAfter + SweepInterval + 2 * WriteDelay + 1
Older(a) == IF a < AgeCap THEN a + 1 ELSE a
SweepIdle == [stage |-> "idle", timer |-> SweepInterval, busy |-> 0, before |-> FALSE]
Live == {c \in calls : c.live}

\* The database of a new controller: the node is configured and not yet seen.
NodeInit ==
  /\ row = [online |-> FALSE, seen |-> FALSE, age |-> AgeCap]
  /\ agent = [up |-> FALSE, timer |-> 0]
  /\ calls = {} /\ sweep = SweepIdle
  /\ ctlUp = TRUE /\ lastEvent = "none"
  /\ misses = 0 /\ steady = FALSE /\ wasOnline = FALSE
  /\ sweepFailed = FALSE /\ nodeFaults = 0

-----------------------------------------------------------------------------
(* The agent *)

\* runAgentRuntime starts the periodic task, whose first run is immediate.
StartAgent ==
  /\ ~agent.up
  /\ agent' = [up |-> TRUE, timer |-> 0]
  /\ UNCHANGED <<row, calls, sweep, ctlUp, lastEvent, misses, steady, wasOnline, sweepFailed, nodeFaults>>

StopAgent ==
  /\ agent.up /\ nodeFaults < MaxNodeFaults
  /\ agent' = [agent EXCEPT !.up = FALSE]
  /\ calls' = {[c EXCEPT !.live = FALSE] : c \in {d \in calls : d.stage # "lost"}}
  /\ steady' = FALSE
  /\ nodeFaults' = nodeFaults + 1
  /\ UNCHANGED <<row, sweep, ctlUp, lastEvent, misses, wasOnline, sweepFailed>>

\* A heartbeat that is lost, or sent while the controller is down, has no answer.
SendHeartbeat ==
  /\ agent.up /\ agent.timer = 0 /\ Live = {}
  /\ agent' = [agent EXCEPT !.timer = HeartbeatInterval]
  /\ \E arrives \in BOOLEAN :
       /\ arrives => ctlUp
       /\ ~arrives /\ ctlUp => nodeFaults < MaxNodeFaults
       /\ calls' = calls \cup
            {[stage |-> IF arrives THEN "sent" ELSE "lost", sent |-> 0, at |-> 0,
              prev |-> [online |-> FALSE, seen |-> FALSE], live |-> TRUE]}
       /\ nodeFaults' = IF arrives \/ ~ctlUp THEN nodeFaults ELSE nodeFaults + 1
  /\ UNCHANGED <<row, sweep, ctlUp, lastEvent, misses, steady, wasOnline, sweepFailed>>

\* callCtx expires.  What the controller has received may still be handled;
\* one such late call at a time, the agent's connection being closed.
HeartbeatTimesOut ==
  \E c \in Live :
    /\ c.sent = HeartbeatTimeout
    /\ calls' = (calls \ {c}) \cup
         {[c EXCEPT !.live = FALSE] : d \in {e \in {c} : e.stage # "lost" /\ calls = {c}}}
    /\ misses' = IF misses < 3 THEN misses + 1 ELSE misses
    /\ nodeFaults' = IF c.stage = "lost" THEN nodeFaults ELSE nodeFaults + 1
    /\ UNCHANGED <<row, agent, sweep, ctlUp, lastEvent, steady, wasOnline, sweepFailed>>

-----------------------------------------------------------------------------
(* The handler *)

\* snapshotIfExists, then heartbeatAt.
ReadPreviousSnapshot ==
  \E c \in calls :
    /\ c.stage = "sent" /\ ctlUp
    /\ calls' = (calls \ {c}) \cup
         {[c EXCEPT !.stage = "read", !.at = 0,
                    !.prev = [online |-> row.online, seen |-> row.seen]]}
    /\ UNCHANGED <<row, agent, sweep, ctlUp, lastEvent, misses, steady, wasOnline, sweepFailed, nodeFaults>>

\* Mutant: the conflict clause forgets the time.
HeartbeatRowKeepsTime(c) == [online |-> TRUE, seen |-> TRUE, age |-> IF row.seen THEN row.age ELSE c.at]

HeartbeatRow(c) == [online |-> TRUE, seen |-> TRUE, age |-> c.at]

RecordHeartbeat ==
  \E c \in calls :
    /\ c.stage = "read"
    /\ row' = HeartbeatRow(c)
    /\ wasOnline' = (wasOnline \/ row'.online)
    /\ calls' = (calls \ {c}) \cup {[c EXCEPT !.stage = "recorded"]}
    /\ UNCHANGED <<agent, sweep, ctlUp, lastEvent, misses, steady, sweepFailed, nodeFaults>>

\* node_online is reported for a node that was offline and had been seen.
FinishHeartbeat ==
  \E c \in calls :
    /\ c.stage = "recorded"
    /\ lastEvent' = IF ~c.prev.online /\ c.prev.seen THEN "online" ELSE lastEvent
    /\ calls' = calls \ {c}
    /\ misses' = IF c.live THEN 0 ELSE misses
    /\ steady' = (steady \/ c.live)
    /\ UNCHANGED <<row, agent, sweep, ctlUp, wasOnline, sweepFailed, nodeFaults>>

\* The context of a call that was given up ends the handler at a statement.
CancelLateHeartbeat ==
  \E c \in calls :
    /\ ~c.live /\ c.stage # "recorded"
    /\ calls' = calls \ {c}
    /\ UNCHANGED <<row, agent, sweep, ctlUp, lastEvent, misses, steady, wasOnline, sweepFailed, nodeFaults>>

-----------------------------------------------------------------------------
(* The sweep *)

SweepReadsBefore ==
  /\ ctlUp /\ sweep.stage = "idle" /\ sweep.timer = 0
  /\ sweep' = [stage |-> "before", timer |-> SweepInterval, busy |-> 0, before |-> row.online]
  /\ UNCHANGED <<row, agent, calls, ctlUp, lastEvent, misses, steady, wasOnline, sweepFailed, nodeFaults>>

MarkOfflineNodesBefore(r) ==
  [r EXCEPT !.online = @ /\ r.seen /\ ~(r.age > OfflineAfter)]

SweepMarks ==
  /\ sweep.stage = "before"
  /\ row' = MarkOfflineNodesBefore(row)
  /\ sweep' = [sweep EXCEPT !.stage = "marked"]
  /\ UNCHANGED <<agent, calls, ctlUp, lastEvent, misses, steady, wasOnline, sweepFailed, nodeFaults>>

SweepReadsAfter ==
  /\ sweep.stage = "marked"
  /\ sweep' = IF sweep.before /\ ~row.online
              THEN [sweep EXCEPT !.stage = "report"]
              ELSE [SweepIdle EXCEPT !.timer = sweep.timer]
  /\ UNCHANGED <<row, agent, calls, ctlUp, lastEvent, misses, steady, wasOnline, sweepFailed, nodeFaults>>

SweepReports ==
  /\ sweep.stage = "report"
  /\ lastEvent' = "offline"
  /\ sweep' = [SweepIdle EXCEPT !.timer = sweep.timer]
  /\ UNCHANGED <<row, agent, calls, ctlUp, misses, steady, wasOnline, sweepFailed, nodeFaults>>

\* A failing statement ends the round.
SweepFails ==
  /\ sweep.stage \in {"before", "marked"} /\ nodeFaults < MaxNodeFaults
  /\ sweep' = [SweepIdle EXCEPT !.timer = sweep.timer]
  /\ sweepFailed' = TRUE /\ nodeFaults' = nodeFaults + 1
  /\ UNCHANGED <<row, agent, calls, ctlUp, lastEvent, misses, steady, wasOnline>>

-----------------------------------------------------------------------------
(* The controller's process, and time *)

StopController ==
  /\ ctlUp /\ nodeFaults < MaxNodeFaults
  /\ ctlUp' = FALSE
  /\ sweep' = SweepIdle
  /\ calls' = {[c EXCEPT !.stage = "lost"] : c \in Live}
  /\ nodeFaults' = nodeFaults + 1
  /\ UNCHANGED <<row, agent, lastEvent, misses, steady, wasOnline, sweepFailed>>

\* SyncConfiguredNodes keeps the row; stale nodes are marked without a report.
StartController ==
  /\ ~ctlUp
  /\ ctlUp' = TRUE
  /\ row' = MarkOfflineNodesBefore(row)
  /\ wasOnline' = row'.online
  /\ lastEvent' = "none"
  /\ UNCHANGED <<agent, calls, sweep, misses, steady, sweepFailed, nodeFaults>>

\* Once the faults are used up a heartbeat is answered before its deadline.
Hurry(c) == IF c.stage # "lost" /\ nodeFaults >= MaxNodeFaults THEN 1 ELSE 0

\* Time passes when nothing is overdue.
TimePasses ==
  /\ ctlUp => sweep.timer > 0 /\ sweep.busy <= WriteDelay
  /\ agent.up => agent.timer > 0
  /\ \A c \in calls : /\ c.live => c.sent < HeartbeatTimeout - Hurry(c)
                      /\ c.stage \in {"read", "recorded"} => c.at < WriteDelay
  /\ row' = [row EXCEPT !.age = Older(@)]
  /\ agent' = [agent EXCEPT !.timer = IF agent.up THEN @ - 1 ELSE 0]
  /\ calls' = {[c EXCEPT !.sent = IF c.live THEN @ + 1 ELSE 0,
                         !.at = IF c.stage \in {"read", "recorded"} THEN @ + 1 ELSE @] : c \in calls}
  /\ sweep' = [sweep EXCEPT !.timer = IF ctlUp THEN @ - 1 ELSE @,
                            !.busy = IF sweep.stage = "idle" THEN 0 ELSE @ + 1]
  /\ UNCHANGED <<ctlUp, lastEvent, misses, steady, wasOnline, sweepFailed, nodeFaults>>

NodeNext ==
  \/ StartAgent \/ StopAgent \/ SendHeartbeat \/ HeartbeatTimesOut
  \/ ReadPreviousSnapshot \/ RecordHeartbeat \/ FinishHeartbeat \/ CancelLateHeartbeat
  \/ SweepReadsBefore \/ SweepMarks \/ SweepReadsAfter \/ SweepReports \/ SweepFails
  \/ StopController \/ StartController \/ TimePasses

\* Without the fairness of the goroutines, which MCSessions adds.
NodeSpec == NodeInit /\ [][NodeNext]_nodeVars

-----------------------------------------------------------------------------
(* Properties *)

NodeTypeOK ==
  /\ row \in [online : BOOLEAN, seen : BOOLEAN, age : 0..AgeCap]
  /\ agent \in [up : BOOLEAN, timer : 0..HeartbeatInterval]
  /\ calls \subseteq [stage : {"sent", "lost", "read", "recorded"}, sent : 0..HeartbeatTimeout,
                      at : 0..WriteDelay, prev : [online : BOOLEAN, seen : BOOLEAN],
                      live : BOOLEAN]
  /\ sweep \in [stage : {"idle", "before", "marked", "report"}, timer : 0..SweepInterval,
                busy : 0..WriteDelay + 1, before : BOOLEAN]
  /\ {ctlUp, steady, wasOnline, sweepFailed} \subseteq BOOLEAN
  /\ lastEvent \in {"none", "online", "offline"} /\ misses \in 0..3
  /\ nodeFaults \in 0..MaxNodeFaults + 1

\* validateTaskTargetNode for the types that need an online node, with the
\* node configured and enabled.
TargetNodeAvailable == ctlUp /\ row.online

\* A task is accepted only for a node that reported within OfflineAfter and
\* one sweep (plus the time statements wait for the database): the row does
\* not stay online behind a dead agent, whatever a late handler writes.  A
\* sweep that failed is excused.
AvailableNodeIsFresh ==
  TargetNodeAvailable /\ ~sweepFailed
    => row.age <= OfflineAfter + SweepInterval + 2 * WriteDelay

\* A running agent's node is marked offline, by a sweep or a start of the
\* controller, only after two heartbeats in a row went without an answer: one
\* lost or slow heartbeat never takes a node offline, although a late handler
\* may write an older time over a newer one.
MarkedAfterTwoMisses ==
  [][row.online /\ ~row'.online /\ steady => misses >= 2]_nodeVars

\* When the sweep is at rest, a node that went offline since the controller
\* started has been reported: the last event is node_offline, in spite of
\* heartbeats between the sweep's two readings and of reports under way.
DeathIsReported ==
  ctlUp /\ sweep.stage = "idle" /\ ~row.online /\ wasOnline /\ ~sweepFailed
    => lastEvent = "offline"

\* The node's row and what was reported of it tell the truth, as far as a
\* heartbeat and a sweep can know it.
NodeStatusIsRight == NodeTypeOK /\ AvailableNodeIsFresh /\ DeathIsReported

\* Once crashes and losses are over the node is online, and stays so.
LiveAgentIsOnline == agent.up ~> [](row.online /\ ctlUp)

\* A node's status follows its agent (runtime.go, agent_report.go): it is right
\* in every state, a running agent's node goes offline only after two missed
\* heartbeats, and comes back for good.
NodeStatusFollows == []NodeStatusIsRight /\ MarkedAfterTwoMisses /\ LiveAgentIsOnline
=============================================================================
