----------------------------- MODULE MCSessions -----------------------------
(***************************************************************************)
(* Instance of the parts that connect the controller with a node: its       *)
(* heartbeats, Docker queries and tunnels.  They share no state, so each     *)
(* behaviour exercises one of them, chosen at the start.                     *)
(*                                                                         *)
(* Time of NodeLiveness is counted in units of 5 seconds: a heartbeat every  *)
(* 15 s with a timeout of 10 s, offline after 45 s, a sweep every 15 s.      *)
(***************************************************************************)
EXTENDS NodeLiveness, DockerQueries, Tunnels

CONSTANTS q1, q2
VARIABLE focus

MCQueryKind == [q \in Queries |-> IF q = q1 THEN "inspect" ELSE "exec"]
MCQueryTimeout == [q \in Queries |-> IF q = q1 THEN 0 ELSE 2]

ForNodes == focus = "nodes"
ForQueries == focus = "queries"
ForTunnels == focus = "tunnels"

MCInit ==
  /\ focus \in {"nodes", "queries", "tunnels"}
  /\ NodeInit /\ QueryInit /\ TunnelInit
  /\ focus # "tunnels" => tunnelKind = "exec"

MCNext ==
  \/ ForNodes /\ NodeNext /\ UNCHANGED <<focus, queryVars, tunnelVars>>
  \/ ForQueries /\ QueryNext /\ UNCHANGED <<focus, nodeVars, tunnelVars>>
  \/ ForTunnels /\ TunnelNext /\ UNCHANGED <<focus, nodeVars, queryVars>>

\* Timers expire, goroutines run, and both processes are started again by
\* their supervisors.
NodeFairness ==
  /\ WF_nodeVars(ForNodes /\ StartAgent) /\ WF_nodeVars(ForNodes /\ SendHeartbeat) /\ WF_nodeVars(ForNodes /\ HeartbeatTimesOut)
  /\ WF_nodeVars(ForNodes /\ ReadPreviousSnapshot) /\ WF_nodeVars(ForNodes /\ RecordHeartbeat)
  /\ WF_nodeVars(ForNodes /\ FinishHeartbeat)
  /\ WF_nodeVars(ForNodes /\ SweepReadsBefore) /\ WF_nodeVars(ForNodes /\ SweepMarks)
  /\ WF_nodeVars(ForNodes /\ SweepReadsAfter) /\ WF_nodeVars(ForNodes /\ SweepReports)
  /\ WF_nodeVars(ForNodes /\ StartController) /\ WF_nodeVars(ForNodes /\ TimePasses)

\* Handlers, timers and the agent's loop run.
QueryFairness ==
  /\ WF_queryVars(ForQueries /\ QueryTimePasses) /\ WF_queryVars(ForQueries /\ StartPoll)
  /\ WF_queryVars(ForQueries /\ ReportDockerQueryResult) /\ WF_queryVars(ForQueries /\ \E o \in {"ok"} \cup Codes : ExecuteDockerQuery(o))
  /\ \A q \in Queries : /\ WF_queryVars(ForQueries /\ SubscribeResult(q)) /\ WF_queryVars(ForQueries /\ PopResult(q))
                        /\ WF_queryVars(ForQueries /\ EnterSelect(q))
                        /\ WF_queryVars(ForQueries /\ GiveUp(q, FALSE))

\* Goroutines run and the sweeper ticks; users and processes may do nothing.
TunnelFairness ==
  /\ WF_tunnelVars(ForTunnels /\ RegisterTunnel) /\ WF_tunnelVars(ForTunnels /\ OpenStream)
  /\ WF_tunnelVars(ForTunnels /\ \E starts \in BOOLEAN : HandleMessage(starts))
  /\ \A g \in Streams : /\ WF_tunnelVars(ForTunnels /\ HandlerEnds(g))
                        /\ WF_tunnelVars(ForTunnels /\ LookupSession(g)) /\ WF_tunnelVars(ForTunnels /\ Deliver(g))
  /\ \A s \in Sessions : /\ WF_tunnelVars(ForTunnels /\ ReadIncoming(s)) /\ WF_tunnelVars(ForTunnels /\ ReaderCloses(s))
                         /\ WF_tunnelVars(ForTunnels /\ TokenExpires(s)) /\ WF_tunnelVars(ForTunnels /\ SweepExpiredSessions(s))
                         /\ \A b \in Browsers :
                              WF_tunnelVars(ForTunnels /\ \E up \in BOOLEAN : UpgradeWebsocket(b, s, up))

MCSpec ==
  /\ MCInit /\ [][MCNext]_<<focus, nodeVars, queryVars, tunnelVars>>
  /\ NodeFairness /\ QueryFairness /\ TunnelFairness
=============================================================================
