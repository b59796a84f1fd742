------------------------------- MODULE Tunnels -------------------------------
(***************************************************************************)
(* Interactive sessions on a node's containers.  The agent keeps a stream  *)
(* open to the controller, the tunnel; the controller sends it start,       *)
(* stdin and close messages through a bounded queue and delivers what the   *)
(* agent sends to the session of a browser (exec) or of a log request       *)
(* (log).  Both tunnels follow one protocol; they differ in how a reader     *)
(* attaches and in who forgets a session first, so the kind of the tunnel    *)
(* is chosen at the start.                                                  *)
(*                                                                         *)
(* The manager's mutex makes its operations steps.  A message from the      *)
(* agent is looked up under the mutex and delivered after it is released.   *)
(* A message in flight to the agent is counted as still in the queue: it is  *)
(* lost with the stream either way.                                         *)
(***************************************************************************)
EXTENDS Naturals, Sequences, FiniteSets

CONSTANTS
  Sessions, Browsers,
  MaxStreams,  \* bound: streams the agent opens
  QueueSize,   \* capacity of a tunnel's queue and of a session's channel
  MaxInputs    \* bound: messages a reader sends

VARIABLES
  tunnelKind,  \* "exec" or "log"
  registered,  \* manager.tunnels[node]: the number of a stream, 0 for none
  queue,       \* sendCh of each stream, and whether it is closed
  chanOpen,
  handler,     \* the RPC handler of each stream
  agentStream, \* the stream the agent uses, 0 for none
  fromAgent,   \* messages of the agent on each stream
  delivering,  \* the message between lookup and deliver, of each stream
  session,     \* manager.sessions and the session objects
  attach,      \* handleWebsocket of each browser and session
  running,     \* the stream on which the agent runs each session, 0 for none
  inputs, crashed,
  dropped,     \* history: sessions whose close message found the queue full
  orphaned     \* history: sessions whose tunnel was replaced, or whose last message
               \* found the session's channel full

tunnelVars == <<tunnelKind, registered, queue, chanOpen, handler, agentStream, fromAgent,
                delivering, session, attach, running, inputs, crashed, dropped, orphaned>>

ASSUME TunnelAssumption ==
  /\ IsFiniteSet(Sessions) /\ IsFiniteSet(Browsers)
  /\ {MaxStreams, QueueSize} \subseteq Nat \ {0} /\ MaxInputs \in Nat

Streams == 1..MaxStreams
NoMessage == [kind |-> "none", session |-> CHOOSE s \in Sessions : TRUE]
Message(k, s) == [kind |-> k, session |-> s]
Expired(s) == session[s].expired

TunnelInit ==
  /\ tunnelKind \in {"exec", "log"}
  /\ registered = 0 /\ agentStream = 0
  /\ queue = [g \in Streams |-> <<>>] /\ chanOpen = [g \in Streams |-> FALSE]
  /\ handler = [g \in Streams |-> "none"]
  /\ fromAgent = [g \in Streams |-> <<>>]
  /\ delivering = [g \in Streams |-> NoMessage]
  /\ session = [s \in Sessions |-> [known |-> FALSE, closed |-> FALSE, opened |-> FALSE,
                   token |-> FALSE, expired |-> FALSE, attaching |-> FALSE, taken |-> FALSE,
                   incoming |-> <<>>, reader |-> "none"]]
  /\ attach = [b \in Browsers |-> [s \in Sessions |-> "none"]]
  /\ running = [s \in Sessions |-> 0]
  /\ inputs = 0 /\ crashed = FALSE /\ dropped = {} /\ orphaned = {}

-----------------------------------------------------------------------------
(* The manager *)

Closed(r) == [r EXCEPT !.known = FALSE, !.closed = TRUE, !.attaching = FALSE, !.token = FALSE]

\* A non-blocking send to the registered tunnel, which must not be closed.
Room == registered # 0 /\ Len(queue[registered]) < QueueSize
SendCrashes == registered # 0 /\ ~chanOpen[registered]

\* closeSessionLocked: forget the session, close its channel, tell the agent if
\* the queue has room.
CloseSession(s, r) ==
  /\ session' = [session EXCEPT ![s] = Closed(r)]
  /\ queue' = IF r.known /\ Room
              THEN [queue EXCEPT ![registered] = Append(@, Message("close", s))] ELSE queue
  /\ dropped' = IF r.known /\ registered # 0 /\ ~Room THEN dropped \cup {s} ELSE dropped
  /\ crashed' = (crashed \/ (r.known /\ SendCrashes))

\* registerTunnel, when the agent has opened a new stream.  The queue of the
\* previous tunnel is closed; its sessions stay.
RegisterTunnel ==
  \E g \in Streams :
    /\ agentStream = g /\ handler[g] = "none"
    /\ handler' = [handler EXCEPT ![g] = "serving"]
    /\ registered' = g
    /\ chanOpen' = [h \in Streams |-> h = g \/ (chanOpen[h] /\ h # registered)]
    /\ orphaned' = orphaned \cup {s \in Sessions : registered # 0 /\ session[s].known}
    /\ crashed' = (crashed \/ (registered # 0 /\ ~chanOpen[registered]))
    /\ UNCHANGED <<tunnelKind, queue, agentStream, fromAgent, delivering, session, attach, running,
                   inputs, dropped>>

UnregisterTunnel(g) ==
  IF registered # g
  THEN UNCHANGED <<registered, chanOpen, crashed, session>>
  ELSE /\ registered' = 0
       /\ chanOpen' = [chanOpen EXCEPT ![g] = FALSE]
       /\ crashed' = (crashed \/ ~chanOpen[g])
       /\ session' = [s \in Sessions |-> IF session[s].known THEN Closed(session[s]) ELSE session[s]]

\* The handler returns: its queue was closed, or the stream has ended.
HandlerEnds(g) ==
  /\ handler[g] = "serving"
  /\ ~chanOpen[g] \/ agentStream # g
  /\ handler' = [handler EXCEPT ![g] = "ended"]
  /\ UnregisterTunnel(g)
  /\ queue' = [queue EXCEPT ![g] = <<>>]
  /\ fromAgent' = [fromAgent EXCEPT ![g] = <<>>]
  /\ UNCHANGED <<tunnelKind, agentStream, delivering, attach, running, inputs, dropped, orphaned>>

\* openSession; a log request reads its session at once, an exec session waits
\* for a browser with the attach token.
OpenSession(s) ==
  /\ ~session[s].opened /\ registered # 0
  /\ LET r == [session[s] EXCEPT !.opened = TRUE, !.known = TRUE, !.token = (tunnelKind = "exec")]
     IN IF Room
        THEN /\ queue' = [queue EXCEPT ![registered] = Append(@, Message("start", s))]
             /\ session' = [session EXCEPT ![s] =
                  IF tunnelKind = "log" THEN [r EXCEPT !.reader = "reading"] ELSE r]
             /\ crashed' = (crashed \/ SendCrashes)
             /\ UNCHANGED dropped
        ELSE CloseSession(s, r)
  /\ UNCHANGED <<tunnelKind, registered, chanOpen, handler, agentStream, fromAgent, delivering,
                 attach, running, inputs, orphaned>>

\* sendToSessionNode, for input of an attached browser: when the queue is full
\* the session is closed and the browser's loop ends.
SendToSessionNode(s) ==
  /\ tunnelKind = "exec" /\ session[s].reader = "reading" /\ inputs < MaxInputs
  /\ inputs' = inputs + 1
  /\ IF ~session[s].known \/ registered = 0
     THEN /\ session' = [session EXCEPT ![s].reader = "leaving"]
          /\ UNCHANGED <<queue, dropped, crashed>>
     ELSE IF Room
     THEN /\ queue' = [queue EXCEPT ![registered] = Append(@, Message("stdin", s))]
          /\ crashed' = (crashed \/ SendCrashes)
          /\ UNCHANGED <<session, dropped>>
     ELSE CloseSession(s, [session[s] EXCEPT !.reader = "leaving"])
  /\ UNCHANGED <<tunnelKind, registered, chanOpen, handler, agentStream, fromAgent, delivering,
                 attach, running, orphaned>>

\* The attach token of an exec session expires; the sweeper closes the session
\* unless a browser has it or is attaching.
TokenExpires(s) ==
  /\ session[s].token /\ ~Expired(s)
  /\ session' = [session EXCEPT ![s].expired = TRUE]
  /\ UNCHANGED <<tunnelKind, registered, queue, chanOpen, handler, agentStream, fromAgent,
                 delivering, attach, running, inputs, crashed, dropped, orphaned>>

SweepExpiredSessions(s) ==
  /\ session[s].known /\ session[s].token /\ Expired(s)
  /\ ~session[s].taken /\ ~session[s].attaching
  /\ CloseSession(s, session[s])
  /\ UNCHANGED <<tunnelKind, registered, chanOpen, handler, agentStream, fromAgent, delivering,
                 attach, running, inputs, orphaned>>

-----------------------------------------------------------------------------
(* Browsers *)

Reservable(s) == session[s].known /\ session[s].token /\ ~session[s].taken /\ ~session[s].attaching

\* reserveSessionAttach; an expired token closes the session.
ReserveSessionAttach(b, s) ==
  /\ attach[b][s] = "none" /\ session[s].token
  /\ IF Expired(s)
     THEN CloseSession(s, session[s]) /\ attach' = [attach EXCEPT ![b][s] = "refused"]
     ELSE /\ session' = IF Reservable(s) THEN [session EXCEPT ![s].attaching = TRUE] ELSE session
          /\ attach' = [attach EXCEPT ![b][s] = IF Reservable(s) THEN "upgrading" ELSE "refused"]
          /\ UNCHANGED <<queue, dropped, crashed>>
  /\ UNCHANGED <<tunnelKind, registered, chanOpen, handler, agentStream, fromAgent, delivering,
                 running, inputs, orphaned>>

\* Mutant: a failed upgrade keeps its reservation.
ReleaseSessionAttachForgotten(r) == r

ReleaseSessionAttach(r) == [r EXCEPT !.attaching = FALSE]

\* The upgrade succeeds and confirmSessionAttach takes the session, which may
\* have been closed or whose token may have expired meanwhile; or the upgrade
\* fails and the reservation is released.
UpgradeWebsocket(b, s, upgraded) ==
  /\ attach[b][s] = "upgrading" /\ session[s].opened
  /\ IF ~session[s].token
     THEN /\ attach' = [attach EXCEPT ![b][s] = "refused"]
          /\ UNCHANGED <<session, queue, dropped, crashed>>
     ELSE IF Expired(s)
     THEN CloseSession(s, session[s]) /\ attach' = [attach EXCEPT ![b][s] = "refused"]
     ELSE /\ session' = IF upgraded
                        THEN [session EXCEPT ![s].attaching = FALSE, ![s].taken = TRUE,
                                             ![s].token = FALSE, ![s].reader = "reading"]
                        ELSE [session EXCEPT ![s] = ReleaseSessionAttach(@)]
          /\ attach' = [attach EXCEPT ![b][s] = IF upgraded THEN "attached" ELSE "refused"]
          /\ UNCHANGED <<queue, dropped, crashed>>
  /\ UNCHANGED <<tunnelKind, registered, chanOpen, handler, agentStream, fromAgent, delivering,
                 running, inputs, orphaned>>

\* The reader takes a message, or finds the channel closed and empty.
ReadIncoming(s) ==
  /\ session[s].reader = "reading"
  /\ \/ /\ session[s].incoming # <<>>
        /\ session' = [session EXCEPT ![s].incoming = Tail(@),
             ![s].reader = IF Head(session[s].incoming) = "closed" THEN "leaving" ELSE @]
     \/ /\ session[s].incoming = <<>> /\ session[s].closed
        /\ session' = [session EXCEPT ![s].reader = "leaving"]
  /\ UNCHANGED <<tunnelKind, registered, queue, chanOpen, handler, agentStream, fromAgent,
                 delivering, attach, running, inputs, crashed, dropped, orphaned>>

\* The user goes away.
ReaderLeaves(s) ==
  /\ session[s].reader = "reading"
  /\ session' = [session EXCEPT ![s].reader = "leaving"]
  /\ UNCHANGED <<tunnelKind, registered, queue, chanOpen, handler, agentStream, fromAgent,
                 delivering, attach, running, inputs, crashed, dropped, orphaned>>

\* The deferred closeSession of the reader's handler.
ReaderCloses(s) ==
  /\ session[s].reader = "leaving"
  /\ IF session[s].known
     THEN CloseSession(s, [session[s] EXCEPT !.reader = "left"])
     ELSE session' = [session EXCEPT ![s].reader = "left"] /\ UNCHANGED <<queue, dropped, crashed>>
  /\ UNCHANGED <<tunnelKind, registered, chanOpen, handler, agentStream, fromAgent, delivering,
                 attach, running, inputs, orphaned>>

-----------------------------------------------------------------------------
(* The agent *)

OpenStream ==
  \E g \in Streams :
    /\ agentStream = 0 /\ handler[g] = "none"
    /\ \A h \in Streams : h < g => handler[h] # "none"
    /\ agentStream' = g
    /\ UNCHANGED <<tunnelKind, registered, queue, chanOpen, handler, fromAgent, delivering,
                   session, attach, running, inputs, crashed, dropped, orphaned>>

\* runStream ends: closeAll or cancelAll.  The controller may notice later.
StreamEnds ==
  /\ agentStream # 0 /\ handler[agentStream] # "none"
  /\ handler[agentStream] = "serving" => agentStream < MaxStreams
  /\ running' = [s \in Sessions |-> IF running[s] = agentStream THEN 0 ELSE running[s]]
  /\ agentStream' = 0
  /\ UNCHANGED <<tunnelKind, registered, queue, chanOpen, handler, fromAgent, delivering,
                 session, attach, inputs, crashed, dropped, orphaned>>

\* handleMessage: start runs the session or reports that it cannot, stdin goes
\* to a running session, close ends one.
HandleMessage(starts) ==
  LET g == agentStream IN
  /\ g # 0 /\ handler[g] = "serving" /\ queue[g] # <<>>
  /\ LET m == Head(queue[g]) IN
     /\ queue' = [queue EXCEPT ![g] = Tail(@)]
     /\ running' = [running EXCEPT ![m.session] =
          CASE m.kind = "start" -> IF starts THEN g ELSE @
            [] m.kind = "close" -> 0
            [] OTHER -> @]
     /\ fromAgent' = IF m.kind = "start" /\ ~starts
                     THEN [fromAgent EXCEPT ![g] = Append(@, Message("closed", m.session))]
                     ELSE fromAgent
  /\ UNCHANGED <<tunnelKind, registered, chanOpen, handler, agentStream, delivering, session,
                 attach, inputs, crashed, dropped, orphaned>>

\* The container's process writes, or ends: pumpExecOutput and
\* streamContainerLogs send closed and forget the session.
Output(s, ends) ==
  LET g == running[s] IN
  /\ g # 0 /\ Len(fromAgent[g]) < QueueSize
  /\ fromAgent' = [fromAgent EXCEPT ![g] = Append(@, Message(IF ends THEN "closed" ELSE "output", s))]
  /\ running' = IF ends THEN [running EXCEPT ![s] = 0] ELSE running
  /\ UNCHANGED <<tunnelKind, registered, queue, chanOpen, handler, agentStream, delivering,
                 session, attach, inputs, crashed, dropped, orphaned>>

-----------------------------------------------------------------------------
(* Messages from the agent *)

\* lookupSession; a log session is forgotten with its last message.
LookupSession(g) ==
  /\ handler[g] = "serving" /\ delivering[g] = NoMessage /\ fromAgent[g] # <<>>
  /\ LET m == Head(fromAgent[g])
         s == m.session IN
     /\ delivering' = [delivering EXCEPT ![g] = IF session[s].known THEN m ELSE NoMessage]
     /\ session' = IF tunnelKind = "log" /\ m.kind = "closed"
                   THEN [session EXCEPT ![s].known = FALSE] ELSE session
  /\ fromAgent' = [fromAgent EXCEPT ![g] = Tail(@)]
  /\ UNCHANGED <<tunnelKind, registered, queue, chanOpen, handler, agentStream, attach, running,
                 inputs, crashed, dropped, orphaned>>

\* deliver, under the session's own mutex: a closed or full channel closes the
\* session, and so does the last message of a log session.  A log session that
\* was forgotten with its last message is not closed when the channel is full.
Deliver(g) ==
  /\ delivering[g] # NoMessage
  /\ delivering' = [delivering EXCEPT ![g] = NoMessage]
  /\ LET m == delivering[g]
         s == m.session
         r == session[s] IN
     IF r.closed \/ Len(r.incoming) >= QueueSize
     THEN IF r.known THEN CloseSession(s, r) /\ UNCHANGED orphaned
          ELSE /\ orphaned' = IF r.closed THEN orphaned ELSE orphaned \cup {s}
               /\ UNCHANGED <<session, queue, dropped, crashed>>
     ELSE /\ session' = [session EXCEPT ![s].incoming = Append(@, m.kind),
                                        ![s].closed = (@ \/ (tunnelKind = "log" /\ m.kind = "closed"))]
          /\ UNCHANGED <<queue, dropped, crashed, orphaned>>
  /\ UNCHANGED <<tunnelKind, registered, chanOpen, handler, agentStream, fromAgent, attach,
                 running, inputs>>

TunnelNext ==
  \/ RegisterTunnel \/ OpenStream \/ StreamEnds
  \/ \E g \in Streams : HandlerEnds(g) \/ LookupSession(g) \/ Deliver(g)
  \/ \E s \in Sessions :
       \/ OpenSession(s) \/ SendToSessionNode(s) \/ TokenExpires(s) \/ SweepExpiredSessions(s)
       \/ ReadIncoming(s) \/ ReaderLeaves(s) \/ ReaderCloses(s)
       \/ \E ends \in BOOLEAN : Output(s, ends)
       \/ \E b \in Browsers : \/ ReserveSessionAttach(b, s)
                              \/ \E upgraded \in BOOLEAN : UpgradeWebsocket(b, s, upgraded)
  \/ \E starts \in BOOLEAN : HandleMessage(starts)

TunnelSpec == TunnelInit /\ [][TunnelNext]_tunnelVars

-----------------------------------------------------------------------------
(* Properties *)

TunnelTypeOK ==
  /\ tunnelKind \in {"exec", "log"} /\ registered \in 0..MaxStreams
  /\ agentStream \in 0..MaxStreams /\ running \in [Sessions -> 0..MaxStreams]
  /\ handler \in [Streams -> {"none", "serving", "ended"}]
  /\ \A g \in Streams : Len(queue[g]) <= QueueSize
  /\ \A s \in Sessions : Len(session[s].incoming) <= QueueSize
  /\ attach \in [Browsers -> [Sessions -> {"none", "upgrading", "attached", "refused"}]]

\* No goroutine sends on a closed channel or closes one twice, when a tunnel is
\* replaced, its old handler ends late, and sessions are opened, used and
\* closed at the same time: the process does not panic.
NoPanic == ~crashed

\* A session the controller has forgotten does not stay alive on the agent: its
\* stream has a close message queued (or the message found the queue full).
ForgottenSessionsEnd ==
  \A s \in Sessions :
    running[s] # 0 /\ session[s].opened /\ ~session[s].known /\ handler[running[s]] = "serving"
      /\ registered = running[s] /\ s \notin dropped \cup orphaned
    => \E i \in DOMAIN queue[running[s]] : queue[running[s]][i] = Message("close", s)

\* Channels are used as they must be and closed sessions end on the agent, in
\* whatever order tunnels and sessions come and go.
SessionsAreSafe == TunnelTypeOK /\ NoPanic /\ ForgottenSessionsEnd

\* A reader whose process is gone, whether it ended, was never started or died
\* with the stream, is released, unless its tunnel was replaced by a new one or
\* its channel was full when the last message came.
ReadersReleased ==
  \A s \in Sessions :
    (session[s].reader = "reading" /\ agentStream = 0)
       ~> (session[s].reader # "reading" \/ s \in orphaned)

\* A session nobody attaches to ends: browsers that fail to upgrade, or start to
\* when the token is about to expire, do not keep it alive.
UnusedSessionsEnd ==
  \A s \in Sessions : session[s].known ~> (~session[s].known \/ session[s].reader # "none")
\* Nobody waits for ever on a session, and no session waits for ever for
\* somebody.
SessionsEnd == ReadersReleased /\ UnusedSessionsEnd

\* The exec and log tunnels: safe in every state, and every session and every
\* reader ends.
SessionsAreSafeAndEnd == []SessionsAreSafe /\ SessionsEnd
=============================================================================
