---------------------------- MODULE TaskOutbox ----------------------------
(***************************************************************************)
(* The transactional outbox of the controller (task_outbox.go of the       *)
(* controller and of the store).  Completing an execution inserts, in the  *)
(* same transaction, one task_completed event.  A single loop takes the    *)
(* oldest due event, queues the follow-up tasks of the completed task      *)
(* (dns_update, caddy_reload, cloudflare_tunnel_sync), marks them queued,  *)
(* sends the notification, marks it sent, and marks the event processed.   *)
(* Any error puts the event back with a later due time; a crash leaves it  *)
(* as the last committed mark has it.                                      *)
(*                                                                         *)
(* The model has one service.  Its tasks run on Nodes; only those in       *)
(* Declared are nodes of the service's revision, the others are targets of *)
(* a migration, whose deploy child carries the revision from before the    *)
(* move.  A follow-up task is named by its dedupe key.                     *)
(***************************************************************************)
EXTENDS Naturals, Sequences, FiniteSets

CONSTANTS
  Nodes, Declared,  \* nodes a task may run on; the service's target_nodes
  Revisions,        \* repository revisions
  Ids,              \* bound: service tasks, in any order
  Types,            \* the types of those tasks
  HasDNS, CaddyManaged, TunnelManaged,  \* what the service declares
  Routes,           \* the notifier's routes
  Wants(_),         \* the event types a route is configured for
  MaxFaults,        \* bound: failing calls (node offline, provider, SQLite)
                    \* and restarts of the controller
  MaxOther          \* bound: other tasks of the service

VARIABLES
  task,       \* the service tasks whose completion is announced
  event,      \* task_outbox rows by task
  queue,      \* task ids by created_at of their event
  loop,       \* where runTaskOutbox stands, and the row it has read
  followup,   \* status of the follow-up task of each dedupe key
  made,       \* history: follow-up tasks inserted per dedupe key
     \* history: deploys followed by a new dns_update of their revision
  delivered,  \* <<task, route>> pairs that have been notified
  other,      \* the service has an active task of another kind
  faults, others

outboxVars == <<task, event, queue, loop, followup, made, delivered, other,
          faults, others>>

ASSUME OutboxAssumption ==
  /\ Declared \subseteq Nodes
  /\ Types \subseteq {"deploy", "update", "stop", "restart"}
  /\ {HasDNS, CaddyManaged, TunnelManaged} \subseteq BOOLEAN
  /\ {MaxFaults, MaxOther} \subseteq Nat

Terminal == {"succeeded", "failed", "cancelled"}
EventTypes == {"task_completed", "task_failed", "task_cancelled"}

NoTask == [type |-> "none", node |-> "none", revision |-> "none", status |-> "absent"]
NoEvent == [state |-> "none", followups |-> FALSE, notified |-> FALSE, due |-> FALSE]
Idle == [at |-> "idle", id |-> "none", todo |-> <<>>, notified |-> FALSE]

-----------------------------------------------------------------------------
(* Follow-up tasks *)

\* The follow-ups of a task type, in the order they are queued.
queuePostTaskFollowups(type) ==
  CASE type = "deploy" -> <<"dns", "caddy", "tunnel">>
    [] type \in {"update", "stop"} -> <<"caddy", "tunnel">>
    [] OTHER -> <<>>

\* One dns_update per revision of the service, one caddy_reload and one
\* cloudflare_tunnel_sync per completed task.
DedupeKey(id, kind) ==
  IF kind = "dns" THEN <<kind, task[id].revision>> ELSE <<kind, id>>

Keys == {"dns"} \X Revisions \cup {"caddy", "tunnel"} \X Ids

Wanted(kind) ==
  \/ kind = "dns" /\ HasDNS
  \/ kind = "caddy" /\ CaddyManaged
  \/ kind = "tunnel" /\ TunnelManaged

WantedKeys(id) ==
  LET kinds == queuePostTaskFollowups(task[id].type)
  IN {DedupeKey(id, kinds[i]) : i \in {j \in DOMAIN kinds : Wanted(kinds[j])}}

\* hasActiveServiceTask: dns_update and tunnel sync are tasks of the service,
\* caddy_reload is a task of the Caddy infrastructure service.
ActiveServiceTask ==
  \/ other
  \/ \E id \in Ids : task[id].status = "active"
  \/ \E k \in Keys : k[1] # "caddy" /\ followup[k] = "active"

ActiveCaddyTask(n) ==
  \E id \in Ids : followup[<<"caddy", id>>] = "active" /\ task[id].node = n

\* The admission check of the insert, and for dns_update the check that the
\* node is one of the service's nodes at the revision of the task.
MayInsert(kind, id) ==
  IF kind = "caddy" THEN ~ActiveCaddyTask(task[id].node)
  ELSE ~ActiveServiceTask

NodeDeclared(kind, id) == kind = "dns" => task[id].node \in Declared

-----------------------------------------------------------------------------
(* Tasks of the service and of others *)

OutboxInit ==
  /\ task = [id \in Ids |-> NoTask]
  /\ event = [id \in Ids |-> NoEvent]
  /\ queue = <<>>
  /\ loop = Idle
  /\ followup = [k \in Keys |-> "absent"]
  /\ made = [k \in Keys |-> 0]
  /\ delivered = {}
  /\ other = FALSE
  /\ faults = 0 /\ others = 0

\* A service task is admitted.  Users reach declared nodes only; the deploy
\* child of a migration runs on its target.
StartTask(id, type, n, r) ==
  /\ task[id].status = "absent"
  /\ n \notin Declared => type = "deploy"
  /\ \A i \in Ids : ~(task[i].status = "active" /\ task[i].node = n)
  /\ task' = [task EXCEPT ![id] =
       [type |-> type, node |-> n, revision |-> r, status |-> "active"]]
  /\ UNCHANGED <<event, queue, loop, followup, made, delivered, other,
                 faults, others>>

\* CompleteTaskExecution and FailLostTaskExecution: the task and its event
\* are one transaction, and a second report finds the event present.
CompleteTaskExecution(id, st) ==
  /\ task[id].status = "active"
  /\ task' = [task EXCEPT ![id].status = st]
  /\ event' = [event EXCEPT ![id] = [NoEvent EXCEPT !.state = "pending", !.due = TRUE]]
  /\ queue' = Append(queue, id)
  /\ UNCHANGED <<loop, followup, made, delivered, other, faults, others>>

FollowupEnds(k, st) ==
  /\ followup[k] = "active"
  /\ followup' = [followup EXCEPT ![k] = st]
  /\ UNCHANGED <<task, event, queue, loop, made, delivered, other,
                 faults, others>>

\* Another task of the service (a backup, a migration) begins or ends.
OtherTask ==
  /\ IF other THEN other' = FALSE /\ UNCHANGED others
     ELSE others < MaxOther /\ other' = TRUE /\ others' = others + 1
  /\ UNCHANGED <<task, event, queue, loop, followup, made, delivered,
                 faults>>

-----------------------------------------------------------------------------
(* The delivery loop *)

Due(id) == event[id].state = "pending" /\ event[id].due

\* The loop reads the oldest due row.  From here on it uses the marks it has
\* read, not the row.
NextTaskOutboxEvent(id) ==
  /\ loop.at = "idle"
  /\ Due(id)
  /\ \E i \in DOMAIN queue :
       queue[i] = id /\ \A j \in 1..(i - 1) : ~Due(queue[j])
  /\ loop' = [at |-> IF event[id].followups THEN "send" ELSE "followups",
              id |-> id,
              todo |-> IF event[id].followups \/ task[id].status # "succeeded" THEN <<>>
                       ELSE queuePostTaskFollowups(task[id].type),
              notified |-> event[id].notified]
  /\ UNCHANGED <<task, event, queue, followup, made, delivered, other,
                 faults, others>>

SkipFollowup ==
  /\ loop.at = "followups" /\ loop.todo # <<>>
  /\ \/ ~Wanted(Head(loop.todo))
     \/ /\ NodeDeclared(Head(loop.todo), loop.id)
        /\ followup[DedupeKey(loop.id, Head(loop.todo))] # "absent"
  /\ loop' = [loop EXCEPT !.todo = Tail(loop.todo)]
  /\ UNCHANGED <<task, event, queue, followup, made, delivered, other,
                 faults, others>>

\* createServiceDNSUpdateTask, createNodeCaddyReloadTask and
\* createServiceCloudflareTunnelSyncTask on a free dedupe key.
CreateFollowup ==
  /\ loop.at = "followups" /\ loop.todo # <<>>
  /\ LET kind == Head(loop.todo)
         key == DedupeKey(loop.id, kind)
     IN /\ Wanted(kind) /\ NodeDeclared(kind, loop.id)
        /\ followup[key] = "absent" /\ MayInsert(kind, loop.id)
        /\ followup' = [followup EXCEPT ![key] = "active"]
        /\ made' = [made EXCEPT ![key] = @ + 1]
  /\ loop' = [loop EXCEPT !.todo = Tail(loop.todo)]
  /\ UNCHANGED <<task, event, queue, delivered, other, faults, others>>

\* The insert is refused: the whole event is tried again later.
RefuseFollowup ==
  /\ loop.at = "followups" /\ loop.todo # <<>>
  /\ LET kind == Head(loop.todo)
     IN /\ Wanted(kind)
        /\ \/ ~NodeDeclared(kind, loop.id)
           \/ /\ followup[DedupeKey(loop.id, kind)] = "absent"
              /\ ~MayInsert(kind, loop.id)
  /\ loop' = [loop EXCEPT !.at = "retry"]
  /\ UNCHANGED <<task, event, queue, followup, made, delivered, other,
                 faults, others>>

CompleteTaskOutboxFollowups ==
  /\ loop.at = "followups" /\ loop.todo = <<>>
  /\ event' = [event EXCEPT ![loop.id].followups = TRUE]
  /\ loop' = [loop EXCEPT !.at = "send"]
  /\ UNCHANGED <<task, queue, followup, made, delivered, other, faults, others>>

taskEventTypeForStatus(st) ==
  CASE st = "succeeded" -> "task_completed"
    [] st = "failed" -> "task_failed"
    [] st = "cancelled" -> "task_cancelled"

\* Routes whose event filter matches the event.
Matching(id) == {r \in Routes : taskEventTypeForStatus(task[id].status) \in Wants(r)}

\* Notifier.Send tries every matching route, and reports an error if any of
\* them failed: the next attempt sends to all of them again.
Send(ok) ==
  /\ loop.at = "send" /\ ~loop.notified
  /\ ok \subseteq Matching(loop.id)
  /\ delivered' = delivered \cup {<<loop.id, r>> : r \in ok}
  /\ IF ok = Matching(loop.id)
     THEN loop' = [loop EXCEPT !.at = "mark"] /\ UNCHANGED faults
     ELSE /\ faults < MaxFaults
          /\ faults' = faults + 1
          /\ loop' = [loop EXCEPT !.at = "retry"]
  /\ UNCHANGED <<task, event, queue, followup, made, other,
                 others>>

CompleteTaskOutboxNotification ==
  /\ loop.at = "mark"
  /\ event' = [event EXCEPT ![loop.id].notified = TRUE]
  /\ loop' = [loop EXCEPT !.at = "complete"]
  /\ UNCHANGED <<task, queue, followup, made, delivered, other, faults, others>>

CompleteTaskOutboxEvent ==
  /\ loop.at = "complete" \/ (loop.at = "send" /\ loop.notified)
  /\ event' = [event EXCEPT ![loop.id].state = "processed"]
  /\ loop' = Idle
  /\ UNCHANGED <<task, queue, followup, made, delivered, other, faults, others>>

\* The next attempt is 2 to 512 seconds away.
RetryTaskOutboxEvent ==
  /\ loop.at = "retry"
  /\ event' = [event EXCEPT ![loop.id].due = FALSE]
  /\ loop' = Idle
  /\ UNCHANGED <<task, queue, followup, made, delivered, other, faults, others>>

\* Mutant: only events without recorded follow-ups are taken up again.
BecomesDueOnce(id) ==
  /\ event[id].state = "pending" /\ ~event[id].due /\ ~event[id].followups
  /\ event' = [event EXCEPT ![id].due = TRUE]
  /\ UNCHANGED <<task, queue, loop, followup, made, delivered, other,
                 faults, others>>

\* next_attempt_at passes.
BecomesDue(id) ==
  /\ event[id].state = "pending" /\ ~event[id].due
  /\ event' = [event EXCEPT ![id].due = TRUE]
  /\ UNCHANGED <<task, queue, loop, followup, made, delivered, other,
                 faults, others>>

\* A call of the loop fails: the node of the reload is offline, the repository
\* cannot be read, or a mark is not written.
Fault ==
  /\ loop.at \in {"followups", "mark"} /\ faults < MaxFaults
  /\ faults' = faults + 1
  /\ loop' = [loop EXCEPT !.at = "retry"]
  /\ UNCHANGED <<task, event, queue, followup, made, delivered, other, others>>

\* The controller stops and starts: the loop forgets what it was doing.
Crash ==
  /\ loop.at # "idle" /\ faults < MaxFaults
  /\ faults' = faults + 1
  /\ loop' = Idle
  /\ UNCHANGED <<task, event, queue, followup, made, delivered, other, others>>

LoopStep ==
  \/ SkipFollowup \/ CreateFollowup \/ RefuseFollowup
  \/ CompleteTaskOutboxFollowups
  \/ \E ok \in SUBSET Routes : Send(ok)
  \/ CompleteTaskOutboxNotification \/ CompleteTaskOutboxEvent
  \/ RetryTaskOutboxEvent

OutboxNext ==
  \/ \E id \in Ids, type \in Types, n \in Nodes, r \in Revisions :
       StartTask(id, type, n, r)
  \/ \E id \in Ids, st \in Terminal : CompleteTaskExecution(id, st)
  \/ \E k \in Keys, st \in {"succeeded", "failed"} : FollowupEnds(k, st)
  \/ OtherTask
  \/ \E id \in Ids : NextTaskOutboxEvent(id) \/ BecomesDue(id)
  \/ LoopStep \/ Fault \/ Crash

OutboxSpec == OutboxInit /\ [][OutboxNext]_outboxVars

-----------------------------------------------------------------------------
(* Properties *)

OutboxTypeOK ==
  /\ \A id \in Ids :
       /\ task[id].type \in Types \cup {"none"}
       /\ task[id].status \in Terminal \cup {"absent", "active"}
       /\ event[id] \in [state : {"none", "pending", "processed"},
                         followups : BOOLEAN, notified : BOOLEAN, due : BOOLEAN]
       /\ event[id].state = "none" <=> task[id].status \notin Terminal
  /\ followup \in [Keys -> {"absent", "active", "succeeded", "failed"}]
  /\ loop.at \in {"idle", "followups", "send", "mark", "complete", "retry"}
  /\ loop.at # "idle" => loop.id \in Ids
  /\ delivered \subseteq Ids \X Routes

\* However often an event is attempted again, after refusals, faults and
\* crashes, each follow-up of a completed task is created at most once
\* (the dedupe keys of agent_report.go).
FollowupsOnce == \A k \in Keys : made[k] <= 1

\* A controller-owned follow-up never runs beside another task of the
\* service, and one node has one caddy_reload follow-up at a time (the
\* admission checks behind createService...Task).
FollowupsAdmittedAlone ==
  /\ Cardinality({k \in Keys : k[1] # "caddy" /\ followup[k] = "active"}) <= 1
  /\ \A i, j \in Ids :
       followup[<<"caddy", i>>] = "active" /\ followup[<<"caddy", j>>] = "active"
         /\ task[i].node = task[j].node => i = j

\* Nothing is announced before the work it announces is queued, and an event
\* is put away only when its follow-ups exist and every interested route has
\* received it, however the loop was interrupted.
NothingIsLost ==
  \A id \in Ids :
    /\ (event[id].followups \/ \E r \in Routes : <<id, r>> \in delivered)
         /\ task[id].status = "succeeded"
         => \A k \in WantedKeys(id) : followup[k] # "absent"
    /\ event[id].notified \/ event[id].state = "processed"
         => \A r \in Matching(id) : <<id, r>> \in delivered

\* Delivery is safe to repeat and complete when it stops.
OutboxIsSafe == OutboxTypeOK /\ FollowupsOnce /\ FollowupsAdmittedAlone /\ NothingIsLost

\* Every event of a task on a declared node is delivered in the end, though
\* attempts fail, are refused while the service is busy, or are cut short.
EventsProcessed ==
  \A id \in Ids :
    event[id].state = "pending" ~> event[id].state = "processed"

\* The outbox (task_outbox.go): deliveries are safe in every state, and every
\* event is delivered.
OutboxDelivers == []OutboxIsSafe /\ EventsProcessed
=============================================================================
