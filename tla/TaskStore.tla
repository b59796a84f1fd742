----------------------------- MODULE TaskStore -----------------------------
(***************************************************************************)
(* The task table of the controller's SQLite store and the statements that *)
(* change it (internal/platform/store/tasks.go).  The database is opened   *)
(* with one connection, so every statement and every transaction is one    *)
(* atomic step; an operation that returns an error rolls back and is a     *)
(* disabled action here.                                                   *)
(*                                                                         *)
(* A task row is spread over one function per column.  A row that does not *)
(* exist yet has status "absent".  The columns that never change after     *)
(* INSERT (type, service_name, node_id, dedupe_key) are constants of the   *)
(* task.  created_at and task_id never change either, so the order of the  *)
(* queue is the constant QueueKey; admission may happen in any order,      *)
(* because a schedule backdates created_at and the ids are random.  Time   *)
(* appears only as the comparison lease_expires_at < now: expired.         *)
(***************************************************************************)
EXTENDS Naturals, FiniteSets

CONSTANTS
  Tasks,          \* task ids
  Services,       \* service names
  Nodes,          \* node ids
  StepNames,      \* step names of a task
  ExecutionIDs,   \* the UUIDs a claim may draw
  Summaries,      \* error summaries; "" is the empty one
  TypeOf,         \* the type column of each task
  ServiceOf,      \* its service_name, or NoService
  NodeOf,         \* its node_id, or NoNode
  DedupeKeyOf,    \* its dedupe_key, or NoKey
  QueueKey,       \* its place in ORDER BY created_at, task_id
  Declared,       \* the service instances the repository declares
  NoService, NoNode, NoKey, NoExecution

VARIABLES
  status,      \* tasks.status, "absent" before the INSERT
  execution,   \* tasks.execution_id, NoExecution for NULL
  state,       \* tasks.execution_state, "none" for NULL
  expired,     \* tasks.lease_expires_at < now
  summary,     \* tasks.error_summary
  issued,      \* the execution ids drawn so far
  steps,       \* task_steps.status, "none" for no row
  instances,   \* the rows of service_instances
  runtime,     \* service_instances.runtime_status
  aggregate,   \* services.runtime_status
  outbox       \* the tasks with a task_completed row in task_outbox

rowVars == <<status, execution, state, expired, summary>>
serviceVars == <<instances, runtime, aggregate>>
storeVars == <<rowVars, issued, steps, serviceVars, outbox>>

-----------------------------------------------------------------------------
(* core/task/task.go *)

InstanceTypes == {"deploy", "update", "stop", "restart", "backup", "restore",
                  "caddy_sync", "caddy_reload", "image_check"}
ControllerOwnedTypes == {"dns_update", "cloudflare_tunnel_sync", "migrate",
                         "migrate_rollback"}
DockerTypes == {"docker_start", "docker_stop", "docker_restart",
                "docker_remove_container", "docker_remove_network",
                "docker_remove_volume", "docker_remove_image", "prune",
                "rustic_init", "rustic_forget", "rustic_prune"}
Types == InstanceTypes \cup ControllerOwnedTypes \cup DockerTypes

ActiveStatuses == {"pending", "running", "awaiting_confirmation"}
TerminalStatuses == {"succeeded", "failed", "cancelled"}
Statuses == ActiveStatuses \cup TerminalStatuses
ExecutionStates == {"offered", "accepted", "lease_lost", "completed"}
RuntimeStatuses == {"unknown", "running", "stopped", "error"}

ASSUME StoreAssumption ==
  /\ TypeOf \in [Tasks -> Types]
  /\ ServiceOf \in [Tasks -> Services \cup {NoService}]
  /\ NodeOf \in [Tasks -> Nodes \cup {NoNode}]
  /\ Declared \subseteq Services \X Nodes
  /\ "" \in Summaries
  /\ NoExecution \notin ExecutionIDs
  /\ NoService \notin Services
  /\ NoNode \notin Nodes
  /\ QueueKey \in [Tasks -> Nat]
  /\ \A t, u \in Tasks : t # u => QueueKey[t] # QueueKey[u]
  \* The controller creates a task with a node, except for the service-level
  \* tasks it executes itself.
  /\ \A t \in Tasks :
       NodeOf[t] = NoNode <=> TypeOf[t] \in ControllerOwnedTypes \ {"dns_update"}

Active(t) == status[t] \in ActiveStatuses
Terminal(t) == status[t] \in TerminalStatuses
Instance(t) == <<ServiceOf[t], NodeOf[t]>>
OnInstance(t) == ServiceOf[t] # NoService /\ NodeOf[t] # NoNode

-----------------------------------------------------------------------------
(* Admission *)

\* The partial unique indexes idx_tasks_active_service_instance,
\* idx_tasks_active_service and idx_tasks_dedupe_key.
InstanceIndexed(t) ==
  OnInstance(t) /\ TypeOf[t] \in InstanceTypes \cup {"dns_update"}
ServiceIndexed(t) ==
  /\ ServiceOf[t] # NoService /\ NodeOf[t] = NoNode
  /\ TypeOf[t] \in {"migrate", "migrate_rollback", "cloudflare_tunnel_sync"}
\* Mutant: without idx_tasks_active_service_instance.
IndexClashNoInstanceIndex(t, u) ==
  \/ /\ Active(u) /\ ServiceIndexed(t) /\ ServiceIndexed(u)
     /\ ServiceOf[t] = ServiceOf[u]
  \/ /\ status[u] # "absent" /\ DedupeKeyOf[t] # NoKey
     /\ DedupeKeyOf[t] = DedupeKeyOf[u]

\* Mutant: the dedupe key is compared with active tasks only.
IndexClashActiveDedupe(t, u) ==
  /\ Active(u)
  /\ \/ /\ InstanceIndexed(t) /\ InstanceIndexed(u)
        /\ Instance(t) = Instance(u)
     \/ /\ ServiceIndexed(t) /\ ServiceIndexed(u)
        /\ ServiceOf[t] = ServiceOf[u]
     \/ DedupeKeyOf[t] # NoKey /\ DedupeKeyOf[t] = DedupeKeyOf[u]

IndexClash(t, u) ==
  \/ /\ Active(u) /\ InstanceIndexed(t) /\ InstanceIndexed(u)
     /\ Instance(t) = Instance(u)
  \/ /\ Active(u) /\ ServiceIndexed(t) /\ ServiceIndexed(u)
     /\ ServiceOf[t] = ServiceOf[u]
  \/ /\ status[u] # "absent" /\ DedupeKeyOf[t] # NoKey
     /\ DedupeKeyOf[t] = DedupeKeyOf[u]

hasActiveServiceTask(s) == \E u \in Tasks : Active(u) /\ ServiceOf[u] = s
hasActiveServiceInstanceTask(i) == \E u \in Tasks : Active(u) /\ Instance(u) = i

\* The INSERT of the rows in new, with the trigger that wants the instance
\* row of every task on an instance to exist.
insertTaskRecord(new, rows) ==
  /\ \A t \in new :
       /\ status[t] = "absent"
       /\ OnInstance(t) => Instance(t) \in rows
       /\ \A u \in Tasks : ~IndexClash(t, u)
  /\ \A t, u \in new : t # u /\ DedupeKeyOf[t] # NoKey
                         => DedupeKeyOf[t] # DedupeKeyOf[u]
  /\ status' = [t \in Tasks |-> IF t \in new THEN "pending" ELSE status[t]]
  /\ UNCHANGED <<execution, state, expired, summary, issued, steps, runtime,
                 aggregate, outbox>>

CreateTask(t) ==
  /\ insertTaskRecord({t}, instances)
  /\ UNCHANGED instances

CreateTasksIfNoActiveServiceInstanceTasks(new) ==
  /\ new # {}
  /\ \A t \in new : OnInstance(t) /\ ~hasActiveServiceInstanceTask(Instance(t))
  /\ \A t, u \in new : t # u => Instance(t) # Instance(u)
  /\ insertTaskRecord(new, instances)
  /\ UNCHANGED instances

CreateTaskWithConstraints(t, inactive, ensured) ==
  /\ ServiceOf[t] # NoService
  /\ ~hasActiveServiceTask(ServiceOf[t])
  /\ \A i \in inactive : ~hasActiveServiceInstanceTask(i)
  /\ insertTaskRecord({t}, instances \cup ensured)
  /\ instances' = instances \cup ensured

-----------------------------------------------------------------------------
(* Claims *)

\* ORDER BY created_at ASC, task_id ASC LIMIT 1.
OldestOf(candidates, t) ==
  t \in candidates /\ \A u \in candidates : QueueKey[t] <= QueueKey[u]

\* Mutant: the id is not fresh.
NewExecutionIDReused == CHOOSE e \in ExecutionIDs : TRUE

\* uuid.NewString: an id that was never drawn before.  Which one does not
\* matter, so the model fixes it.
NewExecutionID == CHOOSE e \in ExecutionIDs : e \notin issued

ClaimNextPendingTaskForNode(n, t) ==
  /\ OldestOf({u \in Tasks : /\ status[u] = "pending" /\ NodeOf[u] = n
                             /\ TypeOf[u] \notin {"dns_update", "migrate"}}, t)
  /\ ExecutionIDs \ issued # {}
  /\ issued' = issued \cup {NewExecutionID}
  /\ status' = [status EXCEPT ![t] = "running"]
  /\ execution' = [execution EXCEPT ![t] = NewExecutionID]
  /\ state' = [state EXCEPT ![t] = "offered"]
  /\ expired' = [expired EXCEPT ![t] = FALSE]
  /\ UNCHANGED <<summary, steps, serviceVars, outbox>>

ClaimNextPendingTaskOfType(type, t) ==
  /\ OldestOf({u \in Tasks : status[u] = "pending" /\ TypeOf[u] = type}, t)
  /\ status' = [status EXCEPT ![t] = "running"]
  /\ UNCHANGED <<execution, state, expired, summary, issued, steps,
                 serviceVars, outbox>>

TransitionTaskStatus(t, from, to) ==
  /\ status[t] = from
  /\ status' = [status EXCEPT ![t] = to]
  /\ summary' = [summary EXCEPT ![t] = ""]
  /\ UNCHANGED <<execution, state, expired, issued, steps,
                 serviceVars, outbox>>

-----------------------------------------------------------------------------
(* The lease of an execution *)

CanAcknowledge(t, e) ==
  /\ status[t] = "running" /\ execution[t] = e
  /\ state[t] = "accepted" \/ (state[t] = "offered" /\ ~expired[t])

AcknowledgeTaskExecution(t, e) ==
  /\ CanAcknowledge(t, e)
  /\ state' = [state EXCEPT ![t] = "accepted"]
  /\ expired' = [expired EXCEPT ![t] = FALSE]
  /\ UNCHANGED <<status, execution, summary, issued, steps,
                 serviceVars, outbox>>

\* Mutant: a lost lease is not accepted any more.
CurrentAcceptedOnly(t, e) ==
  status[t] = "running" /\ execution[t] = e /\ state[t] = "accepted"

\* Shared by RenewTaskExecution, ValidateTaskExecution and
\* CompleteTaskExecution.
Current(t, e) ==
  /\ status[t] = "running" /\ execution[t] = e
  /\ state[t] \in {"accepted", "lease_lost"}

RenewTaskExecution(t, e) ==
  /\ Current(t, e)
  /\ state' = [state EXCEPT ![t] = "accepted"]
  /\ expired' = [expired EXCEPT ![t] = FALSE]
  /\ UNCHANGED <<status, execution, summary, issued, steps,
                 serviceVars, outbox>>

\* Time passes the lease_expires_at of a running execution.
LeaseExpires(t) ==
  /\ status[t] = "running" /\ state[t] \in {"offered", "accepted"}
  /\ ~expired[t]
  /\ expired' = [expired EXCEPT ![t] = TRUE]
  /\ UNCHANGED <<status, execution, state, summary, issued, steps,
                 serviceVars, outbox>>

\* Mutant: an expired execution is requeued whether it was accepted or not.
SweptAccepted(t, from) ==
  /\ status[t] = "running" /\ expired[t] /\ from = "offered"
  /\ state[t] \in {"offered", "accepted"}

\* Mutant: offers never expire.
SweptAcceptedOnly(t, from) ==
  status[t] = "running" /\ state[t] = "accepted" /\ from = "accepted" /\ expired[t]

Swept(t, from) == status[t] = "running" /\ state[t] = from /\ expired[t]

\* Mutant: a requeued offer keeps its execution id.
SweepKeepsExecutionID ==
  /\ \E t \in Tasks : Swept(t, "offered") \/ Swept(t, "accepted")
  /\ status' = [t \in Tasks |->
                  IF Swept(t, "offered") THEN "pending" ELSE status[t]]
  /\ expired' = [t \in Tasks |-> expired[t] /\ ~Swept(t, "offered")]
  /\ state' = [t \in Tasks |-> CASE Swept(t, "offered") -> "none"
                                 [] Swept(t, "accepted") -> "lease_lost"
                                 [] OTHER -> state[t]]
  /\ UNCHANGED <<execution, summary, issued, steps, serviceVars, outbox>>

SweepExpiredTaskExecutions ==
  /\ \E t \in Tasks : Swept(t, "offered") \/ Swept(t, "accepted")
  /\ status' = [t \in Tasks |->
                  IF Swept(t, "offered") THEN "pending" ELSE status[t]]
  /\ execution' = [t \in Tasks |->
                  IF Swept(t, "offered") THEN NoExecution ELSE execution[t]]
  /\ expired' = [t \in Tasks |-> expired[t] /\ ~Swept(t, "offered")]
  /\ state' = [t \in Tasks |-> CASE Swept(t, "offered") -> "none"
                                 [] Swept(t, "accepted") -> "lease_lost"
                                 [] OTHER -> state[t]]
  /\ UNCHANGED <<summary, issued, steps, serviceVars, outbox>>

-----------------------------------------------------------------------------
(* Completion *)

Instances(s) == {i \in Declared : i[1] = s}

\* refreshServiceAggregateStatusTx over the runtime statuses rt.
AggregateStatus(rt, s) ==
  CASE Instances(s) # {} /\ (\A i \in Instances(s) : rt[i] = "running") -> "running"
    [] Instances(s) # {} /\ (\A i \in Instances(s) : rt[i] = "stopped") -> "stopped"
    [] \E i \in Instances(s) : rt[i] = "error" -> "error"
    [] OTHER -> "unknown"

\* Recomputed from the rows as the transaction sees them, rt.
RefreshAggregate(rt, s) ==
  aggregate' = [aggregate EXCEPT ![s] = AggregateStatus(rt, s)]

\* updateServiceFromCompletedTask: last_task_id is not modelled.
updateServiceFromCompletedTask(t) ==
  IF OnInstance(t) THEN RefreshAggregate(runtime, ServiceOf[t])
                   ELSE UNCHANGED aggregate

\* Mutant: the task's status is stored as the instance's runtime status.
CompletedRuntimeIsStatus(t, st) == st

\* The runtime status a completed agent task leaves its instance in.
CompletedRuntime(t, st) ==
  CASE st = "failed" -> "error"
    [] st = "succeeded" /\ TypeOf[t] = "stop" -> "stopped"
    [] OTHER -> "running"

ChangesRuntime(t, st) ==
  /\ OnInstance(t) /\ TypeOf[t] \in {"deploy", "update", "stop", "restart"}
  /\ st # "cancelled"

\* Mutant: the aggregate is not refreshed after the instance changed.
updateRuntimeWithoutRefresh(t, st) ==
  /\ runtime' = IF ChangesRuntime(t, st)
                THEN [runtime EXCEPT ![Instance(t)] = CompletedRuntime(t, st)]
                ELSE runtime
  /\ updateServiceFromCompletedTask(t)

\* updateRuntimeFromAgentTask, which follows updateServiceFromCompletedTask in
\* the transaction and refreshes the aggregate once more.
updateRuntimeFromAgentTask(t, st) ==
  IF ChangesRuntime(t, st)
  THEN LET rt == [runtime EXCEPT ![Instance(t)] = CompletedRuntime(t, st)]
       IN  runtime' = rt /\ RefreshAggregate(rt, ServiceOf[t])
  ELSE UNCHANGED runtime /\ updateServiceFromCompletedTask(t)

FinalizeSteps(t, st) ==
  steps' = [steps EXCEPT ![t] =
              [s \in StepNames |-> IF @[s] = "running" THEN st ELSE @[s]]]

\* The columns every completion writes.
FinishRow(t, st, sm) ==
  /\ status' = [status EXCEPT ![t] = st]
  /\ summary' = [summary EXCEPT ![t] = sm]
  /\ expired' = [expired EXCEPT ![t] = FALSE]
  /\ UNCHANGED <<execution, issued, instances>>

\* Completion of a task the controller executes itself.
CompleteTask(t, st, sm) ==
  /\ Active(t)
  /\ FinishRow(t, st, sm)
  /\ state' = [state EXCEPT ![t] =
                 IF execution[t] = NoExecution THEN @ ELSE "completed"]
  /\ UNCHANGED runtime
  /\ updateServiceFromCompletedTask(t)
  /\ FinalizeSteps(t, st)
  /\ UNCHANGED outbox

\* What CompleteTaskExecution and FailLostTaskExecution have in common: the
\* row, the service, the steps and the outbox change in one transaction.
FinishExecution(t, st, sm) ==
  /\ FinishRow(t, st, sm)
  /\ state' = [state EXCEPT ![t] = "completed"]
  /\ updateRuntimeFromAgentTask(t, st)
  /\ FinalizeSteps(t, st)
  /\ outbox' = outbox \cup {t}

\* Mutant: only the execution id is compared.
CompleteTaskExecutionAnyStatus(t, e, st, sm) ==
  /\ execution[t] = e
  /\ FinishExecution(t, st, sm)

CompleteTaskExecution(t, e, st, sm) ==
  /\ Current(t, e)
  /\ FinishExecution(t, st, sm)

\* A completion that is already recorded is accepted again without effect.
AlreadyCompleted(t, e, st, sm) ==
  execution[t] = e /\ status[t] = st /\ summary[t] = sm

\* Mutant: the operator's completion has no outbox event.
FailLostWithoutOutbox(t, sm) ==
  /\ status[t] = "running" /\ state[t] = "lease_lost"
  /\ FinishRow(t, "failed", sm)
  /\ state' = [state EXCEPT ![t] = "completed"]
  /\ updateRuntimeFromAgentTask(t, "failed")
  /\ FinalizeSteps(t, "failed")
  /\ UNCHANGED outbox

FailLostTaskExecution(t, sm) ==
  /\ status[t] = "running" /\ state[t] = "lease_lost"
  /\ FinishExecution(t, "failed", sm)

-----------------------------------------------------------------------------
(* Steps and reported runtime status *)

UpsertTaskStep(t, s, st) ==
  /\ status[t] # "absent"
  /\ steps[t][s] \notin TerminalStatuses
  /\ ~(steps[t][s] = "running" /\ st = "pending")
  /\ steps' = [steps EXCEPT ![t][s] = st]
  /\ UNCHANGED <<rowVars, issued, serviceVars, outbox>>

UpdateServiceInstanceRuntimeStatus(i, rt) ==
  /\ i \in instances
  /\ runtime' = [runtime EXCEPT ![i] = rt]
  /\ RefreshAggregate([runtime EXCEPT ![i] = rt], i[1])
  /\ UNCHANGED <<rowVars, issued, steps, instances, outbox>>

-----------------------------------------------------------------------------
(* The store with every caller the controller has.  The agents' calls carry *)
(* any execution id ever issued: a late or repeated call is just one more   *)
(* of them.                                                                 *)

StoreInit ==
  /\ status = [t \in Tasks |-> "absent"]
  /\ execution = [t \in Tasks |-> NoExecution]
  /\ state = [t \in Tasks |-> "none"]
  /\ expired = [t \in Tasks |-> FALSE]
  /\ summary = [t \in Tasks |-> ""]
  /\ issued = {}
  /\ steps = [t \in Tasks |-> [s \in StepNames |-> "none"]]
  /\ instances = Declared
  /\ runtime = [i \in Services \X Nodes |-> "unknown"]
  /\ aggregate = [s \in Services |-> "unknown"]
  /\ outbox = {}

\* Which admission path creates which type of task.
Admit ==
  \/ \E t \in Tasks : /\ TypeOf[t] \in DockerTypes \cup {"caddy_sync"}
                       /\ CreateTask(t)
  \/ \E new \in SUBSET Tasks :
       /\ \A t \in new : TypeOf[t] \in InstanceTypes \ {"caddy_sync"}
       /\ CreateTasksIfNoActiveServiceInstanceTasks(new)
  \/ \E t \in Tasks :
       /\ TypeOf[t] \in {"dns_update", "cloudflare_tunnel_sync", "migrate_rollback"}
       /\ CreateTaskWithConstraints(t, {}, {})
  \/ \E t \in Tasks, source, target \in Nodes :
       /\ TypeOf[t] = "migrate"
       /\ <<ServiceOf[t], source>> \in Declared
       /\ <<ServiceOf[t], target>> \notin Declared
       /\ CreateTaskWithConstraints(t, {ServiceOf[t]} \X {source, target},
                                    {<<ServiceOf[t], target>>})

\* ReportTaskStepState and ReportServiceInstanceStatus check the execution in
\* one statement and write in another.  So all that is known when they write is
\* that the execution was current at some time.
WasCurrent(t) == state[t] \in {"accepted", "lease_lost", "completed"}

AgentCalls ==
  \/ \E n \in Nodes, t \in Tasks : ClaimNextPendingTaskForNode(n, t)
  \/ \E t \in Tasks, e \in issued :
       \/ AcknowledgeTaskExecution(t, e)
       \/ RenewTaskExecution(t, e)
       \/ \E st \in TerminalStatuses, sm \in Summaries :
            CompleteTaskExecution(t, e, st, sm)
  \/ \E t \in Tasks, s \in StepNames, st \in {"running", "succeeded", "failed"} :
       WasCurrent(t) /\ UpsertTaskStep(t, s, st)
  \/ \E t \in Tasks, rt \in {"running", "stopped", "error"} :
       WasCurrent(t) /\ UpdateServiceInstanceRuntimeStatus(Instance(t), rt)

ControllerCalls ==
  \/ \E t \in Tasks, type \in ControllerOwnedTypes : ClaimNextPendingTaskOfType(type, t)
  \/ \E t \in Tasks, st \in TerminalStatuses, sm \in Summaries :
       TypeOf[t] \in ControllerOwnedTypes /\ CompleteTask(t, st, sm)
  \/ \E t \in Tasks, s \in StepNames, st \in Statuses \ {"pending"} :
       TypeOf[t] \in ControllerOwnedTypes /\ UpsertTaskStep(t, s, st)
  \/ \E t \in Tasks :
       /\ TypeOf[t] = "migrate"
       /\ \/ TransitionTaskStatus(t, "running", "awaiting_confirmation")
          \/ TransitionTaskStatus(t, "awaiting_confirmation", "pending")
  \/ \E t \in Tasks : LeaseExpires(t)
  \/ SweepExpiredTaskExecutions
  \/ \E t \in Tasks, sm \in Summaries : FailLostTaskExecution(t, sm)

StoreNext == Admit \/ AgentCalls \/ ControllerCalls

StoreSpec == StoreInit /\ [][StoreNext]_storeVars

-----------------------------------------------------------------------------
(* Properties *)

\* The type of every column.
TypeOK ==
  /\ status \in [Tasks -> Statuses \cup {"absent"}]
  /\ execution \in [Tasks -> ExecutionIDs \cup {NoExecution}]
  /\ state \in [Tasks -> ExecutionStates \cup {"none"}]
  /\ expired \in [Tasks -> BOOLEAN]
  /\ summary \in [Tasks -> Summaries]
  /\ issued \subseteq ExecutionIDs
  /\ steps \in [Tasks -> [StepNames -> Statuses \cup {"none"}]]
  /\ instances \subseteq Services \X Nodes
  /\ runtime \in [Services \X Nodes -> RuntimeStatuses]
  /\ aggregate \in [Services -> RuntimeStatuses]
  /\ outbox \subseteq Tasks

\* Two agents, or an agent and the controller, never work on one service
\* instance at a time, and a service has one migration, rollback or tunnel
\* sync at a time: the partial unique indexes still hold after every requeue
\* by the sweep, every return from confirmation and every mix of the five
\* admission functions of tasks.go.
ActiveTasksExclusive ==
  \A t, u \in Tasks :
    (t # u /\ Active(t) /\ Active(u)) =>
      /\ (InstanceIndexed(t) /\ InstanceIndexed(u)) => Instance(t) # Instance(u)
      /\ (ServiceIndexed(t) /\ ServiceIndexed(u)) => ServiceOf[t] # ServiceOf[u]

\* A follow-up task is created once, however often its outbox event is
\* delivered: two rows never share a dedupe key, not even after the first one
\* ended.
FollowupsAdmittedOnce ==
  \A t, u \in Tasks :
    (t # u /\ status[t] # "absent" /\ status[u] # "absent" /\ DedupeKeyOf[t] # NoKey)
      => DedupeKeyOf[t] # DedupeKeyOf[u]

\* What the columns of one row say together: execution_id and execution_state
\* are set and cleared together; a task waiting in the queue or for a
\* confirmation has none, and neither has one the controller executes itself;
\* only an execution that is under way has a lease that can expire; a completed
\* execution has a terminal status.
ExecutionColumnsAgree ==
  \A t \in Tasks :
    /\ execution[t] = NoExecution <=> state[t] = "none"
    /\ status[t] \in {"absent", "pending", "awaiting_confirmation"} => state[t] = "none"
    /\ TypeOf[t] \in ControllerOwnedTypes => state[t] = "none"
    /\ expired[t] => state[t] \in {"offered", "accepted", "lease_lost"}
    /\ state[t] = "completed" <=> (Terminal(t) /\ execution[t] # NoExecution)

\* An execution id names one execution for ever: no two tasks share one, and
\* the id a task carries was issued by a claim.  The fence of every agent call
\* rests on it.
ExecutionIDsUnique ==
  \A t, u \in Tasks :
    execution[t] # NoExecution =>
      execution[t] \in issued /\ (execution[t] = execution[u] => t = u)

\* The transactional outbox: a completed execution always has its
\* task_completed event, whether the agent or an operator completed it, and
\* no other task has one.
OutboxHoldsCompletedExecutions ==
  \A t \in Tasks : t \in outbox <=> (Terminal(t) /\ execution[t] # NoExecution)

\* services.runtime_status is never stale: it is the aggregate of the declared
\* instances' runtime_status after every completion and every report.
AggregateIsFresh ==
  \A s \in Services : aggregate[s] = AggregateStatus(runtime, s)

\* At most one execution of an accepted task: an accepted execution is never
\* requeued, and its id never changes; only an offer nobody accepted goes back
\* to the queue.
AcceptedNeverRequeued ==
  [][\A t \in Tasks : state[t] \in {"accepted", "lease_lost", "completed"} =>
       /\ execution'[t] = execution[t]
       /\ state'[t] \in {"accepted", "lease_lost", "completed"}]_storeVars

\* A recorded outcome is final: no late report, renewal, sweep, operator or
\* confirmation changes a terminal row.
TerminalIsFinal ==
  [][\A t \in Tasks : Terminal(t) =>
       /\ status'[t] = status[t] /\ summary'[t] = summary[t]
       /\ state'[t] = state[t]]_storeVars

-----------------------------------------------------------------------------
(* Refinement *)

PhaseOf(t) ==
  CASE status[t] = "absent" -> "absent"
    [] status[t] = "pending" -> "queued"
    [] status[t] = "awaiting_confirmation" -> "confirming"
    [] status[t] = "running" /\ state[t] = "offered" -> "offered"
    [] status[t] = "running" /\ state[t] # "offered" -> "working"
    [] OTHER -> "done"

Lifecycle == INSTANCE TaskLifecycle WITH
  Agents <- {t \in Tasks : TypeOf[t] \notin ControllerOwnedTypes},
  Outcomes <- TerminalStatuses \X Summaries,
  NoOutcome <- "none",
  phase <- [t \in Tasks |-> PhaseOf(t)],
  outcome <- [t \in Tasks |-> IF Terminal(t) THEN <<status[t], summary[t]>> ELSE "none"],
  published <- outbox

\* The store keeps the promise of TaskLifecycle: whatever the order of claims,
\* acknowledgements, renewals, sweeps, reports and confirmations, every step of
\* tasks.go is a step of a task's life or changes nothing of it.
ImplementsLifecycle == Lifecycle!Spec

=============================================================================
