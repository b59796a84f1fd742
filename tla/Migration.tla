----------------------------- MODULE Migration -----------------------------
(***************************************************************************)
(* The controller's task worker (app/controller/dns.go), the migration of  *)
(* a service from a source node to a target node (migrate.go), its         *)
(* confirmation (task_service.go) and its rollback (migrate_rollback.go).  *)
(*                                                                         *)
(* One worker executes the dns_update, migrate and migrate_rollback tasks  *)
(* of the service.  A migration drives the agents through child tasks and  *)
(* waits for them with a deadline; clients confirm, reject or roll back at *)
(* any time, and users start and stop the service on the node that the     *)
(* repository declares.  inst[n] is the active task of the service on n,   *)
(* of which the store admits only one (ActiveTasksExclusive of TaskStore). *)
(* A repository revision is named by the node it declares.                 *)
(***************************************************************************)
EXTENDS Naturals, Sequences

CONSTANTS
  Source, Target,   \* the nodes of the migration
  HasData,          \* migrate.data names something to transfer
  MovesDNS,           \* network.dns has entries
  MovesCaddy,     \* repo.MovesCaddy(service)
  Clients,          \* concurrent requests to the task service
  RollbackChoices,  \* bound: the sets of actions a client asks a rollback for
  MaxUserTasks,     \* bound: service tasks started by users
  MaxRollbacks,     \* bound: rollback tasks
  MaxRestarts       \* bound: restarts or reloads of the controller

VARIABLES
  status,      \* tasks.status of the worker's tasks, by type
  steps,       \* task_steps.status of those tasks
  worker,      \* what runNextPendingTask is doing
  child,       \* what waitTask knows of the child task it waits for
  inst,        \* the active service task on each node
  up,          \* nodes on which the service's containers run
  dns,         \* the node the DNS records point to
  repo,        \* the node composia-meta.yaml declares
  request,     \* the RPC a client waits for
  actions,     \* the actions of the rollback task
  followups,   \* outbox: revisions whose deployment wants a dns_update
  dnsTasks,    \* revisions with a dns_update task (its dedupe key)
  dnsRevision, \* the revision of the latest dns_update task
  restored,    \* history: the restore of the migration's data succeeded
  userTasks, rollbacks, restarts

migrationVars == <<status, steps, worker, child, inst, up, dns, repo, request, actions,
          followups, dnsTasks, dnsRevision, userTasks, rollbacks, restarts, restored>>

MigrationNodes == {Source, Target}
ASSUME MigrationAssumption ==
  /\ Source # Target
  /\ {HasData, MovesDNS, MovesCaddy} \subseteq BOOLEAN
  /\ RollbackChoices \subseteq SUBSET {"dns_update", "compose_up", "compose_down"}
  /\ {MaxUserTasks, MaxRollbacks, MaxRestarts} \subseteq Nat

Kinds == {"dns_update", "migrate", "migrate_rollback"}
StepNames == {"compose_down", "backup", "restore", "compose_up", "dns_update",
              "awaiting_confirmation", "persist_repo", "finalize"}
ActiveStatuses == {"pending", "running", "awaiting_confirmation"}
TerminalStatuses == {"succeeded", "failed", "cancelled"}
Active(t) == status[t] \in ActiveStatuses

NoInstanceTask == [type |-> "none", owner |-> "none", revision |-> Source]
NoRequest == [kind |-> "none", at |-> "none", actions |-> {}]
WorkerIdle == [task |-> "none", step |-> "none", at |-> "idle"]
NoSteps == [s \in StepNames |-> "none"]

\* hasActiveServiceTask: the service has an active task of any type.
ActiveService == (\E t \in Kinds : Active(t)) \/ (\E n \in MigrationNodes : inst[n] # NoInstanceTask)

-----------------------------------------------------------------------------
(* The worker: claiming a task and the order of its steps *)

\* runNextPendingTask asks for the types in this order.
ClaimOrder == <<"dns_update", "migrate", "migrate_rollback">>

StepOrder(t) ==
  CASE t = "migrate" ->
         <<"compose_down", "backup", "restore", "compose_up", "dns_update",
           "awaiting_confirmation", "persist_repo", "finalize">>
    [] t = "migrate_rollback" ->
         <<"dns_update", "compose_up", "compose_down", "finalize">>
    [] t = "dns_update" -> <<"dns_update">>

StepWanted(t, s) ==
  CASE t = "migrate" /\ s \in {"backup", "restore"} -> HasData
    [] t = "migrate" /\ s = "dns_update" -> MovesDNS
    [] t = "migrate_rollback" /\ s # "finalize" -> s \in actions
    [] OTHER -> TRUE

\* The first step of t that is wanted and has not succeeded.  The executor
\* reads the steps once; nothing but the worker changes the steps of a
\* running task before the task awaits its confirmation.
Todo(t, done) ==
  {i \in DOMAIN StepOrder(t) :
     StepWanted(t, StepOrder(t)[i]) /\ done[StepOrder(t)[i]] # "succeeded"}
NextStep(t, done) ==
  LET todo == Todo(t, done)
  IN IF todo = {} THEN "done"
     ELSE StepOrder(t)[CHOOSE i \in todo : \A j \in todo : i <= j]

MigrationInit ==
  /\ status = [t \in Kinds |-> "absent"]
  /\ steps = [t \in Kinds |-> NoSteps]
  /\ worker = WorkerIdle
  /\ child = "none"
  /\ inst = [n \in MigrationNodes |-> NoInstanceTask]
  /\ up = {Source}
  /\ dns = Source
  /\ repo = Source
  /\ request = [c \in Clients |-> NoRequest]
  /\ actions = {}
  /\ followups = {}
  /\ dnsTasks = {}
  /\ dnsRevision = Source
  /\ userTasks = 0
  /\ rollbacks = 0
  /\ restarts = 0
  /\ restored = FALSE

\* ClaimNextPendingTaskOfType, for the first type that has a pending task.
Claim(t) ==
  /\ worker = WorkerIdle
  /\ status[t] = "pending"
  /\ \E i \in DOMAIN ClaimOrder :
       /\ ClaimOrder[i] = t
       /\ \A j \in 1..(i - 1) : status[ClaimOrder[j]] # "pending"
  /\ status' = [status EXCEPT ![t] = "running"]
  /\ worker' = [task |-> t, step |-> NextStep(t, steps[t]), at |-> "begin"]
  /\ UNCHANGED <<steps, child, inst, up, dns, repo, request, actions, followups,
                 dnsTasks, dnsRevision, userTasks, rollbacks, restarts, restored>>

\* Mutant: a terminal step may be overwritten.
MayUpsertAlways(t, s, st) == TRUE

\* UpsertTaskStep: a terminal step keeps its status, and only the same status
\* may be written again.
MayUpsert(t, s, st) == steps[t][s] \in TerminalStatuses => steps[t][s] = st

\* CompleteTask on the steps: running steps end with the task.
Finalized(t, st) ==
  [s \in StepNames |-> IF steps[t][s] = "running" THEN st ELSE steps[t][s]]

\* The end of runMigrateStep: the step has succeeded, the next one begins.
FinishStep ==
  LET t == worker.task
      done == [steps[t] EXCEPT ![worker.step] = "succeeded"]
  IN /\ steps' = [steps EXCEPT ![t] = done]
     /\ worker' = [task |-> t, step |-> NextStep(t, done), at |-> "begin"]
     /\ UNCHANGED status

\* failControllerTask: the step and the task fail, the worker goes on.
failControllerTask ==
  LET t == worker.task
      s == worker.step
      ended == Finalized(t, "failed")
  IN /\ steps' = [steps EXCEPT ![t] =
            IF s \in StepNames /\ MayUpsert(t, s, "failed")
            THEN [ended EXCEPT ![s] = "failed"] ELSE ended]
     /\ status' = IF Active(t) THEN [status EXCEPT ![t] = "failed"] ELSE status
     /\ worker' = WorkerIdle

-----------------------------------------------------------------------------
(* executeMigrateTask, executeMigrateRollbackTask, executeDNSUpdateTask *)

\* The child task of a step: its node and its type.
Child(t, s) ==
  CASE t = "migrate" /\ s = "compose_down" -> <<Source, "stop">>
    [] t = "migrate" /\ s = "backup" -> <<Source, "backup">>
    [] t = "migrate" /\ s = "restore" -> <<Target, "restore">>
    [] t = "migrate" /\ s = "compose_up" -> <<Target, "deploy">>
    [] t = "migrate_rollback" /\ s = "compose_up" -> <<Source, "deploy">>
    [] t = "migrate_rollback" /\ s = "compose_down" -> <<Target, "stop">>

HasChild(s) == s \in {"compose_down", "backup", "restore", "compose_up"}

\* runMigrateStep marks the step running.  Anything before the first step
\* (reading the parameters and the service at its revision) may fail too.
BeginStep ==
  /\ worker.at = "begin" /\ worker.step \in StepNames
  /\ worker.step \notin {"awaiting_confirmation", "finalize"}
  /\ \/ /\ steps' = [steps EXCEPT ![worker.task][worker.step] = "running"]
        /\ worker' = [worker EXCEPT !.at = IF HasChild(worker.step)
                                           THEN "create" ELSE "act"]
        /\ UNCHANGED status
     \/ failControllerTask
  /\ UNCHANGED <<child, inst, up, dns, repo, request, actions, followups,
                 dnsTasks, dnsRevision, userTasks, rollbacks, restarts, restored>>

\* createServiceInstanceTask or createRestoreTask: refused if the node is
\* offline or the instance already has an active task.
CreateChild ==
  LET n == Child(worker.task, worker.step)[1]
      ty == Child(worker.task, worker.step)[2]
  IN
  /\ worker.at = "create"
  /\ \/ /\ inst[n] = NoInstanceTask
        /\ inst' = [inst EXCEPT ![n] = [type |-> ty, owner |-> worker.task,
                                        revision |-> Source]]
        /\ child' = "active"
        /\ worker' = [worker EXCEPT !.at = "wait"]
        /\ UNCHANGED <<status, steps>>
     \/ failControllerTask /\ UNCHANGED <<inst, child>>
  /\ UNCHANGED <<up, dns, repo, request, actions, followups, dnsTasks,
                 dnsRevision, userTasks, rollbacks, restarts, restored>>

ReloadsCaddy ==
  MovesCaddy /\ (worker.step = "compose_up" \/ worker.task = "migrate_rollback")

\* Mutant: the deadline is never checked.
waitTaskForever ==
  /\ worker.at = "wait"
  /\ \/ /\ child = "succeeded"
        /\ IF ReloadsCaddy
           THEN worker' = [worker EXCEPT !.at = "reload"] /\ UNCHANGED <<steps, status>>
           ELSE FinishStep
     \/ child = "failed" /\ failControllerTask
  /\ child' = "none"
  /\ UNCHANGED <<inst, up, dns, repo, request, actions, followups, dnsTasks,
                 dnsRevision, userTasks, rollbacks, restarts, restored>>

\* waitTask returns: the child succeeded, failed, or the time is up while it
\* is still active; it then goes on without anybody waiting for it.  A backup
\* whose artifacts were not recorded fails although its task succeeded.
waitTask ==
  /\ worker.at = "wait"
  /\ \/ /\ child = "succeeded"
        /\ IF ReloadsCaddy
           THEN worker' = [worker EXCEPT !.at = "reload"] /\ UNCHANGED <<steps, status>>
           ELSE FinishStep
     \/ /\ child \in {"failed", "active"} \/ worker.step = "backup"
        /\ failControllerTask
  /\ child' = "none"
  /\ UNCHANGED <<inst, up, dns, repo, request, actions, followups, dnsTasks,
                 dnsRevision, userTasks, rollbacks, restarts, restored>>

\* createNodeCaddyReloadTask on the infrastructure service of the node, which
\* is refused while another reload is active there, and its waitTask.
ReloadCaddy ==
  /\ worker.at = "reload"
  /\ FinishStep \/ failControllerTask
  /\ UNCHANGED <<child, inst, up, dns, repo, request, actions, followups,
                 dnsTasks, dnsRevision, userTasks, rollbacks, restarts, restored>>

\* syncServiceDNSForService: of several records some may be written before an
\* error, so a failed step may have moved the name.
SyncDNS ==
  /\ worker.at = "act" /\ worker.step = "dns_update"
  /\ \/ FinishStep /\ dns' = (CASE worker.task = "migrate" -> Target
                                [] worker.task = "migrate_rollback" -> Source
                                [] worker.task = "dns_update" -> dnsRevision)
     \/ failControllerTask /\ dns' \in MigrationNodes
  /\ UNCHANGED <<child, inst, up, repo, request, actions, followups, dnsTasks,
                 dnsRevision, userTasks, rollbacks, restarts, restored>>

\* persistMigratedTargetNodes: the commit is made or nothing is changed.
PersistRepo ==
  /\ worker.at = "act" /\ worker.step = "persist_repo"
  /\ \/ FinishStep /\ repo' = Target
     \/ failControllerTask /\ UNCHANGED repo
  /\ UNCHANGED <<child, inst, up, dns, request, actions, followups, dnsTasks,
                 dnsRevision, userTasks, rollbacks, restarts, restored>>

\* enterMigrateAwaitingConfirmation: the step first, then the task.
EnterAwaiting ==
  /\ worker.step = "awaiting_confirmation"
  /\ \/ /\ worker.at = "begin"
        /\ steps' = [steps EXCEPT !["migrate"]["awaiting_confirmation"] =
                                    "awaiting_confirmation"]
        /\ worker' = [worker EXCEPT !.at = "transition"]
        /\ UNCHANGED status
     \/ /\ worker.at = "transition"
        /\ status' = [status EXCEPT !["migrate"] = "awaiting_confirmation"]
        /\ worker' = WorkerIdle
        /\ UNCHANGED steps
  /\ UNCHANGED <<child, inst, up, dns, repo, request, actions, followups,
                 dnsTasks, dnsRevision, userTasks, rollbacks, restarts, restored>>

\* The finalize step and CompleteTask, which fails if the task was ended by
\* somebody else.
Complete ==
  /\ worker.at = "begin"
  /\ \/ worker.step = "finalize" /\ FinishStep
     \/ /\ worker.step = "done"
        /\ status' = IF Active(worker.task)
                     THEN [status EXCEPT ![worker.task] = "succeeded"] ELSE status
        /\ worker' = WorkerIdle
        /\ UNCHANGED steps
  /\ UNCHANGED <<child, inst, up, dns, repo, request, actions, followups,
                 dnsTasks, dnsRevision, userTasks, rollbacks, restarts, restored>>

WorkerStep == BeginStep \/ CreateChild \/ waitTask \/ ReloadCaddy \/ SyncDNS
              \/ PersistRepo \/ EnterAwaiting \/ Complete
              \/ \E t \in Kinds : Claim(t)

-----------------------------------------------------------------------------
(* The requests of clients *)

\* CreateTaskWithConstraints for a migration.
MigrateService ==
  /\ status["migrate"] = "absent" /\ repo = Source /\ ~ActiveService
  /\ status' = [status EXCEPT !["migrate"] = "pending"]
  /\ UNCHANGED <<steps, worker, child, inst, up, dns, repo, request, actions,
                 followups, dnsTasks, dnsRevision, userTasks, rollbacks, restarts, restored>>

\* Checks of ResolveTaskConfirmation, made before anything is written.
ResolveTaskConfirmation(c, decision) ==
  /\ request[c] = NoRequest
  /\ status["migrate"] = "awaiting_confirmation"
  /\ request' = [request EXCEPT ![c] = [kind |-> decision, at |-> "step",
                                        actions |-> {}]]
  /\ UNCHANGED <<status, steps, worker, child, inst, up, dns, repo, actions,
                 followups, dnsTasks, dnsRevision, userTasks, rollbacks, restarts, restored>>

\* validateMigrationRollbackActions.
Allowed == {s \in {"dns_update", "compose_up", "compose_down"} :
              steps["migrate"][CASE s = "dns_update" -> "dns_update"
                                 [] s = "compose_up" -> "compose_down"
                                 [] s = "compose_down" -> "compose_up"] = "succeeded"}

\* Checks of CreateMigrationRollback; as names the steps of the rollback
\* that rollback_dns, deploy_source and stop_target stand for.
CreateMigrationRollback(c, as) ==
  /\ request[c] = NoRequest
  /\ status["migrate"] \in {"awaiting_confirmation", "cancelled", "failed"}
  /\ as # {} /\ as \subseteq Allowed
  /\ request' = [request EXCEPT ![c] =
       [kind |-> "rollback", actions |-> as,
        at |-> IF status["migrate"] = "awaiting_confirmation"
               THEN "step" ELSE "create"]]
  /\ UNCHANGED <<status, steps, worker, child, inst, up, dns, repo, actions,
                 followups, dnsTasks, dnsRevision, userTasks, rollbacks, restarts, restored>>

\* Both handlers write the confirmation step next, or return a conflict.
ResolveStep(c) ==
  LET st == IF request[c].kind = "approve" THEN "succeeded" ELSE "cancelled"
  IN
  /\ request[c].at = "step"
  /\ IF MayUpsert("migrate", "awaiting_confirmation", st)
     THEN /\ steps' = [steps EXCEPT !["migrate"]["awaiting_confirmation"] = st]
          /\ request' = [request EXCEPT ![c].at = "finish"]
     ELSE request' = [request EXCEPT ![c] = NoRequest] /\ UNCHANGED steps
  /\ UNCHANGED <<status, worker, child, inst, up, dns, repo, actions, followups,
                 dnsTasks, dnsRevision, userTasks, rollbacks, restarts, restored>>

\* TransitionTaskStatus from awaiting_confirmation to pending.
Approve(c) ==
  /\ request[c].at = "finish" /\ request[c].kind = "approve"
  /\ status' = IF status["migrate"] = "awaiting_confirmation"
               THEN [status EXCEPT !["migrate"] = "pending"] ELSE status
  /\ request' = [request EXCEPT ![c] = NoRequest]
  /\ UNCHANGED <<steps, worker, child, inst, up, dns, repo, actions, followups,
                 dnsTasks, dnsRevision, userTasks, rollbacks, restarts, restored>>

\* CompleteTask with cancelled, which any active status allows; a rollback
\* goes on to create its task, a rejection is done.
Cancel(c) ==
  /\ request[c].at = "finish" /\ request[c].kind \in {"reject", "rollback"}
  /\ IF Active("migrate")
     THEN /\ status' = [status EXCEPT !["migrate"] = "cancelled"]
          /\ steps' = [steps EXCEPT !["migrate"] = Finalized("migrate", "cancelled")]
     ELSE UNCHANGED <<status, steps>>
  /\ request' = [request EXCEPT ![c] =
       IF @.kind = "rollback" /\ Active("migrate")
       THEN [@ EXCEPT !.at = "create"] ELSE NoRequest]
  /\ UNCHANGED <<worker, child, inst, up, dns, repo, actions, followups,
                 dnsTasks, dnsRevision, userTasks, rollbacks, restarts, restored>>

\* CreateTaskWithConstraints with RequireInactiveService.
CreateRollback(c) ==
  /\ request[c].at = "create"
  /\ IF ActiveService
     THEN UNCHANGED <<status, steps, actions, rollbacks>>
     ELSE /\ rollbacks < MaxRollbacks
          /\ status' = [status EXCEPT !["migrate_rollback"] = "pending"]
          /\ steps' = [steps EXCEPT !["migrate_rollback"] = NoSteps]
          /\ actions' = request[c].actions
          /\ rollbacks' = rollbacks + 1
  /\ request' = [request EXCEPT ![c] = NoRequest]
  /\ UNCHANGED <<worker, child, inst, up, dns, repo, followups, dnsTasks,
                 dnsRevision, userTasks, restarts, restored>>

ClientStep ==
  \/ MigrateService
  \/ \E c \in Clients :
       \/ \E d \in {"approve", "reject"} : ResolveTaskConfirmation(c, d)
       \/ \E as \in RollbackChoices :
            CreateMigrationRollback(c, as)
       \/ ResolveStep(c) \/ Approve(c) \/ Cancel(c) \/ CreateRollback(c)

-----------------------------------------------------------------------------
(* Agents, users, the outbox, and restarts of the controller *)

\* A user deploys or stops the service on the node the repository declares.
UserTask(ty) ==
  /\ userTasks < MaxUserTasks
  /\ inst[repo] = NoInstanceTask
  /\ inst' = [inst EXCEPT ![repo] = [type |-> ty, owner |-> "user",
                                     revision |-> repo]]
  /\ userTasks' = userTasks + 1
  /\ UNCHANGED <<status, steps, worker, child, up, dns, repo, request, actions,
                 followups, dnsTasks, dnsRevision, rollbacks, restarts, restored>>

\* The agent completes the service task on n.  A deployment wants a DNS
\* update of its revision; for a node the revision does not declare the
\* update is refused by resolveTargetNodeIDs.
InstanceTaskEnds(n, ok) ==
  LET i == inst[n]
      after == CASE i.type = "deploy" -> up \cup {n}
                 [] i.type = "stop" -> up \ {n}
                 [] OTHER -> up
  IN
  /\ i # NoInstanceTask
  /\ inst' = [inst EXCEPT ![n] = NoInstanceTask]
  /\ up' \in IF ok THEN {after} ELSE {up, after}
  /\ child' = IF child = "active" /\ i.owner = worker.task
              THEN IF ok THEN "succeeded" ELSE "failed"
              ELSE child
  /\ followups' = IF ok /\ i.type = "deploy" /\ MovesDNS /\ n = i.revision
                  THEN followups \cup {i.revision} ELSE followups
  /\ restored' = (restored \/ (ok /\ i.type = "restore"))
  /\ UNCHANGED <<status, steps, worker, dns, repo, request, actions, dnsTasks,
                 dnsRevision, userTasks, rollbacks, restarts>>

\* queueDNSUpdateForTask: once for each revision, and only while the service
\* has no active task; the outbox tries again otherwise.
QueueDNSUpdate(r) ==
  /\ r \in followups
  /\ IF r \in dnsTasks
     THEN UNCHANGED <<status, steps, dnsTasks, dnsRevision>>
     ELSE /\ ~ActiveService
          /\ status' = [status EXCEPT !["dns_update"] = "pending"]
          /\ steps' = [steps EXCEPT !["dns_update"] = NoSteps]
          /\ dnsTasks' = dnsTasks \cup {r}
          /\ dnsRevision' = r
  /\ followups' = followups \ {r}
  /\ UNCHANGED <<worker, child, inst, up, dns, repo, request, actions,
                 userTasks, rollbacks, restarts, restored>>

\* The runtime's context is cancelled or the process ends: every statement of
\* the worker and of the handlers fails from now on, failControllerTask's too.
RestartController ==
  /\ restarts < MaxRestarts
  /\ restarts' = restarts + 1
  /\ worker' = WorkerIdle
  /\ child' = "none"
  /\ request' = [c \in Clients |-> NoRequest]
  /\ UNCHANGED <<status, steps, inst, up, dns, repo, actions, followups,
                 dnsTasks, dnsRevision, userTasks, rollbacks, restored>>

MigrationNext ==
  \/ WorkerStep
  \/ ClientStep
  \/ \E ty \in {"deploy", "stop"} : UserTask(ty)
  \/ \E n \in MigrationNodes, ok \in BOOLEAN : InstanceTaskEnds(n, ok)
  \/ \E r \in MigrationNodes : QueueDNSUpdate(r)
  \/ RestartController

MigrationSpec == MigrationInit /\ [][MigrationNext]_migrationVars

-----------------------------------------------------------------------------
(* Properties *)

MigrationTypeOK ==
  /\ status \in [Kinds -> ActiveStatuses \cup TerminalStatuses \cup {"absent"}]
  /\ steps \in [Kinds -> [StepNames -> {"none", "running",
                 "awaiting_confirmation"} \cup TerminalStatuses]]
  /\ worker \in [task : Kinds \cup {"none"},
                 step : StepNames \cup {"none", "done"},
                 at : {"idle", "begin", "create", "wait", "reload", "act",
                       "transition"}]
  /\ child \in {"none", "active", "succeeded", "failed"}
  /\ inst \in [MigrationNodes -> [type : {"none", "deploy", "stop", "backup", "restore"},
                         owner : Kinds \cup {"none", "user"},
                         revision : MigrationNodes]]
  /\ up \subseteq MigrationNodes /\ dns \in MigrationNodes /\ repo \in MigrationNodes
  /\ request \in [Clients -> [kind : {"none", "approve", "reject", "rollback"},
                              at : {"none", "step", "finish", "create"},
                              actions : SUBSET StepNames]]
  /\ actions \subseteq StepNames
  /\ followups \subseteq MigrationNodes /\ dnsTasks \subseteq MigrationNodes /\ dnsRevision \in MigrationNodes
  /\ userTasks \in 0..MaxUserTasks /\ rollbacks \in 0..MaxRollbacks
  /\ restarts \in 0..MaxRestarts
  /\ restored \in BOOLEAN

\* A migration that was rejected or cancelled for a rollback has not changed
\* the repository, however approvals, rejections and rollback requests that
\* were all checked while it awaited its confirmation cross each other.
CancelledNeverPersisted == status["migrate"] = "cancelled" => repo = Source

\* While a rollback is pending or running the migration has ended, and no
\* child task that the migration gave up waiting for still works on a node.
RollbackRunsAlone ==
  Active("migrate_rollback") =>
    ~Active("migrate") /\ \A n \in MigrationNodes : inst[n].owner # "migrate"

\* The decisions about a migration exclude each other: rejected and persisted,
\* rolled back and still going on.
DecisionsExclude == MigrationTypeOK /\ CancelledNeverPersisted /\ RollbackRunsAlone

\* The target's containers run only with the data that was restored for them,
\* whether or not waiting for the restore timed out.
TargetServesRestoredData ==
  HasData /\ Target \in up => restored

\* Neither racing decisions nor children that outlive their deadline put a
\* migration into a state that mixes two outcomes.
MigrationIsSafe == DecisionsExclude /\ TargetServesRestoredData

\* Whatever the children do, a task that the worker may claim ends or, for a
\* migration, waits for its confirmation, unless the controller is restarted:
\* nothing resumes or fails the task a restarted worker was executing.
ControllerTasksEnd ==
  \A t \in Kinds :
    status[t] = "pending" ~>
      status[t] \notin {"pending", "running"} \/ restarts > 0

=============================================================================
