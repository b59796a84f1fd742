-------------------------- MODULE TaskStoreProofs --------------------------
(***************************************************************************)
(* The invariants of the task table, for any number of tasks, services,    *)
(* nodes and execution ids.                                                *)
(***************************************************************************)
EXTENDS TaskStore, TLAPS

\* A claim draws an id that was never issued.
LEMMA FreshExecutionID ==
  ASSUME ExecutionIDs \ issued # {}
  PROVE  NewExecutionID \in ExecutionIDs /\ NewExecutionID \notin issued
BY DEF NewExecutionID

\* The aggregate of a service is a runtime status.
LEMMA AggregateStatusType ==
  ASSUME NEW rt, NEW s
  PROVE  AggregateStatus(rt, s) \in RuntimeStatuses
BY DEF AggregateStatus, RuntimeStatuses

\* The instance of a task on an instance is in the domain of runtime.
LEMMA InstanceType ==
  ASSUME NEW t \in Tasks, OnInstance(t)
  PROVE  Instance(t) \in Services \X Nodes /\ ServiceOf[t] \in Services
                                           /\ Instance(t)[1] = ServiceOf[t]
BY StoreAssumption DEF OnInstance, Instance

-----------------------------------------------------------------------------
(* Type correctness *)

\* The INSERT of any set of new rows keeps the types.
LEMMA InsertType ==
  ASSUME TypeOK, NEW new \in SUBSET Tasks, NEW rows, insertTaskRecord(new, rows),
         instances' \subseteq Services \X Nodes
  PROVE  TypeOK'
BY DEF TypeOK, insertTaskRecord, Statuses, ActiveStatuses

\* So does the completion of an execution, by an agent or an operator.
LEMMA FinishExecutionType ==
  ASSUME TypeOK, NEW t \in Tasks, NEW st \in TerminalStatuses, NEW sm \in Summaries,
         FinishExecution(t, st, sm)
  PROVE  TypeOK'
<1> USE DEF TypeOK
<1>1. /\ status' \in [Tasks -> Statuses \cup {"absent"}]
      /\ summary' \in [Tasks -> Summaries]
      /\ expired' \in [Tasks -> BOOLEAN]
      /\ state' \in [Tasks -> ExecutionStates \cup {"none"}]
      /\ outbox' \subseteq Tasks
  BY DEF FinishExecution, FinishRow, Statuses, TerminalStatuses, ExecutionStates
<1>2. steps' \in [Tasks -> [StepNames -> Statuses \cup {"none"}]]
  BY DEF FinishExecution, FinalizeSteps, Statuses
<1>3. runtime' \in [Services \X Nodes -> RuntimeStatuses]
  BY DEF FinishExecution, updateRuntimeFromAgentTask, CompletedRuntime, RuntimeStatuses
<1>4. aggregate' \in [Services -> RuntimeStatuses]
  BY AggregateStatusType DEF FinishExecution, updateRuntimeFromAgentTask,
     updateServiceFromCompletedTask, RefreshAggregate
<1>5. UNCHANGED <<execution, issued, instances>>
  BY DEF FinishExecution, FinishRow
<1> QED  BY <1>1, <1>2, <1>3, <1>4, <1>5

\* Every statement of tasks.go keeps the types.
LEMMA TypeStep == TypeOK /\ [StoreNext]_storeVars => TypeOK'
<1> SUFFICES ASSUME TypeOK, [StoreNext]_storeVars PROVE TypeOK'
  OBVIOUS
<1>1. CASE Admit
  <2>1. ASSUME NEW t \in Tasks, CreateTask(t) PROVE TypeOK'
    BY <2>1, InsertType DEF CreateTask, TypeOK
  <2>2. ASSUME NEW new \in SUBSET Tasks, CreateTasksIfNoActiveServiceInstanceTasks(new)
        PROVE TypeOK'
    BY <2>2, InsertType DEF CreateTasksIfNoActiveServiceInstanceTasks, TypeOK
  <2>3. ASSUME NEW t \in Tasks, NEW inactive, NEW ensured \in SUBSET (Services \X Nodes),
               CreateTaskWithConstraints(t, inactive, ensured)
        PROVE TypeOK'
    BY <2>3, InsertType DEF CreateTaskWithConstraints, TypeOK
  <2>4. ASSUME NEW t \in Tasks, NEW source \in Nodes, NEW target \in Nodes,
               CreateTaskWithConstraints(t, {ServiceOf[t]} \X {source, target},
                                         {<<ServiceOf[t], target>>})
        PROVE TypeOK'
    <3>1. ServiceOf[t] \in Services
      BY <2>4, StoreAssumption DEF CreateTaskWithConstraints
    <3>2. {<<ServiceOf[t], target>>} \in SUBSET (Services \X Nodes)
      BY <3>1
    <3> QED  BY <2>3, <2>4, <3>2
  <2> QED  BY <1>1, <2>1, <2>2, <2>3, <2>4 DEF Admit
<1>2. CASE AgentCalls
  <2>1. ASSUME NEW n \in Nodes, NEW t \in Tasks, ClaimNextPendingTaskForNode(n, t)
        PROVE TypeOK'
    BY <2>1, FreshExecutionID DEF ClaimNextPendingTaskForNode, TypeOK, Statuses, ActiveStatuses,
       ExecutionStates, serviceVars
  <2>2. ASSUME NEW t \in Tasks, NEW e \in issued,
               AcknowledgeTaskExecution(t, e) \/ RenewTaskExecution(t, e)
        PROVE TypeOK'
    BY <2>2 DEF AcknowledgeTaskExecution, RenewTaskExecution, TypeOK, ExecutionStates, serviceVars
  <2>3. ASSUME NEW t \in Tasks, NEW e \in issued, NEW st \in TerminalStatuses,
               NEW sm \in Summaries, CompleteTaskExecution(t, e, st, sm)
        PROVE TypeOK'
    BY <2>3, FinishExecutionType DEF CompleteTaskExecution
  <2>4. ASSUME NEW t \in Tasks, NEW s \in StepNames, NEW st \in Statuses,
               UpsertTaskStep(t, s, st)
        PROVE TypeOK'
    BY <2>4 DEF UpsertTaskStep, TypeOK, rowVars, serviceVars
  <2>5. ASSUME NEW t \in Tasks, NEW rt \in RuntimeStatuses,
               UpdateServiceInstanceRuntimeStatus(Instance(t), rt)
        PROVE TypeOK'
    BY <2>5, AggregateStatusType DEF UpdateServiceInstanceRuntimeStatus, RefreshAggregate,
       TypeOK, rowVars
  <2> QED  BY <1>2, <2>1, <2>2, <2>3, <2>4, <2>5 DEF AgentCalls, Statuses, ActiveStatuses,
              TerminalStatuses, RuntimeStatuses
<1>3. CASE ControllerCalls
  <2>1. ASSUME NEW t \in Tasks, NEW type, ClaimNextPendingTaskOfType(type, t)
        PROVE TypeOK'
    BY <2>1 DEF ClaimNextPendingTaskOfType, TypeOK, Statuses, ActiveStatuses, serviceVars
  <2>2. ASSUME NEW t \in Tasks, NEW st \in TerminalStatuses, NEW sm \in Summaries,
               CompleteTask(t, st, sm)
        PROVE TypeOK'
    <3>1. /\ status' \in [Tasks -> Statuses \cup {"absent"}]
          /\ summary' \in [Tasks -> Summaries]
          /\ expired' \in [Tasks -> BOOLEAN]
          /\ state' \in [Tasks -> ExecutionStates \cup {"none"}]
      BY <2>2 DEF CompleteTask, FinishRow, TypeOK, Statuses, TerminalStatuses, ExecutionStates
    <3>2. steps' \in [Tasks -> [StepNames -> Statuses \cup {"none"}]]
      BY <2>2 DEF CompleteTask, FinalizeSteps, TypeOK, Statuses
    <3>3. aggregate' \in [Services -> RuntimeStatuses]
      <4>1. AggregateStatus(runtime, ServiceOf[t]) \in RuntimeStatuses
        BY AggregateStatusType
      <4> QED  BY <2>2, <4>1 DEF CompleteTask, updateServiceFromCompletedTask,
                  RefreshAggregate, TypeOK
    <3> QED  BY <2>2, <3>1, <3>2, <3>3 DEF CompleteTask, FinishRow, TypeOK
  <2>3. ASSUME NEW t \in Tasks, NEW s \in StepNames, NEW st \in Statuses,
               UpsertTaskStep(t, s, st)
        PROVE TypeOK'
    BY <2>3 DEF UpsertTaskStep, TypeOK, rowVars, serviceVars
  <2>4. ASSUME NEW t \in Tasks, NEW from, NEW to \in Statuses, TransitionTaskStatus(t, from, to)
        PROVE TypeOK'
    BY <2>4, StoreAssumption DEF TransitionTaskStatus, TypeOK, serviceVars
  <2>5. ASSUME NEW t \in Tasks, LeaseExpires(t) PROVE TypeOK'
    BY <2>5 DEF LeaseExpires, TypeOK, serviceVars
  <2>6. ASSUME SweepExpiredTaskExecutions PROVE TypeOK'
    <3>1. status' \in [Tasks -> Statuses \cup {"absent"}]
      BY <2>6 DEF SweepExpiredTaskExecutions, TypeOK, Statuses, ActiveStatuses
    <3>2. /\ execution' \in [Tasks -> ExecutionIDs \cup {NoExecution}]
          /\ expired' \in [Tasks -> BOOLEAN]
      BY <2>6 DEF SweepExpiredTaskExecutions, TypeOK
    <3>3. state' \in [Tasks -> ExecutionStates \cup {"none"}]
      BY <2>6 DEF SweepExpiredTaskExecutions, TypeOK, ExecutionStates
    <3> QED  BY <2>6, <3>1, <3>2, <3>3 DEF SweepExpiredTaskExecutions, TypeOK, serviceVars
  <2>7. ASSUME NEW t \in Tasks, NEW sm \in Summaries, FailLostTaskExecution(t, sm) PROVE TypeOK'
    BY <2>7, FinishExecutionType DEF FailLostTaskExecution, TerminalStatuses
  <2> QED  BY <1>3, <2>1, <2>2, <2>3, <2>4, <2>5, <2>6, <2>7
              DEF ControllerCalls, Statuses, ActiveStatuses
<1>4. CASE UNCHANGED storeVars
  BY <1>4 DEF storeVars, rowVars, serviceVars, TypeOK
<1> QED  BY <1>1, <1>2, <1>3, <1>4 DEF StoreNext

\* The empty table is well typed.
LEMMA TypeInit == StoreInit => TypeOK
<1> SUFFICES ASSUME StoreInit PROVE TypeOK
  OBVIOUS
<1>1. /\ status \in [Tasks -> Statuses \cup {"absent"}]
      /\ execution \in [Tasks -> ExecutionIDs \cup {NoExecution}]
      /\ state \in [Tasks -> ExecutionStates \cup {"none"}]
      /\ expired \in [Tasks -> BOOLEAN]
      /\ issued \subseteq ExecutionIDs
      /\ outbox \subseteq Tasks
  BY DEF StoreInit
<1>2. /\ summary \in [Tasks -> Summaries]
      /\ instances \subseteq Services \X Nodes
  BY StoreAssumption DEF StoreInit
<1>3. steps \in [Tasks -> [StepNames -> Statuses \cup {"none"}]]
  BY DEF StoreInit
<1>4. /\ runtime \in [Services \X Nodes -> RuntimeStatuses]
      /\ aggregate \in [Services -> RuntimeStatuses]
  BY DEF StoreInit, RuntimeStatuses
<1> QED  BY <1>1, <1>2, <1>3, <1>4 DEF TypeOK

\* Every column keeps its type under every order of calls to tasks.go.
THEOREM StoreTypeOK == StoreSpec => []TypeOK
BY TypeInit, TypeStep, PTL DEF StoreSpec

-----------------------------------------------------------------------------
(* The lease of an execution *)

\* The inductive invariant of the lease columns, the execution ids and the
\* outbox.  None of the three is inductive without the others.
LeaseInv ==
  /\ TypeOK
  /\ ExecutionColumnsAgree
  /\ ExecutionIDsUnique
  /\ OutboxHoldsCompletedExecutions

\* A step that leaves the row, the ids and the outbox alone.
LEMMA LeaseFrame ==
  ASSUME LeaseInv, TypeOK', UNCHANGED <<rowVars, issued, outbox>>
  PROVE  LeaseInv'
BY DEF LeaseInv, rowVars, ExecutionColumnsAgree, ExecutionIDsUnique,
       OutboxHoldsCompletedExecutions, Terminal

\* A new row has no execution.
LEMMA LeaseInsert ==
  ASSUME LeaseInv, TypeOK', NEW new \in SUBSET Tasks, NEW rows, insertTaskRecord(new, rows)
  PROVE  LeaseInv'
<1>1. ExecutionColumnsAgree'
  BY DEF LeaseInv, TypeOK, insertTaskRecord, ExecutionColumnsAgree, Terminal, TerminalStatuses
<1>2. ExecutionIDsUnique'
  BY DEF LeaseInv, insertTaskRecord, ExecutionIDsUnique
<1>3. OutboxHoldsCompletedExecutions'
  BY DEF LeaseInv, TypeOK, insertTaskRecord, OutboxHoldsCompletedExecutions, Terminal,
         TerminalStatuses
<1> QED  BY <1>1, <1>2, <1>3 DEF LeaseInv

\* Both ways to complete an execution.
LEMMA LeaseFinish ==
  ASSUME LeaseInv, TypeOK', NEW t \in Tasks, NEW st \in TerminalStatuses, NEW sm,
         state[t] \in {"accepted", "lease_lost"},
         FinishExecution(t, st, sm)
  PROVE  LeaseInv'
<1> USE DEF LeaseInv, TypeOK, FinishExecution, FinishRow, Terminal, TerminalStatuses
<1>1. ExecutionColumnsAgree'
  BY DEF ExecutionColumnsAgree
<1>2. ExecutionIDsUnique'
  BY DEF ExecutionIDsUnique
<1>3. OutboxHoldsCompletedExecutions'
  BY DEF OutboxHoldsCompletedExecutions, ExecutionColumnsAgree
<1> QED  BY <1>1, <1>2, <1>3

\* Every statement of tasks.go preserves the lease invariant.
LEMMA LeaseStep == LeaseInv /\ [StoreNext]_storeVars => LeaseInv'
<1> SUFFICES ASSUME LeaseInv, [StoreNext]_storeVars PROVE LeaseInv'
  OBVIOUS
<1>0. TypeOK'
  BY TypeStep DEF LeaseInv
<1>1. CASE Admit
  BY <1>0, <1>1, LeaseInsert DEF Admit, CreateTask, CreateTaskWithConstraints,
     CreateTasksIfNoActiveServiceInstanceTasks
<1>2. CASE AgentCalls
  <2>1. ASSUME NEW n \in Nodes, NEW t \in Tasks, ClaimNextPendingTaskForNode(n, t)
        PROVE LeaseInv'
    <3>1. status[t] = "pending" /\ TypeOf[t] \notin ControllerOwnedTypes
      BY <2>1, StoreAssumption DEF ClaimNextPendingTaskForNode, OldestOf, ControllerOwnedTypes
    <3>2. NewExecutionID \in ExecutionIDs \ issued
      BY <2>1, FreshExecutionID DEF ClaimNextPendingTaskForNode
    <3>3. ExecutionColumnsAgree'
      BY <2>1, <3>1, <3>2, StoreAssumption DEF ClaimNextPendingTaskForNode, LeaseInv, TypeOK,
         ExecutionColumnsAgree, Terminal, TerminalStatuses
    <3>4. ExecutionIDsUnique'
      BY <2>1, <3>2, StoreAssumption DEF ClaimNextPendingTaskForNode, LeaseInv, TypeOK,
         ExecutionIDsUnique
    <3>5. OutboxHoldsCompletedExecutions'
      BY <2>1, <3>1 DEF ClaimNextPendingTaskForNode, LeaseInv, TypeOK,
         OutboxHoldsCompletedExecutions, Terminal, TerminalStatuses
    <3> QED  BY <1>0, <3>3, <3>4, <3>5 DEF LeaseInv
  <2>2. ASSUME NEW t \in Tasks, NEW e \in issued,
               AcknowledgeTaskExecution(t, e) \/ RenewTaskExecution(t, e)
        PROVE LeaseInv'
    <3>1. status[t] = "running" /\ execution[t] = e /\ e # NoExecution
      BY <2>2, StoreAssumption DEF AcknowledgeTaskExecution, RenewTaskExecution,
         CanAcknowledge, Current, LeaseInv, TypeOK
    <3>2. ExecutionColumnsAgree'
      BY <2>2, <3>1 DEF AcknowledgeTaskExecution, RenewTaskExecution, LeaseInv, TypeOK,
         ExecutionColumnsAgree, Terminal, TerminalStatuses
    <3>3. ExecutionIDsUnique' /\ OutboxHoldsCompletedExecutions'
      BY <2>2 DEF AcknowledgeTaskExecution, RenewTaskExecution, LeaseInv,
         ExecutionIDsUnique, OutboxHoldsCompletedExecutions, Terminal
    <3> QED  BY <1>0, <3>2, <3>3 DEF LeaseInv
  <2>3. ASSUME NEW t \in Tasks, NEW e \in issued, NEW st \in TerminalStatuses,
               NEW sm \in Summaries, CompleteTaskExecution(t, e, st, sm)
        PROVE LeaseInv'
    BY <1>0, <2>3, LeaseFinish DEF CompleteTaskExecution, Current
  <2>4. ASSUME NEW t \in Tasks, NEW s \in StepNames, NEW st, UpsertTaskStep(t, s, st)
        PROVE LeaseInv'
    BY <1>0, <2>4, LeaseFrame DEF UpsertTaskStep
  <2>5. ASSUME NEW i, NEW rt, UpdateServiceInstanceRuntimeStatus(i, rt) PROVE LeaseInv'
    BY <1>0, <2>5, LeaseFrame DEF UpdateServiceInstanceRuntimeStatus
  <2> QED  BY <1>2, <2>1, <2>2, <2>3, <2>4, <2>5 DEF AgentCalls
<1>3. CASE ControllerCalls
  <2>1. ASSUME NEW t \in Tasks, NEW type \in ControllerOwnedTypes,
               ClaimNextPendingTaskOfType(type, t)
        PROVE LeaseInv'
    <3>1. status[t] = "pending" /\ TypeOf[t] = type
      BY <2>1 DEF ClaimNextPendingTaskOfType, OldestOf
    <3> QED  BY <1>0, <2>1, <3>1 DEF ClaimNextPendingTaskOfType, LeaseInv, TypeOK,
                ExecutionColumnsAgree, ExecutionIDsUnique, OutboxHoldsCompletedExecutions,
                Terminal, TerminalStatuses
  <2>2. ASSUME NEW t \in Tasks, TypeOf[t] \in ControllerOwnedTypes, NEW st \in TerminalStatuses,
               NEW sm \in Summaries, CompleteTask(t, st, sm)
        PROVE LeaseInv'
    <3>1. execution[t] = NoExecution /\ state[t] = "none"
      BY <2>2 DEF LeaseInv, ExecutionColumnsAgree
    <3>2. ExecutionColumnsAgree'
      BY <2>2, <3>1 DEF CompleteTask, FinishRow, LeaseInv, TypeOK,
         ExecutionColumnsAgree, Terminal, TerminalStatuses
    <3>3. ExecutionIDsUnique'
      BY <2>2 DEF CompleteTask, FinishRow, LeaseInv, ExecutionIDsUnique
    <3>4. OutboxHoldsCompletedExecutions'
      BY <2>2, <3>1 DEF CompleteTask, FinishRow, LeaseInv, TypeOK,
         OutboxHoldsCompletedExecutions, Terminal, TerminalStatuses
    <3> QED  BY <1>0, <3>2, <3>3, <3>4 DEF LeaseInv
  <2>3. ASSUME NEW t \in Tasks, NEW s \in StepNames, NEW st, UpsertTaskStep(t, s, st)
        PROVE LeaseInv'
    BY <1>0, <2>3, LeaseFrame DEF UpsertTaskStep
  <2>4. ASSUME NEW t \in Tasks, TypeOf[t] = "migrate", NEW from, NEW to \in ActiveStatuses,
               TransitionTaskStatus(t, from, to), from \in ActiveStatuses
        PROVE LeaseInv'
    <3>1. execution[t] = NoExecution /\ state[t] = "none"
      BY <2>4 DEF LeaseInv, ExecutionColumnsAgree, ControllerOwnedTypes
    <3>2. ExecutionColumnsAgree'
      BY <2>4, <3>1 DEF TransitionTaskStatus, LeaseInv, TypeOK,
         ExecutionColumnsAgree, Terminal, TerminalStatuses, ActiveStatuses
    <3>3. ExecutionIDsUnique'
      BY <2>4 DEF TransitionTaskStatus, LeaseInv, ExecutionIDsUnique
    <3>4. OutboxHoldsCompletedExecutions'
      BY <2>4, <3>1 DEF TransitionTaskStatus, LeaseInv, TypeOK,
         OutboxHoldsCompletedExecutions, Terminal, TerminalStatuses
    <3> QED  BY <1>0, <3>2, <3>3, <3>4 DEF LeaseInv
  <2>5. ASSUME NEW t \in Tasks, LeaseExpires(t) PROVE LeaseInv'
    BY <1>0, <2>5 DEF LeaseExpires, LeaseInv, TypeOK, ExecutionColumnsAgree,
       ExecutionIDsUnique, OutboxHoldsCompletedExecutions, Terminal
  <2>6. ASSUME SweepExpiredTaskExecutions PROVE LeaseInv'
    <3>1. ExecutionColumnsAgree'
      <4> SUFFICES ASSUME NEW t \in Tasks PROVE ExecutionColumnsAgree!(t)'
        BY DEF ExecutionColumnsAgree
      <4>1. CASE Swept(t, "offered")
        BY <2>6, <4>1, StoreAssumption DEF SweepExpiredTaskExecutions, Swept, LeaseInv, TypeOK,
           ExecutionColumnsAgree, Terminal, TerminalStatuses
      <4>2. CASE ~Swept(t, "offered")
        BY <2>6, <4>2 DEF SweepExpiredTaskExecutions, Swept, LeaseInv, TypeOK,
           ExecutionColumnsAgree, Terminal, TerminalStatuses
      <4> QED  BY <4>1, <4>2
    <3>2. ExecutionIDsUnique'
      BY <2>6 DEF SweepExpiredTaskExecutions, LeaseInv, ExecutionIDsUnique
    <3>3. OutboxHoldsCompletedExecutions'
      BY <2>6 DEF SweepExpiredTaskExecutions, Swept, LeaseInv, TypeOK,
         OutboxHoldsCompletedExecutions, Terminal, TerminalStatuses
    <3> QED  BY <1>0, <3>1, <3>2, <3>3 DEF LeaseInv
  <2>7. ASSUME NEW t \in Tasks, NEW sm \in Summaries, FailLostTaskExecution(t, sm)
        PROVE LeaseInv'
    BY <1>0, <2>7, LeaseFinish DEF FailLostTaskExecution, TerminalStatuses
  <2> QED  BY <1>3, <2>1, <2>2, <2>3, <2>4, <2>5, <2>6, <2>7 DEF ControllerCalls, ActiveStatuses
<1>4. CASE UNCHANGED storeVars
  BY <1>0, <1>4, LeaseFrame DEF storeVars
<1> QED  BY <1>1, <1>2, <1>3, <1>4 DEF StoreNext

\* The empty table satisfies the lease invariant.
LEMMA LeaseInit == StoreInit => LeaseInv
<1> SUFFICES ASSUME StoreInit PROVE LeaseInv
  OBVIOUS
<1>1. TypeOK
  BY TypeInit
<1>2. ExecutionColumnsAgree
  BY DEF StoreInit, ExecutionColumnsAgree, Terminal, TerminalStatuses
<1>3. ExecutionIDsUnique
  BY DEF StoreInit, ExecutionIDsUnique
<1>4. OutboxHoldsCompletedExecutions
  BY DEF StoreInit, OutboxHoldsCompletedExecutions
<1> QED  BY <1>1, <1>2, <1>3, <1>4 DEF LeaseInv

\* The lease invariant holds in every state of the store.
LEMMA StoreLeaseInv == StoreSpec => []LeaseInv
BY LeaseInit, LeaseStep, PTL DEF StoreSpec

\* The columns of a row always agree: an execution id comes and goes with its
\* state, and only a terminal task has a completed execution.
THEOREM StoreColumnsAgree == StoreSpec => []ExecutionColumnsAgree
<1>1. LeaseInv => ExecutionColumnsAgree
  BY DEF LeaseInv
<1> QED  BY <1>1, StoreLeaseInv, PTL

\* No execution id is ever shared by two tasks.
THEOREM StoreExecutionIDsUnique == StoreSpec => []ExecutionIDsUnique
<1>1. LeaseInv => ExecutionIDsUnique
  BY DEF LeaseInv
<1> QED  BY <1>1, StoreLeaseInv, PTL

\* The outbox holds exactly the completed executions.
THEOREM StoreOutbox == StoreSpec => []OutboxHoldsCompletedExecutions
<1>1. LeaseInv => OutboxHoldsCompletedExecutions
  BY DEF LeaseInv
<1> QED  BY <1>1, StoreLeaseInv, PTL

-----------------------------------------------------------------------------
(* What a step may never do *)

\* What a step may not do to a task whose execution was accepted, and to one that
\* has ended.
Kept(t) == state[t] \in {"accepted", "lease_lost", "completed"} =>
             /\ execution'[t] = execution[t]
             /\ state'[t] \in {"accepted", "lease_lost", "completed"}
Final(t) == Terminal(t) => /\ status'[t] = status[t] /\ summary'[t] = summary[t]
                           /\ state'[t] = state[t]

\* No call changes the execution of an accepted task.
LEMMA AcceptedStep ==
  ASSUME LeaseInv, StoreNext, NEW t \in Tasks
  PROVE  Kept(t)
<1>0. SUFFICES ASSUME state[t] \in {"accepted", "lease_lost", "completed"}
               PROVE /\ execution'[t] = execution[t]
                     /\ state'[t] \in {"accepted", "lease_lost", "completed"}
  BY DEF Kept
<1> USE <1>0 DEF LeaseInv, TypeOK, ExecutionColumnsAgree, Kept
<1>1. CASE Admit
  BY <1>1 DEF Admit, CreateTask, CreateTaskWithConstraints,
     CreateTasksIfNoActiveServiceInstanceTasks, insertTaskRecord
<1>2. ASSUME NEW n \in Nodes, NEW u \in Tasks, ClaimNextPendingTaskForNode(n, u)
      PROVE Kept(t)
  <2>1. u # t
    BY <1>2 DEF ClaimNextPendingTaskForNode, OldestOf
  <2> QED  BY <1>2, <2>1 DEF ClaimNextPendingTaskForNode
<1>3. ASSUME NEW u \in Tasks, NEW e,
             AcknowledgeTaskExecution(u, e) \/ RenewTaskExecution(u, e)
      PROVE Kept(t)
  BY <1>3 DEF AcknowledgeTaskExecution, RenewTaskExecution
<1>4. ASSUME NEW u \in Tasks, NEW st, NEW sm, FinishExecution(u, st, sm) PROVE Kept(t)
  BY <1>4 DEF FinishExecution, FinishRow
<1>5. ASSUME UNCHANGED <<execution, state>> PROVE Kept(t)
  BY <1>5
<1>6. ASSUME NEW u \in Tasks, NEW st, NEW sm, CompleteTask(u, st, sm) PROVE Kept(t)
  BY <1>6 DEF CompleteTask, FinishRow
<1>7. ASSUME SweepExpiredTaskExecutions PROVE Kept(t)
  BY <1>7 DEF SweepExpiredTaskExecutions, Swept
<1>8. CASE AgentCalls
  BY <1>8, <1>2, <1>3, <1>4, <1>5 DEF AgentCalls, CompleteTaskExecution,
     UpsertTaskStep, UpdateServiceInstanceRuntimeStatus, rowVars
<1>9. CASE ControllerCalls
  BY <1>9, <1>4, <1>5, <1>6, <1>7 DEF ControllerCalls, ClaimNextPendingTaskOfType,
     UpsertTaskStep, TransitionTaskStatus, LeaseExpires, FailLostTaskExecution, rowVars
<1> QED  BY <1>1, <1>8, <1>9 DEF StoreNext

\* An accepted execution keeps its id and never leaves accepted, lease_lost and
\* completed: no claim, sweep or admission puts its task back into the queue.
THEOREM StoreAcceptedNeverRequeued == StoreSpec => AcceptedNeverRequeued
<1>1. LeaseInv /\ [StoreNext]_storeVars => [\A t \in Tasks : Kept(t)]_storeVars
  BY AcceptedStep
<1> QED  BY <1>1, StoreLeaseInv, PTL DEF StoreSpec, AcceptedNeverRequeued, Kept

\* No call changes a terminal row.
LEMMA TerminalStep ==
  ASSUME TypeOK, StoreNext, NEW t \in Tasks
  PROVE  Final(t)
<1>0. SUFFICES ASSUME Terminal(t)
               PROVE /\ status'[t] = status[t] /\ summary'[t] = summary[t]
                     /\ state'[t] = state[t]
  BY DEF Final
<1> USE <1>0 DEF TypeOK, Terminal, TerminalStatuses, Final
<1>1. CASE Admit
  BY <1>1 DEF Admit, CreateTask, CreateTaskWithConstraints,
     CreateTasksIfNoActiveServiceInstanceTasks, insertTaskRecord
<1>2. ASSUME NEW n \in Nodes, NEW u \in Tasks, ClaimNextPendingTaskForNode(n, u)
      PROVE Final(t)
  BY <1>2 DEF ClaimNextPendingTaskForNode, OldestOf
<1>3. ASSUME NEW u \in Tasks, NEW e,
             AcknowledgeTaskExecution(u, e) \/ RenewTaskExecution(u, e)
      PROVE Final(t)
  BY <1>3 DEF AcknowledgeTaskExecution, RenewTaskExecution, CanAcknowledge, Current
<1>4. ASSUME NEW u \in Tasks, NEW st, NEW sm, status[u] = "running",
             FinishExecution(u, st, sm)
      PROVE Final(t)
  BY <1>4 DEF FinishExecution, FinishRow
<1>5. ASSUME UNCHANGED <<status, summary, state>> PROVE Final(t)
  BY <1>5
<1>6. ASSUME NEW u \in Tasks, NEW st, NEW sm, CompleteTask(u, st, sm) PROVE Final(t)
  BY <1>6 DEF CompleteTask, FinishRow, Active, ActiveStatuses
<1>7. ASSUME SweepExpiredTaskExecutions PROVE Final(t)
  BY <1>7 DEF SweepExpiredTaskExecutions, Swept
<1>8. ASSUME NEW u \in Tasks, NEW type, ClaimNextPendingTaskOfType(type, u) PROVE Final(t)
  BY <1>8 DEF ClaimNextPendingTaskOfType, OldestOf
<1>9. ASSUME NEW u \in Tasks, NEW from \in ActiveStatuses, NEW to,
             TransitionTaskStatus(u, from, to)
      PROVE Final(t)
  BY <1>9 DEF TransitionTaskStatus, ActiveStatuses
<1>10. CASE AgentCalls
  BY <1>10, <1>2, <1>3, <1>4, <1>5 DEF AgentCalls, CompleteTaskExecution, Current,
     UpsertTaskStep, UpdateServiceInstanceRuntimeStatus, rowVars
<1>11. CASE ControllerCalls
  BY <1>11, <1>4, <1>5, <1>6, <1>7, <1>8, <1>9 DEF ControllerCalls, ActiveStatuses,
     UpsertTaskStep, LeaseExpires, FailLostTaskExecution, rowVars
<1> QED  BY <1>1, <1>10, <1>11 DEF StoreNext

\* A recorded outcome is final.
THEOREM StoreTerminalIsFinal == StoreSpec => TerminalIsFinal
<1>1. TypeOK /\ [StoreNext]_storeVars => [\A t \in Tasks : Final(t)]_storeVars
  BY TerminalStep
<1> QED  BY <1>1, StoreTypeOK, PTL DEF StoreSpec, TerminalIsFinal, Final

-----------------------------------------------------------------------------
(* Admission *)

\* The inductive invariant of admission: the two partial unique indexes on
\* active tasks and the one on dedupe keys.
AdmissionInv == ActiveTasksExclusive /\ FollowupsAdmittedOnce

\* A step that brings no task back to life and creates none.
LEMMA AdmissionFrame ==
  ASSUME AdmissionInv,
         \A t \in Tasks : /\ status'[t] \in ActiveStatuses => status[t] \in ActiveStatuses
                          /\ status'[t] # "absent" => status[t] # "absent"
  PROVE  AdmissionInv'
<1>1. ActiveTasksExclusive'
  BY DEF AdmissionInv, ActiveTasksExclusive, Active, InstanceIndexed, ServiceIndexed,
         OnInstance, Instance
<1>2. FollowupsAdmittedOnce'
  BY DEF AdmissionInv, FollowupsAdmittedOnce
<1> QED  BY <1>1, <1>2 DEF AdmissionInv

\* The INSERT of rows on distinct instances, or of one row.
LEMMA AdmissionInsert ==
  ASSUME TypeOK, AdmissionInv, NEW new \in SUBSET Tasks, NEW rows, insertTaskRecord(new, rows),
         \A t, u \in new : t # u => OnInstance(t) /\ Instance(t) # Instance(u)
  PROVE  AdmissionInv'
<1>1. ActiveTasksExclusive'
  <2> SUFFICES ASSUME NEW t \in Tasks, NEW u \in Tasks, t # u, Active(t)', Active(u)'
               PROVE  /\ (InstanceIndexed(t) /\ InstanceIndexed(u)) => Instance(t) # Instance(u)
                      /\ (ServiceIndexed(t) /\ ServiceIndexed(u)) => ServiceOf[t] # ServiceOf[u]
    BY DEF ActiveTasksExclusive, InstanceIndexed, ServiceIndexed, OnInstance, Instance
  <2>1. \A x \in Tasks \ new : Active(x)' => Active(x)
    BY DEF insertTaskRecord, Active
  <2>2. CASE t \in new /\ u \in new
    BY <2>2 DEF ServiceIndexed, OnInstance
  <2>3. CASE t \in new /\ u \notin new
    BY <2>1, <2>3 DEF insertTaskRecord, IndexClash
  <2>4. CASE t \notin new /\ u \in new
    BY <2>1, <2>4 DEF insertTaskRecord, IndexClash
  <2>5. CASE t \notin new /\ u \notin new
    BY <2>1, <2>5 DEF AdmissionInv, ActiveTasksExclusive
  <2> QED  BY <2>2, <2>3, <2>4, <2>5
<1>2. FollowupsAdmittedOnce'
  BY DEF AdmissionInv, FollowupsAdmittedOnce, insertTaskRecord, IndexClash
<1> QED  BY <1>1, <1>2 DEF AdmissionInv

\* Only admission makes a task active.
LEMMA OnlyAdmissionActivates ==
  ASSUME TypeOK, AgentCalls \/ ControllerCalls, NEW t \in Tasks
  PROVE  /\ status'[t] \in ActiveStatuses => status[t] \in ActiveStatuses
         /\ status'[t] # "absent" => status[t] # "absent"
<1> DEFINE Framed == /\ status'[t] \in ActiveStatuses => status[t] \in ActiveStatuses
                     /\ status'[t] # "absent" => status[t] # "absent"
<1> USE DEF TypeOK, ActiveStatuses
<1>1. ASSUME NEW u \in Tasks, NEW to, status[u] \in ActiveStatuses,
             status' = [status EXCEPT ![u] = to]
      PROVE  Framed
  BY <1>1
<1>2. ASSUME UNCHANGED status PROVE Framed
  BY <1>2
<1>3. ASSUME SweepExpiredTaskExecutions PROVE Framed
  BY <1>3 DEF SweepExpiredTaskExecutions, Swept
<1>4. ASSUME NEW u \in Tasks, NEW st, NEW sm, status[u] = "running", FinishExecution(u, st, sm)
      PROVE  Framed
  BY <1>1, <1>4 DEF FinishExecution, FinishRow
<1>5. CASE AgentCalls
  <2>1. ASSUME NEW n \in Nodes, NEW u \in Tasks, ClaimNextPendingTaskForNode(n, u) PROVE Framed
    BY <1>1, <2>1 DEF ClaimNextPendingTaskForNode, OldestOf
  <2> QED  BY <1>2, <1>4, <1>5, <2>1 DEF AgentCalls, AcknowledgeTaskExecution,
              RenewTaskExecution, CompleteTaskExecution, Current, UpsertTaskStep,
              UpdateServiceInstanceRuntimeStatus, rowVars
<1>6. CASE ControllerCalls
  <2>1. ASSUME NEW u \in Tasks, NEW type, ClaimNextPendingTaskOfType(type, u) PROVE Framed
    BY <1>1, <2>1 DEF ClaimNextPendingTaskOfType, OldestOf
  <2>2. ASSUME NEW u \in Tasks, NEW from \in ActiveStatuses, NEW to,
               TransitionTaskStatus(u, from, to)
        PROVE Framed
    BY <1>1, <2>2 DEF TransitionTaskStatus
  <2>3. ASSUME NEW u \in Tasks, NEW st, NEW sm, CompleteTask(u, st, sm) PROVE Framed
    BY <1>1, <2>3 DEF CompleteTask, FinishRow, Active
  <2> QED  BY <1>2, <1>3, <1>4, <1>6, <2>1, <2>2, <2>3 DEF ControllerCalls, UpsertTaskStep,
              LeaseExpires, FailLostTaskExecution, rowVars
<1> QED  BY <1>5, <1>6

\* Every statement of tasks.go preserves the admission invariant.
LEMMA AdmissionStep == TypeOK /\ AdmissionInv /\ [StoreNext]_storeVars => AdmissionInv'
<1> SUFFICES ASSUME TypeOK, AdmissionInv, [StoreNext]_storeVars PROVE AdmissionInv'
  OBVIOUS
<1>1. CASE Admit
  <2>1. ASSUME NEW t \in Tasks, NEW rows, insertTaskRecord({t}, rows) PROVE AdmissionInv'
    BY <2>1, AdmissionInsert
  <2>2. ASSUME NEW new \in SUBSET Tasks, CreateTasksIfNoActiveServiceInstanceTasks(new)
        PROVE AdmissionInv'
    BY <2>2, AdmissionInsert DEF CreateTasksIfNoActiveServiceInstanceTasks
  <2> QED  BY <1>1, <2>1, <2>2 DEF Admit, CreateTask, CreateTaskWithConstraints
<1>2. CASE AgentCalls \/ ControllerCalls
  BY <1>2, AdmissionFrame, OnlyAdmissionActivates
<1>3. CASE UNCHANGED storeVars
  BY <1>3, AdmissionFrame DEF storeVars, rowVars
<1> QED  BY <1>1, <1>2, <1>3 DEF StoreNext

\* The admission invariant holds in every state of the store.
LEMMA StoreAdmissionInv == StoreSpec => []AdmissionInv
<1>1. StoreInit => AdmissionInv
  BY DEF StoreInit, AdmissionInv, ActiveTasksExclusive, FollowupsAdmittedOnce, Active,
         ActiveStatuses
<1> QED  BY <1>1, AdmissionStep, StoreTypeOK, PTL DEF StoreSpec

\* No two active tasks on one service instance, and no two migrations,
\* rollbacks or tunnel syncs of one service.
THEOREM StoreActiveTasksExclusive == StoreSpec => []ActiveTasksExclusive
<1>1. AdmissionInv => ActiveTasksExclusive
  BY DEF AdmissionInv
<1> QED  BY <1>1, StoreAdmissionInv, PTL

\* No two tasks with one dedupe key.
THEOREM StoreFollowupsAdmittedOnce == StoreSpec => []FollowupsAdmittedOnce
<1>1. AdmissionInv => FollowupsAdmittedOnce
  BY DEF AdmissionInv
<1> QED  BY <1>1, StoreAdmissionInv, PTL

-----------------------------------------------------------------------------
(* The aggregate of a service *)

\* The aggregate depends on the declared instances of the service only.
LEMMA AggregateFrame ==
  ASSUME NEW rt, NEW new, NEW s, \A i \in Instances(s) : new[i] = rt[i]
  PROVE  AggregateStatus(new, s) = AggregateStatus(rt, s)
BY DEF AggregateStatus

\* A transaction that writes one instance of a service and refreshes its
\* aggregate.
LEMMA RefreshKeepsFresh ==
  ASSUME TypeOK, AggregateIsFresh, NEW i \in Services \X Nodes, NEW v,
         runtime' = [runtime EXCEPT ![i] = v],
         RefreshAggregate([runtime EXCEPT ![i] = v], i[1])
  PROVE  AggregateIsFresh'
<1> SUFFICES ASSUME NEW s \in Services PROVE aggregate'[s] = AggregateStatus(runtime', s)
  BY DEF AggregateIsFresh, AggregateStatus, Instances
<1>1. CASE s = i[1]
  BY <1>1 DEF RefreshAggregate, TypeOK
<1>2. CASE s # i[1]
  <2>1. \A j \in Instances(s) : runtime'[j] = runtime[j]
    BY <1>2, StoreAssumption DEF Instances, TypeOK
  <2>2. AggregateStatus(runtime', s) = AggregateStatus(runtime, s)
    BY <2>1, AggregateFrame
  <2> QED  BY <1>2, <2>2 DEF RefreshAggregate, AggregateIsFresh, TypeOK
<1> QED  BY <1>1, <1>2

\* A completion that leaves the instance alone.
LEMMA CompletionKeepsFresh ==
  ASSUME TypeOK, AggregateIsFresh, NEW t \in Tasks, UNCHANGED runtime,
         updateServiceFromCompletedTask(t)
  PROVE  AggregateIsFresh'
BY DEF updateServiceFromCompletedTask, RefreshAggregate, AggregateIsFresh, AggregateStatus,
       Instances, TypeOK

\* The completion of an execution.
LEMMA FinishKeepsFresh ==
  ASSUME TypeOK, AggregateIsFresh, NEW t \in Tasks, NEW st, updateRuntimeFromAgentTask(t, st)
  PROVE  AggregateIsFresh'
<1>1. CASE ChangesRuntime(t, st)
  <2>1. OnInstance(t)
    BY <1>1 DEF ChangesRuntime
  <2> QED  BY <1>1, <2>1, InstanceType, RefreshKeepsFresh DEF updateRuntimeFromAgentTask
<1>2. CASE ~ChangesRuntime(t, st)
  BY <1>2, CompletionKeepsFresh DEF updateRuntimeFromAgentTask
<1> QED  BY <1>1, <1>2

\* The aggregate status of a service is never stale.
THEOREM StoreAggregateIsFresh == StoreSpec => []AggregateIsFresh
<1>1. StoreInit => AggregateIsFresh
  <2> SUFFICES ASSUME StoreInit, NEW s \in Services PROVE aggregate[s] = AggregateStatus(runtime, s)
    BY DEF AggregateIsFresh
  <2>1. \A i \in Instances(s) : runtime[i] = "unknown"
    BY StoreAssumption DEF StoreInit, Instances
  <2> QED  BY <2>1 DEF StoreInit, AggregateStatus
<1>2. ASSUME TypeOK, AggregateIsFresh, UNCHANGED <<runtime, aggregate>>
      PROVE  AggregateIsFresh'
  BY <1>2 DEF AggregateIsFresh, AggregateStatus, Instances
<1>3. TypeOK /\ AggregateIsFresh /\ [StoreNext]_storeVars => AggregateIsFresh'
  <2> SUFFICES ASSUME TypeOK, AggregateIsFresh, [StoreNext]_storeVars PROVE AggregateIsFresh'
    OBVIOUS
  <2>1. CASE Admit
    BY <1>2, <2>1 DEF Admit, CreateTask, CreateTaskWithConstraints,
       CreateTasksIfNoActiveServiceInstanceTasks, insertTaskRecord
  <2>2. ASSUME NEW t \in Tasks, NEW st, NEW sm, FinishExecution(t, st, sm)
        PROVE AggregateIsFresh'
    BY <2>2, FinishKeepsFresh DEF FinishExecution
  <2>3. ASSUME NEW i, NEW rt, UpdateServiceInstanceRuntimeStatus(i, rt) PROVE AggregateIsFresh'
    BY <2>3, RefreshKeepsFresh DEF UpdateServiceInstanceRuntimeStatus, TypeOK
  <2>4. CASE AgentCalls
    BY <1>2, <2>2, <2>3, <2>4 DEF AgentCalls, ClaimNextPendingTaskForNode,
       AcknowledgeTaskExecution, RenewTaskExecution, CompleteTaskExecution, UpsertTaskStep,
       serviceVars
  <2>5. ASSUME NEW t \in Tasks, NEW st, NEW sm, CompleteTask(t, st, sm) PROVE AggregateIsFresh'
    BY <2>5, CompletionKeepsFresh DEF CompleteTask
  <2>6. CASE ControllerCalls
    BY <1>2, <2>2, <2>5, <2>6 DEF ControllerCalls, ClaimNextPendingTaskOfType, UpsertTaskStep,
       TransitionTaskStatus, LeaseExpires, SweepExpiredTaskExecutions, FailLostTaskExecution,
       serviceVars
  <2>7. CASE UNCHANGED storeVars
    BY <1>2, <2>7 DEF storeVars, serviceVars
  <2> QED  BY <2>1, <2>4, <2>6, <2>7 DEF StoreNext
<1> QED  BY <1>1, <1>3, StoreTypeOK, PTL DEF StoreSpec

-----------------------------------------------------------------------------
(* The store implements TaskLifecycle *)

Agents == {t \in Tasks : TypeOf[t] \notin ControllerOwnedTypes}
OutcomeOf(t) == IF Terminal(t) THEN <<status[t], summary[t]>> ELSE "none"

\* A set of tasks changes its phase.
LEMMA LifecycleMove ==
  ASSUME NEW moved \in SUBSET Tasks, NEW from, NEW to,
         \A t \in moved : PhaseOf(t) \in from,
         \A t \in Tasks : PhaseOf(t)' = IF t \in moved THEN to ELSE PhaseOf(t)
  PROVE  Lifecycle!Move(moved, from, to)
BY DEF Lifecycle!Move

\* No outcome is recorded, and none is published.
LEMMA LifecycleFrame ==
  ASSUME UNCHANGED outbox, \A t \in Tasks : OutcomeOf(t)' = OutcomeOf(t)
  PROVE  UNCHANGED <<[t \in Tasks |-> IF Terminal(t) THEN <<status[t], summary[t]>> ELSE "none"],
                     outbox>>
BY DEF OutcomeOf, Terminal

\* The completion of a task, by an agent, an operator or the controller.
LEMMA LifecycleEnd ==
  ASSUME LeaseInv, NEW t \in Tasks, NEW st \in TerminalStatuses, NEW sm \in Summaries,
         FinishRow(t, st, sm),
         PhaseOf(t) \in IF t \in Agents THEN {"working"} ELSE {"queued", "working", "confirming"},
         \A u \in Tasks : u # t => state'[u] = state[u],
         outbox' = outbox \cup ({t} \cap Agents)
  PROVE  Lifecycle!Next
<1> USE DEF LeaseInv, TypeOK, FinishRow
<1>1. \A u \in Tasks : PhaseOf(u)' = IF u \in {t} THEN "done" ELSE PhaseOf(u)
  BY DEF PhaseOf, TerminalStatuses
<1>2. Lifecycle!Move({t}, IF t \in Agents THEN {"working"} ELSE {"queued", "working", "confirming"},
                     "done")
  BY <1>1, LifecycleMove
<1>3. \A u \in Tasks : OutcomeOf(u)' = IF u = t THEN <<st, sm>> ELSE OutcomeOf(u)
  BY DEF OutcomeOf, Terminal, TerminalStatuses
<1>4. [u \in Tasks |-> OutcomeOf(u)'] = [[u \in Tasks |-> OutcomeOf(u)] EXCEPT ![t] = <<st, sm>>]
  BY <1>3
<1>5. Lifecycle!End(t, <<st, sm>>)
  BY <1>2, <1>4 DEF Lifecycle!End, Agents, OutcomeOf, Terminal
<1> QED  BY <1>5 DEF Lifecycle!Next

\* The completion of an execution, by an agent or an operator.
LEMMA LifecycleFinish ==
  ASSUME LeaseInv, NEW t \in Tasks, NEW st \in TerminalStatuses, NEW sm \in Summaries,
         status[t] = "running", state[t] \in {"accepted", "lease_lost"},
         FinishExecution(t, st, sm)
  PROVE  Lifecycle!Next
<1>1. t \in Agents
  BY DEF Agents, LeaseInv, ExecutionColumnsAgree
<1>2. PhaseOf(t) = "working"
  BY DEF PhaseOf
<1>3. \A u \in Tasks : u # t => state'[u] = state[u]
  BY DEF FinishExecution, LeaseInv, TypeOK
<1> QED  BY <1>1, <1>2, <1>3, LifecycleEnd DEF FinishExecution

\* A step that neither moves a task nor ends one.
LEMMA LifecycleStutter ==
  ASSUME \A t \in Tasks : PhaseOf(t)' = PhaseOf(t),
         \A t \in Tasks : OutcomeOf(t)' = OutcomeOf(t),
         UNCHANGED outbox
  PROVE  UNCHANGED Lifecycle!vars
BY DEF Lifecycle!vars, OutcomeOf, PhaseOf, Terminal

\* Every admission creates queued tasks.
LEMMA LifecycleAdmit ==
  ASSUME LeaseInv, NEW new \in SUBSET Tasks, NEW rows, insertTaskRecord(new, rows)
  PROVE  Lifecycle!Next
<1> USE DEF LeaseInv, TypeOK, insertTaskRecord
<1>1. /\ \A t \in Tasks : PhaseOf(t)' = IF t \in new THEN "queued" ELSE PhaseOf(t)
      /\ \A t \in new : PhaseOf(t) \in {"absent"}
  BY DEF PhaseOf
<1>2. \A t \in Tasks : OutcomeOf(t)' = OutcomeOf(t)
  BY DEF OutcomeOf, Terminal, TerminalStatuses
<1>3. Lifecycle!Admit(new)
  BY <1>1, <1>2, LifecycleMove, LifecycleFrame DEF Lifecycle!Admit
<1> QED  BY <1>3 DEF Lifecycle!Next

\* Every call of an agent is a step of a task's life or changes nothing of it.
LEMMA LifecycleAgentStep ==
  ASSUME LeaseInv, AgentCalls
  PROVE  Lifecycle!Next \/ UNCHANGED Lifecycle!vars
<1> USE DEF LeaseInv, TypeOK
<1>1. ASSUME NEW n \in Nodes, NEW t \in Tasks, ClaimNextPendingTaskForNode(n, t)
      PROVE  Lifecycle!Next
  <2>1. status[t] = "pending" /\ t \in Agents
    BY <1>1, StoreAssumption DEF ClaimNextPendingTaskForNode, OldestOf, ControllerOwnedTypes, Agents
  <2>2. /\ \A u \in Tasks : PhaseOf(u)' = IF u \in {t} THEN "offered" ELSE PhaseOf(u)
        /\ \A u \in {t} : PhaseOf(u) \in {"queued"}
    BY <1>1, <2>1 DEF ClaimNextPendingTaskForNode, PhaseOf
  <2>3. \A u \in Tasks : OutcomeOf(u)' = OutcomeOf(u)
    BY <1>1, <2>1 DEF ClaimNextPendingTaskForNode, OutcomeOf, Terminal, TerminalStatuses
  <2>4. Lifecycle!Offer(t)
    BY <1>1, <2>1, <2>2, <2>3, LifecycleMove, LifecycleFrame
       DEF Lifecycle!Offer, Agents, ClaimNextPendingTaskForNode
  <2> QED  BY <2>4 DEF Lifecycle!Next
<1>2. ASSUME NEW t \in Tasks, NEW e \in issued,
             AcknowledgeTaskExecution(t, e) \/ RenewTaskExecution(t, e)
      PROVE  Lifecycle!Next \/ UNCHANGED Lifecycle!vars
  <2>1. \A u \in Tasks : OutcomeOf(u)' = OutcomeOf(u)
    BY <1>2 DEF AcknowledgeTaskExecution, RenewTaskExecution, OutcomeOf, Terminal
  <2>2. CASE state[t] = "offered"
    <3>1. /\ \A u \in Tasks : PhaseOf(u)' = IF u \in {t} THEN "working" ELSE PhaseOf(u)
          /\ \A u \in {t} : PhaseOf(u) \in {"offered"}
      BY <1>2, <2>2 DEF AcknowledgeTaskExecution, RenewTaskExecution, CanAcknowledge, Current,
         PhaseOf
    <3>2. Lifecycle!Accept(t)
      BY <1>2, <2>1, <3>1, LifecycleMove, LifecycleFrame
         DEF Lifecycle!Accept, AcknowledgeTaskExecution, RenewTaskExecution
    <3> QED  BY <3>2 DEF Lifecycle!Next
  <2>3. CASE state[t] # "offered"
    <3>1. \A u \in Tasks : PhaseOf(u)' = PhaseOf(u)
      BY <1>2, <2>3 DEF AcknowledgeTaskExecution, RenewTaskExecution, CanAcknowledge, Current,
         PhaseOf
    <3> QED  BY <1>2, <2>1, <3>1, LifecycleStutter DEF AcknowledgeTaskExecution, RenewTaskExecution
  <2> QED  BY <2>2, <2>3
<1>3. ASSUME NEW t \in Tasks, NEW e \in issued, NEW st \in TerminalStatuses, NEW sm \in Summaries,
             CompleteTaskExecution(t, e, st, sm)
      PROVE  Lifecycle!Next
  BY <1>3, LifecycleFinish DEF CompleteTaskExecution, Current
<1>4. ASSUME UNCHANGED <<rowVars, outbox>> PROVE UNCHANGED Lifecycle!vars
  BY <1>4, LifecycleStutter DEF rowVars, PhaseOf, OutcomeOf, Terminal
<1> QED  BY <1>1, <1>2, <1>3, <1>4 DEF AgentCalls, UpsertTaskStep,
            UpdateServiceInstanceRuntimeStatus

\* And so is every call of the controller.
LEMMA LifecycleControllerStep ==
  ASSUME LeaseInv, ControllerCalls
  PROVE  Lifecycle!Next \/ UNCHANGED Lifecycle!vars
<1> USE DEF LeaseInv, TypeOK
<1>1. ASSUME NEW t \in Tasks, NEW type \in ControllerOwnedTypes, ClaimNextPendingTaskOfType(type, t)
      PROVE  Lifecycle!Next
  <2>1. status[t] = "pending" /\ state[t] = "none" /\ t \notin Agents
    BY <1>1 DEF ClaimNextPendingTaskOfType, OldestOf, ExecutionColumnsAgree, Agents
  <2>2. /\ \A u \in Tasks : PhaseOf(u)' = IF u \in {t} THEN "working" ELSE PhaseOf(u)
        /\ \A u \in {t} : PhaseOf(u) \in {"queued"}
    BY <1>1, <2>1 DEF ClaimNextPendingTaskOfType, PhaseOf
  <2>3. \A u \in Tasks : OutcomeOf(u)' = OutcomeOf(u)
    BY <1>1, <2>1 DEF ClaimNextPendingTaskOfType, OutcomeOf, Terminal, TerminalStatuses
  <2>4. Lifecycle!Begin(t)
    BY <1>1, <2>1, <2>2, <2>3, LifecycleMove, LifecycleFrame
       DEF Lifecycle!Begin, Agents, ClaimNextPendingTaskOfType
  <2> QED  BY <2>4 DEF Lifecycle!Next
<1>2. ASSUME NEW t \in Tasks, NEW st \in TerminalStatuses, NEW sm \in Summaries,
             TypeOf[t] \in ControllerOwnedTypes, CompleteTask(t, st, sm)
      PROVE  Lifecycle!Next
  <2>1. t \notin Agents /\ state[t] = "none"
    BY <1>2 DEF Agents, ExecutionColumnsAgree
  <2>2. PhaseOf(t) \in {"queued", "working", "confirming"}
    BY <1>2, <2>1 DEF CompleteTask, Active, ActiveStatuses, PhaseOf
  <2> QED  BY <1>2, <2>1, <2>2, LifecycleEnd DEF CompleteTask
<1>3. ASSUME NEW t \in Tasks, TypeOf[t] = "migrate",
             TransitionTaskStatus(t, "running", "awaiting_confirmation")
      PROVE  Lifecycle!Next
  <2>1. t \notin Agents /\ state[t] = "none" /\ status[t] = "running"
    BY <1>3 DEF Agents, ExecutionColumnsAgree, ControllerOwnedTypes, TransitionTaskStatus
  <2>2. /\ \A u \in Tasks : PhaseOf(u)' = IF u \in {t} THEN "confirming" ELSE PhaseOf(u)
        /\ \A u \in {t} : PhaseOf(u) \in {"working"}
    BY <1>3, <2>1 DEF TransitionTaskStatus, PhaseOf
  <2>3. \A u \in Tasks : OutcomeOf(u)' = OutcomeOf(u)
    BY <1>3, <2>1 DEF TransitionTaskStatus, OutcomeOf, Terminal, TerminalStatuses
  <2>4. Lifecycle!AskConfirmation(t)
    BY <1>3, <2>1, <2>2, <2>3, LifecycleMove, LifecycleFrame
       DEF Lifecycle!AskConfirmation, Agents, TransitionTaskStatus
  <2> QED  BY <2>4 DEF Lifecycle!Next
<1>4. ASSUME NEW t \in Tasks, TypeOf[t] = "migrate",
             TransitionTaskStatus(t, "awaiting_confirmation", "pending")
      PROVE  Lifecycle!Next
  <2>1. t \notin Agents /\ state[t] = "none" /\ status[t] = "awaiting_confirmation"
    BY <1>4 DEF Agents, ExecutionColumnsAgree, ControllerOwnedTypes, TransitionTaskStatus
  <2>2. /\ \A u \in Tasks : PhaseOf(u)' = IF u \in {t} THEN "queued" ELSE PhaseOf(u)
        /\ \A u \in {t} : PhaseOf(u) \in {"confirming"}
    BY <1>4, <2>1 DEF TransitionTaskStatus, PhaseOf
  <2>3. \A u \in Tasks : OutcomeOf(u)' = OutcomeOf(u)
    BY <1>4, <2>1 DEF TransitionTaskStatus, OutcomeOf, Terminal, TerminalStatuses
  <2>4. Lifecycle!Confirm(t)
    BY <1>4, <2>1, <2>2, <2>3, LifecycleMove, LifecycleFrame
       DEF Lifecycle!Confirm, Agents, TransitionTaskStatus
  <2> QED  BY <2>4 DEF Lifecycle!Next
<1>5. ASSUME NEW t \in Tasks, LeaseExpires(t) PROVE UNCHANGED Lifecycle!vars
  BY <1>5, LifecycleStutter DEF LeaseExpires, PhaseOf, OutcomeOf, Terminal
<1>6. ASSUME SweepExpiredTaskExecutions PROVE Lifecycle!Next
  <2> DEFINE back == {t \in Tasks : Swept(t, "offered")}
  <2>1. \A t \in back : PhaseOf(t) \in {"offered"}
    BY DEF Swept, PhaseOf
  <2>2. \A t \in Tasks : PhaseOf(t)' = IF t \in back THEN "queued" ELSE PhaseOf(t)
    BY <1>6 DEF SweepExpiredTaskExecutions, Swept, PhaseOf
  <2>3. \A t \in Tasks : OutcomeOf(t)' = OutcomeOf(t)
    BY <1>6 DEF SweepExpiredTaskExecutions, Swept, OutcomeOf, Terminal, TerminalStatuses
  <2>4. Lifecycle!Withdraw(back)
    BY <1>6, <2>1, <2>2, <2>3, LifecycleMove, LifecycleFrame
       DEF Lifecycle!Withdraw, SweepExpiredTaskExecutions
  <2> QED  BY <2>4 DEF Lifecycle!Next
<1>7. ASSUME NEW t \in Tasks, NEW sm \in Summaries, FailLostTaskExecution(t, sm)
      PROVE  Lifecycle!Next
  BY <1>7, LifecycleFinish DEF FailLostTaskExecution, TerminalStatuses
<1>8. ASSUME UNCHANGED <<rowVars, outbox>> PROVE UNCHANGED Lifecycle!vars
  BY <1>8, LifecycleStutter DEF rowVars, PhaseOf, OutcomeOf, Terminal
<1> QED  BY <1>1, <1>2, <1>3, <1>4, <1>5, <1>6, <1>7, <1>8 DEF ControllerCalls, UpsertTaskStep

\* Every behaviour of the task table is a behaviour of the abstract task life:
\* a task is admitted once, worked on by one agent, ended once and published in
\* the step that ends it.
THEOREM StoreImplementsLifecycle == StoreSpec => ImplementsLifecycle
<1>1. StoreInit => Lifecycle!Init
  BY DEF StoreInit, Lifecycle!Init, PhaseOf, Terminal, TerminalStatuses
<1>2. LeaseInv /\ [StoreNext]_storeVars => [Lifecycle!Next]_(Lifecycle!vars)
  <2> SUFFICES ASSUME LeaseInv, [StoreNext]_storeVars
               PROVE  Lifecycle!Next \/ UNCHANGED Lifecycle!vars
    OBVIOUS
  <2>1. CASE Admit
    BY <2>1, LifecycleAdmit DEF Admit, CreateTask, CreateTaskWithConstraints,
       CreateTasksIfNoActiveServiceInstanceTasks
  <2>2. CASE UNCHANGED storeVars
    BY <2>2, LifecycleStutter DEF storeVars, rowVars, PhaseOf, OutcomeOf, Terminal
  <2> QED  BY <2>1, <2>2, LifecycleAgentStep, LifecycleControllerStep DEF StoreNext
<1> QED  BY <1>1, <1>2, StoreLeaseInv, PTL DEF StoreSpec, ImplementsLifecycle, Lifecycle!Spec

=============================================================================
