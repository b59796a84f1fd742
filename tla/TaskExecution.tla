--------------------------- MODULE TaskExecution ---------------------------
(***************************************************************************)
(* The leased execution protocol between the agents and the controller:    *)
(* agents pull a task, persist it, acknowledge it, execute it, persist its *)
(* completion and report it (internal/app/agent/run.go, task_execution.go, *)
(* task_lifecycle.go), and the controller answers from the task table      *)
(* (internal/app/controller/agent_task.go, agent_report.go over            *)
(* TaskStore).                                                             *)
(*                                                                         *)
(* An agent has one task loop, which has at most one RPC outstanding       *)
(* (call).  When the agent stops waiting for it - a timeout, a broken      *)
(* connection, a crash - the request is either lost or goes on without its *)
(* caller (stray) and reaches the controller at any later time.  Lease     *)
(* renewals run beside the task loop, so they are stray from the start.    *)
(* Every such fault is counted, and MaxFaults bounds them.                 *)
(***************************************************************************)
EXTENDS TaskStore

CONSTANTS
  DataOf,       \* the data names a backup task carries, {} for other tasks
  MaxFaults,    \* bound on crashes, failed calls, lost requests and late agents
  MaxStray,     \* bound on requests in flight without a caller
  None          \* no file, no call, no data name

ASSUME ExecutionAssumption ==
  /\ MaxFaults \in Nat
  /\ MaxStray \in Nat
  /\ {"error", "restarted", "timeout", "operator"} \subseteq Summaries
  /\ \A t \in Tasks : DataOf[t] # {} => TypeOf[t] = "backup"

VARIABLES
  disk,      \* task-execution.json of each agent, None when it does not exist
  pc,        \* where the task loop of each agent is
  call,      \* its outstanding RPC and the reply to it
  todo,      \* the data items its execution has not backed up yet
  stray,     \* requests whose caller no longer waits
  backups,   \* rows of the backups table: <<task, data name, status>>
  faults,
  ran,       \* history: the executions an agent began to carry out
  decided,   \* history: the first completion persisted for a task
  archived,  \* history: completions an agent archived as conflicting
  resolved   \* history: the tasks an operator failed as lost

agentVars == <<disk, pc, call, todo>>
historyVars == <<ran, decided, archived, resolved>>
vars == <<storeVars, agentVars, stray, backups, faults, historyVars>>

AgentTask(t) == TypeOf[t] \notin ControllerOwnedTypes

-----------------------------------------------------------------------------
(* Requests and replies *)

Waiting == [code |-> "waiting"]
Ok == [code |-> "ok"]
Rejected == [code |-> "rejected"]
Conflict == [code |-> "conflict"]
NoTask == [code |-> "no_task"]
Offer(t, e) == [code |-> "offer", task |-> t, execution |-> e]

Pull(n) == [kind |-> "pull", node |-> n]
Ack(t, e) == [kind |-> "ack", task |-> t, execution |-> e]
Renew(t, e) == [kind |-> "renew", task |-> t, execution |-> e]
Backup(t, e, b) ==
  [kind |-> "backup", task |-> t, execution |-> e, result |-> b, checked |-> FALSE]
Report(t, e, st, sm) ==
  [kind |-> "report", task |-> t, execution |-> e, status |-> st, summary |-> sm]

Send(n, at, r) ==
  /\ pc' = [pc EXCEPT ![n] = at]
  /\ call' = [call EXCEPT ![n] = [request |-> r, reply |-> Waiting]]

Return(n, at) ==
  /\ pc' = [pc EXCEPT ![n] = at]
  /\ call' = [call EXCEPT ![n] = None]

-----------------------------------------------------------------------------
(* The controller's handlers.  Handle(r, reply) serves request r. *)

PullNextTask(r, reply) ==
  \/ \E t \in Tasks :
       /\ ClaimNextPendingTaskForNode(r.node, t)
       /\ reply = Offer(t, NewExecutionID)
  \/ /\ \A t \in Tasks : ~(status[t] = "pending" /\ NodeOf[t] = r.node /\ AgentTask(t))
     /\ reply = NoTask
     /\ UNCHANGED storeVars

\* Mutant: an expired offer can still be acknowledged.
AcknowledgeTaskLate(r, reply) ==
  /\ status[r.task] = "running" /\ execution[r.task] = r.execution
  /\ state[r.task] \in {"offered", "accepted"}
  /\ reply = Ok
  /\ state' = [state EXCEPT ![r.task] = "accepted"]
  /\ expired' = [expired EXCEPT ![r.task] = FALSE]
  /\ UNCHANGED <<status, execution, summary, issued, steps, serviceVars, outbox>>

AcknowledgeTask(r, reply) ==
  \/ AcknowledgeTaskExecution(r.task, r.execution) /\ reply = Ok
  \/ /\ ~CanAcknowledge(r.task, r.execution)
     /\ reply = Rejected
     /\ UNCHANGED storeVars

RenewTaskLease(r, reply) ==
  \/ RenewTaskExecution(r.task, r.execution) /\ reply = Ok
  \/ ~Current(r.task, r.execution) /\ reply = Rejected /\ UNCHANGED storeVars

ReportTaskState(r, reply) ==
  \/ CompleteTaskExecution(r.task, r.execution, r.status, r.summary) /\ reply = Ok
  \/ /\ ~Current(r.task, r.execution)
     /\ reply = IF AlreadyCompleted(r.task, r.execution, r.status, r.summary)
                THEN Ok ELSE Rejected
     /\ UNCHANGED storeVars

\* InsertBackupResult: a row of another content is a conflict, the same row is
\* accepted again.
InsertBackupResult(t, b, reply) ==
  IF \E row \in backups : row[1] = t /\ row[2] = b.data /\ row[3] # b.status
  THEN reply = Conflict /\ UNCHANGED backups
  ELSE reply = Ok /\ backups' = backups \cup {<<t, b.data, b.status>>}

\* ReportBackupResult checks the execution and inserts the row in two separate
\* statements: a checked request only has its INSERT left.
ReportBackupResult(r, reply) ==
  \/ r.checked /\ InsertBackupResult(r.task, r.result, reply)
  \/ /\ ~r.checked /\ ~Current(r.task, r.execution)
     /\ reply = Rejected
     /\ UNCHANGED backups

Handle(r, reply) ==
  \/ /\ UNCHANGED backups
     /\ \/ r.kind = "pull" /\ PullNextTask(r, reply)
        \/ r.kind = "ack" /\ AcknowledgeTask(r, reply)
        \/ r.kind = "renew" /\ RenewTaskLease(r, reply)
        \/ r.kind = "report" /\ ReportTaskState(r, reply)
  \/ r.kind = "backup" /\ ReportBackupResult(r, reply) /\ UNCHANGED storeVars

\* ensureCurrentTaskExecution of ReportBackupResult.
CheckPassed(r) ==
  /\ r.kind = "backup" /\ ~r.checked
  /\ Current(r.task, r.execution)

Replies == {Ok, Rejected, Conflict, NoTask} \cup {Offer(t, e) : t \in Tasks, e \in ExecutionIDs}

Serve(n) ==
  /\ call[n] # None /\ call[n].reply = Waiting
  /\ LET r == call[n].request
     IN  \/ \E reply \in Replies :
              /\ Handle(r, reply)
              /\ call' = [call EXCEPT ![n].reply = reply]
         \/ /\ CheckPassed(r)
            /\ call' = [call EXCEPT ![n].request.checked = TRUE]
            /\ UNCHANGED <<storeVars, backups>>
  /\ UNCHANGED <<disk, pc, todo, stray, faults, historyVars>>

ServeStray(r) ==
  /\ \/ (\E reply \in Replies : Handle(r, reply)) /\ stray' = stray \ {r}
     \/ /\ CheckPassed(r)
        /\ stray' = (stray \ {r}) \cup {[r EXCEPT !.checked = TRUE]}
        /\ UNCHANGED <<storeVars, backups>>
  /\ UNCHANGED <<agentVars, faults, historyVars>>

-----------------------------------------------------------------------------
(* The agent's task loop *)

DataNames == UNION {DataOf[t] : t \in Tasks}
Results == [data : DataNames, status : {"succeeded", "failed"}]
NoCompletion == [status |-> "none", summary |-> ""]
Replied(n, at) == pc[n] = at /\ call[n] # None /\ call[n].reply # Waiting
Code(n) == call[n].reply.code
Holding(n) == disk[n] # None

\* What an agent that finds a file does before it pulls again.
pollAndRunTask(n) ==
  /\ pc[n] = "idle" /\ ~Holding(n)
  /\ Send(n, "pull", Pull(n))
  /\ UNCHANGED <<storeVars, disk, todo, stray, backups, faults, historyVars>>

PullReturns(n) ==
  /\ Replied(n, "pull")
  /\ \/ /\ Code(n) = "offer"
        /\ LET t == call[n].reply.task
               e == call[n].reply.execution
           IN  /\ disk' = [disk EXCEPT ![n] =
                     [task |-> t, execution |-> e, acknowledged |-> FALSE,
                      completion |-> NoCompletion, backup |-> None]]
               /\ Send(n, "ack", Ack(t, e))
     \/ Code(n) = "no_task" /\ Return(n, "idle") /\ UNCHANGED disk
  /\ UNCHANGED <<storeVars, todo, stray, backups, faults, historyVars>>

removeTaskExecutionState(n) == disk' = [disk EXCEPT ![n] = None]

\* The acknowledgement of the poll starts the execution, the one of the
\* recovery only remembers that the offer was accepted.
AckReturns(n) ==
  /\ \/ Replied(n, "ack") \/ Replied(n, "recover_ack")
  /\ \/ /\ Code(n) = "ok"
        /\ disk' = [disk EXCEPT ![n].acknowledged = TRUE]
        /\ Return(n, IF pc[n] = "ack" THEN "run" ELSE "idle")
        /\ IF pc[n] = "ack"
           THEN /\ todo' = [todo EXCEPT ![n] = DataOf[disk[n].task]]
                /\ ran' = ran \cup {<<disk[n].task, disk[n].execution>>}
           ELSE UNCHANGED <<todo, ran>>
     \/ /\ Code(n) = "rejected"
        /\ removeTaskExecutionState(n)
        /\ Return(n, "idle")
        /\ UNCHANGED <<todo, ran>>
  /\ UNCHANGED <<storeVars, stray, backups, faults, decided, archived, resolved>>

renewTaskLease(n) ==
  /\ pc[n] \in {"run", "backup", "failing", "report", "report_again"} /\ Holding(n)
  /\ LET r == Renew(disk[n].task, disk[n].execution)
     IN  r \notin stray /\ stray' = stray \cup {r}
  /\ Cardinality(stray) < MaxStray
  /\ UNCHANGED <<storeVars, agentVars, backups, faults, historyVars>>

\* The backup of one data item ended.  Its result is persisted and sent.
reportBackupResult(n) ==
  /\ pc[n] = "run" /\ disk[n].backup = None
  /\ \E d \in todo[n], st \in {"succeeded", "failed"} :
       LET b == [data |-> d, status |-> st]
       IN  /\ disk' = [disk EXCEPT ![n].backup = b]
           /\ Send(n, "backup", Backup(disk[n].task, disk[n].execution, b))
  /\ UNCHANGED <<storeVars, todo, stray, backups, faults, historyVars>>

\* It is sent again, every 500 ms, until the controller takes it.
resendBackupResult(n) ==
  /\ pc[n] = "run" /\ disk[n].backup # None
  /\ Send(n, "backup", Backup(disk[n].task, disk[n].execution, disk[n].backup))
  /\ UNCHANGED <<storeVars, disk, todo, stray, backups, faults, historyVars>>

\* A taken result is removed from the file.  A failed item ends the execution.
BackupReturns(n) ==
  /\ Replied(n, "backup")
  /\ IF Code(n) = "ok"
     THEN LET b == disk[n].backup
          IN  /\ disk' = [disk EXCEPT ![n].backup = None]
              /\ todo' = [todo EXCEPT ![n] = @ \ {b.data}]
              /\ Return(n, IF b.status = "failed" THEN "failing" ELSE "run")
     ELSE Return(n, "run") /\ UNCHANGED <<disk, todo>>
  /\ UNCHANGED <<storeVars, stray, backups, faults, historyVars>>

\* Mutant: the last completion replaces the first.
storeCompletionReplaces(n, c) ==
  /\ disk[n].backup = None
  /\ disk' = [disk EXCEPT ![n].completion = c]
  /\ decided' = IF disk[n].completion = NoCompletion
                THEN [decided EXCEPT ![disk[n].task] = c.status] ELSE decided

\* Mutant: the completion is kept in memory only.
storeCompletionInMemory(n, c) ==
  /\ disk[n].backup = None
  /\ decided' = [decided EXCEPT ![disk[n].task] = c.status]
  /\ UNCHANGED disk

\* storeCompletion keeps the first completion.
storeCompletion(n, c) ==
  /\ disk[n].backup = None
  /\ IF disk[n].completion = NoCompletion
     THEN /\ disk' = [disk EXCEPT ![n].completion = c]
          /\ decided' = [decided EXCEPT ![disk[n].task] = c.status]
     ELSE UNCHANGED <<disk, decided>>

\* reportTaskCompletion of an execution that ended.
Finish(n, c) ==
  /\ \/ pc[n] = "run" /\ (c.status = "succeeded" => todo[n] = {})
     \/ pc[n] = "failing" /\ c.status = "failed"
  /\ storeCompletion(n, c)
  /\ Send(n, "report", Report(disk[n].task, disk[n].execution, c.status, c.summary))
  /\ UNCHANGED <<storeVars, todo, stray, backups, faults, ran, archived, resolved>>

Completions == {[status |-> "succeeded", summary |-> ""],
                [status |-> "failed", summary |-> "error"]}

\* The deadline of an execution passes while a backup result is still not
\* taken: no completion can be persisted, and the loop starts over.
Abandon(n) ==
  /\ pc[n] = "run" /\ disk[n].backup # None
  /\ Return(n, "idle")
  /\ UNCHANGED <<storeVars, disk, todo, stray, backups, faults, historyVars>>

\* failTask reports a failure, and executePulledTaskWithTimeout reports it
\* again, with the summary of the timeout if the deadline has passed.
ReportReturns(n) ==
  /\ Replied(n, "report")
  /\ IF Code(n) = "ok" THEN removeTaskExecutionState(n) ELSE UNCHANGED disk
  /\ LET r == call[n].request
     IN  IF r.status = "succeeded"
         THEN Return(n, "idle")
         ELSE \E sm \in {r.summary, "timeout"} :
                Send(n, "report_again", Report(r.task, r.execution, r.status, sm))
  /\ UNCHANGED <<storeVars, todo, stray, backups, faults, historyVars>>

ReportAgainReturns(n) ==
  /\ Replied(n, "report_again")
  /\ IF Code(n) = "ok" THEN removeTaskExecutionState(n) ELSE UNCHANGED disk
  /\ Return(n, "idle")
  /\ UNCHANGED <<storeVars, todo, stray, backups, faults, historyVars>>

-----------------------------------------------------------------------------
(* recoverTaskExecution: what the loop does first when it finds a file *)

RecoverAck(n) ==
  /\ pc[n] = "idle" /\ Holding(n)
  /\ disk[n].completion = NoCompletion /\ ~disk[n].acknowledged
  /\ Send(n, "recover_ack", Ack(disk[n].task, disk[n].execution))
  /\ UNCHANGED <<storeVars, disk, todo, stray, backups, faults, historyVars>>

RecoverBackup(n) ==
  /\ pc[n] = "idle" /\ Holding(n)
  /\ disk[n].acknowledged /\ disk[n].backup # None
  /\ Send(n, "recover_backup",
          Backup(disk[n].task, disk[n].execution, disk[n].backup))
  /\ UNCHANGED <<storeVars, disk, todo, stray, backups, faults, historyVars>>

RecoverBackupReturns(n) ==
  /\ Replied(n, "recover_backup")
  /\ IF Code(n) = "ok" THEN disk' = [disk EXCEPT ![n].backup = None]
                       ELSE UNCHANGED disk
  /\ Return(n, "idle")
  /\ UNCHANGED <<storeVars, todo, stray, backups, faults, historyVars>>

Restarted == [status |-> "failed", summary |-> "restarted"]

RecoverReport(n) ==
  /\ pc[n] = "idle" /\ Holding(n)
  /\ disk[n].acknowledged
  /\ storeCompletion(n, Restarted)
  /\ LET c == disk'[n].completion
     IN  Send(n, "recover_report",
              Report(disk[n].task, disk[n].execution, c.status, c.summary))
  /\ UNCHANGED <<storeVars, todo, stray, backups, faults, ran, archived, resolved>>

\* Mutant: a rejected recovery report is tried again for ever.
RecoverReportRetries(n) ==
  /\ Replied(n, "recover_report")
  /\ IF Code(n) = "ok" THEN removeTaskExecutionState(n) ELSE UNCHANGED disk
  /\ Return(n, "idle")
  /\ UNCHANGED <<storeVars, todo, stray, backups, faults, historyVars>>

RecoverReportReturns(n) ==
  /\ Replied(n, "recover_report")
  /\ removeTaskExecutionState(n)
  /\ archived' = IF Code(n) = "rejected"
                 THEN archived \cup {<<disk[n].task, disk[n].completion.status>>}
                 ELSE archived
  /\ Return(n, "idle")
  /\ UNCHANGED <<storeVars, todo, stray, backups, faults, ran, decided, resolved>>

-----------------------------------------------------------------------------
(* Faults *)

\* The request of a call its agent gives up on is lost or goes astray; a
\* reply is lost.
Drop(n) ==
  \/ stray' = stray
  \/ /\ call[n].reply = Waiting /\ Cardinality(stray) < MaxStray
     /\ stray' = stray \cup {call[n].request}

\* Mutant: a backup result whose call failed is dropped.
CallFailsDropsResult(n) ==
  /\ call[n] # None /\ faults < MaxFaults
  /\ faults' = faults + 1
  /\ Drop(n)
  /\ IF pc[n] = "backup"
     THEN /\ disk' = [disk EXCEPT ![n].backup = None]
          /\ todo' = [todo EXCEPT ![n] = @ \ {disk[n].backup.data}]
     ELSE UNCHANGED <<disk, todo>>
  /\ Return(n, IF pc[n] = "backup" THEN "run" ELSE "idle")
  /\ UNCHANGED <<storeVars, backups, historyVars>>

CallFails(n) ==
  /\ call[n] # None /\ faults < MaxFaults
  /\ faults' = faults + 1
  /\ Drop(n)
  /\ IF pc[n] = "report" /\ call[n].request.status = "failed"
     THEN LET r == call[n].request
          IN  \E sm \in {r.summary, "timeout"} :
                Send(n, "report_again", Report(r.task, r.execution, r.status, sm))
     ELSE Return(n, IF pc[n] = "backup" THEN "run" ELSE "idle")
  /\ UNCHANGED <<storeVars, disk, todo, backups, historyVars>>

Crash(n) ==
  /\ faults < MaxFaults
  /\ pc[n] # "idle"
  /\ faults' = faults + 1
  /\ IF call[n] = None THEN stray' = stray ELSE Drop(n)
  /\ Return(n, "idle")
  /\ UNCHANGED <<storeVars, disk, todo, backups, historyVars>>

LoseStray(r) ==
  /\ r \in stray
  /\ r.kind = "renew" \/ faults < MaxFaults
  /\ faults' = IF r.kind = "renew" THEN faults ELSE faults + 1
  /\ stray' = stray \ {r}
  /\ UNCHANGED <<storeVars, agentVars, backups, historyVars>>

-----------------------------------------------------------------------------
(* The controller's own steps *)

AdmitTasks ==
  /\ Admit
  /\ UNCHANGED <<agentVars, stray, backups, faults, historyVars>>

\* Some agent may still acknowledge the offer of t.
Held(t) ==
  \E n \in Nodes :
    \/ Holding(n) /\ disk[n].execution = execution[t]
    \/ call[n] # None /\ call[n].reply = Offer(t, execution[t])

\* The lease of 60 s passes.  That an agent takes longer to acknowledge an
\* offer it holds is a fault.
TimePasses(t) ==
  /\ LeaseExpires(t)
  /\ IF state[t] = "offered" /\ Held(t)
     THEN faults < MaxFaults /\ faults' = faults + 1
     ELSE UNCHANGED faults
  /\ UNCHANGED <<agentVars, stray, backups, historyVars>>

Sweep ==
  /\ SweepExpiredTaskExecutions
  /\ UNCHANGED <<agentVars, stray, backups, faults, historyVars>>

OperatorFailsLost(t) ==
  /\ FailLostTaskExecution(t, "operator")
  /\ resolved' = resolved \cup {t}
  /\ UNCHANGED <<agentVars, stray, backups, faults, ran, decided, archived>>

-----------------------------------------------------------------------------
Init ==
  /\ StoreInit
  /\ disk = [n \in Nodes |-> None]
  /\ pc = [n \in Nodes |-> "idle"]
  /\ call = [n \in Nodes |-> None]
  /\ todo = [n \in Nodes |-> {}]
  /\ stray = {}
  /\ backups = {}
  /\ faults = 0
  /\ ran = {}
  /\ decided = [t \in Tasks |-> "none"]
  /\ archived = {}
  /\ resolved = {}

Loop(n) ==
  \/ pollAndRunTask(n) \/ PullReturns(n) \/ AckReturns(n)
  \/ reportBackupResult(n) \/ resendBackupResult(n) \/ BackupReturns(n)
  \/ \E c \in Completions : Finish(n, c)
  \/ ReportReturns(n) \/ ReportAgainReturns(n)
  \/ RecoverAck(n) \/ RecoverBackup(n) \/ RecoverBackupReturns(n)
  \/ RecoverReport(n) \/ RecoverReportReturns(n)

Next ==
  \/ \E n \in Nodes : \/ Loop(n) \/ Abandon(n) \/ renewTaskLease(n)
                      \/ Serve(n) \/ CallFails(n) \/ Crash(n)
  \/ \E r \in stray : ServeStray(r) \/ LoseStray(r)
  \/ AdmitTasks \/ Sweep
  \/ \E t \in Tasks : TimePasses(t) \/ OperatorFailsLost(t)

Spec == Init /\ [][Next]_vars

\* The agents keep polling, the controller answers the requests that reach it,
\* the sweeper runs every 15 s and an execution has a deadline of 6 h.  Nothing
\* is assumed of the faults, of the admission of tasks, of lease renewals or of
\* an operator.
FairSpec ==
  /\ Spec
  /\ \A n \in Nodes : WF_vars(Loop(n)) /\ WF_vars(Serve(n)) /\ SF_vars(Abandon(n))
  /\ \A t \in Tasks : WF_vars(TimePasses(t))
  /\ WF_vars(Sweep)

-----------------------------------------------------------------------------
(* Properties *)

Requests ==
  [kind : {"pull"}, node : Nodes]
  \cup [kind : {"ack", "renew"}, task : Tasks, execution : ExecutionIDs]
  \cup [kind : {"backup"}, task : Tasks, execution : ExecutionIDs,
         result : Results, checked : BOOLEAN]
  \cup [kind : {"report"}, task : Tasks, execution : ExecutionIDs,
         status : {"succeeded", "failed"}, summary : Summaries]

Labels == {"idle", "pull", "ack", "run", "backup", "failing", "report",
           "report_again", "recover_ack", "recover_backup", "recover_report"}

Files == [task : Tasks, execution : ExecutionIDs, acknowledged : BOOLEAN,
          completion : Completions \cup {NoCompletion, Restarted},
          backup : Results \cup {None}]

Calls == [request : Requests, reply : Replies \cup {Waiting}]

\* The absence of a file, a call or a result is none of them.
ASSUME NoneAssumption == None \notin Files /\ None \notin Calls /\ None \notin Results

\* The types of the agents' and the protocol's variables.
ProtocolTypeOK ==
  /\ TypeOK
  /\ disk \in [Nodes -> Files \cup {None}]
  /\ pc \in [Nodes -> Labels]
  /\ call \in [Nodes -> Calls \cup {None}]
  /\ todo \in [Nodes -> SUBSET DataNames]
  /\ stray \subseteq Requests
  /\ backups \subseteq Tasks \X DataNames \X {"succeeded", "failed"}
  /\ faults \in 0..MaxFaults
  /\ ran \subseteq Tasks \X ExecutionIDs
  /\ decided \in [Tasks -> {"none", "succeeded", "failed"}]
  /\ archived \subseteq Tasks \X {"succeeded", "failed"}
  /\ resolved \subseteq Tasks

\* The handlers and the agents drive the task table only through the steps of
\* TaskStore, with ids a claim has issued: the protocol implements it, and what
\* is proved of TaskStore holds of it.
ImplementsStore == StoreSpec

\* At most once: whatever is lost, repeated or late, and wherever an agent
\* crashes, no task is ever begun under two executions.  A deployment is not
\* run twice, and a backup is not taken twice.
RunsAtMostOnce ==
  \A x, y \in ran : x[1] = y[1] => x = y

\* The outcome the controller shows is the one the agent decided first, unless
\* an operator resolved the lost task: a duplicated failure report, a recovery
\* report and a late stray report can never overwrite or replace it.
OutcomeIsTheAgents ==
  \A t \in Tasks : (AgentTask(t) /\ Terminal(t) /\ t \notin resolved) =>
    decided[t] = status[t]

\* A decided completion is never lost: until the controller has recorded it (or
\* an operator resolved the task), it is in the agent's file, whatever crashed.
DecisionIsDurable ==
  \A t \in Tasks : decided[t] # "none" =>
    \/ Terminal(t)
    \/ LET f == disk[NodeOf[t]]
       IN  f # None /\ f.task = t /\ f.completion.status = decided[t]

\* A backup task that succeeded has a succeeded row for each of its data items:
\* the result of every item reached the table before the completion did.
SuccessHasEveryBackup ==
  \A t \in Tasks : status[t] = "succeeded" =>
    \A d \in DataOf[t] : <<t, d, "succeeded">> \in backups

\* While an agent works on an execution the controller does not have the task
\* in its queue, and does not know another execution of it.
WorkIsFenced ==
  \A n \in Nodes : pc[n] \in {"run", "backup", "failing"} =>
    LET t == disk[n].task
    IN  /\ execution[t] = disk[n].execution
        /\ state[t] \in {"accepted", "lease_lost"} \/ t \in resolved

\* A completion that an agent archives as conflicting loses nothing the
\* controller should have known: the recorded status is the archived one
\* (only its summary differs) or an operator had resolved the task.
ArchivedIsRecorded ==
  \A x \in archived : status[x[1]] = x[2] \/ x[1] \in resolved

\* Left to an operator: the lease is marked lost and no agent holds the task.
\* It happens to a task whose agent never learns that its acknowledgement was
\* taken: the sweep marks the lease lost, AcknowledgeTask then rejects the
\* repeated acknowledgement and the agent removes its file.
LeftToOperator(t) == state[t] = "lease_lost" /\ ~Held(t)

\* Every admitted agent task ends or is shown to the operator as lost, if its
\* agent and the controller keep running and the faults stop: no offer is
\* forgotten, no accepted execution stays silently running, and an interrupted
\* one is reported.
TasksEnd ==
  \A t \in Tasks :
    AgentTask(t) => (status[t] = "pending" ~> Terminal(t) \/ LeftToOperator(t))

\* An agent whose execution the controller has closed gives up its file and
\* goes on to the next task.
AgentGoesOn == \A n \in Nodes : disk[n] # None ~> disk[n] = None

=============================================================================
