------------------------ MODULE TaskExecutionProofs ------------------------
(***************************************************************************)
(* The leased execution protocol, for any number of tasks, agents, faults  *)
(* and requests in flight.  The protocol implements TaskStore, so what is  *)
(* proved of the task table holds here; the rest relates the table to what *)
(* the agents hold in their files and calls.                               *)
(***************************************************************************)
EXTENDS TaskExecution, TaskStoreProofs

\* The controller has accepted execution e of t, and will know it for ever.
Started(t, e) == execution[t] = e /\ state[t] \in {"accepted", "lease_lost", "completed"}

\* What holds of a request wherever it is, with or without a caller.
RequestInv(r) ==
  /\ r.kind # "pull" => r.execution \in issued
  /\ r.kind = "report" => Started(r.task, r.execution) /\ decided[r.task] = r.status

\* What an agent's file says is true.
FileInv(n) ==
  LET f == disk[n]
  IN  f # None =>
        /\ NodeOf[f.task] = n /\ AgentTask(f.task) /\ f.execution \in issued
        /\ decided[f.task] = f.completion.status
        /\ f.acknowledged => Started(f.task, f.execution)
        /\ f.completion # NoCompletion => f.acknowledged

OfferInv(n, reply) ==
  reply.code = "offer" =>
    /\ NodeOf[reply.task] = n /\ AgentTask(reply.task)
    /\ reply.execution \in issued /\ decided[reply.task] = "none"

\* What an agent waits for at each place of its loop, and what it then knows.
LoopInv(n) ==
  LET f == disk[n]
      c == call[n]
  IN  /\ pc[n] \in {"idle", "run", "failing"} <=> c = None
      /\ pc[n] = "pull" =>
           f = None /\ c.request = Pull(n) /\ OfferInv(n, c.reply)
      /\ pc[n] \in {"ack", "recover_ack"} =>
           /\ f # None /\ f.completion = NoCompletion
           /\ c.request = Ack(f.task, f.execution)
           /\ c.reply.code = "ok" => Started(f.task, f.execution)
      /\ pc[n] \in {"run", "backup", "failing"} =>
           f # None /\ f.completion = NoCompletion /\ f.acknowledged
      /\ pc[n] \in {"backup", "recover_backup"} =>
           /\ f # None /\ f.acknowledged /\ f.backup # None
           /\ c.request.kind = "backup"
           /\ c.request.task = f.task /\ c.request.execution = f.execution
           /\ c.request.result = f.backup
           /\ c.reply.code = "ok" => <<f.task, f.backup.data, f.backup.status>> \in backups
      /\ pc[n] \in {"report", "report_again", "recover_report"} =>
           /\ c.request.kind = "report"
           /\ f # None => f.task = c.request.task
           /\ c.reply # Waiting => Terminal(c.request.task)
      /\ pc[n] \in {"report", "recover_report"} => f # None
      /\ pc[n] \in {"run", "backup"} =>
           \A d \in DataOf[f.task] \ todo[n] : <<f.task, d, "succeeded">> \in backups

AgentInv(n) ==
  /\ FileInv(n)
  /\ LoopInv(n)
  /\ call[n] # None => RequestInv(call[n].request)

\* What the histories say of the table.
RanInv == \A x \in ran : Started(x[1], x[2])
DecidedInv ==
  \A t \in Tasks : decided[t] # "none" =>
    /\ AgentTask(t)
    /\ Terminal(t) \/ (NodeOf[t] \in Nodes /\ disk[NodeOf[t]] # None /\ disk[NodeOf[t]].task = t)
    /\ decided[t] = "succeeded" => \A d \in DataOf[t] : <<t, d, "succeeded">> \in backups
ArchivedInv ==
  \A x \in archived : Terminal(x[1]) /\ (status[x[1]] = x[2] \/ x[1] \in resolved)
ResolvedInv == \A t \in resolved : status[t] = "failed"

ProtocolInv ==
  /\ ProtocolTypeOK
  /\ LeaseInv
  /\ \A n \in Nodes : AgentInv(n)
  /\ \A r \in stray : RequestInv(r)
  /\ RanInv /\ DecidedInv /\ ArchivedInv /\ ResolvedInv
  /\ OutcomeIsTheAgents

-----------------------------------------------------------------------------
(* Requests and replies *)

\* What the fields of a request are, by its kind.
LEMMA RequestFields ==
  ASSUME NEW r \in Requests
  PROVE  /\ r.kind \in {"pull", "ack", "renew", "backup", "report"}
         /\ r.kind = "pull" => r.node \in Nodes
         /\ r.kind # "pull" => r.task \in Tasks /\ r.execution \in ExecutionIDs
         /\ r.kind = "backup" => r.result \in Results /\ r.checked \in BOOLEAN
         /\ r.kind = "report" => r.status \in {"succeeded", "failed"} /\ r.summary \in Summaries
BY DEF Requests

\* The requests an agent makes are requests.
LEMMA RequestTypes ==
  /\ \A n \in Nodes : Pull(n) \in Requests
  /\ \A t \in Tasks, e \in ExecutionIDs : Ack(t, e) \in Requests /\ Renew(t, e) \in Requests
  /\ \A t \in Tasks, e \in ExecutionIDs, b \in Results : Backup(t, e, b) \in Requests
  /\ \A t \in Tasks, e \in ExecutionIDs, st \in {"succeeded", "failed"}, sm \in Summaries :
       Report(t, e, st, sm) \in Requests
BY DEF Requests, Pull, Ack, Renew, Backup, Report

\* A request whose execution was checked is a request.
LEMMA CheckedType ==
  ASSUME NEW r \in Requests, r.kind = "backup"
  PROVE  [r EXCEPT !.checked = TRUE] \in Requests
BY DEF Requests

\* A reply tells its kind by its code.
LEMMA ReplyCodes ==
  ASSUME NEW r \in Replies
  PROVE  /\ r # Waiting
         /\ r.code \in {"ok", "rejected", "conflict", "no_task", "offer"}
         /\ r.code = "offer" => r.task \in Tasks /\ r.execution \in ExecutionIDs
BY DEF Replies, Waiting, Ok, Rejected, Conflict, NoTask, Offer

-----------------------------------------------------------------------------
(* The protocol drives the task table through its own operations *)

\* A handler makes at most one step of the store, with an id that was issued.
LEMMA HandleIsStoreStep ==
  ASSUME NEW r \in Requests, NEW reply, r.kind # "pull" => r.execution \in issued,
         Handle(r, reply)
  PROVE  [StoreNext]_storeVars
<1> USE RequestFields
<1>1. CASE r.kind = "pull" /\ PullNextTask(r, reply)
  BY <1>1 DEF PullNextTask, StoreNext, AgentCalls
<1>2. CASE r.kind = "ack" /\ AcknowledgeTask(r, reply)
  BY <1>2 DEF AcknowledgeTask, StoreNext, AgentCalls
<1>3. CASE r.kind = "renew" /\ RenewTaskLease(r, reply)
  BY <1>3 DEF RenewTaskLease, StoreNext, AgentCalls
<1>4. CASE r.kind = "report" /\ ReportTaskState(r, reply)
  BY <1>4 DEF ReportTaskState, StoreNext, AgentCalls, TerminalStatuses
<1> QED  BY <1>1, <1>2, <1>3, <1>4 DEF Handle

\* So does every step of the protocol, or it leaves the table alone.
LEMMA StepIsStoreStep ==
  ASSUME ProtocolTypeOK, \A n \in Nodes : AgentInv(n), \A r \in stray : RequestInv(r),
         [Next]_vars
  PROVE  [StoreNext]_storeVars
<1>1. ASSUME NEW n \in Nodes, Serve(n) PROVE [StoreNext]_storeVars
  <2>1. call[n].request \in Requests /\ RequestInv(call[n].request)
    BY <1>1 DEF Serve, ProtocolTypeOK, Calls, AgentInv
  <2> QED  BY <1>1, <2>1, HandleIsStoreStep DEF Serve, RequestInv
<1>2. ASSUME NEW r \in stray, ServeStray(r) PROVE [StoreNext]_storeVars
  BY <1>2, HandleIsStoreStep DEF ServeStray, RequestInv, ProtocolTypeOK
<1>3. CASE AdmitTasks
  BY <1>3 DEF AdmitTasks, StoreNext
<1>4. CASE Sweep
  BY <1>4 DEF Sweep, StoreNext, ControllerCalls
<1>5. ASSUME NEW t \in Tasks, TimePasses(t) PROVE [StoreNext]_storeVars
  BY <1>5 DEF TimePasses, StoreNext, ControllerCalls
<1>6. ASSUME NEW t \in Tasks, OperatorFailsLost(t) PROVE [StoreNext]_storeVars
  BY <1>6, ExecutionAssumption DEF OperatorFailsLost, StoreNext, ControllerCalls
<1>7. ASSUME NEW n \in Nodes, Loop(n) \/ Abandon(n) \/ renewTaskLease(n) \/ CallFails(n) \/ Crash(n)
      PROVE  UNCHANGED storeVars
  BY <1>7 DEF Loop, Abandon, renewTaskLease, CallFails, Crash, pollAndRunTask, PullReturns,
     AckReturns, reportBackupResult, resendBackupResult, BackupReturns, Finish, ReportReturns,
     ReportAgainReturns, RecoverAck, RecoverBackup, RecoverBackupReturns, RecoverReport,
     RecoverReportReturns
<1>8. ASSUME NEW r \in stray, LoseStray(r) PROVE UNCHANGED storeVars
  BY <1>8 DEF LoseStray
<1>9. CASE UNCHANGED vars
  BY <1>9 DEF vars
<1> QED  BY <1>1, <1>2, <1>3, <1>4, <1>5, <1>6, <1>7, <1>8, <1>9 DEF Next

\* What a step of the store leaves true: ids stay issued, a started execution
\* stays the task's execution, a terminal row stays as it is.
LEMMA StoreGrows ==
  ASSUME LeaseInv, [StoreNext]_storeVars
  PROVE  /\ issued \subseteq issued'
         /\ \A t \in Tasks : \A e : Started(t, e) => Started(t, e)'
         /\ \A t \in Tasks : Terminal(t) => Terminal(t)' /\ status'[t] = status[t]
<1>1. issued \subseteq issued'
  BY DEF storeVars, StoreNext, Admit, AgentCalls, ControllerCalls, CreateTask,
     CreateTasksIfNoActiveServiceInstanceTasks, CreateTaskWithConstraints, insertTaskRecord,
     ClaimNextPendingTaskForNode, ClaimNextPendingTaskOfType, AcknowledgeTaskExecution,
     RenewTaskExecution, CompleteTaskExecution, FinishExecution, FinishRow, UpsertTaskStep,
     UpdateServiceInstanceRuntimeStatus, CompleteTask, TransitionTaskStatus, LeaseExpires,
     SweepExpiredTaskExecutions, FailLostTaskExecution
<1>2. ASSUME NEW t \in Tasks PROVE Kept(t) /\ Final(t)
  BY AcceptedStep, TerminalStep DEF storeVars, rowVars, LeaseInv, Kept, Final, Terminal
<1> QED  BY <1>1, <1>2 DEF Kept, Final, Started, Terminal

-----------------------------------------------------------------------------
(* Type correctness *)

\* The part of ProtocolTypeOK that is not about the task table.
AgentTypeOK ==
  /\ disk \in [Nodes -> Files \cup {None}]
  /\ pc \in [Nodes -> Labels]
  /\ call \in [Nodes -> Calls \cup {None}]
  /\ todo \in [Nodes -> SUBSET DataNames]
HistoryTypeOK ==
  /\ stray \subseteq Requests
  /\ backups \subseteq Tasks \X DataNames \X {"succeeded", "failed"}
  /\ faults \in 0..MaxFaults
  /\ ran \subseteq Tasks \X ExecutionIDs
  /\ decided \in [Tasks -> {"none", "succeeded", "failed"}]
  /\ archived \subseteq Tasks \X {"succeeded", "failed"}
  /\ resolved \subseteq Tasks

LEMMA TypeParts == ProtocolTypeOK <=> TypeOK /\ AgentTypeOK /\ HistoryTypeOK
BY DEF ProtocolTypeOK, AgentTypeOK, HistoryTypeOK

\* A call that is sent, and one that has returned.
LEMMA SendType ==
  ASSUME AgentTypeOK, NEW n \in Nodes, NEW at \in Labels, NEW r \in Requests, Send(n, at, r)
  PROVE  pc' \in [Nodes -> Labels] /\ call' \in [Nodes -> Calls \cup {None}]
BY DEF Send, AgentTypeOK, Calls

LEMMA ReturnType ==
  ASSUME AgentTypeOK, NEW n \in Nodes, NEW at \in Labels, Return(n, at)
  PROVE  pc' \in [Nodes -> Labels] /\ call' \in [Nodes -> Calls \cup {None}]
BY DEF Return, AgentTypeOK

\* The fields of a file, and the files the agent writes.
LEMMA FileFields ==
  ASSUME NEW f \in Files
  PROVE  /\ f.task \in Tasks /\ f.execution \in ExecutionIDs /\ f.acknowledged \in BOOLEAN
         /\ f.completion \in Completions \cup {NoCompletion, Restarted}
         /\ f.backup \in Results \cup {None}
BY DEF Files

LEMMA FileWrites ==
  ASSUME NEW f \in Files
  PROVE  /\ [f EXCEPT !.acknowledged = TRUE] \in Files
         /\ \A b \in Results \cup {None} : [f EXCEPT !.backup = b] \in Files
         /\ \A c \in Completions \cup {Restarted} : [f EXCEPT !.completion = c] \in Files
BY DEF Files

\* The completions an agent reports are terminal statuses with a summary.
LEMMA CompletionFields ==
  ASSUME NEW c \in Completions \cup {NoCompletion, Restarted}
  PROVE  /\ c.summary \in Summaries
         /\ c.status \in {"none", "succeeded", "failed"}
         /\ c.status = "none" <=> c = NoCompletion
<1>1. "" \in Summaries /\ "error" \in Summaries /\ "restarted" \in Summaries
  BY ExecutionAssumption, StoreAssumption
<1>2. CASE c = NoCompletion
  BY <1>1, <1>2 DEF NoCompletion
<1>3. CASE c = Restarted
  <2>1. c.status = "failed" /\ c.summary = "restarted"
    BY <1>3 DEF Restarted
  <2>2. NoCompletion.status = "none"
    BY DEF NoCompletion
  <2> QED  BY <1>1, <2>1, <2>2
<1>4. CASE c \in Completions
  <2>1. \/ c.status = "succeeded" /\ c.summary = ""
        \/ c.status = "failed" /\ c.summary = "error"
    <3>1. CASE c = [status |-> "succeeded", summary |-> ""]
      BY <3>1
    <3>2. CASE c = [status |-> "failed", summary |-> "error"]
      BY <3>2
    <3> QED  BY <1>4, <3>1, <3>2 DEF Completions
  <2>2. NoCompletion.status = "none"
    BY DEF NoCompletion
  <2> QED  BY <1>1, <2>1, <2>2
<1> QED  BY <1>2, <1>3, <1>4

LEMMA ReportedStatus ==
  ASSUME NEW c \in Completions \cup {Restarted}
  PROVE  c.status \in {"succeeded", "failed"} /\ c # NoCompletion
<1>1. CASE c = Restarted
  BY <1>1 DEF Restarted, NoCompletion
<1>2. CASE c = [status |-> "succeeded", summary |-> ""]
  BY <1>2 DEF NoCompletion
<1>3. CASE c = [status |-> "failed", summary |-> "error"]
  BY <1>3 DEF NoCompletion
<1> QED  BY <1>1, <1>2, <1>3 DEF Completions

LEMMA DiskType ==
  ASSUME AgentTypeOK, NEW n \in Nodes, NEW f \in Files \cup {None},
         disk' = [disk EXCEPT ![n] = f]
  PROVE  disk' \in [Nodes -> Files \cup {None}]
BY DEF AgentTypeOK

\* A reply an agent has received.
LEMMA RepliedFields ==
  ASSUME AgentTypeOK, NEW n \in Nodes, NEW at, Replied(n, at)
  PROVE  call[n] \in Calls /\ call[n].reply \in Replies /\ call[n].request \in Requests
BY DEF AgentTypeOK, Replied, Calls

\* What an agent sends while it holds a file.
LEMMA HeldRequests ==
  ASSUME NEW f \in Files
  PROVE  /\ Ack(f.task, f.execution) \in Requests /\ Renew(f.task, f.execution) \in Requests
         /\ \A b \in Results : Backup(f.task, f.execution, b) \in Requests
         /\ \A st \in {"succeeded", "failed"}, sm \in Summaries :
              Report(f.task, f.execution, st, sm) \in Requests
BY FileFields, RequestTypes

\* The first completion of an execution is kept; the one that is reported is
\* the one in the file.
LEMMA StoreCompletionType ==
  ASSUME AgentTypeOK, HistoryTypeOK, NEW n \in Nodes, disk[n] \in Files,
         NEW c \in Completions \cup {Restarted}, storeCompletion(n, c)
  PROVE  /\ disk' \in [Nodes -> Files \cup {None}]
         /\ decided' \in [Tasks -> {"none", "succeeded", "failed"}]
         /\ disk'[n].completion = IF disk[n].completion = NoCompletion THEN c
                                  ELSE disk[n].completion
         /\ disk'[n].completion \in Completions \cup {Restarted}
<1>1. c.status \in {"none", "succeeded", "failed"}
  BY CompletionFields
<1>2. disk[n].task \in Tasks /\ disk[n].completion \in Completions \cup {NoCompletion, Restarted}
  BY FileFields
<1>3. CASE disk[n].completion = NoCompletion
  <2>1. [disk[n] EXCEPT !.completion = c] \in Files
    BY FileWrites
  <2>2. disk' = [disk EXCEPT ![n] = [disk[n] EXCEPT !.completion = c]]
    BY <1>3 DEF storeCompletion
  <2>3. disk'[n].completion = c
    BY <2>2 DEF AgentTypeOK, Files
  <2>4. disk' \in [Nodes -> Files \cup {None}]
    BY <2>1, <2>2, DiskType
  <2>5. decided' \in [Tasks -> {"none", "succeeded", "failed"}]
    BY <1>1, <1>2, <1>3 DEF storeCompletion, HistoryTypeOK
  <2> QED  BY <1>3, <2>3, <2>4, <2>5
<1>4. CASE disk[n].completion # NoCompletion
  BY <1>2, <1>4 DEF storeCompletion, AgentTypeOK, HistoryTypeOK
<1> QED  BY <1>3, <1>4

\* The steps of an agent's loop keep the types.
LEMMA LoopType ==
  ASSUME ProtocolInv, NEW n \in Nodes, Loop(n)
  PROVE  AgentTypeOK' /\ HistoryTypeOK'
<1> USE DEF Labels
<1>0. AgentTypeOK /\ HistoryTypeOK /\ FileInv(n) /\ LoopInv(n)
  BY TypeParts DEF ProtocolInv, AgentInv
<1>1. ASSUME disk[n] # None PROVE disk[n] \in Files
  BY <1>0, <1>1 DEF AgentTypeOK
<1>2. ASSUME UNCHANGED <<stray, backups, faults, ran, decided, archived, resolved>>
      PROVE  HistoryTypeOK'
  BY <1>0, <1>2 DEF HistoryTypeOK
<1>3. CASE pollAndRunTask(n)
  <2>1. pc' \in [Nodes -> Labels] /\ call' \in [Nodes -> Calls \cup {None}]
    BY <1>0, <1>3, SendType, RequestTypes DEF pollAndRunTask
  <2> QED  BY <1>0, <1>2, <1>3, <2>1 DEF pollAndRunTask, AgentTypeOK, historyVars
<1>4. CASE PullReturns(n)
  <2>1. call[n].reply \in Replies
    BY <1>0, <1>4, RepliedFields DEF PullReturns
  <2>2. CASE Code(n) = "offer"
    <3> DEFINE t == call[n].reply.task
               e == call[n].reply.execution
               f == [task |-> t, execution |-> e, acknowledged |-> FALSE,
                     completion |-> NoCompletion, backup |-> None]
    <3>1. t \in Tasks /\ e \in ExecutionIDs
      BY <2>1, <2>2, ReplyCodes DEF Code
    <3>2. f \in Files
      BY <3>1 DEF Files
    <3>3. disk' = [disk EXCEPT ![n] = f] /\ Send(n, "ack", Ack(t, e))
      BY <1>4, <2>2 DEF PullReturns
    <3>4. disk' \in [Nodes -> Files \cup {None}]
      BY <1>0, <3>2, <3>3, DiskType
    <3>5. pc' \in [Nodes -> Labels] /\ call' \in [Nodes -> Calls \cup {None}]
      BY <1>0, <3>1, <3>3, SendType, RequestTypes
    <3> QED  BY <1>0, <1>2, <1>4, <3>4, <3>5 DEF PullReturns, AgentTypeOK, historyVars
  <2>3. CASE Code(n) = "no_task"
    BY <1>0, <1>2, <1>4, <2>3, ReturnType DEF PullReturns, AgentTypeOK, historyVars
  <2> QED  BY <1>4, <2>2, <2>3 DEF PullReturns
<1>5. CASE AckReturns(n)
  <2>1. disk[n] \in Files /\ disk[n].task \in Tasks /\ disk[n].execution \in ExecutionIDs
    BY <1>0, <1>1, <1>5, FileFields DEF AckReturns, Replied, LoopInv
  <2>2. pc' \in [Nodes -> Labels] /\ call' \in [Nodes -> Calls \cup {None}]
    BY <1>0, <1>5, ReturnType DEF AckReturns
  <2>3. disk' \in [Nodes -> Files \cup {None}]
    BY <1>0, <1>5, <2>1, FileWrites, DiskType DEF AckReturns, removeTaskExecutionState
  <2>4. todo' \in [Nodes -> SUBSET DataNames]
    BY <1>0, <1>5, <2>1 DEF AckReturns, AgentTypeOK, DataNames
  <2>5. ran' \subseteq Tasks \X ExecutionIDs
    BY <1>0, <1>5, <2>1 DEF AckReturns, HistoryTypeOK
  <2> QED  BY <1>0, <1>5, <2>2, <2>3, <2>4, <2>5 DEF AckReturns, AgentTypeOK, HistoryTypeOK
<1>6. CASE reportBackupResult(n)
  <2>1. disk[n] \in Files
    BY <1>0, <1>1, <1>6 DEF reportBackupResult, LoopInv
  <2>2. PICK d \in todo[n], st \in {"succeeded", "failed"} :
          /\ disk' = [disk EXCEPT ![n].backup = [data |-> d, status |-> st]]
          /\ Send(n, "backup", Backup(disk[n].task, disk[n].execution,
                                      [data |-> d, status |-> st]))
    BY <1>6 DEF reportBackupResult
  <2>3. [data |-> d, status |-> st] \in Results
    BY <1>0 DEF Results, AgentTypeOK
  <2>4. disk' \in [Nodes -> Files \cup {None}]
    BY <1>0, <2>1, <2>2, <2>3, FileWrites, DiskType
  <2>5. pc' \in [Nodes -> Labels] /\ call' \in [Nodes -> Calls \cup {None}]
    BY <1>0, <2>1, <2>2, <2>3, SendType, HeldRequests
  <2> QED  BY <1>0, <1>2, <1>6, <2>4, <2>5 DEF reportBackupResult, AgentTypeOK, historyVars
<1>7. CASE resendBackupResult(n) \/ RecoverBackup(n)
  <2>1. disk[n] \in Files /\ disk[n].backup \in Results
    BY <1>0, <1>1, <1>7, FileFields DEF resendBackupResult, RecoverBackup, Holding, LoopInv
  <2>2. pc' \in [Nodes -> Labels] /\ call' \in [Nodes -> Calls \cup {None}]
    BY <1>0, <1>7, <2>1, SendType, HeldRequests DEF resendBackupResult, RecoverBackup
  <2> QED  BY <1>0, <1>2, <1>7, <2>2 DEF resendBackupResult, RecoverBackup, AgentTypeOK,
              historyVars
<1>8. CASE BackupReturns(n) \/ RecoverBackupReturns(n)
  <2>1. disk[n] \in Files
    BY <1>0, <1>1, <1>8 DEF BackupReturns, RecoverBackupReturns, Replied, LoopInv
  <2>2. pc' \in [Nodes -> Labels] /\ call' \in [Nodes -> Calls \cup {None}]
    BY <1>0, <1>8, ReturnType DEF BackupReturns, RecoverBackupReturns
  <2>3. disk' \in [Nodes -> Files \cup {None}]
    BY <1>0, <1>8, <2>1, FileWrites, DiskType DEF BackupReturns, RecoverBackupReturns, AgentTypeOK
  <2>4. todo' \in [Nodes -> SUBSET DataNames]
    BY <1>0, <1>8 DEF BackupReturns, RecoverBackupReturns, AgentTypeOK
  <2> QED  BY <1>0, <1>2, <1>8, <2>2, <2>3, <2>4 DEF BackupReturns, RecoverBackupReturns,
              AgentTypeOK, historyVars
<1>9. ASSUME NEW c \in Completions, Finish(n, c) PROVE AgentTypeOK' /\ HistoryTypeOK'
  <2>1. disk[n] \in Files
    BY <1>0, <1>1, <1>9 DEF Finish, LoopInv
  <2>2. c.status \in {"succeeded", "failed"} /\ c.summary \in Summaries
    BY CompletionFields, ReportedStatus
  <2>3. pc' \in [Nodes -> Labels] /\ call' \in [Nodes -> Calls \cup {None}]
    BY <1>0, <1>9, <2>1, <2>2, SendType, HeldRequests DEF Finish
  <2>4. /\ disk' \in [Nodes -> Files \cup {None}]
        /\ decided' \in [Tasks -> {"none", "succeeded", "failed"}]
    BY <1>0, <1>9, <2>1, StoreCompletionType DEF Finish
  <2> QED  BY <1>0, <1>9, <2>3, <2>4 DEF Finish, AgentTypeOK, HistoryTypeOK
<1>10. CASE ReportReturns(n) \/ ReportAgainReturns(n) \/ RecoverReportReturns(n)
  <2>1. call[n].request \in Requests
    BY <1>0, <1>10, RepliedFields DEF ReportReturns, ReportAgainReturns, RecoverReportReturns
  <2>2. pc' \in [Nodes -> Labels] /\ call' \in [Nodes -> Calls \cup {None}]
    <3>1. CASE ReportReturns(n)
      <4>1. call[n].request.kind = "report"
        BY <1>0, <3>1 DEF ReportReturns, Replied, LoopInv
      <4>2. \A sm \in {call[n].request.summary, "timeout"} :
              Report(call[n].request.task, call[n].request.execution, call[n].request.status, sm)
                \in Requests
        BY <2>1, <4>1, RequestFields, RequestTypes, ExecutionAssumption
      <4> QED  BY <1>0, <3>1, <4>2, SendType, ReturnType DEF ReportReturns
    <3>2. CASE ReportAgainReturns(n) \/ RecoverReportReturns(n)
      BY <1>0, <3>2, ReturnType DEF ReportAgainReturns, RecoverReportReturns
    <3> QED  BY <1>10, <3>1, <3>2
  <2>3. disk' \in [Nodes -> Files \cup {None}]
    BY <1>0, <1>10, DiskType DEF ReportReturns, ReportAgainReturns, RecoverReportReturns,
       removeTaskExecutionState, AgentTypeOK
  <2>4. archived' \subseteq Tasks \X {"succeeded", "failed"}
    <3>1. CASE RecoverReportReturns(n)
      <4>1. disk[n] \in Files /\ disk[n].task = call[n].request.task
            /\ disk[n].task \in Tasks /\ call[n].request.kind = "report"
            /\ decided[disk[n].task] = disk[n].completion.status
            /\ decided[call[n].request.task] = call[n].request.status
        BY <1>0, <1>1, <3>1, FileFields
           DEF RecoverReportReturns, Replied, LoopInv, FileInv, ProtocolInv, AgentInv, RequestInv
      <4>2. disk[n].completion.status \in {"succeeded", "failed"}
        BY <2>1, <4>1, RequestFields
      <4> QED  BY <1>0, <3>1, <4>1, <4>2 DEF RecoverReportReturns, HistoryTypeOK
    <3>2. CASE ReportReturns(n) \/ ReportAgainReturns(n)
      BY <1>0, <3>2 DEF ReportReturns, ReportAgainReturns, HistoryTypeOK, historyVars
    <3> QED  BY <1>10, <3>1, <3>2
  <2> QED  BY <1>0, <1>10, <2>2, <2>3, <2>4 DEF ReportReturns, ReportAgainReturns,
              RecoverReportReturns, AgentTypeOK, HistoryTypeOK, historyVars
<1>11. CASE RecoverAck(n)
  <2>1. disk[n] \in Files
    BY <1>1, <1>11 DEF RecoverAck, Holding
  <2>2. pc' \in [Nodes -> Labels] /\ call' \in [Nodes -> Calls \cup {None}]
    BY <1>0, <1>11, <2>1, SendType, HeldRequests DEF RecoverAck
  <2> QED  BY <1>0, <1>2, <1>11, <2>2 DEF RecoverAck, AgentTypeOK, historyVars
<1>12. CASE RecoverReport(n)
  <2>1. disk[n] \in Files
    BY <1>1, <1>12 DEF RecoverReport, Holding
  <2>2. /\ disk' \in [Nodes -> Files \cup {None}]
        /\ decided' \in [Tasks -> {"none", "succeeded", "failed"}]
        /\ disk'[n].completion \in Completions \cup {Restarted}
    BY <1>0, <1>12, <2>1, StoreCompletionType DEF RecoverReport
  <2>3. disk'[n].completion.status \in {"succeeded", "failed"}
        /\ disk'[n].completion.summary \in Summaries
    BY <2>2, CompletionFields, ReportedStatus
  <2>4. pc' \in [Nodes -> Labels] /\ call' \in [Nodes -> Calls \cup {None}]
    BY <1>0, <1>12, <2>1, <2>3, SendType, HeldRequests DEF RecoverReport
  <2> QED  BY <1>0, <1>12, <2>2, <2>4 DEF RecoverReport, AgentTypeOK, HistoryTypeOK
<1> QED  BY <1>3, <1>4, <1>5, <1>6, <1>7, <1>8, <1>9, <1>10, <1>11, <1>12 DEF Loop

\* What a handler does to the backups table.
LEMMA HandleBackups ==
  ASSUME HistoryTypeOK, NEW r \in Requests, NEW reply, Handle(r, reply)
  PROVE  /\ backups \subseteq backups'
         /\ backups' \subseteq Tasks \X DataNames \X {"succeeded", "failed"}
         /\ r.kind = "backup" /\ reply.code = "ok" =>
              <<r.task, r.result.data, r.result.status>> \in backups'
<1>1. CASE UNCHANGED backups /\ r.kind # "backup"
  BY <1>1 DEF HistoryTypeOK
<1>2. CASE r.kind = "backup" /\ ReportBackupResult(r, reply)
  <2>1. /\ r.task \in Tasks /\ r.result \in Results
        /\ r.result.data \in DataNames /\ r.result.status \in {"succeeded", "failed"}
    BY <1>2, RequestFields DEF Results
  <2>2. CASE backups' = backups \cup {<<r.task, r.result.data, r.result.status>>}
    BY <2>1, <2>2 DEF HistoryTypeOK
  <2>3. CASE UNCHANGED backups /\ reply.code # "ok"
    BY <2>3 DEF HistoryTypeOK
  <2> QED  BY <1>2, <2>2, <2>3 DEF ReportBackupResult, InsertBackupResult, Rejected, Conflict
<1> QED  BY <1>1, <1>2 DEF Handle

\* The faults, the handlers and the controller's own steps keep the types.
LEMMA OtherType ==
  ASSUME ProtocolInv, [Next]_vars, ~(\E n \in Nodes : Loop(n))
  PROVE  AgentTypeOK' /\ HistoryTypeOK'
<1> USE DEF Labels
<1>0. AgentTypeOK /\ HistoryTypeOK
  BY TypeParts DEF ProtocolInv
<1>1. ASSUME UNCHANGED agentVars PROVE AgentTypeOK'
  BY <1>0, <1>1 DEF AgentTypeOK, agentVars
<1>2. ASSUME UNCHANGED historyVars, stray' \subseteq Requests, faults' \in 0..MaxFaults,
             backups' \subseteq Tasks \X DataNames \X {"succeeded", "failed"}
      PROVE  HistoryTypeOK'
  BY <1>0, <1>2 DEF HistoryTypeOK, historyVars
<1>3. stray \subseteq Requests /\ faults \in 0..MaxFaults /\ MaxFaults \in Nat
      /\ backups \subseteq Tasks \X DataNames \X {"succeeded", "failed"}
  BY <1>0, ExecutionAssumption DEF HistoryTypeOK
<1>4. ASSUME NEW n \in Nodes, call[n] # None, Drop(n) PROVE stray' \subseteq Requests
  BY <1>0, <1>3, <1>4 DEF Drop, AgentTypeOK, Calls
<1>5. faults < MaxFaults => faults + 1 \in 0..MaxFaults
  BY <1>3
<1>6. ASSUME NEW n \in Nodes, Abandon(n) PROVE AgentTypeOK' /\ HistoryTypeOK'
  BY <1>0, <1>2, <1>3, <1>6, ReturnType DEF Abandon, AgentTypeOK
<1>7. ASSUME NEW n \in Nodes, renewTaskLease(n) PROVE AgentTypeOK' /\ HistoryTypeOK'
  <2>1. Renew(disk[n].task, disk[n].execution) \in Requests
    BY <1>0, <1>7, HeldRequests DEF renewTaskLease, Holding, AgentTypeOK
  <2> QED  BY <1>1, <1>2, <1>3, <1>7, <2>1 DEF renewTaskLease
<1>8. ASSUME NEW n \in Nodes, Serve(n) PROVE AgentTypeOK' /\ HistoryTypeOK'
  <2>1. call[n] \in Calls /\ call[n].request \in Requests
    BY <1>0, <1>8 DEF Serve, AgentTypeOK, Calls
  <2>2. backups' \subseteq Tasks \X DataNames \X {"succeeded", "failed"}
    BY <1>0, <1>3, <1>8, <2>1, HandleBackups DEF Serve
  <2>3. call' \in [Nodes -> Calls \cup {None}]
    <3>1. ASSUME NEW reply \in Replies, call' = [call EXCEPT ![n].reply = reply]
          PROVE  call' \in [Nodes -> Calls \cup {None}]
      <4>1. [call[n] EXCEPT !.reply = reply] \in Calls
        BY <2>1 DEF Calls
      <4> QED  BY <1>0, <3>1, <4>1 DEF AgentTypeOK
    <3>2. ASSUME CheckPassed(call[n].request), call' = [call EXCEPT ![n].request.checked = TRUE]
          PROVE  call' \in [Nodes -> Calls \cup {None}]
      <4>1. [call[n].request EXCEPT !.checked = TRUE] \in Requests
        BY <2>1, <3>2, CheckedType DEF CheckPassed
      <4>2. [call[n] EXCEPT !.request = [call[n].request EXCEPT !.checked = TRUE]] \in Calls
        BY <2>1, <4>1 DEF Calls
      <4>3. call' = [call EXCEPT ![n] =
                       [call[n] EXCEPT !.request = [call[n].request EXCEPT !.checked = TRUE]]]
        BY <3>2
      <4> QED  BY <1>0, <4>2, <4>3 DEF AgentTypeOK
    <3> QED  BY <1>8, <3>1, <3>2 DEF Serve
  <2> QED  BY <1>0, <1>2, <1>3, <1>8, <2>2, <2>3 DEF Serve, AgentTypeOK
<1>9. ASSUME NEW n \in Nodes, CallFails(n) PROVE AgentTypeOK' /\ HistoryTypeOK'
  <2>1. stray' \subseteq Requests /\ call[n].request \in Requests
    BY <1>0, <1>4, <1>9 DEF CallFails, AgentTypeOK, Calls
  <2>2. pc' \in [Nodes -> Labels] /\ call' \in [Nodes -> Calls \cup {None}]
    <3>1. CASE pc[n] = "report"
      <4>1. call[n].request.kind = "report"
        BY <1>9, <3>1 DEF CallFails, ProtocolInv, AgentInv, LoopInv
      <4>2. \A sm \in {call[n].request.summary, "timeout"} :
              Report(call[n].request.task, call[n].request.execution, call[n].request.status, sm)
                \in Requests
        BY <2>1, <4>1, RequestFields, RequestTypes, ExecutionAssumption
      <4> QED  BY <1>0, <1>9, <4>2, SendType, ReturnType DEF CallFails
    <3>2. CASE pc[n] # "report"
      BY <1>0, <1>9, <3>2, ReturnType DEF CallFails
    <3> QED  BY <3>1, <3>2
  <2> QED  BY <1>0, <1>2, <1>3, <1>5, <1>9, <2>1, <2>2 DEF CallFails, AgentTypeOK
<1>10. ASSUME NEW n \in Nodes, Crash(n) PROVE AgentTypeOK' /\ HistoryTypeOK'
  <2>1. stray' \subseteq Requests
    BY <1>3, <1>4, <1>10 DEF Crash
  <2>2. pc' \in [Nodes -> Labels] /\ call' \in [Nodes -> Calls \cup {None}]
    BY <1>0, <1>10, ReturnType DEF Crash
  <2> QED  BY <1>0, <1>2, <1>3, <1>5, <1>10, <2>1, <2>2 DEF Crash, AgentTypeOK
<1>11. ASSUME NEW r \in stray, ServeStray(r) PROVE AgentTypeOK' /\ HistoryTypeOK'
  <2>1. backups' \subseteq Tasks \X DataNames \X {"succeeded", "failed"}
    BY <1>0, <1>3, <1>11, HandleBackups DEF ServeStray
  <2>2. stray' \subseteq Requests
    BY <1>3, <1>11, CheckedType DEF ServeStray, CheckPassed
  <2> QED  BY <1>1, <1>2, <1>3, <1>11, <2>1, <2>2 DEF ServeStray
<1>12. ASSUME NEW r \in stray, LoseStray(r) PROVE AgentTypeOK' /\ HistoryTypeOK'
  BY <1>1, <1>2, <1>3, <1>5, <1>12 DEF LoseStray
<1>13. CASE AdmitTasks \/ Sweep
  BY <1>1, <1>2, <1>3, <1>13 DEF AdmitTasks, Sweep
<1>14. ASSUME NEW t \in Tasks, TimePasses(t) PROVE AgentTypeOK' /\ HistoryTypeOK'
  BY <1>1, <1>2, <1>3, <1>5, <1>14 DEF TimePasses
<1>15. ASSUME NEW t \in Tasks, OperatorFailsLost(t) PROVE AgentTypeOK' /\ HistoryTypeOK'
  BY <1>0, <1>1, <1>15 DEF OperatorFailsLost, HistoryTypeOK
<1>16. CASE UNCHANGED vars
  BY <1>1, <1>2, <1>3, <1>16 DEF vars
<1> QED  BY <1>6, <1>7, <1>8, <1>9, <1>10, <1>11, <1>12, <1>13, <1>14, <1>15, <1>16 DEF Next

\* Every step of the protocol keeps its types.
LEMMA ProtocolTypeStep ==
  ASSUME ProtocolInv, [Next]_vars
  PROVE  ProtocolTypeOK' /\ LeaseInv'
<1>1. LeaseInv'
  BY StepIsStoreStep, LeaseStep DEF ProtocolInv
<1>2. AgentTypeOK' /\ HistoryTypeOK'
  BY LoopType, OtherType
<1>3. (TypeOK /\ AgentTypeOK /\ HistoryTypeOK)'
  BY <1>1, <1>2 DEF LeaseInv
<1>4. (ProtocolTypeOK <=> TypeOK /\ AgentTypeOK /\ HistoryTypeOK)'
  BY TypeParts, PTL
<1> QED  BY <1>1, <1>3, <1>4

-----------------------------------------------------------------------------
(* What every step leaves true *)

Advance ==
  /\ issued \subseteq issued'
  /\ \A t \in Tasks : \A e : Started(t, e) => Started(t, e)'
  /\ \A t \in Tasks : Terminal(t) => Terminal(t)' /\ status'[t] = status[t]
  /\ backups \subseteq backups'
  /\ \A t \in Tasks : decided[t] # "none" => decided'[t] = decided[t]

\* A completion is decided once.
LEMMA DecideOnce ==
  ASSUME ProtocolInv, NEW n \in Nodes, disk[n] # None, NEW c, storeCompletion(n, c)
  PROVE  /\ \A t \in Tasks : decided[t] # "none" => decided'[t] = decided[t]
         /\ \A t \in Tasks : NodeOf[t] # n => decided'[t] = decided[t]
<1>1. FileInv(n) /\ decided \in [Tasks -> {"none", "succeeded", "failed"}]
  BY DEF ProtocolInv, AgentInv, ProtocolTypeOK
<1>2. disk[n].completion = NoCompletion => decided[disk[n].task] = "none"
  <2>1. NoCompletion.status = "none"
    BY DEF NoCompletion
  <2> QED  BY <1>1, <2>1 DEF FileInv
<1>3. NodeOf[disk[n].task] = n
  BY <1>1 DEF FileInv
<1> QED  BY <1>1, <1>2, <1>3 DEF storeCompletion

LEMMA StepAdvances ==
  ASSUME ProtocolInv, [Next]_vars
  PROVE  Advance
<1>1. /\ issued \subseteq issued'
      /\ \A t \in Tasks : \A e : Started(t, e) => Started(t, e)'
      /\ \A t \in Tasks : Terminal(t) => Terminal(t)' /\ status'[t] = status[t]
  BY StepIsStoreStep, StoreGrows DEF ProtocolInv
<1>2. backups \subseteq backups'
  <2>1. ASSUME NEW n \in Nodes, Serve(n) PROVE backups \subseteq backups'
    <3>1. call[n].request \in Requests /\ HistoryTypeOK
      BY <2>1, TypeParts DEF Serve, AgentTypeOK, Calls, ProtocolInv
    <3> QED  BY <2>1, <3>1, HandleBackups DEF Serve
  <2>2. ASSUME NEW r \in stray, ServeStray(r) PROVE backups \subseteq backups'
    <3>1. r \in Requests /\ HistoryTypeOK
      BY <2>2, TypeParts DEF HistoryTypeOK, ProtocolInv
    <3> QED  BY <2>2, <3>1, HandleBackups DEF ServeStray
  <2> QED  BY <2>1, <2>2 DEF Next, vars, Loop, Abandon, renewTaskLease, CallFails, Crash,
              pollAndRunTask, PullReturns, AckReturns, reportBackupResult, resendBackupResult,
              BackupReturns, Finish, ReportReturns, ReportAgainReturns, RecoverAck, RecoverBackup,
              RecoverBackupReturns, RecoverReport, RecoverReportReturns, LoseStray, AdmitTasks,
              Sweep, TimePasses, OperatorFailsLost
<1>3. \A t \in Tasks : decided[t] # "none" => decided'[t] = decided[t]
  <2>1. ASSUME NEW n \in Nodes, NEW c, Finish(n, c) \/ RecoverReport(n)
        PROVE  \A t \in Tasks : decided[t] # "none" => decided'[t] = decided[t]
    <3>1. disk[n] # None
      BY <2>1 DEF Finish, RecoverReport, Holding, ProtocolInv, AgentInv, LoopInv
    <3> QED  BY <2>1, <3>1, DecideOnce DEF Finish, RecoverReport
  <2> QED  BY <2>1 DEF Next, vars, Loop, Abandon, renewTaskLease, CallFails, Crash, Serve,
              ServeStray, pollAndRunTask, PullReturns, AckReturns, reportBackupResult,
              resendBackupResult, BackupReturns, ReportReturns, ReportAgainReturns, RecoverAck,
              RecoverBackup, RecoverBackupReturns, RecoverReportReturns, LoseStray, AdmitTasks,
              Sweep, TimePasses, OperatorFailsLost, historyVars
<1> QED  BY <1>1, <1>2, <1>3 DEF Advance

\* A request stays true on its way.
LEMMA RequestKept ==
  ASSUME Advance, NEW r \in Requests, RequestInv(r)
  PROVE  RequestInv(r)'
BY RequestFields DEF Advance, RequestInv

\* An agent that does not act keeps its invariant.
LEMMA AgentKept ==
  ASSUME ProtocolInv, Advance, NEW m \in Nodes,
         disk'[m] = disk[m], pc'[m] = pc[m], call'[m] = call[m], todo'[m] = todo[m],
         \A t \in Tasks : NodeOf[t] = m => decided'[t] = decided[t]
  PROVE  AgentInv(m)'
<1>0. /\ FileInv(m) /\ LoopInv(m) /\ AgentTypeOK
      /\ call[m] # None => RequestInv(call[m].request)
  BY TypeParts DEF ProtocolInv, AgentInv
<1>1. disk[m] # None => disk[m] \in Files /\ disk[m].task \in Tasks
  BY <1>0, FileFields DEF AgentTypeOK
<1>2. call[m] # None => call[m].request \in Requests /\ call[m].reply \in Replies \cup {Waiting}
  BY <1>0 DEF AgentTypeOK, Calls
<1>3. FileInv(m)'
  BY <1>0, <1>1 DEF FileInv, Advance, AgentTask
<1>4. (call[m] # None => RequestInv(call[m].request))'
  <2>1. PICK r : r = call[m].request
    OBVIOUS
  <2>2. call[m] # None => RequestInv(r) /\ r \in Requests
    BY <1>0, <1>2, <2>1
  <2>3. call[m] # None => RequestInv(r)'
    BY <2>2, RequestKept
  <2> QED  BY <2>1, <2>3 DEF RequestInv
<1>5. LoopInv(m)'
  <2>1. pc[m] = "pull" => OfferInv(m, call[m].reply)'
    <3>1. pc[m] = "pull" /\ call[m].reply.code = "offer" => call[m].reply \in Replies
      BY <1>2, <1>0 DEF Waiting, LoopInv
    <3> QED  BY <1>0, <3>1, ReplyCodes DEF LoopInv, OfferInv, Advance, AgentTask
  <2>2. pc[m] \in {"ack", "recover_ack"} /\ call[m].reply.code = "ok" =>
          Started(disk[m].task, disk[m].execution)'
    BY <1>0, <1>1 DEF LoopInv, Advance
  <2>3. pc[m] \in {"report", "report_again", "recover_report"} /\ call[m].reply # Waiting =>
          Terminal(call[m].request.task)'
    BY <1>0, <1>2, RequestFields DEF LoopInv, Advance
  <2> QED  BY <1>0, <2>1, <2>2, <2>3 DEF LoopInv, Advance
<1> QED  BY <1>3, <1>4, <1>5 DEF AgentInv

\* An agent's step leaves the other agents alone.
LEMMA OthersUntouched ==
  ASSUME ProtocolInv, NEW n \in Nodes, NEW m \in Nodes, m # n,
         Loop(n) \/ Abandon(n) \/ renewTaskLease(n) \/ Serve(n) \/ CallFails(n) \/ Crash(n)
  PROVE  /\ disk'[m] = disk[m] /\ pc'[m] = pc[m] /\ call'[m] = call[m] /\ todo'[m] = todo[m]
         /\ \A t \in Tasks : NodeOf[t] = m => decided'[t] = decided[t]
<1>0. AgentTypeOK
  BY TypeParts DEF ProtocolInv
<1>1. disk'[m] = disk[m] /\ pc'[m] = pc[m] /\ call'[m] = call[m] /\ todo'[m] = todo[m]
  BY <1>0 DEF AgentTypeOK, Loop, Abandon, renewTaskLease, Serve, CallFails, Crash, Send, Return,
     pollAndRunTask, PullReturns, AckReturns, reportBackupResult, resendBackupResult,
     BackupReturns, Finish, ReportReturns, ReportAgainReturns, RecoverAck, RecoverBackup,
     RecoverBackupReturns, RecoverReport, RecoverReportReturns, storeCompletion,
     removeTaskExecutionState, agentVars
<1>2. \A t \in Tasks : NodeOf[t] = m => decided'[t] = decided[t]
  <2>1. ASSUME NEW c, Finish(n, c) \/ RecoverReport(n)
        PROVE  \A t \in Tasks : NodeOf[t] = m => decided'[t] = decided[t]
    <3>1. disk[n] # None
      BY <2>1 DEF Finish, RecoverReport, Holding, ProtocolInv, AgentInv, LoopInv
    <3> QED  BY <2>1, <3>1, DecideOnce DEF Finish, RecoverReport
  <2> QED  BY <2>1 DEF Loop, Abandon, renewTaskLease, CallFails, Crash, Serve, pollAndRunTask,
              PullReturns, AckReturns, reportBackupResult, resendBackupResult, BackupReturns,
              ReportReturns, ReportAgainReturns, RecoverAck, RecoverBackup, RecoverBackupReturns,
              RecoverReportReturns, historyVars
<1> QED  BY <1>1, <1>2

-----------------------------------------------------------------------------
(* The agent that acts *)

LEMMA Sent ==
  ASSUME AgentTypeOK, NEW n \in Nodes, NEW at, NEW r \in Requests, Send(n, at, r)
  PROVE  /\ pc'[n] = at /\ call'[n] # None
         /\ call'[n].request = r /\ call'[n].reply = Waiting /\ Waiting.code = "waiting"
<1>1. [request |-> r, reply |-> Waiting] \in Calls
  BY DEF Calls
<1> QED  BY <1>1, NoneAssumption DEF Send, AgentTypeOK, Waiting

LEMMA Returned ==
  ASSUME AgentTypeOK, NEW n \in Nodes, NEW at, Return(n, at)
  PROVE  pc'[n] = at /\ call'[n] = None
BY DEF Return, AgentTypeOK

\* An agent that has no call and no work has nothing to say.
LEMMA IdleLoop ==
  ASSUME AgentTypeOK, NEW n \in Nodes, Return(n, "idle")
  PROVE  LoopInv(n)' /\ (call[n] # None => RequestInv(call[n].request))'
BY Returned DEF LoopInv

\* A file that is kept, or removed.
LEMMA FileKept ==
  ASSUME ProtocolInv, Advance, NEW n \in Nodes, disk'[n] \in {disk[n], None}, UNCHANGED decided
  PROVE  FileInv(n)'
<1>1. FileInv(n) /\ AgentTypeOK
  BY TypeParts DEF ProtocolInv, AgentInv
<1>2. disk[n] # None => disk[n].task \in Tasks
  BY <1>1, FileFields DEF AgentTypeOK
<1> QED  BY <1>1, <1>2 DEF FileInv, Advance, AgentTask

\* The agents' own steps leave the table and the backups alone.
LEMMA AgentStepStore ==
  ASSUME NEW n \in Nodes, Loop(n) \/ Abandon(n) \/ renewTaskLease(n) \/ CallFails(n) \/ Crash(n)
  PROVE  UNCHANGED <<status, execution, state, issued, backups>>
BY DEF Loop, Abandon, renewTaskLease, CallFails, Crash, pollAndRunTask, PullReturns,
   AckReturns, reportBackupResult, resendBackupResult, BackupReturns, Finish, ReportReturns,
   ReportAgainReturns, RecoverAck, RecoverBackup, RecoverBackupReturns, RecoverReport,
   RecoverReportReturns, storeVars, rowVars

LEMMA PollKept ==
  ASSUME ProtocolInv, Advance, NEW n \in Nodes, pollAndRunTask(n) \/ PullReturns(n)
  PROVE  AgentInv(n)'
<1>0. /\ AgentTypeOK /\ FileInv(n) /\ LoopInv(n)
      /\ UNCHANGED <<status, execution, state, issued, backups, decided>>
  BY TypeParts, AgentStepStore DEF ProtocolInv, AgentInv, Loop, pollAndRunTask, PullReturns,
     historyVars
<1>1. CASE pollAndRunTask(n)
  <2>1. /\ pc'[n] = "pull" /\ call'[n] # None /\ call'[n].request = Pull(n)
        /\ call'[n].reply.code = "waiting" /\ disk'[n] = None
    BY <1>0, <1>1, RequestTypes, Sent DEF pollAndRunTask, Holding
  <2>2. LoopInv(n)'
    BY <2>1 DEF LoopInv, OfferInv
  <2>3. (call[n] # None => RequestInv(call[n].request))'
    BY <2>1 DEF RequestInv, Pull
  <2> QED  BY <2>1, <2>2, <2>3 DEF AgentInv, FileInv
<1>2. CASE PullReturns(n) /\ Code(n) = "offer"
  <2> DEFINE t == call[n].reply.task
             e == call[n].reply.execution
  <2>1. call[n].reply \in Replies /\ OfferInv(n, call[n].reply)
    BY <1>0, <1>2, RepliedFields DEF PullReturns, Replied, LoopInv
  <2>2. t \in Tasks /\ e \in ExecutionIDs /\ NodeOf[t] = n /\ AgentTask(t) /\ e \in issued
        /\ decided[t] = "none"
    BY <1>2, <2>1, ReplyCodes DEF Code, OfferInv
  <2> DEFINE f == [task |-> t, execution |-> e, acknowledged |-> FALSE,
                   completion |-> NoCompletion, backup |-> None]
  <2>3. disk'[n] = f /\ Send(n, "ack", Ack(t, e))
    BY <1>0, <1>2 DEF PullReturns, AgentTypeOK, Code
  <2>4. f \in Files
    BY <2>2 DEF Files
  <2>5. /\ f.task = t /\ f.execution = e /\ f.acknowledged = FALSE
        /\ f.completion = NoCompletion /\ f # None
    BY <2>4, NoneAssumption
  <2>51. NoCompletion.status = "none"
    BY DEF NoCompletion
  <2> HIDE DEF f
  <2>6. /\ pc'[n] = "ack" /\ call'[n] # None /\ call'[n].request = Ack(t, e)
        /\ call'[n].reply.code = "waiting"
    BY <1>0, <2>2, <2>3, RequestTypes, Sent
  <2>7. FileInv(n)'
    BY <1>0, <2>2, <2>3, <2>5, <2>51 DEF FileInv, AgentTask
  <2>8. LoopInv(n)'
    BY <2>3, <2>5, <2>6 DEF LoopInv
  <2>9. (call[n] # None => RequestInv(call[n].request))'
    BY <1>0, <2>2, <2>6 DEF RequestInv, Ack
  <2> QED  BY <2>7, <2>8, <2>9 DEF AgentInv
<1>3. CASE PullReturns(n) /\ Code(n) = "no_task"
  <2>1. Return(n, "idle") /\ UNCHANGED disk
    BY <1>3 DEF PullReturns, Code
  <2> QED  BY <1>0, <2>1, IdleLoop, FileKept DEF AgentInv
<1> QED  BY <1>1, <1>2, <1>3 DEF PullReturns

LEMMA AckReturnsKept ==
  ASSUME ProtocolInv, Advance, NEW n \in Nodes, AckReturns(n)
  PROVE  AgentInv(n)'
<1>0. /\ AgentTypeOK /\ FileInv(n) /\ LoopInv(n)
      /\ UNCHANGED <<status, execution, state, issued, backups, decided>>
  BY TypeParts, AgentStepStore DEF ProtocolInv, AgentInv, Loop, AckReturns
<1>1. disk[n] # None /\ disk[n] \in Files /\ disk[n].task \in Tasks
      /\ disk[n].completion = NoCompletion
  BY <1>0, FileFields DEF AckReturns, Replied, LoopInv, AgentTypeOK
<1>2. CASE Code(n) = "rejected"
  BY <1>0, <1>2, IdleLoop, FileKept DEF AckReturns, AgentInv, removeTaskExecutionState, AgentTypeOK
<1>3. CASE Code(n) = "ok"
  <2>1. Started(disk[n].task, disk[n].execution)
    BY <1>0, <1>3 DEF AckReturns, Replied, LoopInv, Code
  <2>2. disk'[n] = [disk[n] EXCEPT !.acknowledged = TRUE]
    BY <1>0, <1>3 DEF AckReturns, AgentTypeOK
  <2>3. /\ disk'[n] \in Files /\ disk'[n] # None
        /\ disk'[n].task = disk[n].task /\ disk'[n].execution = disk[n].execution
        /\ disk'[n].acknowledged = TRUE /\ disk'[n].completion = NoCompletion
    BY <1>1, <2>2, FileWrites, NoneAssumption DEF Files
  <2>4. FileInv(n)'
    BY <1>0, <1>1, <2>1, <2>3 DEF FileInv, AgentTask, Started
  <2>5. CASE pc[n] = "ack"
    <3>1. pc'[n] = "run" /\ call'[n] = None /\ todo'[n] = DataOf[disk[n].task]
      BY <1>0, <1>3, <2>5, Returned DEF AckReturns, AgentTypeOK
    <3>2. LoopInv(n)'
      BY <2>3, <3>1 DEF LoopInv
    <3> QED  BY <2>4, <3>1, <3>2 DEF AgentInv
  <2>6. CASE pc[n] = "recover_ack"
    BY <1>0, <1>3, <2>4, <2>6, IdleLoop DEF AckReturns, AgentInv
  <2> QED  BY <2>5, <2>6 DEF AckReturns, Replied
<1> QED  BY <1>2, <1>3 DEF AckReturns

\* What is known of the agent that acts.
LEMMA Mine ==
  ASSUME ProtocolInv, NEW n \in Nodes
  PROVE  /\ AgentTypeOK /\ HistoryTypeOK /\ FileInv(n) /\ LoopInv(n)
         /\ disk[n] # None => disk[n] \in Files /\ disk[n].task \in Tasks
         /\ call[n] # None => call[n].request \in Requests /\ RequestInv(call[n].request)
BY TypeParts, FileFields DEF ProtocolInv, AgentInv, AgentTypeOK, Calls

\* An agent that has sent the backup result of its file.
LEMMA BackupSent ==
  ASSUME ProtocolInv, NEW n \in Nodes, NEW at \in {"backup", "recover_backup"},
         NEW f \in Files, disk'[n] = f, FileInv(n)', f.acknowledged, f.backup \in Results,
         Send(n, at, Backup(f.task, f.execution, f.backup)),
         at = "backup" =>
           /\ f.completion = NoCompletion
           /\ \A d \in DataOf[f.task] \ todo'[n] : <<f.task, d, "succeeded">> \in backups'
  PROVE  AgentInv(n)'
<1>1. f # None /\ f.backup # None
  BY NoneAssumption
<1>2. Backup(f.task, f.execution, f.backup) \in Requests
  BY HeldRequests
<1>3. /\ pc'[n] = at /\ call'[n] # None
      /\ call'[n].request = Backup(f.task, f.execution, f.backup)
      /\ call'[n].reply.code = "waiting"
  BY <1>2, Mine, Sent
<1>4. /\ call'[n].request.kind = "backup" /\ call'[n].request.result = f.backup
      /\ call'[n].request.task = f.task /\ call'[n].request.execution = f.execution
  BY <1>3 DEF Backup
<1>5. LoopInv(n)'
  BY <1>1, <1>3, <1>4 DEF LoopInv
<1>6. (call[n] # None => RequestInv(call[n].request))'
  BY <1>1, <1>4 DEF FileInv, RequestInv
<1> QED  BY <1>5, <1>6 DEF AgentInv

LEMMA BackupSendKept ==
  ASSUME ProtocolInv, Advance, NEW n \in Nodes,
         reportBackupResult(n) \/ resendBackupResult(n) \/ RecoverBackup(n)
  PROVE  AgentInv(n)'
<1>0. /\ AgentTypeOK /\ FileInv(n) /\ LoopInv(n) /\ disk[n] # None
      /\ disk[n] \in Files /\ disk[n].task \in Tasks /\ disk[n].acknowledged
      /\ UNCHANGED <<status, execution, state, issued, backups, decided, todo>>
  BY Mine, AgentStepStore DEF Loop, reportBackupResult, resendBackupResult, RecoverBackup,
     historyVars, LoopInv, Holding
<1>1. CASE reportBackupResult(n)
  <2>1. PICK b \in Results : /\ disk' = [disk EXCEPT ![n].backup = b]
                             /\ Send(n, "backup", Backup(disk[n].task, disk[n].execution, b))
    <3>1. PICK d \in todo[n], st \in {"succeeded", "failed"} :
            /\ disk' = [disk EXCEPT ![n].backup = [data |-> d, status |-> st]]
            /\ Send(n, "backup", Backup(disk[n].task, disk[n].execution,
                                        [data |-> d, status |-> st]))
      BY <1>1 DEF reportBackupResult
    <3>2. [data |-> d, status |-> st] \in Results
      BY <1>0 DEF Results, AgentTypeOK
    <3> QED  BY <3>1, <3>2
  <2> DEFINE f == [disk[n] EXCEPT !.backup = b]
  <2>2. disk'[n] = f
    BY <1>0, <2>1 DEF AgentTypeOK
  <2>3. /\ f \in Files /\ f.task = disk[n].task /\ f.execution = disk[n].execution
        /\ f.acknowledged = disk[n].acknowledged /\ f.completion = disk[n].completion
        /\ f.backup = b
    BY <1>0, FileWrites DEF Files
  <2> HIDE DEF f
  <2>4. FileInv(n)'
    BY <1>0, <2>2, <2>3 DEF FileInv, Started, AgentTask
  <2> QED  BY <1>0, <1>1, <2>1, <2>2, <2>3, <2>4, BackupSent DEF reportBackupResult, LoopInv
<1>2. CASE resendBackupResult(n) \/ RecoverBackup(n)
  <2>1. disk'[n] = disk[n] /\ disk[n].backup \in Results
    BY <1>0, <1>2, FileFields DEF resendBackupResult, RecoverBackup
  <2>2. FileInv(n)'
    BY <1>0, <2>1, FileKept
  <2> QED  BY <1>0, <1>2, <2>1, <2>2, BackupSent DEF resendBackupResult, RecoverBackup, LoopInv
<1> QED  BY <1>1, <1>2

\* A file without its backup result says no more than before.
LEMMA ResultTaken ==
  ASSUME ProtocolInv, Advance, NEW n \in Nodes, disk[n] # None, UNCHANGED decided,
         disk' = [disk EXCEPT ![n].backup = None]
  PROVE  /\ FileInv(n)' /\ disk'[n] # None
         /\ disk'[n].task = disk[n].task /\ disk'[n].acknowledged = disk[n].acknowledged
         /\ disk'[n].completion = disk[n].completion
<1> DEFINE f == [disk[n] EXCEPT !.backup = None]
<1>1. AgentTypeOK /\ FileInv(n) /\ disk[n] \in Files /\ disk[n].task \in Tasks
  BY Mine
<1>2. disk'[n] = f
  BY <1>1 DEF AgentTypeOK
<1>3. /\ f \in Files /\ f.task = disk[n].task /\ f.execution = disk[n].execution
      /\ f.acknowledged = disk[n].acknowledged /\ f.completion = disk[n].completion
  BY <1>1, FileWrites DEF Files
<1>4. f # None
  BY <1>3, NoneAssumption
<1> HIDE DEF f
<1>5. FileInv(n)'
  BY <1>1, <1>2, <1>3 DEF FileInv, Advance, AgentTask
<1> QED  BY <1>2, <1>3, <1>4, <1>5

LEMMA BackupReturnsKept ==
  ASSUME ProtocolInv, Advance, NEW n \in Nodes, BackupReturns(n) \/ RecoverBackupReturns(n)
  PROVE  AgentInv(n)'
<1>0. /\ AgentTypeOK /\ FileInv(n) /\ LoopInv(n) /\ disk[n] # None
      /\ disk[n] \in Files /\ disk[n].task \in Tasks /\ disk[n].backup \in Results
      /\ UNCHANGED <<status, execution, state, issued, backups, decided>>
  BY Mine, FileFields, AgentStepStore DEF Loop, BackupReturns, RecoverBackupReturns, Replied,
     historyVars, LoopInv
<1>1. CASE RecoverBackupReturns(n)
  BY <1>0, <1>1, IdleLoop, FileKept, ResultTaken DEF RecoverBackupReturns, AgentInv
<1>2. CASE BackupReturns(n) /\ Code(n) = "ok"
  <2>1. /\ disk' = [disk EXCEPT ![n].backup = None] /\ todo'[n] = todo[n] \ {disk[n].backup.data}
        /\ Return(n, IF disk[n].backup.status = "failed" THEN "failing" ELSE "run")
    BY <1>0, <1>2 DEF BackupReturns, AgentTypeOK
  <2>2. /\ FileInv(n)' /\ disk'[n] # None
        /\ disk'[n].task = disk[n].task /\ disk'[n].acknowledged = disk[n].acknowledged
        /\ disk'[n].completion = disk[n].completion
    BY <1>0, <2>1, ResultTaken
  <2>3. <<disk[n].task, disk[n].backup.data, disk[n].backup.status>> \in backups
    BY <1>0, <1>2 DEF BackupReturns, Replied, Code, LoopInv
  <2>4. disk[n].backup.status \in {"succeeded", "failed"}
    BY <1>0 DEF Results
  <2>5. call'[n] = None /\ pc'[n] \in {"failing", "run"}
        /\ (pc'[n] = "run" => disk[n].backup.status = "succeeded")
    BY <1>0, <2>1, <2>4, Returned
  <2>6. LoopInv(n)'
    BY <1>0, <1>2, <2>1, <2>2, <2>3, <2>5 DEF LoopInv, BackupReturns, Replied
  <2> QED  BY <2>2, <2>5, <2>6 DEF AgentInv
<1>3. CASE BackupReturns(n) /\ Code(n) # "ok"
  <2>1. pc'[n] = "run" /\ call'[n] = None /\ UNCHANGED <<disk, todo>>
    BY <1>0, <1>3, Returned DEF BackupReturns
  <2>2. FileInv(n)'
    BY <1>0, <2>1, FileKept
  <2>3. LoopInv(n)'
    BY <1>0, <1>3, <2>1 DEF LoopInv, BackupReturns, Replied
  <2> QED  BY <2>1, <2>2, <2>3 DEF AgentInv
<1> QED  BY <1>1, <1>2, <1>3

\* Once a completion is persisted, the file and the decision say the same.
LEMMA CompletionKept ==
  ASSUME ProtocolInv, Advance, NEW n \in Nodes, disk[n] # None, disk[n].acknowledged,
         NEW c \in Completions \cup {Restarted}, storeCompletion(n, c)
  PROVE  /\ FileInv(n)' /\ disk'[n] # None /\ disk'[n].task = disk[n].task
         /\ decided'[disk[n].task] = disk'[n].completion.status
         /\ disk'[n].completion = IF disk[n].completion = NoCompletion THEN c
                                  ELSE disk[n].completion
         /\ disk'[n].completion \in Completions \cup {Restarted}
<1>0. /\ AgentTypeOK /\ HistoryTypeOK /\ FileInv(n)
      /\ disk[n] \in Files /\ disk[n].task \in Tasks
  BY Mine
<1>1. /\ disk'[n].completion = IF disk[n].completion = NoCompletion THEN c
                               ELSE disk[n].completion
      /\ disk'[n].completion \in Completions \cup {Restarted}
  BY <1>0, StoreCompletionType
<1>2. CASE disk[n].completion = NoCompletion
  <2> DEFINE f == [disk[n] EXCEPT !.completion = c]
  <2>1. disk'[n] = f
    BY <1>0, <1>2 DEF storeCompletion, AgentTypeOK
  <2>2. /\ f \in Files /\ f.task = disk[n].task /\ f.execution = disk[n].execution
        /\ f.acknowledged = disk[n].acknowledged /\ f.completion = c
    BY <1>0, FileWrites DEF Files
  <2>3. f # None
    BY <2>2, NoneAssumption
  <2>4. decided'[disk[n].task] = c.status
    BY <1>0, <1>2 DEF storeCompletion, HistoryTypeOK
  <2> HIDE DEF f
  <2>5. FileInv(n)'
    BY <1>0, <2>1, <2>2, <2>4 DEF FileInv, Advance, AgentTask
  <2> QED  BY <1>1, <2>1, <2>2, <2>3, <2>4, <2>5
<1>3. CASE disk[n].completion # NoCompletion
  <2>1. disk' = disk /\ decided' = decided
    BY <1>3 DEF storeCompletion
  <2> QED  BY <1>0, <1>1, <2>1, FileKept DEF FileInv
<1> QED  BY <1>2, <1>3

\* An agent that has sent a report of what was decided.
LEMMA ReportSent ==
  ASSUME ProtocolInv, NEW n \in Nodes, FileInv(n)',
         NEW at \in {"report", "report_again", "recover_report"},
         NEW t \in Tasks, NEW e \in ExecutionIDs, NEW st \in {"succeeded", "failed"},
         NEW sm \in Summaries, Send(n, at, Report(t, e, st, sm)),
         e \in issued', Started(t, e)', decided'[t] = st,
         disk'[n] # None => disk'[n].task = t,
         at # "report_again" => disk'[n] # None
  PROVE  AgentInv(n)'
<1>1. Report(t, e, st, sm) \in Requests
  BY RequestTypes
<1>2. /\ pc'[n] = at /\ call'[n] # None /\ call'[n].reply = Waiting
      /\ call'[n].request = Report(t, e, st, sm)
  BY <1>1, Mine, Sent
<1>3. /\ call'[n].request.kind = "report" /\ call'[n].request.task = t
      /\ call'[n].request.execution = e /\ call'[n].request.status = st
  BY <1>2 DEF Report
<1>4. LoopInv(n)'
  BY <1>2, <1>3 DEF LoopInv
<1>5. (call[n] # None => RequestInv(call[n].request))'
  BY <1>3 DEF RequestInv, Started
<1> QED  BY <1>4, <1>5 DEF AgentInv

LEMMA CompletionSendKept ==
  ASSUME ProtocolInv, Advance, NEW n \in Nodes,
         (\E c \in Completions : Finish(n, c)) \/ RecoverReport(n)
  PROVE  AgentInv(n)'
<1>0. /\ disk[n] # None /\ disk[n].acknowledged /\ FileInv(n)
      /\ disk[n].task \in Tasks /\ disk[n].execution \in ExecutionIDs
      /\ UNCHANGED <<status, execution, state, issued>>
  BY Mine, FileFields, AgentStepStore DEF Loop, Finish, RecoverReport, LoopInv, Holding
<1>1. PICK t, e : t = disk[n].task /\ e = disk[n].execution
  OBVIOUS
<1>11. e \in issued' /\ Started(t, e)'
  BY <1>0, <1>1 DEF FileInv, Started
<1>2. ASSUME NEW c \in Completions, Finish(n, c) PROVE AgentInv(n)'
  <2>1. disk[n].completion = NoCompletion
    BY <1>2, Mine DEF Finish, LoopInv
  <2>2. /\ FileInv(n)' /\ disk'[n] # None /\ disk'[n].task = disk[n].task
        /\ decided'[disk[n].task] = c.status
    BY <1>0, <1>2, <2>1, CompletionKept DEF Finish
  <2>3. c.status \in {"succeeded", "failed"} /\ c.summary \in Summaries
    BY CompletionFields, ReportedStatus
  <2> QED  BY <1>0, <1>1, <1>11, <1>2, <2>2, <2>3, ReportSent DEF Finish
<1>3. CASE RecoverReport(n)
  <2> DEFINE c == disk'[n].completion
  <2>1. /\ FileInv(n)' /\ disk'[n] # None /\ disk'[n].task = disk[n].task
        /\ decided'[disk[n].task] = c.status /\ c \in Completions \cup {Restarted}
    BY <1>0, <1>3, CompletionKept DEF RecoverReport
  <2>2. c.status \in {"succeeded", "failed"} /\ c.summary \in Summaries
    BY <2>1, CompletionFields, ReportedStatus
  <2> QED  BY <1>0, <1>1, <1>11, <1>3, <2>1, <2>2, ReportSent DEF RecoverReport
<1> QED  BY <1>2, <1>3

\* A failure that is reported again.
LEMMA ReportAgainSent ==
  ASSUME ProtocolInv, Advance, NEW n \in Nodes, pc[n] = "report", UNCHANGED decided,
         disk'[n] \in {disk[n], None}, NEW sm \in {call[n].request.summary, "timeout"},
         Send(n, "report_again", Report(call[n].request.task, call[n].request.execution,
                                        call[n].request.status, sm))
  PROVE  AgentInv(n)'
<1>1. PICK r : r = call[n].request
  OBVIOUS
<1>2. /\ r \in Requests /\ RequestInv(r) /\ r.kind = "report"
      /\ disk[n] # None => disk[n].task = r.task
  BY <1>1, Mine DEF LoopInv
<1>3. /\ r.task \in Tasks /\ r.execution \in ExecutionIDs
      /\ r.status \in {"succeeded", "failed"} /\ sm \in Summaries
  BY <1>1, <1>2, RequestFields, ExecutionAssumption
<1>4. r.execution \in issued' /\ Started(r.task, r.execution)' /\ decided'[r.task] = r.status
  BY <1>2, <1>3 DEF RequestInv, Advance
<1>5. FileInv(n)'
  BY FileKept
<1> QED  BY <1>1, <1>2, <1>3, <1>4, <1>5, ReportSent

LEMMA ReportReturnsKept ==
  ASSUME ProtocolInv, Advance, NEW n \in Nodes,
         ReportReturns(n) \/ ReportAgainReturns(n) \/ RecoverReportReturns(n)
  PROVE  AgentInv(n)'
<1>0. AgentTypeOK /\ disk'[n] \in {disk[n], None} /\ UNCHANGED decided
  BY Mine DEF ReportReturns, ReportAgainReturns, RecoverReportReturns, historyVars,
     removeTaskExecutionState, AgentTypeOK
<1>1. FileInv(n)'
  BY <1>0, FileKept
<1>2. CASE Return(n, "idle")
  BY <1>0, <1>1, <1>2, IdleLoop DEF AgentInv
<1>3. CASE ~Return(n, "idle")
  BY <1>0, <1>3, ReportAgainSent DEF ReportReturns, ReportAgainReturns, RecoverReportReturns,
     Replied
<1> QED  BY <1>2, <1>3

LEMMA RecoverAckKept ==
  ASSUME ProtocolInv, Advance, NEW n \in Nodes, RecoverAck(n)
  PROVE  AgentInv(n)'
<1>0. /\ AgentTypeOK /\ FileInv(n) /\ disk[n] # None /\ disk[n] \in Files
      /\ disk[n].completion = NoCompletion /\ UNCHANGED <<disk, decided, issued>>
  BY Mine DEF RecoverAck, Holding, historyVars, storeVars
<1>1. FileInv(n)'
  BY <1>0, FileKept
<1>2. /\ pc'[n] = "recover_ack" /\ call'[n] # None /\ call'[n].reply.code = "waiting"
      /\ call'[n].request = Ack(disk[n].task, disk[n].execution)
  BY <1>0, HeldRequests, Sent DEF RecoverAck
<1>3. LoopInv(n)'
  BY <1>0, <1>2 DEF LoopInv
<1>4. (call[n] # None => RequestInv(call[n].request))'
  BY <1>0, <1>2 DEF RequestInv, Ack, FileInv
<1> QED  BY <1>1, <1>3, <1>4 DEF AgentInv

\* The faults of an agent, its deadline and its renewals.
LEMMA FaultsKept ==
  ASSUME ProtocolInv, Advance, NEW n \in Nodes,
         Abandon(n) \/ renewTaskLease(n) \/ CallFails(n) \/ Crash(n)
  PROVE  AgentInv(n)'
<1>0. /\ AgentTypeOK /\ LoopInv(n)
      /\ UNCHANGED <<disk, todo, decided, status, execution, state, issued, backups>>
  BY Mine, AgentStepStore DEF Abandon, renewTaskLease, CallFails, Crash, historyVars, agentVars
<1>1. FileInv(n)'
  BY <1>0, FileKept
<1>2. CASE renewTaskLease(n)
  BY <1>0, <1>2, AgentKept DEF renewTaskLease, agentVars
<1>3. CASE Return(n, "idle")
  BY <1>0, <1>1, <1>3, IdleLoop DEF AgentInv
<1>4. CASE CallFails(n) /\ Return(n, "run") /\ pc[n] = "backup"
  <2>1. pc'[n] = "run" /\ call'[n] = None
    BY <1>0, <1>4, Returned
  <2>2. LoopInv(n)'
    BY <1>0, <1>4, <2>1 DEF LoopInv
  <2> QED  BY <1>1, <2>1, <2>2 DEF AgentInv
<1>5. CASE CallFails(n) /\ pc[n] = "report" /\ call[n].request.status = "failed"
  BY <1>0, <1>5, ReportAgainSent DEF CallFails
<1> QED  BY <1>2, <1>3, <1>4, <1>5 DEF Abandon, CallFails, Crash

-----------------------------------------------------------------------------
(* The controller answers *)

\* A report is refused or taken again only once its task has ended: a started
\* execution that is not current is a completed one.
LEMMA ReportAnswered ==
  ASSUME ProtocolInv, NEW r \in Requests, RequestInv(r), r.kind = "report", NEW reply,
         Handle(r, reply)
  PROVE  /\ Terminal(r.task)'
         /\ Terminal(r.task) \/ status'[r.task] = decided[r.task]
         /\ \A t \in Tasks : t # r.task => status'[t] = status[t]
<1>0. /\ TypeOK /\ ExecutionColumnsAgree /\ r.task \in Tasks
      /\ r.status \in {"succeeded", "failed"}
      /\ Started(r.task, r.execution) /\ decided[r.task] = r.status
  BY RequestFields DEF ProtocolInv, LeaseInv, RequestInv
<1>1. ReportTaskState(r, reply)
  BY DEF Handle
<1>2. CASE CompleteTaskExecution(r.task, r.execution, r.status, r.summary)
  BY <1>0, <1>2 DEF CompleteTaskExecution, FinishExecution, FinishRow, TypeOK, Terminal,
     TerminalStatuses
<1>3. CASE ~Current(r.task, r.execution) /\ UNCHANGED storeVars
  <2>1. status[r.task] \in Statuses \cup {"absent"}
    BY <1>0 DEF TypeOK
  <2>2. Terminal(r.task)
    BY <1>0, <1>3, <2>1 DEF Started, Current, ExecutionColumnsAgree, Terminal, Statuses,
       ActiveStatuses
  <2> QED  BY <1>3, <2>2 DEF storeVars, rowVars, Terminal
<1> QED  BY <1>1, <1>2, <1>3 DEF ReportTaskState

\* An offer is for a task of the agent that nobody has decided.
LEMMA PullAnswered ==
  ASSUME ProtocolInv, NEW n \in Nodes, disk[n] = None, NEW reply, PullNextTask(Pull(n), reply)
  PROVE  /\ reply.code = "offer" =>
              /\ NodeOf[reply.task] = n /\ AgentTask(reply.task)
              /\ reply.execution \in issued' /\ decided[reply.task] = "none"
         /\ \A t \in Tasks : Terminal(t)' => Terminal(t)
<1>0. TypeOK /\ DecidedInv
  BY DEF ProtocolInv, LeaseInv
<1>1. CASE reply = NoTask /\ UNCHANGED storeVars
  BY <1>1 DEF NoTask, storeVars, rowVars, Terminal
<1>2. ASSUME NEW t \in Tasks, ClaimNextPendingTaskForNode(n, t), reply = Offer(t, NewExecutionID)
      PROVE  /\ reply.code = "offer" =>
                  /\ NodeOf[reply.task] = n /\ AgentTask(reply.task)
                  /\ reply.execution \in issued' /\ decided[reply.task] = "none"
             /\ \A u \in Tasks : Terminal(u)' => Terminal(u)
  <2>1. /\ status[t] = "pending" /\ NodeOf[t] = n
        /\ TypeOf[t] \notin {"dns_update", "migrate"} /\ NewExecutionID \in issued'
        /\ status' = [status EXCEPT ![t] = "running"]
    BY <1>2 DEF ClaimNextPendingTaskForNode, OldestOf
  <2>2. AgentTask(t)
    BY <2>1, StoreAssumption DEF AgentTask
  <2>3. decided[t] = "none"
    BY <1>0, <2>1 DEF DecidedInv, Terminal, TerminalStatuses
  <2>4. reply.task = t /\ reply.execution = NewExecutionID
    BY <1>2 DEF Offer
  <2> QED  BY <1>0, <2>1, <2>2, <2>3, <2>4 DEF TypeOK, Terminal, TerminalStatuses
<1> QED  BY <1>1, <1>2 DEF PullNextTask, Pull

LEMMA ServeKept ==
  ASSUME ProtocolInv, Advance, NEW n \in Nodes, Serve(n)
  PROVE  AgentInv(n)'
<1>1. PICK r : r = call[n].request
  OBVIOUS
<1>2. /\ AgentTypeOK /\ HistoryTypeOK /\ LoopInv(n) /\ r \in Requests /\ RequestInv(r)
      /\ call[n] \in Calls /\ call[n] # None /\ call[n].reply = Waiting
      /\ disk[n] # None => disk[n].task \in Tasks
      /\ UNCHANGED <<disk, pc, todo, decided>>
  BY <1>1, Mine DEF Serve, historyVars, AgentTypeOK
<1>3. FileInv(n)'
  BY <1>2, FileKept
<1>4. ASSUME NEW reply \in Replies, Handle(r, reply), call' = [call EXCEPT ![n].reply = reply]
      PROVE  AgentInv(n)'
  <2>1. call'[n] = [call[n] EXCEPT !.reply = reply]
    BY <1>2, <1>4 DEF AgentTypeOK
  <2>2. call'[n] \in Calls /\ call'[n].request = r /\ call'[n].reply = reply
    BY <1>1, <1>2, <2>1 DEF Calls
  <2>3. (call[n] # None => RequestInv(call[n].request))'
    <3>1. RequestInv(r)'
      BY <1>2, RequestKept
    <3> QED  BY <2>2, <3>1 DEF RequestInv
  <2>4. pc[n] = "pull" => OfferInv(n, reply)'
    <3>1. ASSUME pc[n] = "pull" PROVE PullNextTask(r, reply) /\ r = Pull(n) /\ disk[n] = None
      BY <1>1, <1>2, <1>4, <3>1 DEF LoopInv, Handle, Pull
    <3> QED  BY <1>2, <3>1, PullAnswered DEF OfferInv, AgentTask
  <2>5. pc[n] \in {"ack", "recover_ack"} /\ reply.code = "ok" =>
          Started(disk[n].task, disk[n].execution)'
    <3>1. ASSUME pc[n] \in {"ack", "recover_ack"}, reply.code = "ok"
          PROVE  AcknowledgeTaskExecution(disk[n].task, disk[n].execution) /\ disk[n].task \in Tasks
      <4>1. r = Ack(disk[n].task, disk[n].execution) /\ disk[n].task \in Tasks
        BY <1>1, <1>2, <3>1 DEF LoopInv
      <4>2. r.kind = "ack" /\ r.task = disk[n].task /\ r.execution = disk[n].execution
        BY <4>1 DEF Ack
      <4> QED  BY <1>4, <3>1, <4>1, <4>2 DEF Handle, AcknowledgeTask, Rejected
    <3> QED  BY <1>2, <3>1 DEF AcknowledgeTaskExecution, CanAcknowledge, Started, ProtocolInv,
                LeaseInv, TypeOK
  <2>6. r.kind = "report" => Terminal(r.task)'
    BY <1>2, <1>4, ReportAnswered
  <2>7. r.kind = "backup" /\ reply.code = "ok" =>
          <<r.task, r.result.data, r.result.status>> \in backups'
    BY <1>2, <1>4, HandleBackups
  <2>8. LoopInv(n)'
    BY <1>1, <1>2, <2>2, <2>4, <2>5, <2>6, <2>7, NoneAssumption DEF LoopInv, Advance
  <2> QED  BY <1>3, <2>3, <2>8 DEF AgentInv
<1>5. ASSUME CheckPassed(r), call' = [call EXCEPT ![n].request.checked = TRUE]
      PROVE  AgentInv(n)'
  <2> DEFINE q == [r EXCEPT !.checked = TRUE]
  <2>1. /\ q \in Requests /\ q.kind = "backup" /\ q.task = r.task /\ q.execution = r.execution
        /\ q.result = r.result /\ r.kind = "backup"
    <3>1. r.kind = "backup" /\ q \in Requests
      BY <1>2, <1>5, CheckedType DEF CheckPassed
    <3> QED  BY <1>2, <3>1 DEF Requests
  <2>2. call'[n] = [call[n] EXCEPT !.request = q]
    BY <1>1, <1>2, <1>5 DEF AgentTypeOK
  <2>3. call'[n] \in Calls /\ call'[n].request = q /\ call'[n].reply = Waiting
    BY <1>2, <2>1, <2>2 DEF Calls
  <2> HIDE DEF q
  <2>4. pc[n] \in {"backup", "recover_backup"}
    <3>1. pc[n] \in Labels
      BY <1>2 DEF AgentTypeOK
    <3> QED  BY <1>1, <1>2, <2>1, <3>1 DEF LoopInv, Labels, Pull, Ack
  <2>5. Waiting.code = "waiting"
    BY DEF Waiting
  <2>6. LoopInv(n)'
    BY <1>1, <1>2, <2>1, <2>3, <2>4, <2>5, NoneAssumption DEF LoopInv, Advance
  <2>7. (call[n] # None => RequestInv(call[n].request))'
    <3>1. RequestInv(r)'
      BY <1>2, RequestKept
    <3> QED  BY <2>1, <2>3, <3>1 DEF RequestInv
  <2> QED  BY <1>3, <2>6, <2>7 DEF AgentInv
<1> QED  BY <1>1, <1>4, <1>5 DEF Serve

\* Every step keeps what is known of every agent.
LEMMA AgentsKept ==
  ASSUME ProtocolInv, Advance, [Next]_vars, NEW m \in Nodes
  PROVE  AgentInv(m)'
<1>1. ASSUME NEW n \in Nodes,
             Loop(n) \/ Abandon(n) \/ renewTaskLease(n) \/ Serve(n) \/ CallFails(n) \/ Crash(n)
      PROVE  AgentInv(m)'
  <2>1. CASE m # n
    BY <1>1, <2>1, OthersUntouched, AgentKept
  <2>2. CASE m = n
    BY <1>1, <2>2, PollKept, AckReturnsKept, BackupSendKept, BackupReturnsKept,
       CompletionSendKept, ReportReturnsKept, RecoverAckKept, FaultsKept, ServeKept DEF Loop
  <2> QED  BY <2>1, <2>2
<1>2. CASE UNCHANGED <<agentVars, decided>>
  BY <1>2, AgentKept DEF agentVars
<1> QED  BY <1>1, <1>2 DEF Next, vars, ServeStray, LoseStray, AdmitTasks, Sweep, TimePasses,
            OperatorFailsLost, historyVars

-----------------------------------------------------------------------------
(* The requests in flight and the histories *)

LEMMA StrayKept ==
  ASSUME ProtocolInv, Advance, [Next]_vars, NEW r \in stray'
  PROVE  RequestInv(r)'
<1>0. stray \subseteq Requests
  BY DEF ProtocolInv, ProtocolTypeOK
<1>1. ASSUME r \in stray PROVE RequestInv(r)'
  BY <1>0, <1>1, RequestKept DEF ProtocolInv
<1>2. ASSUME NEW n \in Nodes, call[n] # None, r = call[n].request PROVE RequestInv(r)'
  BY <1>2, Mine, RequestKept
<1>3. ASSUME NEW n \in Nodes, renewTaskLease(n) PROVE RequestInv(r)'
  <2>1. CASE r = Renew(disk[n].task, disk[n].execution)
    BY <1>3, <2>1, Mine DEF renewTaskLease, Holding, FileInv, RequestInv, Renew, Advance
  <2> QED  BY <1>1, <1>3, <2>1 DEF renewTaskLease
<1>4. ASSUME NEW n \in Nodes, CallFails(n) \/ Crash(n) PROVE RequestInv(r)'
  BY <1>1, <1>2, <1>4 DEF CallFails, Crash, Drop
<1>5. ASSUME NEW q \in stray, ServeStray(q) PROVE RequestInv(r)'
  <2>1. CASE r = [q EXCEPT !.checked = TRUE] /\ CheckPassed(q)
    <3>1. q \in Requests /\ q.kind = "backup" /\ RequestInv(q)
      BY <1>0, <2>1 DEF CheckPassed, ProtocolInv
    <3>2. r.kind = "backup" /\ r.execution = q.execution
      BY <2>1, <3>1 DEF Requests
    <3>3. RequestInv(q)'
      BY <3>1, RequestKept
    <3> QED  BY <3>1, <3>2, <3>3 DEF RequestInv
  <2> QED  BY <1>1, <1>5, <2>1 DEF ServeStray
<1>6. CASE stray' \subseteq stray
  BY <1>1, <1>6
<1> QED  BY <1>3, <1>4, <1>5, <1>6 DEF Next, vars, Loop, Abandon, Serve, pollAndRunTask,
            PullReturns, AckReturns, reportBackupResult, resendBackupResult, BackupReturns,
            Finish, ReportReturns, ReportAgainReturns, RecoverAck, RecoverBackup,
            RecoverBackupReturns, RecoverReport, RecoverReportReturns, LoseStray, AdmitTasks,
            Sweep, TimePasses, OperatorFailsLost

\* An agent begins only what the controller has accepted.
LEMMA RanKept ==
  ASSUME ProtocolInv, Advance, [Next]_vars
  PROVE  RanInv'
<1> SUFFICES ASSUME NEW x \in ran' PROVE Started(x[1], x[2])'
  BY DEF RanInv, Started
<1>0. ran \subseteq Tasks \X ExecutionIDs
  BY DEF ProtocolInv, ProtocolTypeOK
<1>1. CASE x \in ran
  <2>1. PICK t \in Tasks, e \in ExecutionIDs : x = <<t, e>>
    BY <1>0, <1>1
  <2> QED  BY <1>1, <2>1 DEF ProtocolInv, RanInv, Advance, Started
<1>2. ASSUME NEW n \in Nodes, AckReturns(n), x \notin ran PROVE Started(x[1], x[2])'
  <2>1. /\ x = <<disk[n].task, disk[n].execution>> /\ Code(n) = "ok"
        /\ UNCHANGED <<execution, state>>
    BY <1>2 DEF AckReturns, storeVars, rowVars
  <2>2. Started(disk[n].task, disk[n].execution)
    BY <1>2, <2>1, Mine DEF AckReturns, Replied, LoopInv, Code
  <2> QED  BY <2>1, <2>2 DEF Started
<1> QED  BY <1>1, <1>2 DEF Next, vars, Loop, Abandon, renewTaskLease, CallFails, Crash, Serve,
            ServeStray, pollAndRunTask, PullReturns, reportBackupResult, resendBackupResult,
            BackupReturns, Finish, ReportReturns, ReportAgainReturns, RecoverAck, RecoverBackup,
            RecoverBackupReturns, RecoverReport, RecoverReportReturns, LoseStray, AdmitTasks,
            Sweep, TimePasses, OperatorFailsLost, historyVars

\* A file is removed only when its task has ended or nothing was decided.
LEMMA FileStays ==
  ASSUME ProtocolInv, Advance, [Next]_vars, NEW n \in Nodes, disk[n] # None,
         decided[disk[n].task] # "none"
  PROVE  Terminal(disk[n].task) \/ (disk'[n] # None /\ disk'[n].task = disk[n].task)
<1> DEFINE Stays == disk'[n] # None /\ disk'[n].task = disk[n].task
<1>0. AgentTypeOK /\ FileInv(n) /\ LoopInv(n) /\ disk[n] \in Files /\ NoCompletion.status = "none"
  BY Mine DEF NoCompletion
<1>1. CASE disk'[n] = disk[n]
  BY <1>1
<1>2. ASSUME NEW m \in Nodes, m # n,
             Loop(m) \/ Abandon(m) \/ renewTaskLease(m) \/ Serve(m) \/ CallFails(m) \/ Crash(m)
      PROVE  disk'[n] = disk[n]
  BY <1>2, OthersUntouched
<1>3. CASE pollAndRunTask(n) \/ PullReturns(n)
  BY <1>0, <1>3 DEF pollAndRunTask, Holding, PullReturns, Replied, LoopInv
<1>4. CASE AckReturns(n)
  BY <1>0, <1>4 DEF AckReturns, Replied, LoopInv, FileInv
<1>5. CASE reportBackupResult(n)
  BY <1>0, <1>5 DEF reportBackupResult, LoopInv, FileInv
<1>6. CASE BackupReturns(n) \/ RecoverBackupReturns(n)
  <2>1. UNCHANGED decided
    BY <1>6 DEF BackupReturns, RecoverBackupReturns, historyVars
  <2>2. CASE disk' = [disk EXCEPT ![n].backup = None]
    BY <2>1, <2>2, ResultTaken
  <2> QED  BY <1>1, <1>6, <2>2 DEF BackupReturns, RecoverBackupReturns
<1>7. CASE (\E c \in Completions : Finish(n, c)) \/ RecoverReport(n)
  <2>1. disk[n].acknowledged
    BY <1>0, <1>7 DEF Finish, RecoverReport, LoopInv
  <2> QED  BY <1>7, <2>1, CompletionKept DEF Finish, RecoverReport
<1>8. CASE ReportReturns(n) \/ ReportAgainReturns(n) \/ RecoverReportReturns(n)
  BY <1>0, <1>8 DEF ReportReturns, ReportAgainReturns, RecoverReportReturns, Replied, LoopInv
<1>9. CASE resendBackupResult(n) \/ RecoverAck(n) \/ RecoverBackup(n) \/ Abandon(n)
           \/ renewTaskLease(n) \/ Serve(n) \/ CallFails(n) \/ Crash(n)
  BY <1>1, <1>9 DEF resendBackupResult, RecoverAck, RecoverBackup, Abandon, renewTaskLease,
     Serve, CallFails, Crash, agentVars
<1>10. CASE UNCHANGED disk
  BY <1>1, <1>10
<1> QED  BY <1>1, <1>2, <1>3, <1>4, <1>5, <1>6, <1>7, <1>8, <1>9, <1>10 DEF Next, vars, Loop,
            ServeStray, LoseStray, AdmitTasks, Sweep, TimePasses, OperatorFailsLost, agentVars

\* What a completion that is persisted decides, and on which grounds.
LEMMA NewDecision ==
  ASSUME ProtocolInv, Advance, NEW n \in Nodes, NEW t \in Tasks,
         (\E c \in Completions : Finish(n, c)) \/ RecoverReport(n),
         decided'[t] # decided[t]
  PROVE  /\ AgentTask(t) /\ NodeOf[t] = n /\ disk'[n] # None /\ disk'[n].task = t
         /\ decided'[t] = "succeeded" => \A d \in DataOf[t] : <<t, d, "succeeded">> \in backups
<1>0. /\ HistoryTypeOK /\ FileInv(n) /\ LoopInv(n) /\ disk[n] # None /\ disk[n].acknowledged
  BY Mine DEF Finish, RecoverReport, LoopInv, Holding
<1>1. ASSUME NEW c \in Completions, Finish(n, c)
      PROVE  /\ t = disk[n].task
             /\ decided'[t] = "succeeded" => \A d \in DataOf[t] : <<t, d, "succeeded">> \in backups
  <2>1. t = disk[n].task /\ decided'[t] = c.status
    BY <1>0, <1>1 DEF Finish, storeCompletion, HistoryTypeOK
  <2>2. c.status = "succeeded" => pc[n] = "run" /\ todo[n] = {}
    BY <1>1 DEF Finish
  <2> QED  BY <1>0, <2>1, <2>2 DEF LoopInv
<1>2. ASSUME RecoverReport(n)
      PROVE  t = disk[n].task /\ decided'[t] # "succeeded"
  <2>1. t = disk[n].task /\ decided'[t] = Restarted.status
    BY <1>0, <1>2 DEF RecoverReport, storeCompletion, HistoryTypeOK
  <2> QED  BY <2>1 DEF Restarted
<1>3. disk'[n] # None /\ disk'[n].task = disk[n].task
  BY <1>0, CompletionKept DEF Finish, RecoverReport
<1> QED  BY <1>0, <1>1, <1>2, <1>3 DEF FileInv

\* Only an agent that persists a completion decides.
LEMMA OnlyCompletionsDecide ==
  ASSUME [Next]_vars, decided' # decided
  PROVE  \E n \in Nodes : (\E c \in Completions : Finish(n, c)) \/ RecoverReport(n)
BY DEF Next, vars, Loop, Abandon, renewTaskLease, CallFails, Crash, Serve, ServeStray,
   pollAndRunTask, PullReturns, AckReturns, reportBackupResult, resendBackupResult,
   BackupReturns, ReportReturns, ReportAgainReturns, RecoverAck, RecoverBackup,
   RecoverBackupReturns, RecoverReportReturns, LoseStray, AdmitTasks, Sweep, TimePasses,
   OperatorFailsLost, historyVars

LEMMA DecidedKept ==
  ASSUME ProtocolInv, Advance, [Next]_vars
  PROVE  DecidedInv'
<1>0. DecidedInv /\ HistoryTypeOK
  BY TypeParts DEF ProtocolInv
<1> SUFFICES ASSUME NEW t \in Tasks, decided'[t] # "none"
             PROVE  /\ AgentTask(t)
                    /\ \/ Terminal(t)'
                       \/ /\ NodeOf[t] \in Nodes /\ disk'[NodeOf[t]] # None
                          /\ disk'[NodeOf[t]].task = t
                    /\ decided'[t] = "succeeded" =>
                         \A d \in DataOf[t] : <<t, d, "succeeded">> \in backups'
  BY DEF DecidedInv, AgentTask, Terminal
<1>1. CASE decided[t] # "none"
  <2>1. decided'[t] = decided[t] /\ backups \subseteq backups'
    BY <1>1 DEF Advance
  <2>2. CASE Terminal(t)
    BY <1>0, <1>1, <2>1, <2>2 DEF DecidedInv, Advance
  <2>3. CASE ~Terminal(t)
    <3>1. NodeOf[t] \in Nodes /\ disk[NodeOf[t]] # None /\ disk[NodeOf[t]].task = t
      BY <1>0, <1>1, <2>3 DEF DecidedInv
    <3>2. disk'[NodeOf[t]] # None /\ disk'[NodeOf[t]].task = t
      BY <1>1, <2>3, <3>1, FileStays
    <3> QED  BY <1>0, <1>1, <2>1, <3>1, <3>2 DEF DecidedInv
  <2> QED  BY <2>2, <2>3
<1>2. CASE decided[t] = "none"
  <2>1. PICK n \in Nodes : (\E c \in Completions : Finish(n, c)) \/ RecoverReport(n)
    BY <1>2, OnlyCompletionsDecide
  <2> QED  BY <1>2, <2>1, NewDecision DEF Advance
<1> QED  BY <1>1, <1>2

\* Operators only resolve tasks as failed, and never undo it.
LEMMA ResolvedKept ==
  ASSUME ProtocolInv, Advance, [Next]_vars
  PROVE  ResolvedInv' /\ resolved \subseteq resolved'
<1>0. ResolvedInv /\ resolved \subseteq Tasks /\ TypeOK
  BY DEF ProtocolInv, ProtocolTypeOK
<1>1. \A t \in resolved : status'[t] = "failed"
  BY <1>0 DEF ResolvedInv, Advance, Terminal, TerminalStatuses
<1>2. ASSUME NEW t \in Tasks, OperatorFailsLost(t) PROVE ResolvedInv' /\ resolved \subseteq resolved'
  BY <1>0, <1>1, <1>2 DEF OperatorFailsLost, FailLostTaskExecution, FinishExecution, FinishRow,
     TypeOK, ResolvedInv
<1>3. CASE UNCHANGED resolved
  BY <1>1, <1>3 DEF ResolvedInv
<1> QED  BY <1>2, <1>3 DEF Next, vars, Loop, Abandon, renewTaskLease, CallFails, Crash, Serve,
            ServeStray, pollAndRunTask, PullReturns, AckReturns, reportBackupResult,
            resendBackupResult, BackupReturns, Finish, ReportReturns, ReportAgainReturns,
            RecoverAck, RecoverBackup, RecoverBackupReturns, RecoverReport, RecoverReportReturns,
            LoseStray, AdmitTasks, Sweep, TimePasses, historyVars

\* An archived completion is of a task that has ended.
LEMMA ArchivedKept ==
  ASSUME ProtocolInv, Advance, [Next]_vars, resolved \subseteq resolved'
  PROVE  ArchivedInv'
<1>0. ArchivedInv /\ archived \subseteq Tasks \X {"succeeded", "failed"} /\ OutcomeIsTheAgents
  BY DEF ProtocolInv, ProtocolTypeOK
<1> SUFFICES ASSUME NEW x \in archived'
             PROVE  Terminal(x[1])' /\ (status'[x[1]] = x[2] \/ x[1] \in resolved')
  BY DEF ArchivedInv, Terminal
<1>1. CASE x \in archived
  <2>1. x[1] \in Tasks
    BY <1>0, <1>1
  <2> QED  BY <1>0, <1>1, <2>1 DEF ArchivedInv, Advance, Terminal
<1>2. ASSUME NEW n \in Nodes, RecoverReportReturns(n), x \notin archived
      PROVE  Terminal(x[1])' /\ (status'[x[1]] = x[2] \/ x[1] \in resolved')
  <2>1. /\ FileInv(n) /\ LoopInv(n) /\ disk[n] # None /\ disk[n].task \in Tasks
    BY <1>2, Mine DEF RecoverReportReturns, Replied, LoopInv
  <2>2. x = <<disk[n].task, disk[n].completion.status>>
    BY <1>2 DEF RecoverReportReturns
  <2>3. /\ Terminal(disk[n].task) /\ AgentTask(disk[n].task)
        /\ decided[disk[n].task] = disk[n].completion.status
    BY <1>2, <2>1 DEF RecoverReportReturns, Replied, LoopInv, FileInv
  <2>4. status[x[1]] = x[2] \/ x[1] \in resolved
    BY <1>0, <2>1, <2>2, <2>3 DEF OutcomeIsTheAgents
  <2> QED  BY <2>1, <2>2, <2>3, <2>4 DEF Advance, Terminal
<1> QED  BY <1>1, <1>2 DEF Next, vars, Loop, Abandon, renewTaskLease, CallFails, Crash, Serve,
            ServeStray, pollAndRunTask, PullReturns, AckReturns, reportBackupResult,
            resendBackupResult, BackupReturns, Finish, ReportReturns, ReportAgainReturns,
            RecoverAck, RecoverBackup, RecoverBackupReturns, RecoverReport, LoseStray, AdmitTasks,
            Sweep, TimePasses, OperatorFailsLost, historyVars

\* A handler ends a task only with what its agent decided.
LEMMA HandleEnds ==
  ASSUME ProtocolInv, NEW r \in Requests, RequestInv(r), NEW reply, Handle(r, reply),
         NEW t \in Tasks, ~Terminal(t), Terminal(t)'
  PROVE  status'[t] = decided[t]
<1>0. TypeOK
  BY DEF ProtocolInv, LeaseInv
<1>1. CASE r.kind = "report"
  BY <1>1, ReportAnswered DEF Terminal
<1>2. CASE r.kind = "pull" /\ PullNextTask(r, reply)
  BY <1>0, <1>2 DEF PullNextTask, ClaimNextPendingTaskForNode, TypeOK, Terminal,
     TerminalStatuses, storeVars, rowVars
<1>3. CASE UNCHANGED status
  BY <1>3 DEF Terminal
<1> QED  BY <1>1, <1>2, <1>3 DEF Handle, AcknowledgeTask, AcknowledgeTaskExecution,
            RenewTaskLease, RenewTaskExecution, storeVars, rowVars

\* A task ends with what its agent decided, or because an operator resolved it.
LEMMA TaskEnds ==
  ASSUME ProtocolInv, [Next]_vars, NEW t \in Tasks, ~Terminal(t), Terminal(t)', t \notin resolved'
  PROVE  status'[t] = decided[t] /\ decided' = decided
<1>0. TypeOK
  BY DEF ProtocolInv, LeaseInv
<1>1. ASSUME NEW n \in Nodes, Serve(n) PROVE status'[t] = decided[t] /\ decided' = decided
  <2>1. PICK r : r = call[n].request
    OBVIOUS
  <2>2. r \in Requests /\ RequestInv(r)
    BY <1>1, <2>1, Mine DEF Serve
  <2>3. CASE UNCHANGED storeVars
    BY <2>3 DEF storeVars, rowVars, Terminal
  <2> QED  BY <1>1, <2>1, <2>2, <2>3, HandleEnds DEF Serve, historyVars
<1>2. ASSUME NEW r \in stray, ServeStray(r) PROVE status'[t] = decided[t] /\ decided' = decided
  <2>1. r \in Requests /\ RequestInv(r)
    BY DEF ProtocolInv, ProtocolTypeOK
  <2>2. CASE UNCHANGED storeVars
    BY <2>2 DEF storeVars, rowVars, Terminal
  <2> QED  BY <1>2, <2>1, <2>2, HandleEnds DEF ServeStray, historyVars
<1>3. ASSUME NEW u \in Tasks, OperatorFailsLost(u) PROVE FALSE
  <2>1. u \in resolved' /\ status' = [status EXCEPT ![u] = "failed"]
    BY <1>3 DEF OperatorFailsLost, FailLostTaskExecution, FinishExecution, FinishRow
  <2> QED  BY <1>0, <2>1 DEF TypeOK, Terminal
<1>4. CASE AdmitTasks
  <2>1. PICK new \in SUBSET Tasks :
          status' = [u \in Tasks |-> IF u \in new THEN "pending" ELSE status[u]]
    BY <1>4 DEF AdmitTasks, Admit, CreateTask, CreateTasksIfNoActiveServiceInstanceTasks,
       CreateTaskWithConstraints, insertTaskRecord
  <2> QED  BY <2>1 DEF Terminal, TerminalStatuses
<1>5. CASE Sweep
  BY <1>5 DEF Sweep, SweepExpiredTaskExecutions, Terminal, TerminalStatuses
<1>6. CASE UNCHANGED status
  BY <1>6 DEF Terminal
<1>7. ASSUME NEW n \in Nodes, Loop(n) \/ Abandon(n) \/ renewTaskLease(n) \/ CallFails(n) \/ Crash(n)
      PROVE  UNCHANGED status
  BY <1>7, AgentStepStore
<1> QED  BY <1>1, <1>2, <1>3, <1>4, <1>5, <1>6, <1>7 DEF Next, vars, LoseStray, TimePasses,
            LeaseExpires, storeVars, rowVars

LEMMA OutcomeKept ==
  ASSUME ProtocolInv, Advance, [Next]_vars, resolved \subseteq resolved'
  PROVE  OutcomeIsTheAgents'
<1> SUFFICES ASSUME NEW t \in Tasks, AgentTask(t), Terminal(t)', t \notin resolved'
             PROVE  decided'[t] = status'[t]
  BY DEF OutcomeIsTheAgents, AgentTask
<1>1. CASE Terminal(t)
  <2>1. decided[t] = status[t] /\ status[t] # "none" /\ status'[t] = status[t]
    BY <1>1 DEF ProtocolInv, OutcomeIsTheAgents, Terminal, TerminalStatuses, Advance
  <2> QED  BY <2>1 DEF Advance
<1>2. CASE ~Terminal(t)
  BY <1>2, TaskEnds
<1> QED  BY <1>1, <1>2

-----------------------------------------------------------------------------
(* The invariant of the protocol *)

LEMMA ProtocolInit == Init => ProtocolInv
<1> SUFFICES ASSUME Init PROVE ProtocolInv
  OBVIOUS
<1>1. LeaseInv /\ TypeOK
  BY LeaseInit DEF Init, LeaseInv
<1>2. ProtocolTypeOK
  BY <1>1, ExecutionAssumption DEF Init, ProtocolTypeOK, Labels
<1>3. \A n \in Nodes : AgentInv(n)
  BY DEF Init, AgentInv, FileInv, LoopInv
<1>4. RanInv /\ DecidedInv /\ ArchivedInv /\ ResolvedInv /\ \A r \in stray : RequestInv(r)
  BY DEF Init, RanInv, DecidedInv, ArchivedInv, ResolvedInv
<1>5. OutcomeIsTheAgents
  BY DEF Init, StoreInit, OutcomeIsTheAgents, Terminal, TerminalStatuses
<1> QED  BY <1>1, <1>2, <1>3, <1>4, <1>5 DEF ProtocolInv

LEMMA ProtocolStep == ProtocolInv /\ [Next]_vars => ProtocolInv'
<1> SUFFICES ASSUME ProtocolInv, [Next]_vars PROVE ProtocolInv'
  OBVIOUS
<1>1. Advance
  BY StepAdvances
<1>2. ProtocolTypeOK' /\ LeaseInv'
  BY ProtocolTypeStep
<1>3. \A n \in Nodes : AgentInv(n)'
  BY <1>1, AgentsKept
<1>4. \A r \in stray' : RequestInv(r)'
  BY <1>1, StrayKept
<1>5. RanInv' /\ DecidedInv' /\ ResolvedInv' /\ resolved \subseteq resolved'
  BY <1>1, RanKept, DecidedKept, ResolvedKept
<1>6. ArchivedInv' /\ OutcomeIsTheAgents'
  BY <1>1, <1>5, ArchivedKept, OutcomeKept
<1> QED  BY <1>2, <1>3, <1>4, <1>5, <1>6 DEF ProtocolInv

LEMMA ProtocolInvariant == Spec => []ProtocolInv
BY ProtocolInit, ProtocolStep, PTL DEF Spec

\* The agents' files, calls and requests and the histories keep their types.
THEOREM ProtocolTypes == Spec => []ProtocolTypeOK
<1>1. ProtocolInv => ProtocolTypeOK
  BY DEF ProtocolInv
<1> QED  BY <1>1, ProtocolInvariant, PTL

\* The refinement: whatever the agents send, lose and repeat, the handlers of
\* agent_task.go and agent_report.go change the task table only by the steps of
\* TaskStore, so every theorem about the table holds of the protocol.
THEOREM ProtocolImplementsStore == Spec => ImplementsStore
<1>1. Init => StoreInit
  BY DEF Init
<1>2. ProtocolInv /\ [Next]_vars => [StoreNext]_storeVars
  BY StepIsStoreStep DEF ProtocolInv
<1> QED  BY <1>1, <1>2, ProtocolInvariant, PTL DEF Spec, ImplementsStore, StoreSpec

\* At most once: an agent begins only the execution the controller has accepted,
\* and an accepted execution is the task's for ever (executePulledTask after
\* AcknowledgeTask).
THEOREM ProtocolRunsAtMostOnce == Spec => []RunsAtMostOnce
<1>1. ProtocolInv => RunsAtMostOnce
  <2> SUFFICES ASSUME ProtocolInv, NEW x \in ran, NEW y \in ran, x[1] = y[1] PROVE x = y
    BY DEF RunsAtMostOnce
  <2>1. x \in Tasks \X ExecutionIDs /\ y \in Tasks \X ExecutionIDs
    BY DEF ProtocolInv, ProtocolTypeOK
  <2>2. x[2] = y[2]
    BY DEF ProtocolInv, RanInv, Started
  <2> QED  BY <2>1, <2>2
<1> QED  BY <1>1, ProtocolInvariant, PTL

\* The recorded outcome of an agent's task is the one the agent decided first
\* (storeCompletion, CompleteTaskExecution), or an operator resolved the task.
THEOREM ProtocolOutcome == Spec => []OutcomeIsTheAgents
<1>1. ProtocolInv => OutcomeIsTheAgents
  BY DEF ProtocolInv
<1> QED  BY <1>1, ProtocolInvariant, PTL

\* A decided completion is in the agent's file until the table has an outcome:
\* removeTaskExecutionState never forgets it.
THEOREM ProtocolDecisionIsDurable == Spec => []DecisionIsDurable
<1>1. ProtocolInv => DecisionIsDurable
  <2> SUFFICES ASSUME ProtocolInv, NEW t \in Tasks, decided[t] # "none", ~Terminal(t)
               PROVE  /\ disk[NodeOf[t]] # None /\ disk[NodeOf[t]].task = t
                      /\ disk[NodeOf[t]].completion.status = decided[t]
    BY DEF DecisionIsDurable
  <2>1. NodeOf[t] \in Nodes /\ disk[NodeOf[t]] # None /\ disk[NodeOf[t]].task = t
    BY DEF ProtocolInv, DecidedInv
  <2> QED  BY <2>1 DEF ProtocolInv, AgentInv, FileInv
<1> QED  BY <1>1, ProtocolInvariant, PTL

\* While an agent works, its execution is the one the table has for the task,
\* and the task is not back in the queue (SweepExpiredTaskExecutions).
THEOREM ProtocolWorkIsFenced == Spec => []WorkIsFenced
<1>1. ProtocolInv => WorkIsFenced
  <2> SUFFICES ASSUME ProtocolInv, NEW n \in Nodes, pc[n] \in {"run", "backup", "failing"}
               PROVE  /\ execution[disk[n].task] = disk[n].execution
                      /\ \/ state[disk[n].task] \in {"accepted", "lease_lost"}
                         \/ disk[n].task \in resolved
    BY DEF WorkIsFenced
  <2>1. /\ FileInv(n) /\ disk[n] # None /\ disk[n].task \in Tasks
        /\ disk[n].acknowledged /\ disk[n].completion = NoCompletion
    BY Mine DEF LoopInv
  <2>2. Started(disk[n].task, disk[n].execution) /\ AgentTask(disk[n].task)
    BY <2>1 DEF FileInv
  <2>3. decided[disk[n].task] = "none"
    <3>1. NoCompletion.status = "none"
      BY DEF NoCompletion
    <3> QED  BY <2>1, <3>1 DEF FileInv
  <2>4. state[disk[n].task] = "completed" => Terminal(disk[n].task)
    BY <2>1 DEF ProtocolInv, LeaseInv, ExecutionColumnsAgree
  <2>5. Terminal(disk[n].task) => disk[n].task \in resolved
    BY <2>1, <2>2, <2>3 DEF ProtocolInv, OutcomeIsTheAgents, Terminal, TerminalStatuses
  <2> QED  BY <2>2, <2>4, <2>5 DEF Started
<1> QED  BY <1>1, ProtocolInvariant, PTL

\* A completion archived as conflicting (archiveTaskExecutionState) is the
\* recorded one, or an operator resolved the task.
THEOREM ProtocolArchivedIsRecorded == Spec => []ArchivedIsRecorded
<1>1. ProtocolInv => ArchivedIsRecorded
  BY DEF ProtocolInv, ArchivedInv, ArchivedIsRecorded
<1> QED  BY <1>1, ProtocolInvariant, PTL

\* A backup task that succeeded has the rows of all its data items: the results
\* are persisted and taken before the completion is.
THEOREM ProtocolSuccessHasEveryBackup == Spec => []SuccessHasEveryBackup
<1>1. ProtocolInv => SuccessHasEveryBackup
  <2> SUFFICES ASSUME ProtocolInv, NEW t \in Tasks, status[t] = "succeeded", NEW d \in DataOf[t]
               PROVE  <<t, d, "succeeded">> \in backups
    BY DEF SuccessHasEveryBackup
  <2>1. AgentTask(t)
    BY ExecutionAssumption DEF AgentTask, ControllerOwnedTypes
  <2>2. t \notin resolved
    BY DEF ProtocolInv, ResolvedInv
  <2>3. decided[t] = "succeeded"
    BY <2>1, <2>2 DEF ProtocolInv, OutcomeIsTheAgents, Terminal, TerminalStatuses
  <2> QED  BY <2>3 DEF ProtocolInv, DecidedInv
<1> QED  BY <1>1, ProtocolInvariant, PTL

\* The chain of refinements: agents and controller together implement the
\* abstract life of a task.
THEOREM ProtocolImplementsLifecycle == Spec => ImplementsLifecycle
BY ProtocolImplementsStore, StoreImplementsLifecycle, PTL DEF ImplementsStore

=============================================================================
