-------------------------- MODULE MigrationProofs --------------------------
(***************************************************************************)
(* Why a migration never mixes two outcomes, for any number of clients,    *)
(* user tasks, rollbacks and restarts.  The invariant ties four pieces of  *)
(* state that the code writes at different times: the confirmation step,   *)
(* the task's status, the worker's place in its list of steps, and the     *)
(* child task that is active on a node.                                    *)
(*                                                                         *)
(* And why the outbox creates what follows a task once and announces nothing *)
(* before it exists, for any tasks and faults: the invariant follows an event *)
(* from the transaction that completes its task to its last delivery.        *)
(***************************************************************************)
EXTENDS Migration, TaskOutbox, FiniteSetTheorems, TLAPS

Confirmation == steps["migrate"]["awaiting_confirmation"]
StepsOf(t) == {StepOrder(t)[i] : i \in DOMAIN StepOrder(t)}
Restored == steps["migrate"]["restore"] = "succeeded"

\* The confirmation step is decided once, and the status follows it.
DecisionInv ==
  /\ Confirmation \in {"none", "awaiting_confirmation", "succeeded", "cancelled"}
  /\ Confirmation = "cancelled" => status["migrate"] \in {"awaiting_confirmation", "cancelled"}
  /\ status["migrate"] = "cancelled" => Confirmation = "cancelled"
  /\ status["migrate"] = "awaiting_confirmation" => Confirmation # "none"
  /\ repo = Target => Confirmation = "succeeded"

\* A client's request was checked while the migration awaited its
\* confirmation; when it goes on, its decision is the one that was taken.
ClientInv(c) ==
  /\ request[c].at = "step" =>
       \/ status["migrate"] = "awaiting_confirmation"
       \/ Confirmation \in {"succeeded", "cancelled"}
  /\ request[c].at = "finish" =>
       Confirmation = IF request[c].kind = "approve" THEN "succeeded" ELSE "cancelled"

\* Where the worker is, and what that says of the steps before.
WorkerInv ==
  /\ worker.task = "none" <=> worker.at = "idle"
  /\ worker.task # "none" =>
       status[worker.task] = "running" /\ worker.step \in StepsOf(worker.task) \cup {"done"}
  /\ worker.at # "wait" => child = "none"
  /\ worker.at \in {"create", "wait", "reload"} => HasChild(worker.step)
  /\ worker.at = "reload" /\ worker.task = "migrate" => worker.step = "compose_up"
  /\ worker.at = "transition" =>
       worker.step = "awaiting_confirmation" /\ Confirmation = "awaiting_confirmation"
  /\ worker.task = "migrate" =>
       /\ worker.step = "awaiting_confirmation" => Confirmation # "succeeded"
       /\ worker.step \in {"persist_repo", "finalize", "done"} => Confirmation = "succeeded"
       /\ HasData /\ worker.step \notin {"compose_down", "backup", "restore"} => Restored
       /\ worker.step = "restore" /\ child = "succeeded" => restored

\* The migration has at most one child, the one its worker waits for.
ChildInv ==
  \A n \in MigrationNodes : inst[n].owner = "migrate" =>
    /\ status["migrate"] \notin {"absent", "pending", "awaiting_confirmation"}
    /\ worker.task = "migrate" =>
         /\ worker.at = "wait" /\ child = "active"
         /\ Child("migrate", worker.step) = <<n, inst[n].type>>

\* Whatever may start the target's containers comes after the restore.
DataInv ==
  HasData /\ (Target \in up \/ inst[Target].type = "deploy" \/ Restored \/ repo = Target)
    => restored

MigrationInv ==
  /\ MigrationTypeOK
  /\ DecisionInv
  /\ \A c \in Clients : ClientInv(c)
  /\ WorkerInv
  /\ ChildInv
  /\ RollbackRunsAlone
  /\ DataInv

-----------------------------------------------------------------------------
(* The order of the steps *)

LEMMA LeastOf ==
  ASSUME NEW S \in SUBSET (1..8), S # {}
  PROVE  \E i \in S : \A j \in S : i <= j
<1>1. CASE 1 \in S
  BY <1>1
<1>2. CASE 1 \notin S /\ 2 \in S
  BY <1>2
<1>3. CASE 1 \notin S /\ 2 \notin S /\ 3 \in S
  BY <1>3
<1>4. CASE 1 \notin S /\ 2 \notin S /\ 3 \notin S /\ 4 \in S
  BY <1>4
<1>5. CASE 1 \notin S /\ 2 \notin S /\ 3 \notin S /\ 4 \notin S /\ 5 \in S
  BY <1>5
<1>6. CASE 1 \notin S /\ 2 \notin S /\ 3 \notin S /\ 4 \notin S
           /\ 5 \notin S /\ 6 \in S
  BY <1>6
<1>7. CASE 1 \notin S /\ 2 \notin S /\ 3 \notin S /\ 4 \notin S
           /\ 5 \notin S /\ 6 \notin S /\ 7 \in S
  BY <1>7
<1>8. CASE 1 \notin S /\ 2 \notin S /\ 3 \notin S /\ 4 \notin S
           /\ 5 \notin S /\ 6 \notin S /\ 7 \notin S /\ 8 \in S
  BY <1>8
<1>9. 1 \in S \/ 2 \in S \/ 3 \in S \/ 4 \in S \/ 5 \in S \/ 6 \in S \/ 7 \in S \/ 8 \in S
  <2>1. PICK i \in S : TRUE
    OBVIOUS
  <2>2. i \in 1..8
    OBVIOUS
  <2>3. i = 1 \/ i = 2 \/ i = 3 \/ i = 4 \/ i = 5 \/ i = 6 \/ i = 7 \/ i = 8
    BY <2>2
  <2> QED  BY <2>1, <2>3
<1> QED  BY <1>1, <1>2, <1>3, <1>4, <1>5, <1>6, <1>7, <1>8, <1>9

\* The next step is the first that is wanted and has not succeeded.
LEMMA NextStepIs ==
  ASSUME NEW t \in Kinds, NEW done
  PROVE  \/ NextStep(t, done) = "done" /\ Todo(t, done) = {}
         \/ \E i \in Todo(t, done) : /\ NextStep(t, done) = StepOrder(t)[i]
                                     /\ \A j \in Todo(t, done) : i <= j
<1>1. Todo(t, done) \subseteq 1..8
  <2>1. CASE t = "migrate"
    BY <2>1 DEF Todo, StepOrder
  <2>2. CASE t = "migrate_rollback"
    BY <2>2 DEF Todo, StepOrder
  <2>3. CASE t = "dns_update"
    BY <2>3 DEF Todo, StepOrder
  <2> QED  BY <2>1, <2>2, <2>3 DEF Kinds
<1> QED  BY <1>1, LeastOf DEF NextStep

LEMMA StepSets ==
  /\ StepsOf("migrate") = StepNames
  /\ StepsOf("migrate_rollback") = {"dns_update", "compose_up", "compose_down", "finalize"}
  /\ StepsOf("dns_update") = {"dns_update"}
<1>1. StepsOf("migrate") = StepNames
  BY DEF StepsOf, StepOrder, StepNames
<1>2. StepsOf("migrate_rollback") = {"dns_update", "compose_up", "compose_down", "finalize"}
  BY DEF StepsOf, StepOrder
<1>3. StepsOf("dns_update") = {"dns_update"}
  BY DEF StepsOf, StepOrder
<1> QED  BY <1>1, <1>2, <1>3

LEMMA NextStepOf ==
  ASSUME NEW t \in Kinds, NEW done
  PROVE  NextStep(t, done) \in StepsOf(t) \cup {"done"}
BY NextStepIs DEF Todo, StepsOf

\* What has been done when the migration comes to a step.
LEMMA MigrateOrder ==
  ASSUME NEW done
  PROVE  LET s == NextStep("migrate", done)
         IN  /\ s = "awaiting_confirmation" => done["awaiting_confirmation"] # "succeeded"
             /\ s \in {"persist_repo", "finalize", "done"} =>
                  done["awaiting_confirmation"] = "succeeded"
             /\ HasData /\ s \notin {"compose_down", "backup", "restore"} =>
                  done["restore"] = "succeeded"
<1> DEFINE s == NextStep("migrate", done)
           o == StepOrder("migrate")
<1>1. /\ DOMAIN o = 1..8 /\ o[1] = "compose_down" /\ o[2] = "backup" /\ o[3] = "restore"
      /\ o[4] = "compose_up" /\ o[5] = "dns_update" /\ o[6] = "awaiting_confirmation"
      /\ o[7] = "persist_repo" /\ o[8] = "finalize"
  BY DEF StepOrder
<1>2. /\ 6 \notin Todo("migrate", done) => done["awaiting_confirmation"] = "succeeded"
      /\ HasData /\ 3 \notin Todo("migrate", done) => done["restore"] = "succeeded"
      /\ 6 \in Todo("migrate", done) => done["awaiting_confirmation"] # "succeeded"
      /\ Todo("migrate", done) \subseteq 1..8
  BY <1>1 DEF Todo, StepWanted
<1> HIDE DEF o, s
<1>3. \/ s = "done" /\ Todo("migrate", done) = {}
      \/ \E i \in Todo("migrate", done) : s = o[i] /\ \A j \in Todo("migrate", done) : i <= j
  BY NextStepIs DEF Kinds, s, o
<1>4. CASE s = "done" /\ Todo("migrate", done) = {}
  BY <1>2, <1>4 DEF s
<1>5. CASE \E i \in Todo("migrate", done) : s = o[i] /\ \A j \in Todo("migrate", done) : i <= j
  <2>1. PICK i \in Todo("migrate", done) : s = o[i] /\ \A j \in Todo("migrate", done) : i <= j
    BY <1>5
  <2>2. i \in 1..8
    BY <1>2, <2>1
  <2>21. i = 1 \/ i = 2 \/ i = 3 \/ i = 4 \/ i = 5 \/ i = 6 \/ i = 7 \/ i = 8
    BY <2>2
  <2>3. s = "awaiting_confirmation" => i = 6
    BY <1>1, <2>1, <2>21
  <2>4. s \in {"persist_repo", "finalize", "done"} => i > 6
    BY <1>1, <2>1, <2>2
  <2>5. s \notin {"compose_down", "backup", "restore"} => i > 3
    BY <1>1, <2>1, <2>2
  <2> QED  BY <1>2, <2>1, <2>2, <2>3, <2>4, <2>5 DEF s
<1> QED  BY <1>3, <1>4, <1>5

-----------------------------------------------------------------------------
(* The worker *)

Workers == [task : Kinds \cup {"none"}, step : StepNames \cup {"none", "done"},
            at : {"idle", "begin", "create", "wait", "reload", "act", "transition"}]
StepStatuses == {"none", "running", "awaiting_confirmation"} \cup TerminalStatuses

\* The types of what the worker does not touch.
RestTypeOK ==
  /\ inst \in [MigrationNodes -> [type : {"none", "deploy", "stop", "backup", "restore"},
                         owner : Kinds \cup {"none", "user"},
                         revision : MigrationNodes]]
  /\ up \subseteq MigrationNodes /\ dns \in MigrationNodes /\ repo \in MigrationNodes
  /\ request \in [Clients -> [kind : {"none", "approve", "reject", "rollback"},
                              at : {"none", "step", "finish", "create"},
                              actions : SUBSET StepNames]]
  /\ actions \subseteq StepNames
  /\ followups \subseteq MigrationNodes /\ dnsTasks \subseteq MigrationNodes
  /\ dnsRevision \in MigrationNodes
  /\ userTasks \in 0..MaxUserTasks /\ rollbacks \in 0..MaxRollbacks
  /\ restarts \in 0..MaxRestarts
  /\ restored \in BOOLEAN

LEMMA TypeParts ==
  MigrationTypeOK <=>
    /\ status \in [Kinds -> ActiveStatuses \cup TerminalStatuses \cup {"absent"}]
    /\ steps \in [Kinds -> [StepNames -> StepStatuses]]
    /\ worker \in Workers
    /\ child \in {"none", "active", "succeeded", "failed"}
    /\ RestTypeOK
BY DEF MigrationTypeOK, Workers, StepStatuses, RestTypeOK

LEMMA WorkerType ==
  ASSUME NEW t \in Kinds, NEW s \in StepNames \cup {"none", "done"},
         NEW at \in {"idle", "begin", "create", "wait", "reload", "act", "transition"}
  PROVE  LET w == [task |-> t, step |-> s, at |-> at]
         IN  w \in Workers /\ w.task = t /\ w.step = s /\ w.at = at
BY DEF Workers

LEMMA IdleType == /\ WorkerIdle \in Workers /\ WorkerIdle.task = "none"
                  /\ WorkerIdle.step = "none" /\ WorkerIdle.at = "idle"
BY DEF WorkerIdle, Workers

\* What is known of a worker that executes a task.
LEMMA Busy ==
  ASSUME MigrationInv, worker.task # "none"
  PROVE  /\ worker \in Workers /\ worker.task \in Kinds
         /\ status[worker.task] = "running" /\ worker.at # "idle"
         /\ worker.step \in StepNames \cup {"done"}
         /\ worker.step \in StepsOf(worker.task) \cup {"done"}
<1>1. worker \in Workers /\ worker.task \in Kinds
  BY TypeParts DEF MigrationInv, Workers
<1>2. StepsOf(worker.task) \subseteq StepNames
  BY <1>1, StepSets DEF Kinds, StepNames
<1> QED  BY <1>1, <1>2 DEF MigrationInv, WorkerInv

\* A step of the worker's task has succeeded.
LEMMA FinishKept ==
  ASSUME MigrationInv, FinishStep, worker.task # "none",
         worker.step \in StepNames \ {"awaiting_confirmation"}, child' = "none",
         UNCHANGED <<inst, up, request, actions, followups, dnsTasks, dnsRevision, userTasks,
                     rollbacks, restarts, restored>>,
         dns' \in MigrationNodes, repo' \in MigrationNodes,
         repo' # repo => worker.task = "migrate" /\ worker.step = "persist_repo",
         worker.task = "migrate" /\ worker.step = "restore" => restored,
         worker.task = "migrate" => \A n \in MigrationNodes : inst[n].owner # "migrate"
  PROVE  MigrationInv'
<1> DEFINE t == worker.task
           done == [steps[t] EXCEPT ![worker.step] = "succeeded"]
           next == NextStep(t, done)
<1>0. /\ t \in Kinds /\ status[t] = "running"
      /\ steps \in [Kinds -> [StepNames -> StepStatuses]]
      /\ RestTypeOK /\ MigrationTypeOK
  BY Busy, TypeParts DEF MigrationInv
<1>1. /\ steps' = [steps EXCEPT ![t] = done] /\ status' = status
      /\ worker' = [task |-> t, step |-> next, at |-> "begin"]
  BY DEF FinishStep
<1>2. done \in [StepNames -> StepStatuses] /\ steps' \in [Kinds -> [StepNames -> StepStatuses]]
  BY <1>0, <1>1 DEF StepStatuses, TerminalStatuses
<1>3. next \in StepsOf(t) \cup {"done"} /\ next \in StepNames \cup {"none", "done"}
  BY <1>0, NextStepOf, StepSets DEF Kinds, StepNames
<1>4. worker' \in Workers /\ worker'.task = t /\ worker'.step = next /\ worker'.at = "begin"
  BY <1>0, <1>1, <1>3, WorkerType
<1>5. /\ steps'["migrate"] = IF t = "migrate" THEN done ELSE steps["migrate"]
      /\ Confirmation' = Confirmation
      /\ Restored' => Restored \/ (t = "migrate" /\ worker.step = "restore")
  BY <1>0, <1>1 DEF Kinds, Confirmation, Restored, StepNames
<1>6. t = "migrate" =>
        /\ next = "awaiting_confirmation" => Confirmation' # "succeeded"
        /\ next \in {"persist_repo", "finalize", "done"} => Confirmation' = "succeeded"
        /\ HasData /\ next \notin {"compose_down", "backup", "restore"} => Restored'
  <2> SUFFICES ASSUME t = "migrate"
               PROVE  /\ next = "awaiting_confirmation" => Confirmation' # "succeeded"
                      /\ next \in {"persist_repo", "finalize", "done"} => Confirmation' = "succeeded"
                      /\ HasData /\ next \notin {"compose_down", "backup", "restore"} => Restored'
    OBVIOUS
  <2>1. steps'["migrate"] = done /\ next = NextStep("migrate", done)
    BY <1>5
  <2> HIDE DEF done, next, t
  <2>2. /\ next = "awaiting_confirmation" => done["awaiting_confirmation"] # "succeeded"
        /\ next \in {"persist_repo", "finalize", "done"} =>
             done["awaiting_confirmation"] = "succeeded"
        /\ HasData /\ next \notin {"compose_down", "backup", "restore"} =>
             done["restore"] = "succeeded"
    BY <2>1, MigrateOrder
  <2> QED  BY <2>1, <2>2 DEF Confirmation, Restored
<1>7. t # "migrate" => next # "awaiting_confirmation"
  BY <1>0, <1>3, StepSets DEF Kinds
<1> HIDE DEF next, done, t
<1>8. MigrationTypeOK'
  BY <1>0, <1>1, <1>2, <1>4, TypeParts DEF RestTypeOK, MigrationTypeOK, Workers, StepStatuses
<1>9. DecisionInv'
  BY <1>1, <1>5 DEF MigrationInv, DecisionInv, WorkerInv, t
<1>10. \A c \in Clients : ClientInv(c)'
  BY <1>1, <1>5 DEF MigrationInv, ClientInv
<1>11. WorkerInv'
  BY <1>0, <1>1, <1>3, <1>4, <1>6, <1>7 DEF WorkerInv, HasChild, Kinds
<1>12. ChildInv'
  BY <1>1, <1>4 DEF MigrationInv, ChildInv, t
<1>13. RollbackRunsAlone'
  BY <1>1 DEF MigrationInv, RollbackRunsAlone, Active
<1>14. DataInv'
  <2>1. repo' = Target /\ HasData => repo = Target \/ Restored
    BY DEF MigrationInv, WorkerInv
  <2> QED  BY <1>5, <2>1 DEF MigrationInv, DataInv, t
<1> QED  BY <1>8, <1>9, <1>10, <1>11, <1>12, <1>13, <1>14 DEF MigrationInv

\* A step of the worker's task has failed, and the task with it.
LEMMA FailKept ==
  ASSUME MigrationInv, failControllerTask, worker.task # "none",
         worker.step \in StepNames \ {"awaiting_confirmation"}, child' = "none",
         UNCHANGED <<inst, up, repo, request, actions, followups, dnsTasks, dnsRevision,
                     userTasks, rollbacks, restarts, restored>>,
         dns' \in MigrationNodes
  PROVE  MigrationInv'
<1> DEFINE t == worker.task
           s == worker.step
           ended == Finalized(t, "failed")
           after == IF s \in StepNames /\ MayUpsert(t, s, "failed")
                    THEN [ended EXCEPT ![s] = "failed"] ELSE ended
<1>0. /\ t \in Kinds /\ status[t] = "running" /\ s \in StepNames
      /\ steps \in [Kinds -> [StepNames -> StepStatuses]]
      /\ status \in [Kinds -> ActiveStatuses \cup TerminalStatuses \cup {"absent"}]
      /\ RestTypeOK /\ MigrationTypeOK /\ DecisionInv
  BY Busy, TypeParts DEF MigrationInv
<1>1. /\ steps' = [steps EXCEPT ![t] = after]
      /\ status' = [status EXCEPT ![t] = "failed"] /\ worker' = WorkerIdle
  BY <1>0 DEF failControllerTask, Active, ActiveStatuses
<1>2. /\ after \in [StepNames -> StepStatuses]
      /\ \A x \in StepNames : after[x] = "succeeded" => steps[t][x] = "succeeded"
      /\ \A x \in StepNames : x # s /\ steps[t][x] # "running" => after[x] = steps[t][x]
  BY <1>0 DEF Finalized, StepStatuses, TerminalStatuses
<1> HIDE DEF after
<1>3. steps' \in [Kinds -> [StepNames -> StepStatuses]]
  BY <1>0, <1>1, <1>2
<1>4. Confirmation' = Confirmation /\ (Restored' => Restored)
  BY <1>0, <1>1, <1>2 DEF Confirmation, Restored, DecisionInv, Kinds, StepNames
<1>5. /\ status'["migrate"] = IF t = "migrate" THEN "failed" ELSE status["migrate"]
      /\ \A k \in Kinds : status'[k] \in ActiveStatuses => status[k] \in ActiveStatuses
      /\ status' \in [Kinds -> ActiveStatuses \cup TerminalStatuses \cup {"absent"}]
  BY <1>0, <1>1 DEF Kinds, ActiveStatuses, TerminalStatuses
<1>6. MigrationTypeOK'
  BY <1>0, <1>1, <1>3, <1>5, IdleType DEF RestTypeOK, MigrationTypeOK, Workers, StepStatuses
<1>7. DecisionInv'
  BY <1>0, <1>4, <1>5 DEF DecisionInv
<1>8. \A c \in Clients : ClientInv(c)'
  BY <1>0, <1>4, <1>5 DEF MigrationInv, ClientInv
<1>9. WorkerInv'
  BY <1>1, IdleType DEF WorkerInv, HasChild
<1>10. ChildInv'
  BY <1>1, <1>5, IdleType DEF MigrationInv, ChildInv
<1>11. RollbackRunsAlone'
  BY <1>5 DEF MigrationInv, RollbackRunsAlone, Active, Kinds
<1>12. DataInv'
  BY <1>4 DEF MigrationInv, DataInv
<1> QED  BY <1>6, <1>7, <1>8, <1>9, <1>10, <1>11, <1>12 DEF MigrationInv

LEMMA ClaimKept ==
  ASSUME MigrationInv, NEW t \in Kinds, Claim(t)
  PROVE  MigrationInv'
<1> DEFINE next == NextStep(t, steps[t])
<1>0. /\ MigrationTypeOK /\ RestTypeOK /\ DecisionInv /\ status[t] = "pending"
      /\ status \in [Kinds -> ActiveStatuses \cup TerminalStatuses \cup {"absent"}]
      /\ child = "none"
  BY TypeParts, IdleType DEF MigrationInv, Claim, WorkerInv
<1>1. /\ status' = [status EXCEPT ![t] = "running"]
      /\ worker' = [task |-> t, step |-> next, at |-> "begin"]
      /\ UNCHANGED <<steps, child, inst, up, dns, repo, request, actions, followups,
                     dnsTasks, dnsRevision, userTasks, rollbacks, restarts, restored>>
  BY DEF Claim
<1>2. next \in StepsOf(t) \cup {"done"} /\ next \in StepNames \cup {"none", "done"}
  BY NextStepOf, StepSets DEF Kinds, StepNames
<1>3. worker' \in Workers /\ worker'.task = t /\ worker'.step = next /\ worker'.at = "begin"
  BY <1>1, <1>2, WorkerType
<1>4. t = "migrate" =>
        /\ next = "awaiting_confirmation" => Confirmation # "succeeded"
        /\ next \in {"persist_repo", "finalize", "done"} => Confirmation = "succeeded"
        /\ HasData /\ next \notin {"compose_down", "backup", "restore"} => Restored
  <2>1. t = "migrate" => next = NextStep("migrate", steps["migrate"])
    OBVIOUS
  <2> HIDE DEF next
  <2> QED  BY <2>1, MigrateOrder DEF Confirmation, Restored
<1>5. t # "migrate" => next # "awaiting_confirmation"
  BY <1>2, StepSets DEF Kinds
<1> HIDE DEF next
<1>6. Confirmation' = Confirmation /\ Restored' = Restored
  BY <1>1 DEF Confirmation, Restored
<1>7. /\ status'[t] = "running" /\ \A k \in Kinds : k # t => status'[k] = status[k]
      /\ status' \in [Kinds -> ActiveStatuses \cup TerminalStatuses \cup {"absent"}]
  BY <1>0, <1>1 DEF ActiveStatuses
<1>8. MigrationTypeOK'
  BY <1>0, <1>1, <1>3, <1>7 DEF MigrationTypeOK, Workers
<1>9. DecisionInv'
  BY <1>0, <1>1, <1>6, <1>7 DEF DecisionInv, Kinds
<1>10. \A c \in Clients : ClientInv(c)'
  BY <1>0, <1>1, <1>6, <1>7 DEF MigrationInv, ClientInv, Kinds
<1>11. WorkerInv'
  BY <1>0, <1>1, <1>2, <1>3, <1>4, <1>5, <1>6, <1>7 DEF WorkerInv, HasChild, Kinds
<1>12. ChildInv'
  BY <1>0, <1>1, <1>3, <1>7 DEF MigrationInv, ChildInv, Kinds
<1>13. RollbackRunsAlone'
  BY <1>0, <1>1, <1>7 DEF MigrationInv, RollbackRunsAlone, Active, ActiveStatuses, Kinds
<1>14. DataInv'
  BY <1>1, <1>6 DEF MigrationInv, DataInv
<1> QED  BY <1>8, <1>9, <1>10, <1>11, <1>12, <1>13, <1>14 DEF MigrationInv

LEMMA BeginKept ==
  ASSUME MigrationInv, BeginStep
  PROVE  MigrationInv'
<1>0. /\ worker.task # "none" /\ worker.at = "begin" /\ child = "none" /\ dns \in MigrationNodes
      /\ worker.step \in StepNames \ {"awaiting_confirmation"}
      /\ UNCHANGED <<child, inst, up, dns, repo, request, actions, followups,
                     dnsTasks, dnsRevision, userTasks, rollbacks, restarts, restored>>
  BY DEF BeginStep, MigrationInv, WorkerInv, MigrationTypeOK
<1>1. CASE failControllerTask
  BY <1>0, <1>1, FailKept
<1>2. CASE ~failControllerTask
  <2>0. /\ worker \in Workers /\ worker.task \in Kinds /\ status[worker.task] = "running"
        /\ worker.step \in StepsOf(worker.task) \cup {"done"}
        /\ MigrationTypeOK /\ RestTypeOK /\ DecisionInv
        /\ steps \in [Kinds -> [StepNames -> StepStatuses]]
    BY <1>0, Busy, TypeParts DEF MigrationInv
  <2>1. /\ steps' = [steps EXCEPT ![worker.task][worker.step] = "running"]
        /\ worker' = [worker EXCEPT !.at = IF HasChild(worker.step) THEN "create" ELSE "act"]
        /\ UNCHANGED status
    BY <1>2 DEF BeginStep
  <2>2. /\ worker' \in Workers /\ worker'.task = worker.task /\ worker'.step = worker.step
        /\ worker'.at \in {"create", "act"} /\ (worker'.at = "create" => HasChild(worker.step))
    BY <2>0, <2>1 DEF Workers
  <2>3. steps' \in [Kinds -> [StepNames -> StepStatuses]]
    BY <1>0, <2>0, <2>1 DEF StepStatuses
  <2>4. /\ Confirmation' = Confirmation /\ (Restored' => Restored)
        /\ worker.step # "restore" => Restored' = Restored
    BY <1>0, <2>0, <2>1 DEF Confirmation, Restored, Kinds, StepNames
  <2>5. MigrationTypeOK'
    BY <1>0, <2>0, <2>1, <2>2, <2>3 DEF MigrationTypeOK, Workers, StepStatuses
  <2>6. DecisionInv' /\ \A c \in Clients : ClientInv(c)'
    BY <1>0, <2>1, <2>4 DEF MigrationInv, DecisionInv, ClientInv
  <2>7. WorkerInv'
    BY <1>0, <2>0, <2>1, <2>2, <2>4 DEF MigrationInv, WorkerInv, HasChild, Kinds
  <2>8. ChildInv'
    BY <1>0, <2>1, <2>2 DEF MigrationInv, ChildInv
  <2>9. RollbackRunsAlone' /\ DataInv'
    BY <1>0, <2>1, <2>4 DEF MigrationInv, RollbackRunsAlone, Active, DataInv
  <2> QED  BY <2>5, <2>6, <2>7, <2>8, <2>9 DEF MigrationInv
<1> QED  BY <1>1, <1>2

\* The child of a step that has one.
LEMMA ChildOf ==
  ASSUME MigrationInv, worker.at \in {"create", "wait"}
  PROVE  /\ worker.task \in {"migrate", "migrate_rollback"}
         /\ Child(worker.task, worker.step)[1] \in MigrationNodes
         /\ Child(worker.task, worker.step)[2] \in {"deploy", "stop", "backup", "restore"}
         /\ Child(worker.task, worker.step) =
              <<Child(worker.task, worker.step)[1], Child(worker.task, worker.step)[2]>>
         /\ Child(worker.task, worker.step) = <<Target, "deploy">> =>
              worker.task = "migrate" /\ worker.step = "compose_up"
<1>1. worker.task # "none" /\ HasChild(worker.step)
  BY DEF MigrationInv, WorkerInv
<1>2. worker.task \in Kinds /\ worker.step \in StepsOf(worker.task) \cup {"done"}
  BY <1>1, Busy
<1>3. worker.task # "dns_update"
  BY <1>1, <1>2, StepSets DEF HasChild
<1>4. CASE worker.task = "migrate"
  BY <1>1, <1>4, MigrationAssumption DEF HasChild, Child, MigrationNodes
<1>5. CASE worker.task = "migrate_rollback"
  <2>1. worker.step \in {"compose_up", "compose_down"}
    BY <1>1, <1>2, <1>5, StepSets DEF HasChild
  <2> QED  BY <1>5, <2>1, MigrationAssumption DEF Child, MigrationNodes
<1> QED  BY <1>2, <1>3, <1>4, <1>5 DEF Kinds

LEMMA CreateChildKept ==
  ASSUME MigrationInv, CreateChild
  PROVE  MigrationInv'
<1> DEFINE n == Child(worker.task, worker.step)[1]
           ty == Child(worker.task, worker.step)[2]
           i == [type |-> ty, owner |-> worker.task, revision |-> Source]
<1>0. /\ worker.task # "none" /\ worker.at = "create" /\ child = "none" /\ dns \in MigrationNodes
      /\ HasChild(worker.step) /\ worker.step \in StepNames \ {"awaiting_confirmation"}
      /\ UNCHANGED <<up, dns, repo, request, actions, followups,
                     dnsTasks, dnsRevision, userTasks, rollbacks, restarts, restored>>
  BY DEF CreateChild, MigrationInv, WorkerInv, MigrationTypeOK, HasChild, StepNames
<1>1. CASE failControllerTask /\ UNCHANGED <<inst, child>>
  BY <1>0, <1>1, FailKept
<1>2. CASE ~(failControllerTask /\ UNCHANGED <<inst, child>>)
  <2>0. /\ worker \in Workers /\ worker.task \in Kinds /\ status[worker.task] = "running"
        /\ worker.step \in StepsOf(worker.task) \cup {"done"}
        /\ MigrationTypeOK /\ RestTypeOK /\ WorkerInv /\ ChildInv
    BY <1>0, Busy, TypeParts DEF MigrationInv
  <2>1. /\ inst' = [inst EXCEPT ![n] = i] /\ child' = "active"
        /\ worker' = [worker EXCEPT !.at = "wait"] /\ UNCHANGED <<status, steps>>
    BY <1>2 DEF CreateChild
  <2>2. worker' \in Workers /\ worker'.task = worker.task /\ worker'.step = worker.step
        /\ worker'.at = "wait"
    BY <2>0, <2>1 DEF Workers
  <2>3. /\ n \in MigrationNodes /\ ty \in {"deploy", "stop", "backup", "restore"}
        /\ Child(worker.task, worker.step) = <<n, ty>>
        /\ n = Target /\ ty = "deploy" => worker.task = "migrate" /\ worker.step = "compose_up"
    BY <1>0, ChildOf
  <2>4. i.type = ty /\ i.owner = worker.task
    OBVIOUS
  <2>5. i \in [type : {"none", "deploy", "stop", "backup", "restore"},
               owner : Kinds \cup {"none", "user"}, revision : MigrationNodes]
    BY <2>0, <2>3 DEF MigrationNodes
  <2> HIDE DEF i, n, ty
  <2>6. /\ \A m \in MigrationNodes : inst'[m] = IF m = n THEN i ELSE inst[m]
        /\ inst' \in [MigrationNodes -> [type : {"none", "deploy", "stop", "backup", "restore"},
                         owner : Kinds \cup {"none", "user"}, revision : MigrationNodes]]
    BY <2>0, <2>1, <2>3, <2>5 DEF RestTypeOK
  <2>7. MigrationTypeOK'
    BY <1>0, <2>0, <2>1, <2>2, <2>6 DEF MigrationTypeOK, Workers
  <2>8. DecisionInv' /\ \A c \in Clients : ClientInv(c)'
    BY <1>0, <2>1 DEF MigrationInv, DecisionInv, ClientInv, Confirmation
  <2>9. WorkerInv'
    BY <1>0, <2>0, <2>1, <2>2 DEF WorkerInv, HasChild, Confirmation, Restored
  <2>10. ChildInv'
    <3> SUFFICES ASSUME NEW m \in MigrationNodes, inst'[m].owner = "migrate"
                 PROVE  /\ status'["migrate"] \notin {"absent", "pending", "awaiting_confirmation"}
                        /\ worker'.task = "migrate" =>
                             /\ worker'.at = "wait" /\ child' = "active"
                             /\ Child("migrate", worker'.step) = <<m, inst'[m].type>>
      BY DEF ChildInv
    <3>1. CASE m = n
      BY <2>0, <2>1, <2>2, <2>3, <2>4, <2>6, <3>1
    <3>2. CASE m # n
      BY <1>0, <2>0, <2>1, <2>2, <2>6, <3>2 DEF ChildInv
    <3> QED  BY <3>1, <3>2
  <2>11. RollbackRunsAlone'
    BY <2>0, <2>1, <2>4, <2>6 DEF MigrationInv, RollbackRunsAlone, Active, ActiveStatuses
  <2>12. DataInv'
    <3>1. Target \in MigrationNodes
      BY DEF MigrationNodes
    <3>2. HasData /\ inst'[Target].type = "deploy" => inst[Target].type = "deploy" \/ Restored
      BY <2>0, <2>3, <2>4, <2>6, <3>1 DEF WorkerInv
    <3> QED  BY <1>0, <2>1, <3>2 DEF MigrationInv, DataInv, Restored
  <2> QED  BY <2>7, <2>8, <2>9, <2>10, <2>11, <2>12 DEF MigrationInv
<1> QED  BY <1>1, <1>2

LEMMA WaitKept ==
  ASSUME MigrationInv, waitTask \/ ReloadCaddy
  PROVE  MigrationInv'
<1>0. /\ worker.task # "none" /\ worker.at \in {"wait", "reload"} /\ dns \in MigrationNodes
      /\ repo \in MigrationNodes
      /\ HasChild(worker.step) /\ worker.step \in StepNames \ {"awaiting_confirmation"}
      /\ child' = "none"
      /\ UNCHANGED <<inst, up, dns, repo, request, actions, followups,
                     dnsTasks, dnsRevision, userTasks, rollbacks, restarts, restored>>
  BY DEF waitTask, ReloadCaddy, MigrationInv, WorkerInv, MigrationTypeOK, HasChild, StepNames
<1>1. CASE failControllerTask
  BY <1>0, <1>1, FailKept
<1>2. ASSUME child = "succeeded" \/ worker.at = "reload"
      PROVE  worker.task = "migrate" => \A n \in MigrationNodes : inst[n].owner # "migrate"
  BY <1>2 DEF MigrationInv, ChildInv, WorkerInv
<1>3. CASE FinishStep /\ (child = "succeeded" \/ worker.at = "reload")
  <2>1. worker.task = "migrate" /\ worker.step = "restore" => restored
    BY <1>3 DEF MigrationInv, WorkerInv
  <2> QED  BY <1>0, <1>2, <1>3, <2>1, FinishKept
<1>4. CASE /\ worker.at = "wait" /\ child = "succeeded" /\ ReloadsCaddy
           /\ worker' = [worker EXCEPT !.at = "reload"] /\ UNCHANGED <<steps, status>>
  <2>0. /\ worker \in Workers /\ worker.task \in Kinds /\ status[worker.task] = "running"
        /\ MigrationTypeOK /\ WorkerInv
    BY <1>0, Busy DEF MigrationInv
  <2>1. worker' \in Workers /\ worker'.task = worker.task /\ worker'.step = worker.step
        /\ worker'.at = "reload"
    BY <1>4, <2>0 DEF Workers
  <2>2. MigrationTypeOK'
    BY <1>0, <1>4, <2>0, <2>1 DEF MigrationTypeOK, Workers
  <2>3. DecisionInv' /\ \A c \in Clients : ClientInv(c)'
    BY <1>0, <1>4 DEF MigrationInv, DecisionInv, ClientInv, Confirmation
  <2>4. WorkerInv'
    BY <1>0, <1>4, <2>0, <2>1 DEF WorkerInv, HasChild, Confirmation, Restored, ReloadsCaddy
  <2>5. ChildInv' /\ RollbackRunsAlone' /\ DataInv'
    BY <1>0, <1>2, <1>4, <2>1 DEF MigrationInv, ChildInv, RollbackRunsAlone, Active, DataInv,
       Restored
  <2> QED  BY <2>2, <2>3, <2>4, <2>5 DEF MigrationInv
<1> QED  BY <1>1, <1>3, <1>4 DEF waitTask, ReloadCaddy

LEMMA ActKept ==
  ASSUME MigrationInv, SyncDNS \/ PersistRepo
  PROVE  MigrationInv'
<1>0. /\ worker.task # "none" /\ worker.at = "act" /\ child = "none"
      /\ worker.step \in {"dns_update", "persist_repo"}
      /\ dns \in MigrationNodes /\ repo \in MigrationNodes /\ dnsRevision \in MigrationNodes
      /\ Source \in MigrationNodes /\ Target \in MigrationNodes
      /\ UNCHANGED <<child, inst, up, request, actions, followups,
                     dnsTasks, dnsRevision, userTasks, rollbacks, restarts, restored>>
  BY DEF SyncDNS, PersistRepo, MigrationInv, WorkerInv, MigrationTypeOK, MigrationNodes
<1>1. worker.task \in Kinds /\ (worker.step = "persist_repo" => worker.task = "migrate")
  BY <1>0, Busy, StepSets DEF Kinds
<1>2. worker.task = "migrate" => \A n \in MigrationNodes : inst[n].owner # "migrate"
  BY <1>0 DEF MigrationInv, ChildInv
<1>3. dns' \in MigrationNodes /\ repo' \in MigrationNodes
      /\ (repo' # repo => worker.step = "persist_repo")
  BY <1>0, <1>1 DEF SyncDNS, PersistRepo, Kinds
<1>4. CASE failControllerTask /\ UNCHANGED repo
  BY <1>0, <1>3, <1>4, FailKept DEF StepNames
<1>5. CASE FinishStep
  BY <1>0, <1>1, <1>2, <1>3, <1>5, FinishKept DEF StepNames
<1> QED  BY <1>4, <1>5 DEF SyncDNS, PersistRepo

LEMMA AwaitKept ==
  ASSUME MigrationInv, EnterAwaiting
  PROVE  MigrationInv'
<1>0. /\ worker.task # "none" /\ worker.at \in {"begin", "transition"} /\ child = "none"
      /\ worker.step = "awaiting_confirmation" /\ MigrationTypeOK
      /\ UNCHANGED <<child, inst, up, dns, repo, request, actions, followups,
                     dnsTasks, dnsRevision, userTasks, rollbacks, restarts, restored>>
  BY DEF EnterAwaiting, MigrationInv, WorkerInv
<1>1. /\ worker \in Workers /\ worker.task = "migrate" /\ status["migrate"] = "running"
  BY <1>0, Busy, StepSets DEF Kinds
<1>2. Confirmation \notin {"succeeded", "cancelled"}
  BY <1>0, <1>1 DEF MigrationInv, WorkerInv, DecisionInv
<1>3. \A c \in Clients : request[c].at \notin {"step", "finish"}
  BY <1>1, <1>2 DEF MigrationInv, ClientInv
<1>4. \A n \in MigrationNodes : inst[n].owner # "migrate"
  BY <1>0, <1>1 DEF MigrationInv, ChildInv
<1>5. CASE worker.at = "begin"
  <2>1. /\ steps' = [steps EXCEPT !["migrate"]["awaiting_confirmation"] = "awaiting_confirmation"]
        /\ worker' = [worker EXCEPT !.at = "transition"] /\ UNCHANGED status
    BY <1>5 DEF EnterAwaiting
  <2>2. worker' \in Workers /\ worker'.task = worker.task /\ worker'.step = worker.step
        /\ worker'.at = "transition"
    BY <1>1, <2>1 DEF Workers
  <2>3. /\ steps' \in [Kinds -> [StepNames -> StepStatuses]]
        /\ Confirmation' = "awaiting_confirmation" /\ Restored' = Restored
    BY <1>0, <2>1, TypeParts DEF StepStatuses, Kinds, StepNames, Confirmation, Restored
  <2>4. MigrationTypeOK'
    BY <1>0, <2>1, <2>2, <2>3 DEF MigrationTypeOK, Workers, StepStatuses
  <2>5. DecisionInv' /\ \A c \in Clients : ClientInv(c)'
    BY <1>0, <1>1, <1>2, <1>3, <2>1, <2>3 DEF MigrationInv, DecisionInv, ClientInv
  <2>6. WorkerInv'
    BY <1>0, <1>1, <2>1, <2>2, <2>3 DEF MigrationInv, WorkerInv, HasChild
  <2>7. ChildInv' /\ RollbackRunsAlone' /\ DataInv'
    BY <1>0, <1>4, <2>1, <2>3 DEF MigrationInv, ChildInv, RollbackRunsAlone, Active, DataInv
  <2> QED  BY <2>4, <2>5, <2>6, <2>7 DEF MigrationInv
<1>6. CASE worker.at = "transition"
  <2>1. /\ status' = [status EXCEPT !["migrate"] = "awaiting_confirmation"]
        /\ worker' = WorkerIdle /\ UNCHANGED steps
    BY <1>6 DEF EnterAwaiting
  <2>2. /\ Confirmation' = Confirmation /\ Restored' = Restored
        /\ Confirmation = "awaiting_confirmation"
    BY <1>6, <2>1 DEF Confirmation, Restored, MigrationInv, WorkerInv
  <2>3. /\ status' \in [Kinds -> ActiveStatuses \cup TerminalStatuses \cup {"absent"}]
        /\ status'["migrate"] = "awaiting_confirmation"
        /\ status'["migrate_rollback"] = status["migrate_rollback"]
    BY <1>0, <2>1, TypeParts DEF Kinds, ActiveStatuses
  <2>4. MigrationTypeOK'
    BY <1>0, <2>1, <2>3, IdleType DEF MigrationTypeOK, Workers
  <2>5. DecisionInv' /\ \A c \in Clients : ClientInv(c)'
    BY <1>0, <1>3, <2>2, <2>3 DEF MigrationInv, DecisionInv, ClientInv
  <2>6. WorkerInv'
    BY <1>0, <2>1, IdleType DEF WorkerInv, HasChild
  <2>7. ChildInv' /\ DataInv'
    BY <1>0, <1>4, <2>2 DEF MigrationInv, ChildInv, DataInv
  <2>8. RollbackRunsAlone'
    BY <1>0, <1>1, <2>3 DEF MigrationInv, RollbackRunsAlone, Active, ActiveStatuses
  <2> QED  BY <2>4, <2>5, <2>6, <2>7, <2>8 DEF MigrationInv
<1> QED  BY <1>0, <1>5, <1>6

LEMMA CompleteKept ==
  ASSUME MigrationInv, Complete
  PROVE  MigrationInv'
<1>0. /\ worker.task # "none" /\ worker.at = "begin" /\ child = "none" /\ MigrationTypeOK
      /\ dns \in MigrationNodes /\ repo \in MigrationNodes
      /\ UNCHANGED <<child, inst, up, dns, repo, request, actions, followups,
                     dnsTasks, dnsRevision, userTasks, rollbacks, restarts, restored>>
  BY DEF Complete, MigrationInv, WorkerInv, MigrationTypeOK
<1>1. worker.task \in Kinds /\ status[worker.task] = "running"
  BY <1>0, Busy
<1>2. worker.task = "migrate" => \A n \in MigrationNodes : inst[n].owner # "migrate"
  BY <1>0 DEF MigrationInv, ChildInv
<1>3. CASE worker.step = "finalize" /\ FinishStep
  BY <1>0, <1>2, <1>3, FinishKept DEF StepNames
<1>4. CASE worker.step = "done"
  <2>1. /\ status' = [status EXCEPT ![worker.task] = "succeeded"]
        /\ worker' = WorkerIdle /\ UNCHANGED steps
    BY <1>1, <1>4, <1>0 DEF Complete, Active, ActiveStatuses, FinishStep
  <2>2. Confirmation' = Confirmation /\ Restored' = Restored
    BY <2>1 DEF Confirmation, Restored
  <2>3. /\ status' \in [Kinds -> ActiveStatuses \cup TerminalStatuses \cup {"absent"}]
        /\ \A k \in Kinds : status'[k] = IF k = worker.task THEN "succeeded" ELSE status[k]
    BY <1>0, <1>1, <2>1, TypeParts DEF TerminalStatuses
  <2>4. MigrationTypeOK'
    BY <1>0, <2>1, <2>3, IdleType DEF MigrationTypeOK, Workers
  <2>5. DecisionInv' /\ \A c \in Clients : ClientInv(c)'
    BY <1>0, <1>1, <2>2, <2>3 DEF MigrationInv, DecisionInv, ClientInv, Kinds
  <2>6. WorkerInv'
    BY <1>0, <2>1, IdleType DEF WorkerInv, HasChild
  <2>7. ChildInv' /\ DataInv'
    BY <1>0, <1>1, <2>1, <2>2, <2>3, IdleType DEF MigrationInv, ChildInv, DataInv, Kinds
  <2>8. RollbackRunsAlone'
    BY <1>0, <1>1, <2>3 DEF MigrationInv, RollbackRunsAlone, Active, ActiveStatuses, Kinds
  <2> QED  BY <2>4, <2>5, <2>6, <2>7, <2>8 DEF MigrationInv
<1> QED  BY <1>3, <1>4 DEF Complete

-----------------------------------------------------------------------------
(* The clients *)

Requests == [kind : {"none", "approve", "reject", "rollback"},
             at : {"none", "step", "finish", "create"}, actions : SUBSET StepNames]

LEMMA NoRequestType == NoRequest \in Requests /\ NoRequest.at = "none"
BY DEF NoRequest, Requests

\* A request changes hands without anything else being written.
LEMMA RequestKept ==
  ASSUME MigrationInv, request' \in [Clients -> Requests],
         \A c \in Clients : request'[c] = request[c] \/ ClientInv(c)',
         UNCHANGED <<status, steps, worker, child, inst, up, dns, repo, actions, followups,
                     dnsTasks, dnsRevision, userTasks, rollbacks, restarts, restored>>
  PROVE  MigrationInv'
<1>1. MigrationTypeOK'
  BY DEF MigrationInv, MigrationTypeOK, Requests
<1>2. DecisionInv' /\ WorkerInv' /\ ChildInv' /\ RollbackRunsAlone' /\ DataInv'
  BY DEF MigrationInv, DecisionInv, WorkerInv, ChildInv, RollbackRunsAlone, DataInv, Active,
     Confirmation, Restored
<1>3. \A c \in Clients : ClientInv(c)'
  BY DEF MigrationInv, ClientInv, Confirmation
<1> QED  BY <1>1, <1>2, <1>3 DEF MigrationInv

LEMMA ChecksKept ==
  ASSUME MigrationInv, NEW c \in Clients,
         \/ \E d \in {"approve", "reject"} : ResolveTaskConfirmation(c, d)
         \/ \E as \in RollbackChoices : CreateMigrationRollback(c, as)
  PROVE  MigrationInv'
<1>1. PICK k \in {"approve", "reject", "rollback"}, as \in SUBSET StepNames,
           at \in {"step", "create"} :
        /\ request' = [request EXCEPT ![c] = [kind |-> k, at |-> at, actions |-> as]]
        /\ at = "step" => status["migrate"] = "awaiting_confirmation"
  <2>1. CASE \E d \in {"approve", "reject"} : ResolveTaskConfirmation(c, d)
    BY <2>1 DEF ResolveTaskConfirmation
  <2>2. CASE \E as \in RollbackChoices : CreateMigrationRollback(c, as)
    <3>1. PICK as \in RollbackChoices : CreateMigrationRollback(c, as)
      BY <2>2
    <3>2. as \in SUBSET StepNames
      BY MigrationAssumption DEF StepNames
    <3>3. CASE status["migrate"] = "awaiting_confirmation"
      BY <3>1, <3>2, <3>3 DEF CreateMigrationRollback
    <3>4. CASE status["migrate"] # "awaiting_confirmation"
      BY <3>1, <3>2, <3>4 DEF CreateMigrationRollback
    <3> QED  BY <3>3, <3>4
  <2> QED  BY <2>1, <2>2
<1>2. UNCHANGED <<status, steps, worker, child, inst, up, dns, repo, actions, followups,
                  dnsTasks, dnsRevision, userTasks, rollbacks, restarts, restored>>
  BY DEF ResolveTaskConfirmation, CreateMigrationRollback
<1> DEFINE r == [kind |-> k, at |-> at, actions |-> as]
<1>3. r \in Requests /\ r.at = at
  BY <1>1 DEF Requests
<1>4. request' = [request EXCEPT ![c] = r]
  BY <1>1
<1>5. request \in [Clients -> Requests]
  BY DEF MigrationInv, MigrationTypeOK, Requests
<1> HIDE DEF r
<1>6. request' \in [Clients -> Requests] /\ request'[c] = r
      /\ \A d \in Clients : d # c => request'[d] = request[d]
  BY <1>3, <1>4, <1>5
<1>7. ClientInv(c)'
  BY <1>1, <1>2, <1>3, <1>6 DEF ClientInv
<1> QED  BY <1>2, <1>6, <1>7, RequestKept

LEMMA ResolveStepKept ==
  ASSUME MigrationInv, NEW c \in Clients, ResolveStep(c)
  PROVE  MigrationInv'
<1> DEFINE st == IF request[c].kind = "approve" THEN "succeeded" ELSE "cancelled"
<1>0. /\ request[c].at = "step" /\ MigrationTypeOK /\ request \in [Clients -> Requests]
      /\ steps \in [Kinds -> [StepNames -> StepStatuses]]
      /\ UNCHANGED <<status, worker, child, inst, up, dns, repo, actions, followups,
                     dnsTasks, dnsRevision, userTasks, rollbacks, restarts, restored>>
  BY TypeParts DEF ResolveStep, MigrationInv, MigrationTypeOK, Requests
<1>1. CASE ~MayUpsert("migrate", "awaiting_confirmation", st)
  <2>1. request' = [request EXCEPT ![c] = NoRequest] /\ UNCHANGED steps
    BY <1>1 DEF ResolveStep
  <2>2. request' \in [Clients -> Requests] /\ request'[c].at = "none"
        /\ \A d \in Clients : d # c => request'[d] = request[d]
    BY <1>0, <2>1, NoRequestType
  <2>3. ClientInv(c)'
    BY <2>2 DEF ClientInv
  <2> QED  BY <1>0, <2>1, <2>2, <2>3, RequestKept
<1>2. CASE MayUpsert("migrate", "awaiting_confirmation", st)
  <2>1. /\ steps' = [steps EXCEPT !["migrate"]["awaiting_confirmation"] = st]
        /\ request' = [request EXCEPT ![c].at = "finish"]
    BY <1>2 DEF ResolveStep
  <2>2. /\ request' \in [Clients -> Requests] /\ request'[c].at = "finish"
        /\ request'[c].kind = request[c].kind
        /\ \A d \in Clients : d # c => request'[d] = request[d]
    BY <1>0, <2>1 DEF Requests
  <2>3. /\ steps' \in [Kinds -> [StepNames -> StepStatuses]] /\ Confirmation' = st
        /\ Restored' = Restored
    BY <1>0, <2>1 DEF StepStatuses, TerminalStatuses, Kinds, StepNames, Confirmation, Restored
  <2>4. /\ Confirmation \in {"succeeded", "cancelled"} => Confirmation = st
        /\ Confirmation \notin {"succeeded", "cancelled"} =>
             status["migrate"] = "awaiting_confirmation"
    BY <1>0, <1>2 DEF MayUpsert, Confirmation, TerminalStatuses, MigrationInv, ClientInv
  <2>5. st \in {"succeeded", "cancelled"}
    OBVIOUS
  <2>6. ClientInv(c)'
    BY <2>2, <2>3 DEF ClientInv
  <2> HIDE DEF st
  <2>7. MigrationTypeOK'
    BY <1>0, <2>2, <2>3 DEF MigrationTypeOK, StepStatuses, Requests
  <2>8. DecisionInv'
    BY <1>0, <2>3, <2>4, <2>5 DEF MigrationInv, DecisionInv
  <2>9. \A d \in Clients : ClientInv(d)'
    BY <1>0, <2>2, <2>3, <2>4, <2>5, <2>6 DEF MigrationInv, ClientInv
  <2>10. WorkerInv'
    <3>1. worker.task = "migrate" =>
            Confirmation = st /\ worker.step # "awaiting_confirmation"
      BY <2>4, <2>5 DEF MigrationInv, WorkerInv, DecisionInv
    <3>2. worker.at # "transition"
      BY <3>1, Busy, StepSets DEF Kinds, MigrationInv, WorkerInv
    <3> QED  BY <1>0, <2>3, <3>1, <3>2 DEF MigrationInv, WorkerInv
  <2>11. ChildInv' /\ RollbackRunsAlone' /\ DataInv'
    BY <1>0, <2>3 DEF MigrationInv, ChildInv, RollbackRunsAlone, DataInv, Active
  <2> QED  BY <2>7, <2>8, <2>9, <2>10, <2>11 DEF MigrationInv
<1> QED  BY <1>1, <1>2

\* The migration is approved or cancelled, or was already.
LEMMA ApproveKept ==
  ASSUME MigrationInv, NEW c \in Clients, Approve(c) \/ Cancel(c)
  PROVE  MigrationInv'
<1>0. /\ request[c].at = "finish" /\ MigrationTypeOK /\ request \in [Clients -> Requests]
      /\ steps \in [Kinds -> [StepNames -> StepStatuses]]
      /\ status \in [Kinds -> ActiveStatuses \cup TerminalStatuses \cup {"absent"}]
      /\ UNCHANGED <<worker, child, inst, up, dns, repo, actions, followups,
                     dnsTasks, dnsRevision, userTasks, rollbacks, restarts, restored>>
  BY TypeParts DEF Approve, Cancel, MigrationInv, MigrationTypeOK, Requests
<1>1. /\ request' \in [Clients -> Requests] /\ request'[c].at \in {"none", "create"}
      /\ \A d \in Clients : d # c => request'[d] = request[d]
  <2>1. CASE request' = [request EXCEPT ![c] = NoRequest]
    BY <1>0, <2>1, NoRequestType
  <2>2. CASE request' = [request EXCEPT ![c] = [@ EXCEPT !.at = "create"]]
    BY <1>0, <2>2 DEF Requests
  <2> QED  BY <2>1, <2>2 DEF Approve, Cancel
<1>2. ClientInv(c)'
  BY <1>1 DEF ClientInv
<1>3. CASE UNCHANGED <<status, steps>>
  BY <1>0, <1>1, <1>2, <1>3, RequestKept
<1>4. CASE Approve(c) /\ status["migrate"] = "awaiting_confirmation"
  <2>1. status' = [status EXCEPT !["migrate"] = "pending"] /\ UNCHANGED steps
    BY <1>4 DEF Approve
  <2>2. /\ status' \in [Kinds -> ActiveStatuses \cup TerminalStatuses \cup {"absent"}]
        /\ \A k \in Kinds : status'[k] = IF k = "migrate" THEN "pending" ELSE status[k]
    BY <1>0, <2>1 DEF Kinds, ActiveStatuses
  <2>3. Confirmation' = Confirmation /\ Restored' = Restored /\ Confirmation = "succeeded"
    BY <1>0, <1>4, <2>1 DEF Confirmation, Restored, Approve, MigrationInv, ClientInv
  <2>4. MigrationTypeOK'
    BY <1>0, <1>1, <2>1, <2>2 DEF MigrationTypeOK, Requests
  <2>5. DecisionInv' /\ \A d \in Clients : ClientInv(d)'
    BY <1>0, <1>1, <1>2, <2>2, <2>3 DEF MigrationInv, DecisionInv, ClientInv, Kinds
  <2>6. WorkerInv'
    BY <1>0, <1>4, <2>2, <2>3, Busy DEF MigrationInv, WorkerInv
  <2>7. ChildInv' /\ DataInv'
    BY <1>0, <1>4, <2>3 DEF MigrationInv, ChildInv, DataInv
  <2>8. RollbackRunsAlone'
    BY <1>0, <1>4, <2>2 DEF MigrationInv, RollbackRunsAlone, Active, ActiveStatuses, Kinds
  <2> QED  BY <2>4, <2>5, <2>6, <2>7, <2>8 DEF MigrationInv
<1>5. CASE Cancel(c) /\ Active("migrate")
  <2>1. /\ status' = [status EXCEPT !["migrate"] = "cancelled"]
        /\ steps' = [steps EXCEPT !["migrate"] = Finalized("migrate", "cancelled")]
    BY <1>5 DEF Cancel
  <2>2. /\ Confirmation = "cancelled" /\ status["migrate"] = "awaiting_confirmation"
    BY <1>0, <1>5 DEF Cancel, MigrationInv, ClientInv, DecisionInv, Active, ActiveStatuses
  <2>3. /\ status' \in [Kinds -> ActiveStatuses \cup TerminalStatuses \cup {"absent"}]
        /\ \A k \in Kinds : status'[k] = IF k = "migrate" THEN "cancelled" ELSE status[k]
    BY <1>0, <2>1 DEF Kinds, TerminalStatuses
  <2>4. /\ steps' \in [Kinds -> [StepNames -> StepStatuses]]
        /\ Confirmation' = "cancelled" /\ Restored' = Restored
    BY <1>0, <2>1, <2>2 DEF Finalized, Confirmation, Restored, Kinds, StepNames, StepStatuses,
       TerminalStatuses
  <2>5. MigrationTypeOK'
    BY <1>0, <1>1, <2>3, <2>4 DEF MigrationTypeOK, Requests, StepStatuses
  <2>6. DecisionInv' /\ \A d \in Clients : ClientInv(d)'
    BY <1>0, <1>1, <1>2, <2>2, <2>3, <2>4 DEF MigrationInv, DecisionInv, ClientInv, Kinds
  <2>7. WorkerInv'
    <3>1. worker.task # "migrate" /\ worker.at # "transition"
      BY <2>2, Busy DEF MigrationInv, WorkerInv
    <3> QED  BY <1>0, <2>3, <2>4, <3>1, Busy DEF MigrationInv, WorkerInv
  <2>8. ChildInv' /\ DataInv'
    BY <1>0, <2>2, <2>4 DEF MigrationInv, ChildInv, DataInv
  <2>9. RollbackRunsAlone'
    BY <1>0, <1>5, <2>3 DEF MigrationInv, RollbackRunsAlone, Active, ActiveStatuses, Kinds
  <2> QED  BY <2>5, <2>6, <2>7, <2>8, <2>9 DEF MigrationInv
<1> QED  BY <1>3, <1>4, <1>5 DEF Approve, Cancel

\* A task of the worker is admitted: the service has no active task.
LEMMA AdmitKept ==
  ASSUME MigrationInv, ~ActiveService, NEW k \in Kinds,
         k = "migrate" => status[k] = "absent",
         status' = [status EXCEPT ![k] = "pending"],
         steps' = steps \/ (k # "migrate" /\ steps' = [steps EXCEPT ![k] = NoSteps]),
         RestTypeOK',
         \A c \in Clients : request'[c] = request[c] \/ request'[c].at = "none",
         UNCHANGED <<worker, child, inst, up, dns, repo, restored>>
  PROVE  MigrationInv'
<1>0. /\ MigrationTypeOK /\ steps \in [Kinds -> [StepNames -> StepStatuses]]
      /\ status \in [Kinds -> ActiveStatuses \cup TerminalStatuses \cup {"absent"}]
  BY TypeParts DEF MigrationInv
<1>1. /\ status' \in [Kinds -> ActiveStatuses \cup TerminalStatuses \cup {"absent"}]
      /\ \A j \in Kinds : status'[j] = IF j = k THEN "pending" ELSE status[j]
  BY <1>0 DEF ActiveStatuses
<1>2. NoSteps \in [StepNames -> StepStatuses]
  BY DEF NoSteps, StepStatuses
<1>3. /\ steps' \in [Kinds -> [StepNames -> StepStatuses]]
      /\ Confirmation' = Confirmation /\ Restored' = Restored
  BY <1>0, <1>2 DEF Confirmation, Restored, Kinds
<1>4. worker.task = "none"
  BY Busy DEF ActiveService, Active, ActiveStatuses
<1>5. \A n \in MigrationNodes : inst[n].owner # "migrate"
  BY DEF ActiveService, NoInstanceTask
<1>6. MigrationTypeOK'
  BY <1>0, <1>1, <1>3, TypeParts DEF MigrationTypeOK, RestTypeOK, StepStatuses
<1>7. DecisionInv'
  BY <1>1, <1>3 DEF MigrationInv, DecisionInv, Kinds
<1>8. \A c \in Clients : ClientInv(c)'
  <2>1. \A c \in Clients : ClientInv(c) => ClientInv(c)'
    <3>1. status["migrate"] = "awaiting_confirmation" => status'["migrate"] = status["migrate"]
      BY <1>1 DEF Kinds
    <3> QED  BY <1>3, <3>1 DEF ClientInv
  <2> QED  BY <2>1 DEF MigrationInv
<1>9. WorkerInv'
  BY <1>3, <1>4 DEF MigrationInv, WorkerInv
<1>10. ChildInv' /\ DataInv'
  BY <1>3, <1>5 DEF MigrationInv, ChildInv, DataInv
<1>11. RollbackRunsAlone'
  BY <1>1, <1>5 DEF RollbackRunsAlone, Active, ActiveService, Kinds, ActiveStatuses
<1> QED  BY <1>6, <1>7, <1>8, <1>9, <1>10, <1>11 DEF MigrationInv

LEMMA MigrateServiceKept ==
  ASSUME MigrationInv, MigrateService
  PROVE  MigrationInv'
<1>1. RestTypeOK'
  BY TypeParts DEF MigrationInv, RestTypeOK, MigrateService
<1> QED  BY <1>1, AdmitKept DEF MigrateService, Kinds

LEMMA CreateRollbackKept ==
  ASSUME MigrationInv, NEW c \in Clients, CreateRollback(c)
  PROVE  MigrationInv'
<1>1. RestTypeOK /\ request \in [Clients -> Requests]
  BY TypeParts DEF MigrationInv, RestTypeOK, Requests
<1>2. /\ request' \in [Clients -> Requests] /\ request'[c].at = "none"
      /\ \A d \in Clients : d # c => request'[d] = request[d]
  BY <1>1, NoRequestType DEF CreateRollback
<1>3. CASE ActiveService
  <2>1. ClientInv(c)'
    BY <1>2 DEF ClientInv
  <2> QED  BY <1>2, <1>3, <2>1, RequestKept DEF CreateRollback
<1>4. CASE ~ActiveService
  <2>1. request[c].actions \subseteq StepNames
    BY <1>1 DEF Requests
  <2>2. rollbacks' \in 0..MaxRollbacks
    BY <1>1, <1>4, MigrationAssumption DEF RestTypeOK, CreateRollback
  <2>3. RestTypeOK'
    BY <1>1, <1>2, <1>4, <2>1, <2>2 DEF RestTypeOK, CreateRollback, Requests
  <2> QED  BY <1>2, <1>4, <2>3, AdmitKept DEF CreateRollback, Kinds
<1> QED  BY <1>3, <1>4

LEMMA QueueDNSUpdateKept ==
  ASSUME MigrationInv, NEW r \in MigrationNodes, QueueDNSUpdate(r)
  PROVE  MigrationInv'
<1>1. RestTypeOK /\ RestTypeOK'
  BY TypeParts DEF MigrationInv, RestTypeOK, QueueDNSUpdate
<1>2. CASE r \in dnsTasks
  <2>1. MigrationTypeOK'
    BY <1>1, <1>2 DEF MigrationInv, MigrationTypeOK, RestTypeOK, QueueDNSUpdate
  <2>2. DecisionInv' /\ WorkerInv' /\ ChildInv' /\ RollbackRunsAlone' /\ DataInv'
    BY <1>2 DEF MigrationInv, DecisionInv, WorkerInv, ChildInv, RollbackRunsAlone, DataInv,
       Active, Confirmation, Restored, QueueDNSUpdate
  <2>3. \A c \in Clients : ClientInv(c)'
    BY <1>2 DEF MigrationInv, ClientInv, Confirmation, QueueDNSUpdate
  <2> QED  BY <2>1, <2>2, <2>3 DEF MigrationInv
<1>3. CASE r \notin dnsTasks
  BY <1>1, <1>3, AdmitKept DEF QueueDNSUpdate, Kinds
<1> QED  BY <1>2, <1>3

-----------------------------------------------------------------------------
(* Users, agents and restarts *)

InstanceTasks == [type : {"none", "deploy", "stop", "backup", "restore"},
                  owner : Kinds \cup {"none", "user"}, revision : MigrationNodes]

LEMMA UserTaskKept ==
  ASSUME MigrationInv, NEW ty \in {"deploy", "stop"}, UserTask(ty)
  PROVE  MigrationInv'
<1> DEFINE i == [type |-> ty, owner |-> "user", revision |-> repo]
<1>0. /\ MigrationTypeOK /\ RestTypeOK /\ repo \in MigrationNodes
      /\ inst' = [inst EXCEPT ![repo] = i]
      /\ UNCHANGED <<status, steps, worker, child, up, dns, repo, request, actions,
                     followups, dnsTasks, dnsRevision, rollbacks, restarts, restored>>
  BY TypeParts DEF UserTask, MigrationInv, RestTypeOK
<1>1. i \in InstanceTasks /\ i.owner = "user" /\ i.type = ty
  BY <1>0 DEF InstanceTasks
<1>2. userTasks' \in 0..MaxUserTasks
  BY <1>0, MigrationAssumption DEF UserTask, RestTypeOK
<1> HIDE DEF i
<1>3. /\ inst' \in [MigrationNodes -> InstanceTasks]
      /\ \A n \in MigrationNodes : inst'[n] = IF n = repo THEN i ELSE inst[n]
  BY <1>0, <1>1 DEF RestTypeOK, InstanceTasks
<1>4. MigrationTypeOK'
  BY <1>0, <1>2, <1>3 DEF MigrationTypeOK, InstanceTasks
<1>5. DecisionInv' /\ (\A c \in Clients : ClientInv(c)') /\ WorkerInv'
  BY <1>0 DEF MigrationInv, DecisionInv, ClientInv, WorkerInv, Confirmation, Restored
<1>6. ChildInv' /\ RollbackRunsAlone'
  BY <1>0, <1>1, <1>3 DEF MigrationInv, ChildInv, RollbackRunsAlone, Active
<1>7. DataInv'
  BY <1>0, <1>3 DEF MigrationInv, DataInv, Restored, MigrationNodes
<1> QED  BY <1>4, <1>5, <1>6, <1>7 DEF MigrationInv

LEMMA InstanceTaskEndsKept ==
  ASSUME MigrationInv, NEW n \in MigrationNodes, NEW ok \in BOOLEAN, InstanceTaskEnds(n, ok)
  PROVE  MigrationInv'
<1>0. /\ MigrationTypeOK /\ RestTypeOK /\ inst \in [MigrationNodes -> InstanceTasks]
      /\ inst' = [inst EXCEPT ![n] = NoInstanceTask]
      /\ UNCHANGED <<status, steps, worker, dns, repo, request, actions, dnsTasks,
                     dnsRevision, userTasks, rollbacks, restarts>>
  BY TypeParts DEF InstanceTaskEnds, MigrationInv, RestTypeOK, InstanceTasks
<1>1. NoInstanceTask \in InstanceTasks /\ NoInstanceTask.owner = "none" /\ NoInstanceTask.type = "none"
  BY DEF NoInstanceTask, InstanceTasks, MigrationNodes
<1>2. /\ inst' \in [MigrationNodes -> InstanceTasks]
      /\ \A m \in MigrationNodes : inst'[m] = IF m = n THEN NoInstanceTask ELSE inst[m]
  BY <1>0, <1>1
<1>3. /\ up' \subseteq MigrationNodes
      /\ Target \in up' => Target \in up \/ inst[Target].type = "deploy"
  <2>1. up' = up \/ up' = up \ {n} \/ (inst[n].type = "deploy" /\ up' = up \cup {n})
    BY DEF InstanceTaskEnds
  <2> QED  BY <1>0, <2>1 DEF RestTypeOK
<1>4. /\ child' \in {"none", "active", "succeeded", "failed"}
      /\ child' = child \/ (child = "active" /\ inst[n].owner = worker.task)
      /\ child' = "succeeded" /\ child # "succeeded" => ok = TRUE
  BY <1>0 DEF InstanceTaskEnds, MigrationTypeOK
<1>5. /\ restored' \in BOOLEAN /\ (restored => restored')
      /\ ok /\ inst[n].type = "restore" => restored'
  BY <1>0 DEF InstanceTaskEnds, RestTypeOK
<1>6. followups' \subseteq MigrationNodes
  BY <1>0 DEF InstanceTaskEnds, RestTypeOK
<1>7. MigrationTypeOK'
  BY <1>0, <1>2, <1>3, <1>4, <1>5, <1>6 DEF MigrationTypeOK, InstanceTasks
<1>8. DecisionInv' /\ \A c \in Clients : ClientInv(c)'
  BY <1>0 DEF MigrationInv, DecisionInv, ClientInv, Confirmation
<1>9. WorkerInv'
  <2>1. worker.task = "migrate" /\ worker.step = "restore" /\ child' = "succeeded" => restored'
    <3>1. CASE child' = child
      BY <1>5, <3>1 DEF MigrationInv, WorkerInv
    <3>2. CASE child' # child
      <4>1. worker.task = "migrate" /\ worker.step = "restore" => inst[n].type = "restore"
        BY <1>4, <3>2 DEF MigrationInv, ChildInv, Child
      <4> QED  BY <1>4, <1>5, <3>2, <4>1
    <3> QED  BY <3>1, <3>2
  <2> QED  BY <1>0, <1>4, <2>1 DEF MigrationInv, WorkerInv, HasChild, Confirmation, Restored
<1>10. ChildInv'
  <2> SUFFICES ASSUME NEW m \in MigrationNodes, inst'[m].owner = "migrate"
               PROVE  /\ status["migrate"] \notin {"absent", "pending", "awaiting_confirmation"}
                      /\ worker.task = "migrate" =>
                           /\ worker.at = "wait" /\ child' = "active"
                           /\ Child("migrate", worker.step) = <<m, inst'[m].type>>
    BY <1>0 DEF ChildInv
  <2>1. m # n /\ inst'[m] = inst[m]
    BY <1>1, <1>2
  <2>2. worker.task = "migrate" => inst[n].owner # "migrate"
    BY <2>1 DEF MigrationInv, ChildInv
  <2> QED  BY <1>4, <2>1, <2>2 DEF MigrationInv, ChildInv
<1>11. RollbackRunsAlone'
  BY <1>0, <1>1, <1>2 DEF MigrationInv, RollbackRunsAlone, Active
<1>12. DataInv'
  BY <1>0, <1>1, <1>2, <1>3, <1>5 DEF MigrationInv, DataInv, Restored, MigrationNodes
<1> QED  BY <1>7, <1>8, <1>9, <1>10, <1>11, <1>12 DEF MigrationInv

LEMMA RestartKept ==
  ASSUME MigrationInv, RestartController
  PROVE  MigrationInv'
<1>1. MigrationTypeOK /\ RestTypeOK
  BY TypeParts DEF MigrationInv
<1>2. /\ request' \in [Clients -> Requests] /\ \A c \in Clients : request'[c].at = "none"
  BY NoRequestType DEF RestartController
<1>3. restarts' \in 0..MaxRestarts
  BY <1>1, MigrationAssumption DEF RestartController, RestTypeOK
<1>4. MigrationTypeOK'
  BY <1>1, <1>2, <1>3, IdleType DEF MigrationTypeOK, Requests, Workers, RestartController
<1>5. DecisionInv' /\ RollbackRunsAlone' /\ DataInv'
  BY DEF MigrationInv, DecisionInv, RollbackRunsAlone, DataInv, Active, Confirmation, Restored,
     RestartController
<1>6. \A c \in Clients : ClientInv(c)'
  BY <1>2 DEF ClientInv
<1>7. WorkerInv' /\ ChildInv'
  BY IdleType DEF MigrationInv, WorkerInv, ChildInv, HasChild, RestartController
<1> QED  BY <1>4, <1>5, <1>6, <1>7 DEF MigrationInv

-----------------------------------------------------------------------------
(* The theorem *)

LEMMA MigrationStarts == MigrationInit => MigrationInv
<1> SUFFICES ASSUME MigrationInit PROVE MigrationInv
  OBVIOUS
<1>1. /\ NoSteps \in [StepNames -> StepStatuses] /\ NoSteps["awaiting_confirmation"] = "none"
      /\ NoSteps["restore"] = "none"
  BY DEF NoSteps, StepStatuses, StepNames
<1>2. /\ NoInstanceTask \in InstanceTasks /\ NoInstanceTask.owner = "none"
      /\ NoInstanceTask.type = "none"
  BY DEF NoInstanceTask, InstanceTasks, MigrationNodes
<1>3. /\ status["migrate"] = "absent" /\ Confirmation = "none" /\ ~Restored
      /\ repo # Target /\ Target \notin up
      /\ \A n \in MigrationNodes : inst[n] = NoInstanceTask
      /\ \A c \in Clients : request[c].at = "none"
  BY <1>1, NoRequestType, MigrationAssumption
     DEF MigrationInit, Kinds, Confirmation, Restored
<1>4. MigrationTypeOK
  <2>1. steps \in [Kinds -> [StepNames -> StepStatuses]]
    BY <1>1 DEF MigrationInit
  <2>2. worker \in Workers /\ inst \in [MigrationNodes -> InstanceTasks]
        /\ request \in [Clients -> Requests]
    BY <1>2, IdleType, NoRequestType DEF MigrationInit
  <2>3. /\ userTasks \in 0..MaxUserTasks /\ rollbacks \in 0..MaxRollbacks
        /\ restarts \in 0..MaxRestarts
    BY MigrationAssumption DEF MigrationInit
  <2>4. RestTypeOK
    BY <2>2, <2>3 DEF MigrationInit, RestTypeOK, InstanceTasks, Requests, MigrationNodes
  <2>5. /\ status \in [Kinds -> ActiveStatuses \cup TerminalStatuses \cup {"absent"}]
        /\ child \in {"none", "active", "succeeded", "failed"}
    BY DEF MigrationInit
  <2> QED  BY <2>1, <2>2, <2>4, <2>5, TypeParts
<1>5. DecisionInv /\ \A c \in Clients : ClientInv(c)
  BY <1>3 DEF DecisionInv, ClientInv
<1>6. WorkerInv
  BY IdleType DEF MigrationInit, WorkerInv, HasChild
<1>7. ChildInv /\ RollbackRunsAlone /\ DataInv
  BY <1>2, <1>3
     DEF MigrationInit, ChildInv, RollbackRunsAlone, Active, ActiveStatuses, DataInv, Kinds,
         MigrationNodes
<1> QED  BY <1>4, <1>5, <1>6, <1>7 DEF MigrationInv

LEMMA MigrationKept == MigrationInv /\ [MigrationNext]_migrationVars => MigrationInv'
<1> SUFFICES ASSUME MigrationInv, [MigrationNext]_migrationVars PROVE MigrationInv'
  OBVIOUS
<1>1. CASE WorkerStep
  BY <1>1, BeginKept, CreateChildKept, WaitKept, ActKept, AwaitKept, CompleteKept, ClaimKept
     DEF WorkerStep
<1>2. CASE ClientStep
  BY <1>2, MigrateServiceKept, ChecksKept, ResolveStepKept, ApproveKept, CreateRollbackKept
     DEF ClientStep
<1>3. CASE \E ty \in {"deploy", "stop"} : UserTask(ty)
  BY <1>3, UserTaskKept
<1>4. CASE \E n \in MigrationNodes, ok \in BOOLEAN : InstanceTaskEnds(n, ok)
  BY <1>4, InstanceTaskEndsKept
<1>5. CASE \E r \in MigrationNodes : QueueDNSUpdate(r)
  BY <1>5, QueueDNSUpdateKept
<1>6. CASE RestartController
  BY <1>6, RestartKept
<1>7. CASE UNCHANGED migrationVars
  <2>1. MigrationTypeOK' /\ DecisionInv' /\ WorkerInv' /\ ChildInv' /\ RollbackRunsAlone' /\ DataInv'
    BY <1>7 DEF migrationVars, MigrationInv, MigrationTypeOK, DecisionInv, WorkerInv, ChildInv,
       RollbackRunsAlone, DataInv, Active, Confirmation, Restored
  <2>2. \A c \in Clients : ClientInv(c)'
    BY <1>7 DEF migrationVars, MigrationInv, ClientInv, Confirmation
  <2> QED  BY <2>1, <2>2 DEF MigrationInv
<1> QED  BY <1>1, <1>2, <1>3, <1>4, <1>5, <1>6, <1>7 DEF MigrationNext

\* However approvals, rejections and rollback requests cross (the handlers of
\* task_service.go and migrate_rollback.go check, write the step and write the
\* task in three statements), a migration that was cancelled has not committed
\* the target nodes, a rollback runs beside neither the migration nor a child
\* it gave up on, and the target serves only restored data.
THEOREM MigrationSafe == MigrationSpec => []MigrationIsSafe
<1>1. MigrationInv => MigrationIsSafe
  <2> SUFFICES ASSUME MigrationInv PROVE MigrationIsSafe
    OBVIOUS
  <2>1. CancelledNeverPersisted
    BY DEF CancelledNeverPersisted, MigrationInv, DecisionInv, MigrationTypeOK, MigrationNodes
  <2>2. TargetServesRestoredData
    BY DEF TargetServesRestoredData, MigrationInv, DataInv
  <2> QED  BY <2>1, <2>2 DEF MigrationInv, MigrationIsSafe, DecisionsExclude
<1> QED  BY <1>1, MigrationStarts, MigrationKept, PTL DEF MigrationSpec

-----------------------------------------------------------------------------
(* The outbox *)

KindNames == {"dns", "caddy", "tunnel"}
LoopPlaces == {"idle", "followups", "send", "mark", "complete", "retry"}
Statuses == Terminal \cup {"absent", "active"}
FollowupStates == {"absent", "active", "succeeded", "failed"}
TaskRows == [type : Types \cup {"none"}, node : Nodes \cup {"none"}, revision : Revisions \cup {"none"},
             status : Statuses]
StartedRows == [type : Types, node : Nodes, revision : Revisions, status : Statuses]
EventRows == [state : {"none", "pending", "processed"}, followups : BOOLEAN, notified : BOOLEAN, due : BOOLEAN]
LoopRows == [at : LoopPlaces, id : Ids \cup {"none"}, todo : Seq(KindNames), notified : BOOLEAN]

KindsAfter(type) == {queuePostTaskFollowups(type)[i] : i \in DOMAIN queuePostTaskFollowups(type)}
Rest(s) == {s[i] : i \in 1..Len(s)}
Exists(id, kind) == followup[DedupeKey(id, kind)] # "absent"

\* The follow-ups of a task exist, and every route that wants it has its event.
Queued(id) ==
  task[id].status = "succeeded" => \A kind \in KindsAfter(task[id].type) : Wanted(kind) => Exists(id, kind)
Announced(id) == \A r \in Matching(id) : <<id, r>> \in delivered
SentTo(id) == \E r \in Routes : <<id, r>> \in delivered

OutboxTypes ==
  /\ task \in [Ids -> TaskRows] /\ event \in [Ids -> EventRows] /\ loop \in LoopRows
  /\ followup \in [Keys -> FollowupStates] /\ made \in [Keys -> Nat]
  /\ delivered \in SUBSET (Ids \X Routes)

\* An event belongs to a completed task, and its marks tell the truth.
RowInv(id) ==
  /\ task[id].status # "absent" => task[id] \in StartedRows
  /\ event[id].state = "none" <=> task[id].status \notin Terminal
  /\ event[id].state = "none" => ~event[id].followups /\ ~event[id].notified /\ ~SentTo(id)
  /\ followup[<<"caddy", id>>] # "absent" => task[id].status # "absent"
  /\ event[id].followups \/ SentTo(id) => Queued(id)
  /\ event[id].notified => Announced(id)
  /\ event[id].state = "processed" => event[id].notified

\* What the loop has read is still so, and where it stands says what is done.
LoopInv ==
  loop.at # "idle" =>
    /\ loop.id \in Ids /\ event[loop.id].state = "pending"
    /\ loop.notified => event[loop.id].notified
    /\ loop.at = "followups" /\ task[loop.id].status = "succeeded" =>
         \A kind \in KindsAfter(task[loop.id].type) :
           Wanted(kind) => Exists(loop.id, kind) \/ kind \in Rest(loop.todo)
    /\ loop.at \in {"send", "mark", "complete"} => Queued(loop.id)
    /\ loop.at = "mark" => Announced(loop.id)
    /\ loop.at = "complete" => event[loop.id].notified

MadeInv == \A k \in Keys : made[k] = IF followup[k] = "absent" THEN 0 ELSE 1

\* Of the tasks of the service, and of the reloads of a node, one runs.
AloneInv ==
  /\ \A k, l \in Keys :
       k[1] # "caddy" /\ l[1] # "caddy" /\ followup[k] = "active" /\ followup[l] = "active" => k = l
  /\ \A i, j \in Ids :
       followup[<<"caddy", i>>] = "active" /\ followup[<<"caddy", j>>] = "active"
         /\ task[i].node = task[j].node => i = j

OutboxInv == OutboxTypes /\ (\A id \in Ids : RowInv(id)) /\ LoopInv /\ MadeInv /\ AloneInv

-----------------------------------------------------------------------------
(* Keys and follow-ups *)

LEMMA FollowupKinds ==
  /\ KindsAfter("deploy") = {"dns", "caddy", "tunnel"}
  /\ KindsAfter("update") = {"caddy", "tunnel"} /\ KindsAfter("stop") = {"caddy", "tunnel"}
  /\ \A type : type \notin {"deploy", "update", "stop"} => KindsAfter(type) = {}
<1>. DEFINE three == <<"dns", "caddy", "tunnel">>
<1>. DEFINE two == <<"caddy", "tunnel">>
<1>1. {three[i] : i \in DOMAIN three} = {"dns", "caddy", "tunnel"}
  <2>1. DOMAIN three = {1, 2, 3} /\ three[1] = "dns" /\ three[2] = "caddy" /\ three[3] = "tunnel"
    OBVIOUS
  <2>. HIDE DEF three
  <2> QED
    BY <2>1
<1>2. {two[i] : i \in DOMAIN two} = {"caddy", "tunnel"}
  <2>1. DOMAIN two = {1, 2} /\ two[1] = "caddy" /\ two[2] = "tunnel"
    OBVIOUS
  <2>. HIDE DEF two
  <2> QED
    BY <2>1
<1>3. \A type : type \notin {"deploy", "update", "stop"} => DOMAIN queuePostTaskFollowups(type) = {}
  BY DEF queuePostTaskFollowups
<1>4. /\ queuePostTaskFollowups("deploy") = three
      /\ queuePostTaskFollowups("update") = two /\ queuePostTaskFollowups("stop") = two
  BY DEF queuePostTaskFollowups
<1>. HIDE DEF three, two
<1> QED
  BY <1>1, <1>2, <1>3, <1>4 DEF KindsAfter

LEMMA KindsAreNamed == \A type : KindsAfter(type) \subseteq KindNames
BY FollowupKinds DEF KindNames

LEMMA FollowupLists == \A type : queuePostTaskFollowups(type) \in Seq(KindNames)
<1>1. /\ <<"dns", "caddy", "tunnel">> \in Seq(KindNames) /\ <<"caddy", "tunnel">> \in Seq(KindNames)
      /\ <<>> \in Seq(KindNames)
  BY DEF KindNames
<1> QED
  BY <1>1 DEF queuePostTaskFollowups

LEMMA RestOfList ==
  \A type : Rest(queuePostTaskFollowups(type)) = KindsAfter(type)
<1>. TAKE type
<1>. DEFINE s == queuePostTaskFollowups(type)
<1>1. s \in Seq(KindNames)
  BY FollowupLists
<1>. HIDE DEF s
<1>2. DOMAIN s = 1..Len(s)
  BY <1>1
<1> QED
  BY <1>2 DEF Rest, KindsAfter, s

LEMMA RestOfTail ==
  ASSUME NEW S, NEW s \in Seq(S), s # <<>>
  PROVE  /\ Tail(s) \in Seq(S) /\ Head(s) \in S
         /\ \A x \in Rest(s) : x = Head(s) \/ x \in Rest(Tail(s))
<1>1. Len(s) \in Nat /\ Len(s) > 0 /\ Len(Tail(s)) = Len(s) - 1 /\ Tail(s) \in Seq(S) /\ Head(s) = s[1]
  OBVIOUS
<1>2. \A i \in 1..Len(Tail(s)) : Tail(s)[i] = s[i + 1]
  OBVIOUS
<1>3. s[1] \in S
  BY <1>1
<1>4. ASSUME NEW i \in 1..Len(s), i # 1 PROVE s[i] \in Rest(Tail(s))
  <2>1. i - 1 \in 1..Len(Tail(s)) /\ (i - 1) + 1 = i
    BY <1>1, <1>4
  <2>2. Tail(s)[i - 1] = s[i]
    BY <1>2, <2>1
  <2> QED
    BY <2>1, <2>2 DEF Rest
<1> QED
  BY <1>1, <1>3, <1>4 DEF Rest

LEMMA KeyIsKey ==
  ASSUME NEW id \in Ids, NEW kind \in KindNames, task[id].revision \in Revisions
  PROVE  /\ DedupeKey(id, kind) \in Keys /\ DedupeKey(id, kind)[1] = kind
         /\ kind # "dns" => DedupeKey(id, kind) = <<kind, id>>
BY DEF DedupeKey, Keys, KindNames

\* What is queued stays queued.
LEMMA QueuedStays ==
  ASSUME NEW id \in Ids, task' [id] = task[id], task[id].status = "succeeded" => task[id].revision \in Revisions,
         \A k \in Keys : followup[k] # "absent" => followup'[k] # "absent", Queued(id)
  PROVE  Queued(id)'
<1>. SUFFICES ASSUME task[id].status = "succeeded", NEW kind \in KindsAfter(task[id].type), Wanted(kind)
              PROVE  followup'[DedupeKey(id, kind)] # "absent"
  BY DEF Queued, Exists, DedupeKey
<1>1. Exists(id, kind)
  BY DEF Queued
<1>2. DedupeKey(id, kind) \in Keys
  BY KeyIsKey, KindsAreNamed
<1> QED
  BY <1>1, <1>2 DEF Exists

LEMMA RowStays ==
  ASSUME NEW id \in Ids, RowInv(id), task'[id] = task[id], event'[id] = event[id],
         \A k \in Keys : followup[k] # "absent" => followup'[k] # "absent",
         followup'[<<"caddy", id>>] # "absent" => task[id].status # "absent",
         delivered' = delivered
  PROVE  RowInv(id)'
<1>1. Queued(id) => Queued(id)'
  BY QueuedStays DEF RowInv, StartedRows, Terminal
<1>2. Announced(id)' <=> Announced(id)
  BY DEF Announced, Matching
<1>3. SentTo(id)' <=> SentTo(id)
  BY DEF SentTo
<1> QED
  BY <1>1, <1>2, <1>3 DEF RowInv

-----------------------------------------------------------------------------
(* The invariant is kept *)

LEMMA OutboxInitOK == OutboxInit => OutboxInv
<1>. SUFFICES ASSUME OutboxInit PROVE OutboxInv
  OBVIOUS
<1>1. NoTask \in TaskRows /\ NoEvent \in EventRows
  BY DEF NoTask, NoEvent, TaskRows, EventRows, Statuses
<1>2. Idle \in LoopRows
  BY DEF Idle, LoopRows, LoopPlaces
<1>3. OutboxTypes
  BY <1>1, <1>2 DEF OutboxInit, OutboxTypes, FollowupStates
<1>4. \A id \in Ids : RowInv(id)
  <2>. TAKE id \in Ids
  <2>1. task[id].status = "absent" /\ event[id] = NoEvent /\ ~SentTo(id)
    BY DEF OutboxInit, NoTask, SentTo
  <2>2. <<"caddy", id>> \in Keys
    BY DEF Keys
  <2>3. followup[<<"caddy", id>>] = "absent"
    BY <2>2 DEF OutboxInit
  <2> QED
    BY <2>1, <2>3 DEF RowInv, NoEvent, Terminal
<1>5. LoopInv
  BY DEF OutboxInit, LoopInv, Idle
<1>6. MadeInv
  BY DEF OutboxInit, MadeInv
<1>7. AloneInv
  <2>1. \A i \in Ids : <<"caddy", i>> \in Keys
    BY DEF Keys
  <2> QED
    BY <2>1 DEF OutboxInit, AloneInv
<1> QED
  BY <1>3, <1>4, <1>5, <1>6, <1>7 DEF OutboxInv

\* A step that changes neither tasks nor follow-ups leaves what is said of them.
LEMMA OthersStay ==
  ASSUME OutboxInv, UNCHANGED <<task, followup, made>>
  PROVE  MadeInv' /\ AloneInv'
BY DEF OutboxInv, MadeInv, AloneInv

\* A step of the loop that writes nothing.
LEMMA LoopMoves ==
  ASSUME OutboxInv, UNCHANGED <<task, event, followup, made, delivered>>, loop' \in LoopRows, LoopInv'
  PROVE  OutboxInv'
<1>1. OutboxTypes'
  BY DEF OutboxInv, OutboxTypes
<1>2. \A id \in Ids : RowInv(id)'
  <2>. TAKE id \in Ids
  <2>1. RowInv(id)
    BY DEF OutboxInv
  <2> QED
    BY <2>1, RowStays DEF RowInv
<1> QED
  BY <1>1, <1>2, OthersStay DEF OutboxInv

\* The loop forgets the event it had.
LEMMA LoopForgets ==
  ASSUME OutboxInv, UNCHANGED <<task, event, followup, made, delivered>>, loop' = Idle
  PROVE  OutboxInv'
<1>1. loop' \in LoopRows /\ loop'.at = "idle"
  BY DEF Idle, LoopRows, LoopPlaces
<1> QED
  BY <1>1, LoopMoves DEF LoopInv

\* The event will be tried again.
LEMMA LoopGivesUp ==
  ASSUME OutboxInv, UNCHANGED <<task, event, followup, made, delivered>>, loop.at # "idle",
         loop' = [loop EXCEPT !.at = "retry"]
  PROVE  OutboxInv'
<1>1. loop \in LoopRows
  BY DEF OutboxInv, OutboxTypes
<1>2. loop' \in LoopRows /\ loop'.at = "retry" /\ loop'.id = loop.id /\ loop'.notified = loop.notified
  BY <1>1 DEF LoopRows, LoopPlaces
<1>3. LoopInv'
  BY <1>2 DEF OutboxInv, LoopInv
<1> QED
  BY <1>2, <1>3, LoopMoves

LEMMA StartKeeps ==
  ASSUME OutboxInv, NEW id \in Ids, NEW type \in Types, NEW n \in Nodes, NEW r \in Revisions,
         StartTask(id, type, n, r)
  PROVE  OutboxInv'
<1>. DEFINE row == [type |-> type, node |-> n, revision |-> r, status |-> "active"]
<1>0. /\ task[id].status = "absent" /\ task' = [task EXCEPT ![id] = row]
      /\ UNCHANGED <<event, loop, followup, made, delivered>>
  BY DEF StartTask
<1>1. row \in TaskRows /\ row \in StartedRows /\ row.status = "active"
  BY DEF TaskRows, StartedRows, Statuses
<1>. HIDE DEF row
<1>2. task'[id] = row /\ \A i \in Ids : i # id => task'[i] = task[i]
  BY <1>0 DEF OutboxInv, OutboxTypes
<1>3. OutboxTypes'
  BY <1>0, <1>1 DEF OutboxInv, OutboxTypes
<1>4. \A i \in Ids : RowInv(i)'
  <2>. TAKE i \in Ids
  <2>0. RowInv(i)
    BY DEF OutboxInv
  <2>1. CASE i # id
    BY <1>0, <1>2, <2>0, <2>1, RowStays DEF RowInv
  <2>2. CASE i = id
    <3>1. event[i].state = "none" /\ ~event[i].followups /\ ~event[i].notified /\ ~SentTo(i)
      BY <1>0, <2>0, <2>2 DEF RowInv, Terminal
    <3>2. event'[i] = event[i] /\ ~SentTo(i)'
      BY <1>0, <3>1 DEF SentTo
    <3> QED
      BY <1>1, <1>2, <2>2, <3>1, <3>2 DEF RowInv, Terminal
  <2> QED
    BY <2>1, <2>2
<1>5. LoopInv'
  <2>. SUFFICES ASSUME loop.at # "idle" PROVE LoopInv'
    BY <1>0 DEF LoopInv
  <2>1. loop.id \in Ids /\ loop.id # id
    BY <1>0 DEF OutboxInv, LoopInv, RowInv, Terminal
  <2>2. task'[loop.id] = task[loop.id]
    BY <1>2, <2>1
  <2> QED
    BY <1>0, <2>1, <2>2 DEF OutboxInv, LoopInv, Queued, Exists, DedupeKey, Announced, Matching
<1>6. MadeInv'
  BY <1>0 DEF OutboxInv, MadeInv
<1>7. AloneInv'
  <2>1. followup[<<"caddy", id>>] = "absent"
    BY <1>0 DEF OutboxInv, RowInv
  <2> QED
    BY <1>0, <1>2, <2>1 DEF OutboxInv, AloneInv
<1> QED
  BY <1>3, <1>4, <1>5, <1>6, <1>7 DEF OutboxInv

LEMMA CompleteKeeps ==
  ASSUME OutboxInv, NEW id \in Ids, NEW st \in Terminal, CompleteTaskExecution(id, st)
  PROVE  OutboxInv'
<1>. DEFINE new == [NoEvent EXCEPT !.state = "pending", !.due = TRUE]
<1>0. /\ task[id].status = "active" /\ task' = [task EXCEPT ![id].status = st]
      /\ event' = [event EXCEPT ![id] = new]
      /\ UNCHANGED <<loop, followup, made, delivered>>
  BY DEF CompleteTaskExecution
<1>1. /\ new \in EventRows /\ new.state = "pending" /\ ~new.followups /\ ~new.notified
  BY DEF NoEvent, EventRows
<1>. HIDE DEF new
<1>2. RowInv(id) /\ task[id] \in StartedRows /\ task \in [Ids -> TaskRows] /\ event \in [Ids -> EventRows]
  BY <1>0 DEF OutboxInv, RowInv, OutboxTypes
<1>3. /\ event'[id] = new /\ \A i \in Ids : i # id => event'[i] = event[i] /\ task'[i] = task[i]
      /\ task'[id].status = st /\ task'[id].node = task[id].node /\ task'[id] \in StartedRows
  BY <1>0, <1>2 DEF StartedRows, Statuses
<1>4. StartedRows \subseteq TaskRows
  BY DEF StartedRows, TaskRows
<1>5. OutboxTypes'
  <2>1. task' \in [Ids -> TaskRows]
    BY <1>0, <1>2, <1>3, <1>4
  <2>2. event' \in [Ids -> EventRows]
    BY <1>0, <1>1, <1>2
  <2> QED
    BY <1>0, <2>1, <2>2 DEF OutboxInv, OutboxTypes
<1>6. \A i \in Ids : RowInv(i)'
  <2>. TAKE i \in Ids
  <2>0. RowInv(i)
    BY DEF OutboxInv
  <2>1. CASE i # id
    BY <1>0, <1>3, <2>0, <2>1, RowStays DEF RowInv
  <2>2. CASE i = id
    <3>1. ~SentTo(i)
      BY <1>0, <2>0, <2>2 DEF RowInv, Terminal
    <3>2. ~SentTo(i)'
      BY <1>0, <3>1 DEF SentTo
    <3> QED
      BY <1>0, <1>1, <1>3, <2>2, <3>2 DEF RowInv, Terminal
  <2> QED
    BY <2>1, <2>2
<1>7. LoopInv'
  <2>. SUFFICES ASSUME loop.at # "idle" PROVE LoopInv'
    BY <1>0 DEF LoopInv
  <2>1. loop.id \in Ids /\ loop.id # id
    BY <1>0 DEF OutboxInv, LoopInv, RowInv, Terminal
  <2>2. task'[loop.id] = task[loop.id] /\ event'[loop.id] = event[loop.id]
    BY <1>3, <2>1
  <2> QED
    BY <1>0, <2>1, <2>2 DEF OutboxInv, LoopInv, Queued, Exists, DedupeKey, Announced, Matching
<1>8. MadeInv'
  BY <1>0 DEF OutboxInv, MadeInv
<1>9. AloneInv'
  <2>1. \A i \in Ids : task'[i].node = task[i].node
    BY <1>3
  <2> QED
    BY <1>0, <2>1 DEF OutboxInv, AloneInv
<1> QED
  BY <1>5, <1>6, <1>7, <1>8, <1>9 DEF OutboxInv

LEMMA FollowupEndKeeps ==
  ASSUME OutboxInv, NEW k \in Keys, NEW st \in {"succeeded", "failed"}, FollowupEnds(k, st)
  PROVE  OutboxInv'
<1>0. /\ followup[k] = "active" /\ followup' = [followup EXCEPT ![k] = st]
      /\ UNCHANGED <<task, event, loop, made, delivered>>
  BY DEF FollowupEnds
<1>1. followup \in [Keys -> FollowupStates]
  BY DEF OutboxInv, OutboxTypes
<1>2. /\ followup'[k] = st /\ \A l \in Keys : l # k => followup'[l] = followup[l]
      /\ followup' \in [Keys -> FollowupStates]
  BY <1>0, <1>1 DEF FollowupStates
<1>3. \A l \in Keys : (followup'[l] = "absent" <=> followup[l] = "absent")
                      /\ (followup'[l] = "active" => followup[l] = "active")
  BY <1>0, <1>2
<1>4. \A i \in Ids : <<"caddy", i>> \in Keys
  BY DEF Keys
<1>5. OutboxTypes'
  BY <1>0, <1>2 DEF OutboxInv, OutboxTypes
<1>6. \A i \in Ids : RowInv(i)'
  <2>. TAKE i \in Ids
  <2>0. RowInv(i)
    BY DEF OutboxInv
  <2> QED
    BY <1>0, <1>3, <1>4, <2>0, RowStays DEF RowInv
<1>7. LoopInv'
  <2>. SUFFICES ASSUME loop.at # "idle" PROVE LoopInv'
    BY <1>0 DEF LoopInv
  <2>1. loop.id \in Ids /\ task[loop.id] \in StartedRows
    BY DEF OutboxInv, LoopInv, RowInv, Terminal
  <2>2. Queued(loop.id) => Queued(loop.id)'
    BY <1>0, <1>3, <2>1, QueuedStays DEF StartedRows
  <2>3. \A kind \in KindNames : Exists(loop.id, kind) => followup'[DedupeKey(loop.id, kind)] # "absent"
    BY <1>3, <2>1, KeyIsKey DEF Exists, StartedRows
  <2>4. \A kind \in KindsAfter(task[loop.id].type) : Exists(loop.id, kind) => Exists(loop.id, kind)'
    BY <1>0, <2>3, KindsAreNamed DEF Exists, DedupeKey
  <2> QED
    BY <1>0, <2>1, <2>2, <2>4 DEF OutboxInv, LoopInv, Announced, Matching
<1>8. MadeInv'
  BY <1>0, <1>3 DEF OutboxInv, MadeInv
<1>9. AloneInv'
  BY <1>0, <1>3, <1>4 DEF OutboxInv, AloneInv
<1> QED
  BY <1>5, <1>6, <1>7, <1>8, <1>9 DEF OutboxInv

LEMMA NextEventKeeps ==
  ASSUME OutboxInv, NEW id \in Ids, NextTaskOutboxEvent(id)
  PROVE  OutboxInv'
<1>. DEFINE todo == IF event[id].followups \/ task[id].status # "succeeded" THEN <<>>
                    ELSE queuePostTaskFollowups(task[id].type)
<1>. DEFINE at == IF event[id].followups THEN "send" ELSE "followups"
<1>0. /\ event[id].state = "pending"
      /\ loop' = [at |-> at, id |-> id, todo |-> todo, notified |-> event[id].notified]
      /\ UNCHANGED <<task, event, followup, made, delivered>>
  BY DEF NextTaskOutboxEvent, Due
<1>1. todo \in Seq(KindNames)
  <2>1. <<>> \in Seq(KindNames)
    OBVIOUS
  <2> QED
    BY <2>1, FollowupLists
<1>2. task[id].status = "succeeded" /\ ~event[id].followups => Rest(todo) = KindsAfter(task[id].type)
  BY RestOfList
<1>3. at \in LoopPlaces /\ (at = "followups" => ~event[id].followups) /\ (at = "send" => event[id].followups)
      /\ at \in {"followups", "send"}
  BY DEF LoopPlaces
<1>. HIDE DEF todo, at
<1>4. event[id].notified \in BOOLEAN /\ RowInv(id)
  BY DEF OutboxInv, OutboxTypes, EventRows
<1>5. loop' \in LoopRows
  BY <1>0, <1>1, <1>3, <1>4 DEF LoopRows
<1>6. /\ loop'.at = at /\ loop'.id = id /\ loop'.todo = todo /\ loop'.notified = event[id].notified
  BY <1>0
<1>7. LoopInv'
  <2>1. at = "send" => Queued(id)
    BY <1>3, <1>4 DEF RowInv
  <2>2. Queued(id)' <=> Queued(id)
    BY <1>0 DEF Queued, Exists, DedupeKey
  <2>3. event' = event /\ task' = task
    BY <1>0
  <2> QED
    BY <1>0, <1>2, <1>3, <1>6, <2>1, <2>2, <2>3 DEF LoopInv
<1> QED
  BY <1>0, <1>5, <1>7, LoopMoves

\* The loop goes on to the next kind when this one is settled.
LEMMA NextKind ==
  ASSUME OutboxInv, loop.at = "followups", loop.todo # <<>>,
         loop' = [loop EXCEPT !.todo = Tail(loop.todo)], UNCHANGED <<task, event>>,
         \A k \in Keys : followup[k] # "absent" => followup'[k] # "absent",
         Wanted(Head(loop.todo)) => followup'[DedupeKey(loop.id, Head(loop.todo))] # "absent"
  PROVE  loop' \in LoopRows /\ LoopInv'
<1>1. loop \in LoopRows /\ loop.todo \in Seq(KindNames)
  BY DEF OutboxInv, OutboxTypes, LoopRows
<1>2. /\ Tail(loop.todo) \in Seq(KindNames)
      /\ \A x \in Rest(loop.todo) : x = Head(loop.todo) \/ x \in Rest(Tail(loop.todo))
  BY <1>1, RestOfTail
<1>3. loop' \in LoopRows /\ loop'.at = "followups" /\ loop'.id = loop.id /\ loop'.todo = Tail(loop.todo)
      /\ loop'.notified = loop.notified
  BY <1>1, <1>2 DEF LoopRows
<1>4. loop.id \in Ids /\ task[loop.id] \in StartedRows
  BY DEF OutboxInv, LoopInv, RowInv, Terminal
<1>5. \A kind \in KindNames : Exists(loop.id, kind) => followup'[DedupeKey(loop.id, kind)] # "absent"
  BY <1>4, KeyIsKey DEF Exists, StartedRows
<1>6. \A kind \in KindNames : (followup'[DedupeKey(loop.id, kind)] # "absent") <=> Exists(loop.id, kind)'
  BY <1>3 DEF Exists, DedupeKey
<1>7. ASSUME task[loop.id].status = "succeeded", NEW kind \in KindsAfter(task[loop.id].type), Wanted(kind)
      PROVE  Exists(loop.id, kind)' \/ kind \in Rest(Tail(loop.todo))
  <2>1. kind \in KindNames
    BY KindsAreNamed
  <2>2. Exists(loop.id, kind) \/ kind \in Rest(loop.todo)
    BY <1>7 DEF OutboxInv, LoopInv
  <2> QED
    BY <1>2, <1>5, <1>6, <1>7, <2>1, <2>2
<1>8. LoopInv'
  BY <1>3, <1>4, <1>7 DEF OutboxInv, LoopInv
<1> QED
  BY <1>3, <1>8

LEMMA SkipKeeps == OutboxInv /\ SkipFollowup => OutboxInv'
<1>. SUFFICES ASSUME OutboxInv, SkipFollowup PROVE OutboxInv'
  OBVIOUS
<1>1. /\ loop.at = "followups" /\ loop.todo # <<>> /\ loop' = [loop EXCEPT !.todo = Tail(loop.todo)]
      /\ UNCHANGED <<task, event, followup, made, delivered>>
      /\ Wanted(Head(loop.todo)) => Exists(loop.id, Head(loop.todo))
  BY DEF SkipFollowup, Exists
<1>2. loop' \in LoopRows /\ LoopInv'
  BY <1>1, NextKind DEF Exists
<1> QED
  BY <1>1, <1>2, LoopMoves

LEMMA CreateKeeps == OutboxInv /\ CreateFollowup => OutboxInv'
<1>. SUFFICES ASSUME OutboxInv, CreateFollowup PROVE OutboxInv'
  OBVIOUS
<1>. DEFINE kind == Head(loop.todo)
<1>. DEFINE key == DedupeKey(loop.id, kind)
<1>1. /\ loop.at = "followups" /\ loop.todo # <<>> /\ loop' = [loop EXCEPT !.todo = Tail(loop.todo)]
      /\ UNCHANGED <<task, event, delivered>>
      /\ followup[key] = "absent" /\ MayInsert(kind, loop.id)
      /\ followup' = [followup EXCEPT ![key] = "active"] /\ made' = [made EXCEPT ![key] = @ + 1]
  BY DEF CreateFollowup
<1>2. /\ loop.id \in Ids /\ task[loop.id] \in StartedRows /\ loop.todo \in Seq(KindNames)
      /\ followup \in [Keys -> FollowupStates] /\ made \in [Keys -> Nat]
      /\ loop \in LoopRows /\ task[loop.id].status # "absent"
  BY <1>1 DEF OutboxInv, OutboxTypes, LoopRows, LoopInv, RowInv, Terminal
<1>3. kind \in KindNames
  BY <1>1, <1>2, RestOfTail
<1>4. key \in Keys /\ key[1] = kind /\ (kind # "dns" => key = <<kind, loop.id>>)
  BY <1>2, <1>3, KeyIsKey DEF StartedRows
<1>. HIDE DEF key
<1>5. /\ followup' \in [Keys -> FollowupStates] /\ made' \in [Keys -> Nat]
      /\ followup'[key] = "active" /\ \A k \in Keys : k # key => followup'[k] = followup[k]
      /\ made'[key] = made[key] + 1 /\ \A k \in Keys : k # key => made'[k] = made[k]
  BY <1>1, <1>2, <1>4 DEF FollowupStates
<1>6. \A k \in Keys : followup[k] # "absent" => followup'[k] # "absent"
  BY <1>5
<1>7. \A i \in Ids : <<"caddy", i>> \in Keys /\ <<"caddy", i>>[1] = "caddy"
                     /\ (<<"caddy", i>> = key => kind = "caddy" /\ i = loop.id)
  <2>1. \A i \in Ids : <<"caddy", i>> \in Keys /\ <<"caddy", i>>[1] = "caddy"
    BY DEF Keys
  <2>2. ASSUME NEW i \in Ids, <<"caddy", i>> = key PROVE kind = "caddy" /\ i = loop.id
    <3>1. kind = "caddy"
      BY <1>4, <2>2
    <3>2. <<"caddy", i>> = <<"caddy", loop.id>>
      BY <1>4, <2>2, <3>1
    <3> QED
      BY <3>1, <3>2
  <2> QED
    BY <2>1, <2>2
<1>9. followup'[DedupeKey(loop.id, kind)] # "absent"
  BY <1>5 DEF key
<1>10. loop' \in LoopRows /\ LoopInv'
  BY <1>1, <1>6, <1>9, NextKind
<1>11. OutboxTypes'
  BY <1>1, <1>5, <1>10 DEF OutboxInv, OutboxTypes
<1>12. \A i \in Ids : RowInv(i)'
  <2>. TAKE i \in Ids
  <2>0. RowInv(i)
    BY DEF OutboxInv
  <2>1. followup'[<<"caddy", i>>] # "absent" => task[i].status # "absent"
    BY <1>2, <1>5, <1>7, <2>0 DEF RowInv
  <2> QED
    BY <1>1, <1>6, <2>0, <2>1, RowStays
<1>13. MadeInv'
  <2>1. made[key] = 0
    BY <1>1, <1>4 DEF OutboxInv, MadeInv
  <2> QED
    BY <1>5, <2>1 DEF OutboxInv, MadeInv
<1>14. AloneInv'
  <2>1. CASE kind = "caddy"
    <3>1. \A j \in Ids : followup[<<"caddy", j>>] = "active" => task[j].node # task[loop.id].node
      BY <1>1, <2>1 DEF MayInsert, ActiveCaddyTask
    <3>2. \A k \in Keys : k[1] # "caddy" => followup'[k] = followup[k]
      BY <1>4, <1>5, <2>1
    <3>3. \A i \in Ids : followup'[<<"caddy", i>>] = "active" => i = loop.id \/ followup[<<"caddy", i>>] = "active"
      BY <1>5, <1>7
    <3> QED
      BY <1>1, <3>1, <3>2, <3>3 DEF OutboxInv, AloneInv
  <2>2. CASE kind # "caddy"
    <3>1. \A k \in Keys : k[1] # "caddy" => followup[k] # "active"
      BY <1>1, <2>2 DEF MayInsert, ActiveServiceTask
    <3>2. \A i \in Ids : followup'[<<"caddy", i>>] = followup[<<"caddy", i>>]
      BY <1>5, <1>7, <2>2
    <3>3. \A k \in Keys : k[1] # "caddy" /\ followup'[k] = "active" => k = key
      BY <1>5, <3>1
    <3> QED
      BY <1>1, <3>2, <3>3 DEF OutboxInv, AloneInv
  <2> QED
    BY <2>1, <2>2
<1> QED
  BY <1>10, <1>11, <1>12, <1>13, <1>14 DEF OutboxInv

LEMMA RefuseKeeps == OutboxInv /\ RefuseFollowup => OutboxInv'
BY LoopGivesUp DEF RefuseFollowup

LEMMA FaultKeeps == OutboxInv /\ Fault => OutboxInv'
BY LoopGivesUp DEF Fault

LEMMA CrashKeeps == OutboxInv /\ Crash => OutboxInv'
BY LoopForgets DEF Crash

\* A mark on one event, that of a task that has completed.
LEMMA MarkIsRow ==
  ASSUME OutboxInv, NEW id \in Ids, NEW row \in EventRows, event' = [event EXCEPT ![id] = row],
         UNCHANGED <<task, followup, made, delivered>>, loop' \in LoopRows, LoopInv',
         event[id].state # "none", row.state # "none",
         row.followups => Queued(id), row.notified => Announced(id),
         row.state = "processed" => row.notified
  PROVE  OutboxInv'
<1>1. event' \in [Ids -> EventRows] /\ event'[id] = row /\ \A i \in Ids : i # id => event'[i] = event[i]
  BY DEF OutboxInv, OutboxTypes
<1>2. OutboxTypes'
  BY <1>1 DEF OutboxInv, OutboxTypes
<1>3. \A i \in Ids : RowInv(i)'
  <2>. TAKE i \in Ids
  <2>0. RowInv(i)
    BY DEF OutboxInv
  <2>1. CASE i # id
    BY <1>1, <2>0, <2>1, RowStays DEF RowInv
  <2>2. CASE i = id
    <3>1. (Queued(i)' <=> Queued(i)) /\ (Announced(i)' <=> Announced(i)) /\ (SentTo(i)' <=> SentTo(i))
      BY DEF Queued, Exists, DedupeKey, Announced, Matching, SentTo
    <3> QED
      BY <1>1, <2>0, <2>2, <3>1 DEF RowInv
  <2> QED
    BY <2>1, <2>2
<1> QED
  BY <1>2, <1>3, OthersStay DEF OutboxInv

LEMMA FollowupsDoneKeeps == OutboxInv /\ CompleteTaskOutboxFollowups => OutboxInv'
<1>. SUFFICES ASSUME OutboxInv, CompleteTaskOutboxFollowups PROVE OutboxInv'
  OBVIOUS
<1>. DEFINE row == [event[loop.id] EXCEPT !.followups = TRUE]
<1>1. /\ loop.at = "followups" /\ loop.todo = <<>> /\ loop' = [loop EXCEPT !.at = "send"]
      /\ event' = [event EXCEPT ![loop.id] = row] /\ UNCHANGED <<task, followup, made, delivered>>
  BY DEF CompleteTaskOutboxFollowups
<1>2. /\ loop.id \in Ids /\ event[loop.id] \in EventRows /\ event[loop.id].state = "pending" /\ loop \in LoopRows
      /\ loop.notified => event[loop.id].notified
  BY <1>1 DEF OutboxInv, OutboxTypes, LoopInv
<1>3. /\ row \in EventRows /\ row.state = "pending" /\ row.notified = event[loop.id].notified
  BY <1>2 DEF EventRows
<1>. HIDE DEF row
<1>4. Rest(loop.todo) = {}
  BY <1>1 DEF Rest
<1>5. Queued(loop.id)
  BY <1>1, <1>4 DEF OutboxInv, LoopInv, Queued
<1>6. /\ loop' \in LoopRows /\ loop'.at = "send" /\ loop'.id = loop.id /\ loop'.notified = loop.notified
  BY <1>1, <1>2 DEF LoopRows, LoopPlaces
<1>7. event'[loop.id] = row
  BY <1>1, <1>2 DEF OutboxInv, OutboxTypes
<1>8. Queued(loop.id)' <=> Queued(loop.id)
  BY <1>1, <1>6 DEF Queued, Exists, DedupeKey
<1>9. LoopInv'
  BY <1>2, <1>3, <1>5, <1>6, <1>7, <1>8 DEF LoopInv
<1>10. row.notified => Announced(loop.id)
  BY <1>2, <1>3 DEF OutboxInv, RowInv
<1> QED
  BY <1>1, <1>2, <1>3, <1>5, <1>6, <1>9, <1>10, MarkIsRow

LEMMA SendKeeps ==
  ASSUME OutboxInv, NEW ok \in SUBSET Routes, Send(ok)
  PROVE  OutboxInv'
<1>1. /\ loop.at = "send" /\ ok \subseteq Matching(loop.id)
      /\ delivered' = delivered \cup {<<loop.id, r>> : r \in ok} /\ UNCHANGED <<task, event, followup, made>>
      /\ \/ ok = Matching(loop.id) /\ loop' = [loop EXCEPT !.at = "mark"]
         \/ loop' = [loop EXCEPT !.at = "retry"]
  BY DEF Send
<1>2. /\ loop.id \in Ids /\ loop \in LoopRows /\ event[loop.id].state = "pending" /\ Queued(loop.id)
      /\ loop.notified => event[loop.id].notified
  BY <1>1 DEF OutboxInv, OutboxTypes, LoopInv
<1>3. /\ loop' \in LoopRows /\ loop'.at \in {"mark", "retry"} /\ loop'.id = loop.id /\ loop'.notified = loop.notified
      /\ loop'.at = "mark" => ok = Matching(loop.id)
  BY <1>1, <1>2 DEF LoopRows, LoopPlaces
<1>4. /\ \A r \in ok : <<loop.id, r>> \in delivered'
      /\ delivered \subseteq delivered' /\ delivered' \in SUBSET (Ids \X Routes)
      /\ \A i \in Ids : i # loop.id => \A r : <<i, r>> \in delivered' <=> <<i, r>> \in delivered
  BY <1>1, <1>2 DEF OutboxInv, OutboxTypes
<1>5. OutboxTypes'
  BY <1>1, <1>3, <1>4 DEF OutboxInv, OutboxTypes
<1>6. \A i \in Ids : (Queued(i)' <=> Queued(i)) /\ (Announced(i) => Announced(i)')
  BY <1>1, <1>4 DEF Queued, Exists, DedupeKey, Announced, Matching
<1>7. \A i \in Ids : RowInv(i)'
  <2>. TAKE i \in Ids
  <2>0. RowInv(i)
    BY DEF OutboxInv
  <2>1. i # loop.id => (SentTo(i)' <=> SentTo(i))
    BY <1>4 DEF SentTo
  <2> QED
    BY <1>1, <1>2, <1>6, <2>0, <2>1 DEF RowInv
<1>8. loop'.at = "mark" => Announced(loop.id)'
  <2>1. Matching(loop.id)' = Matching(loop.id)
    BY <1>1, <1>3 DEF Matching
  <2>2. loop'.at = "mark" => \A r \in Matching(loop.id) : <<loop.id, r>> \in delivered'
    BY <1>3, <1>4
  <2> QED
    BY <1>3, <2>1, <2>2 DEF Announced
<1>9. Queued(loop.id)'
  BY <1>1, <1>2, <1>3 DEF Queued, Exists, DedupeKey
<1>10. LoopInv'
  BY <1>1, <1>2, <1>3, <1>8, <1>9 DEF LoopInv
<1> QED
  BY <1>1, <1>5, <1>7, <1>10, OthersStay DEF OutboxInv

LEMMA NotificationDoneKeeps == OutboxInv /\ CompleteTaskOutboxNotification => OutboxInv'
<1>. SUFFICES ASSUME OutboxInv, CompleteTaskOutboxNotification PROVE OutboxInv'
  OBVIOUS
<1>. DEFINE row == [event[loop.id] EXCEPT !.notified = TRUE]
<1>1. /\ loop.at = "mark" /\ loop' = [loop EXCEPT !.at = "complete"]
      /\ event' = [event EXCEPT ![loop.id] = row] /\ UNCHANGED <<task, followup, made, delivered>>
  BY DEF CompleteTaskOutboxNotification
<1>2. /\ loop.id \in Ids /\ event[loop.id] \in EventRows /\ event[loop.id].state = "pending" /\ loop \in LoopRows
      /\ Queued(loop.id) /\ Announced(loop.id)
  BY <1>1 DEF OutboxInv, OutboxTypes, LoopInv
<1>3. /\ row \in EventRows /\ row.state = "pending" /\ row.notified
  BY <1>2 DEF EventRows
<1>. HIDE DEF row
<1>4. /\ loop' \in LoopRows /\ loop'.at = "complete" /\ loop'.id = loop.id
  BY <1>1, <1>2 DEF LoopRows, LoopPlaces
<1>5. event'[loop.id] = row
  BY <1>1, <1>2 DEF OutboxInv, OutboxTypes
<1>6. Queued(loop.id)' <=> Queued(loop.id)
  BY <1>1, <1>4 DEF Queued, Exists, DedupeKey
<1>7. LoopInv'
  BY <1>2, <1>3, <1>4, <1>5, <1>6 DEF LoopInv
<1> QED
  BY <1>1, <1>2, <1>3, <1>4, <1>7, MarkIsRow

LEMMA EventDoneKeeps == OutboxInv /\ CompleteTaskOutboxEvent => OutboxInv'
<1>. SUFFICES ASSUME OutboxInv, CompleteTaskOutboxEvent PROVE OutboxInv'
  OBVIOUS
<1>. DEFINE row == [event[loop.id] EXCEPT !.state = "processed"]
<1>1. /\ \/ loop.at = "complete"
         \/ loop.at = "send" /\ loop.notified
      /\ loop' = Idle
      /\ event' = [event EXCEPT ![loop.id] = row] /\ UNCHANGED <<task, followup, made, delivered>>
  BY DEF CompleteTaskOutboxEvent
<1>2. /\ loop.id \in Ids /\ event[loop.id] \in EventRows /\ event[loop.id].state = "pending"
      /\ Queued(loop.id) /\ event[loop.id].notified
  BY <1>1 DEF OutboxInv, OutboxTypes, LoopInv
<1>3. /\ row \in EventRows /\ row.state = "processed" /\ row.notified
  BY <1>2 DEF EventRows
<1>. HIDE DEF row
<1>4. loop' \in LoopRows /\ LoopInv'
  BY <1>1 DEF LoopInv, Idle, LoopRows, LoopPlaces
<1>5. Announced(loop.id)
  BY <1>2 DEF OutboxInv, RowInv
<1> QED
  BY <1>1, <1>2, <1>3, <1>4, <1>5, MarkIsRow

\* Whether an event is due matters to nothing else.
LEMMA DueKeeps ==
  ASSUME OutboxInv, NEW id \in Ids, event[id].state = "pending", NEW due \in BOOLEAN,
         event' = [event EXCEPT ![id].due = due], UNCHANGED <<task, followup, made, delivered>>,
         loop' \in {loop, Idle}
  PROVE  OutboxInv'
<1>. DEFINE row == [event[id] EXCEPT !.due = due]
<1>1. event' = [event EXCEPT ![id] = row]
  OBVIOUS
<1>2. event[id] \in EventRows /\ loop \in LoopRows
  BY DEF OutboxInv, OutboxTypes
<1>3. /\ row \in EventRows /\ row.state = "pending" /\ row.notified = event[id].notified
      /\ row.followups = event[id].followups
  BY <1>2 DEF EventRows
<1>. HIDE DEF row
<1>4. event'[id] = row /\ \A i \in Ids : i # id => event'[i] = event[i]
  BY <1>1 DEF OutboxInv, OutboxTypes
<1>5. \A i \in Ids : event'[i].state = event[i].state /\ event'[i].notified = event[i].notified
  <2>. TAKE i \in Ids
  <2>1. CASE i = id
    BY <1>3, <1>4, <2>1
  <2>2. CASE i # id
    BY <1>4, <2>2
  <2> QED
    BY <2>1, <2>2
<1>6. loop' \in LoopRows
  <2>1. Idle \in LoopRows
    BY DEF Idle, LoopRows, LoopPlaces
  <2> QED
    BY <1>2, <2>1
<1>7. LoopInv'
  <2>1. CASE loop' = Idle
    BY <2>1 DEF LoopInv, Idle
  <2>2. CASE loop' = loop
    BY <1>5, <2>2 DEF OutboxInv, LoopInv, Queued, Exists, DedupeKey, Announced, Matching
  <2> QED
    BY <2>1, <2>2
<1>8. (row.followups => Queued(id)) /\ (row.notified => Announced(id))
  BY <1>3 DEF OutboxInv, RowInv
<1> QED
  BY <1>1, <1>3, <1>6, <1>7, <1>8, MarkIsRow

LEMMA RetryKeeps == OutboxInv /\ RetryTaskOutboxEvent => OutboxInv'
<1>. SUFFICES ASSUME OutboxInv, RetryTaskOutboxEvent PROVE OutboxInv'
  OBVIOUS
<1>1. /\ loop.at = "retry" /\ loop' = Idle /\ event' = [event EXCEPT ![loop.id].due = FALSE]
      /\ UNCHANGED <<task, followup, made, delivered>>
  BY DEF RetryTaskOutboxEvent
<1>2. loop.id \in Ids /\ event[loop.id].state = "pending"
  BY <1>1 DEF OutboxInv, LoopInv
<1> QED
  BY <1>1, <1>2, DueKeeps

LEMMA BecomesDueKeeps ==
  ASSUME OutboxInv, NEW id \in Ids, BecomesDue(id)
  PROVE  OutboxInv'
BY DueKeeps DEF BecomesDue

\* What no other part of the state is about.
LEMMA OutboxUnmoved ==
  ASSUME OutboxInv, UNCHANGED <<task, event, loop, followup, made, delivered>>
  PROVE  OutboxInv'
<1>1. loop' \in LoopRows /\ LoopInv'
  BY DEF OutboxInv, OutboxTypes, LoopInv, Queued, Exists, DedupeKey, Announced, Matching
<1> QED
  BY <1>1, LoopMoves

LEMMA OutboxStep == OutboxInv /\ [OutboxNext]_outboxVars => OutboxInv'
<1>. SUFFICES ASSUME OutboxInv, [OutboxNext]_outboxVars PROVE OutboxInv'
  OBVIOUS
<1>1. CASE UNCHANGED outboxVars
  BY <1>1, OutboxUnmoved DEF outboxVars
<1>2. CASE OtherTask
  BY <1>2, OutboxUnmoved DEF OtherTask
<1>3. CASE LoopStep
  BY <1>3, SkipKeeps, CreateKeeps, RefuseKeeps, FollowupsDoneKeeps, SendKeeps, NotificationDoneKeeps,
     EventDoneKeeps, RetryKeeps DEF LoopStep
<1>4. CASE \/ \E id \in Ids, type \in Types, n \in Nodes, r \in Revisions : StartTask(id, type, n, r)
           \/ \E id \in Ids, st \in Terminal : CompleteTaskExecution(id, st)
           \/ \E k \in Keys, st \in {"succeeded", "failed"} : FollowupEnds(k, st)
           \/ \E id \in Ids : NextTaskOutboxEvent(id) \/ BecomesDue(id)
           \/ Fault \/ Crash
  BY <1>4, StartKeeps, CompleteKeeps, FollowupEndKeeps, NextEventKeeps, BecomesDueKeeps, FaultKeeps, CrashKeeps
<1> QED
  BY <1>1, <1>2, <1>3, <1>4 DEF OutboxNext

LEMMA OutboxInvIsSafe == OutboxInv => OutboxIsSafe
<1>. SUFFICES ASSUME OutboxInv PROVE OutboxIsSafe
  OBVIOUS
<1>1. OutboxTypeOK
  <2>1. \A id \in Ids : task[id].type \in Types \cup {"none"} /\ task[id].status \in Statuses /\ event[id] \in EventRows
    BY DEF OutboxInv, OutboxTypes, TaskRows
  <2>2. loop.at \in LoopPlaces
    BY DEF OutboxInv, OutboxTypes, LoopRows
  <2> QED
    BY <2>1, <2>2 DEF OutboxTypeOK, OutboxInv, OutboxTypes, RowInv, LoopInv, Statuses, EventRows, LoopPlaces,
       FollowupStates
<1>2. FollowupsOnce
  BY DEF OutboxInv, MadeInv, FollowupsOnce
<1>3. FollowupsAdmittedAlone
  <2>. DEFINE running == {k \in Keys : k[1] # "caddy" /\ followup[k] = "active"}
  <2>1. Cardinality(running) <= 1
    <3>1. CASE running = {}
      BY <3>1, FS_EmptySet
    <3>2. ASSUME NEW k \in running PROVE Cardinality(running) <= 1
      <4>1. running = {k}
        BY DEF OutboxInv, AloneInv
      <4>2. Cardinality({k}) = 1
        BY FS_Singleton
      <4>. HIDE DEF running
      <4> QED
        BY <4>1, <4>2
    <3> QED
      BY <3>1, <3>2
  <2> QED
    BY <2>1 DEF FollowupsAdmittedAlone, OutboxInv, AloneInv
<1>4. NothingIsLost
  <2>. SUFFICES ASSUME NEW id \in Ids
                PROVE  /\ (event[id].followups \/ SentTo(id)) /\ task[id].status = "succeeded"
                             => \A k \in WantedKeys(id) : followup[k] # "absent"
                       /\ event[id].notified \/ event[id].state = "processed" => Announced(id)
    BY DEF NothingIsLost, SentTo, Announced
  <2>1. RowInv(id)
    BY DEF OutboxInv
  <2>2. ASSUME Queued(id), task[id].status = "succeeded", NEW k \in WantedKeys(id)
        PROVE  followup[k] # "absent"
    <3>1. PICK kind \in KindsAfter(task[id].type) : Wanted(kind) /\ k = DedupeKey(id, kind)
      BY DEF WantedKeys, KindsAfter
    <3> QED
      BY <2>2, <3>1 DEF Queued, Exists
  <2>3. event[id].notified \/ event[id].state = "processed" => Announced(id)
    BY <2>1 DEF RowInv
  <2> QED
    BY <2>1, <2>2, <2>3 DEF RowInv
<1> QED
  BY <1>1, <1>2, <1>3, <1>4 DEF OutboxIsSafe

\* For any nodes, tasks, revisions, routes and faults: each follow-up of a
\* completed task is created at most once and beside no other task of the
\* service, nothing is announced before the work it announces is queued, and an
\* event is put away only when every route that wants it has received it, however
\* often the loop of task_outbox.go is refused, fails or is cut short.
THEOREM OutboxSafe == OutboxSpec => []OutboxIsSafe
<1> QED
  BY OutboxInitOK, OutboxStep, OutboxInvIsSafe, PTL DEF OutboxSpec
=============================================================================
