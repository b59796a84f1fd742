-------------------------- MODULE MCTaskExecution --------------------------
(***************************************************************************)
(* One agent, and two tasks of one instance: a deployment and a stop, or a *)
(* deployment and a backup.                                                *)
(***************************************************************************)
EXTENDS TaskExecution

MCTasks == {"deploy1", "stop2"}
MCTypeOf == [t \in MCTasks |-> IF t = "deploy1" THEN "deploy" ELSE "stop"]
MCServiceOf == [t \in MCTasks |-> "web"]
MCNodeOf == [t \in MCTasks |-> "alpha"]
MCDedupeKeyOf == [t \in MCTasks |-> "nokey"]
MCQueueKey == [t \in MCTasks |-> IF t = "deploy1" THEN 1 ELSE 2]
MCDeclared == {<<"web", "alpha">>}
MCDataOf == [t \in MCTasks |-> {}]

\* The instance in which the second task is a backup of one data item.
MCBackupTasks == {"deploy1", "backup2"}
MCBackupTypeOf == [t \in MCBackupTasks |-> IF t = "deploy1" THEN "deploy" ELSE "backup"]
MCBackupServiceOf == [t \in MCBackupTasks |-> "web"]
MCBackupNodeOf == [t \in MCBackupTasks |-> "alpha"]
MCBackupDedupeKeyOf == [t \in MCBackupTasks |-> "nokey"]
MCBackupQueueKey == [t \in MCBackupTasks |-> IF t = "deploy1" THEN 1 ELSE 2]
MCBackupDataOf == [t \in MCBackupTasks |-> IF t = "deploy1" THEN {} ELSE {"db"}]

=============================================================================
