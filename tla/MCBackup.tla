------------------------------ MODULE MCBackup ------------------------------
(***************************************************************************)
(* One agent that backs up the two data items of a service.                *)
(***************************************************************************)
EXTENDS TaskExecution

MCTasks == {"backup1"}
MCTypeOf == [t \in MCTasks |-> "backup"]
MCServiceOf == [t \in MCTasks |-> "web"]
MCNodeOf == [t \in MCTasks |-> "alpha"]
MCDedupeKeyOf == [t \in MCTasks |-> "nokey"]
MCQueueKey == [t \in MCTasks |-> 1]
MCDeclared == {<<"web", "alpha">>}
MCDataOf == [t \in MCTasks |-> {"db", "files"}]

=============================================================================
