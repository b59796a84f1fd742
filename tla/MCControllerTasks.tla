------------------------- MODULE MCControllerTasks -------------------------
(***************************************************************************)
(* Instance of the two parts that keep a long task going: the controller's   *)
(* worker with a migration of one service between two nodes and two clients, *)
(* and the upload of a task's log with a reader.  They share no state here,  *)
(* so each behaviour exercises one of them, chosen at the start.             *)
(***************************************************************************)
EXTENDS Migration, TaskLogUpload

VARIABLE focus

ForMigration == focus = "migration"
ForLogs == focus = "logs"

MCInit == focus \in {"migration", "logs"} /\ MigrationInit /\ LogInit
MCNext ==
  \/ ForMigration /\ MigrationNext /\ UNCHANGED <<focus, logVars>>
  \/ ForLogs /\ LogNext /\ UNCHANGED <<focus, migrationVars>>

\* runControllerTasks loops for ever, and waitTask has a deadline.
WorkerFairness == WF_migrationVars(ForMigration /\ WorkerStep)

\* The uploader, the handlers and the reader are goroutines that run; a
\* message on a stream that is not broken arrives.  Faults are bounded.
LogFairness ==
  /\ WF_logVars(ForLogs /\ UploaderStep) /\ WF_logVars(ForLogs /\ TaskEnds)
  /\ WF_logVars(ForLogs /\ TailStep)
  /\ WF_logVars(ForLogs /\ \E m \in wire : ApplyTaskLogUpload(m))

MCSpec ==
  /\ MCInit /\ [][MCNext]_<<focus, migrationVars, logVars>>
  /\ WorkerFairness /\ LogFairness
=============================================================================
