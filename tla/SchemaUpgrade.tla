--------------------------- MODULE SchemaUpgrade ---------------------------
(***************************************************************************)
(* How the controller brings the database of an older release to the       *)
(* current schema when it opens it (migrate in store/db.go).  Migrations    *)
(* run in one transaction, except that one which rebuilds tables commits    *)
(* what came before, turns the foreign keys off, commits itself, and has    *)
(* the references checked afterwards.  The process may be killed, or a      *)
(* statement may fail, at any point; the controller is then started again.  *)
(*                                                                         *)
(* The database is that of one service.  A task's id is its age, 0 is NULL  *)
(* in a column that refers to a task and Blank an empty node_id.            *)
(***************************************************************************)
EXTENDS Integers, FiniteSets

CONSTANTS
  FirstDatabases,       \* what an older release may have left
  SupportedTypes,       \* sqliteValidTaskTypeSQLList
  MaxUpgradeFaults      \* bound on crashes and failed statements

VARIABLES
  disk,          \* the committed database
  work,          \* the transaction, {} or a singleton
  upgrade,       \* where Open is; "open" when it has returned the database
  first,         \* the database as it was found
  unchecked,     \* history: a check of the references has failed or was cut off
  refusal,       \* why the last Open failed, Blank for none
  upgradeFaults
upgradeVars == <<disk, work, upgrade, first, unchecked, refusal, upgradeFaults>>

Blank == ""
sqliteSchemaVersion == 13
Rebuilds == {7, 8, 12}
LiveStatuses == {"pending", "running", "awaiting_confirmation"}
TaskIDs(d) == DOMAIN d.tasks
Row(type, node, st, leased, attempt) ==
  [type |-> type, node |-> node, status |-> st, execution |-> leased, attempt |-> attempt]
Restricted(f, keys) == [k \in DOMAIN f \cap keys |-> f[k]]

(***************************************************************************)
(* What the tables enforce.                                                 *)
(***************************************************************************)
\* The two partial unique indexes; indexed are the types of the second.
Indexed == {"deploy", "update", "stop", "restart", "backup", "dns_update", "caddy_sync", "image_check"}
IndexedWide == Indexed \cup {"restore", "caddy_reload"}
Unique(d, indexed) ==
  \A t, u \in TaskIDs(d) :
    (t # u /\ d.tasks[t].status \in LiveStatuses /\ d.tasks[u].status \in LiveStatuses
       /\ d.tasks[t].node = d.tasks[u].node)
    => ~({d.tasks[t].type, d.tasks[u].type} \subseteq
           IF d.tasks[t].node = Blank THEN {"migrate", "migrate_rollback", "cloudflare_tunnel_sync"} ELSE indexed)

Refers(d, task) == task # 0 => task \in TaskIDs(d)
\* The references of a table; the pair of service and node names an instance.
BackupsRefer(d) == \A b \in d.backups : Refers(d, b.task) /\ b.node \in DOMAIN d.instances
foreignKeysHold(d) ==
  /\ BackupsRefer(d) /\ DOMAIN d.steps \subseteq TaskIDs(d)
  /\ Refers(d, d.service.last) /\ \A n \in DOMAIN d.instances : Refers(d, d.instances[n].last)
  /\ \A t \in TaskIDs(d) : Refers(d, d.tasks[t].attempt) /\ d.tasks[t].node \in DOMAIN d.instances \cup {Blank}

\* trg_tasks_validate_update: a row whose status is set must be of a known type.
UpdatesAreValid(d, updated) == \A t \in updated : d.tasks[t].type \in SupportedTypes

(***************************************************************************)
(* What an older release may have left: rows with all their columns, the    *)
(* ids counted from 1, and what the tables of its schema already enforce.   *)
(* References may be broken where the foreign keys were off.                *)
(***************************************************************************)
WellFormed(d) ==
  /\ d = [version |-> d.version, tasks |-> d.tasks, steps |-> d.steps, backups |-> d.backups,
          instances |-> d.instances, service |-> d.service]
  /\ d.version \in Nat
  /\ IsFiniteSet(TaskIDs(d)) /\ TaskIDs(d) \subseteq Nat \ {0}
  /\ d.tasks = [t \in TaskIDs(d) |-> Row(d.tasks[t].type, d.tasks[t].node, d.tasks[t].status,
                                         d.tasks[t].execution, d.tasks[t].attempt)]
  /\ d.steps = [t \in DOMAIN d.steps |-> d.steps[t]]
  /\ \A b \in d.backups : b = [task |-> b.task, node |-> b.node]
  /\ Blank \notin DOMAIN d.instances
  /\ d.instances = [n \in DOMAIN d.instances |-> [runtime |-> d.instances[n].runtime, last |-> d.instances[n].last]]
  /\ d.service = [runtime |-> d.service.runtime, last |-> d.service.last]
LeftByRelease(d) ==
  /\ d.version >= 3 => \A b \in d.backups : b.node # Blank
  /\ d.version >= 8 => \A t \in TaskIDs(d) : d.tasks[t].type \in SupportedTypes
  /\ d.version >= 9 => Unique(d, IndexedWide)
  /\ d.version >= 12 => \A b \in d.backups : b.task \in TaskIDs(d)

ASSUME UpgradeAssumption ==
  \A d \in FirstDatabases : WellFormed(d) /\ (d.version <= sqliteSchemaVersion => LeftByRelease(d))

(***************************************************************************)
(* The migrations: the database a migration makes of d, {} when one of its  *)
(* statements fails.  ADD COLUMN tolerates a column that is there.          *)
(***************************************************************************)
\* 1: tables that do not exist are created, with their references.
CreateTables(d) == {d}
\* 2, 11 and 13 add a column that is NULL or 0 in every row.
AddColumn(d) == {d}

\* 3 and 5: backups get a node, their task's, and are copied to a table that
\* requires it and refers to the instance; foreign keys are on.
WithNode(d, b) ==
  IF b.node # Blank THEN b
  ELSE [b EXCEPT !.node = IF b.task \in TaskIDs(d) THEN d.tasks[b.task].node ELSE Blank]
BackfillBackups(d) == {e \in {[d EXCEPT !.backups = {WithNode(d, b) : b \in @}]} : BackupsRefer(e)}
AddIndexes(d) == IF Unique(d, Indexed) THEN BackfillBackups(d) ELSE {}

\* 4: triggers that validate what is inserted and updated from then on.
AddTriggers(d) == {d}

\* 6: the index of the tasks of a whole service is made anew.
ReplaceServiceIndex(d) == IF Unique(d, Indexed) THEN {d} ELSE {}

\* 7 and 8, foreign keys off: tasks of types that are no longer supported go,
\* with what refers to them, and so do backups without a task.
Cleared(d, task) ==
  IF task \in TaskIDs(d) /\ d.tasks[task].type \notin SupportedTypes THEN 0 ELSE task
WithoutUnsupported(d, backups) ==
  LET supported == {t \in TaskIDs(d) : d.tasks[t].type \in SupportedTypes}
      gone == TaskIDs(d) \ supported
      tasks == [t \in supported |-> [d.tasks[t] EXCEPT !.attempt = Cleared(d, @)]]
      service == [d.service EXCEPT !.last = Cleared(d, @)]
      instances == [n \in DOMAIN d.instances |-> [d.instances[n] EXCEPT !.last = Cleared(d, @)]]
  IN  [d EXCEPT !.tasks = tasks, !.steps = Restricted(@, DOMAIN @ \ gone), !.backups = backups,
                !.service = service, !.instances = instances]
\* Mutant: backups of unsupported tasks are kept.
RebuildTasksKeepsBackups(d) ==
  {WithoutUnsupported(d, {b \in d.backups : b.task \in TaskIDs(d)})}
RebuildTasks(d) ==
  {WithoutUnsupported(d, {b \in d.backups : b.task \in TaskIDs(d) /\ d.tasks[b.task].type \in SupportedTypes})}

\* 9: the columns of executions, all NULL, and the wider index.
AddExecutions(d) == IF Unique(d, IndexedWide) THEN {d} ELSE {}

\* 10: tasks that were running without an execution are failed, their
\* instances and services marked.
Newest(tasks) == IF tasks = {} THEN 0 ELSE CHOOSE t \in tasks : \A u \in tasks : u <= t
FailLegacyTasks(d) ==
  LET legacy == {t \in TaskIDs(d) : d.tasks[t].status = "running" /\ ~d.tasks[t].execution}
      on(n) == {t \in legacy : d.tasks[t].node = n}
      hit == {n \in DOMAIN d.instances :
                \E t \in on(n) : d.tasks[t].type \in {"deploy", "update", "stop", "restart"}}
      marked == [n \in DOMAIN d.instances |->
                   IF n \in hit THEN [runtime |-> "error", last |-> Newest(on(n))] ELSE d.instances[n]]
      failing == \E n \in DOMAIN marked : marked[n].runtime = "error"
  IN  IF ~UpdatesAreValid(d, legacy) THEN {}
      ELSE {[d EXCEPT
               !.instances = marked,
               !.service = IF legacy = {} THEN @
                           ELSE [runtime |-> IF failing THEN "error" ELSE @.runtime, last |-> Newest(legacy)],
               !.steps = [t \in DOMAIN @ |-> IF t \in legacy /\ @[t] = "running" THEN "failed" ELSE @[t]],
               !.tasks = [t \in DOMAIN @ |-> IF t \in legacy THEN [@[t] EXCEPT !.status = "failed"] ELSE @[t]]]}

\* 12, foreign keys off: backups without a task go.
DropOrphanBackups(d) == {[d EXCEPT !.backups = {b \in @ : b.task \in TaskIDs(d)}]}

migration(v, d) ==
  CASE v = 1 -> CreateTables(d)
    [] v = 3 -> AddIndexes(d)
    [] v = 4 -> AddTriggers(d)
    [] v = 5 -> BackfillBackups(d)
    [] v = 6 -> ReplaceServiceIndex(d)
    [] v \in {7, 8} -> RebuildTasks(d)
    [] v = 9 -> AddExecutions(d)
    [] v = 10 -> FailLegacyTasks(d)
    [] v = 12 -> DropOrphanBackups(d)
    [] OTHER -> AddColumn(d)

(***************************************************************************)
(* Open.                                                                    *)
(***************************************************************************)
UpgradeInit ==
  /\ disk \in FirstDatabases /\ first = disk
  /\ unchecked = (first.version >= 12 /\ ~foreignKeysHold(first))
  /\ work = {} /\ upgrade = "closed" /\ refusal = Blank /\ upgradeFaults = 0

Refuse(why) == upgrade' = "closed" /\ work' = {} /\ refusal' = why

\* sqliteUserVersion.  A database that is too new, or whose rows a statement
\* did not admit, would be refused again.
OpenDatabase ==
  /\ upgrade = "closed" /\ refusal \notin {"newer", "statement"}
  /\ IF disk.version > sqliteSchemaVersion THEN Refuse("newer")
     ELSE upgrade' = "run" /\ work' = {disk} /\ refusal' = Blank
  /\ UNCHANGED <<disk, first, unchecked, upgradeFaults>>

CommitBeforeRebuild ==
  \E d \in work :
    /\ upgrade = "run" /\ d.version + 1 \in Rebuilds
    /\ disk' = d /\ upgrade' = "rebuild"
    /\ UNCHANGED <<work, first, unchecked, refusal, upgradeFaults>>

\* The statements of one migration and its PRAGMA user_version.
ApplyMigration ==
  \E d \in work :
    LET v == d.version + 1
        made == {[e EXCEPT !.version = v] : e \in migration(v, d)}
    IN  /\ \/ upgrade = "run" /\ d.version < sqliteSchemaVersion /\ v \notin Rebuilds
           \/ upgrade = "rebuild"
        /\ IF made = {} THEN Refuse("statement")
           ELSE /\ work' = made /\ upgrade' = (IF upgrade = "rebuild" THEN "commit" ELSE "run")
                /\ UNCHANGED refusal
        /\ UNCHANGED <<disk, first, unchecked, upgradeFaults>>

CommitRebuild ==
  \E d \in work :
    /\ upgrade = "commit" /\ disk' = d /\ upgrade' = "check"
    /\ UNCHANGED <<work, first, unchecked, refusal, upgradeFaults>>

checkSQLiteForeignKeys ==
  /\ upgrade = "check"
  /\ IF foreignKeysHold(disk)
       THEN upgrade' = "run" /\ UNCHANGED <<work, refusal, unchecked>>
       ELSE Refuse("check") /\ unchecked' = TRUE
  /\ UNCHANGED <<disk, first, upgradeFaults>>

FinishUpgrade ==
  \E d \in work :
    /\ upgrade = "run" /\ d.version = sqliteSchemaVersion
    /\ disk' = d /\ work' = {} /\ upgrade' = "open"
    /\ UNCHANGED <<first, unchecked, refusal, upgradeFaults>>

\* The process is killed, or a request to the database fails: the transaction
\* is rolled back.
UpgradeInterrupted ==
  /\ upgrade \notin {"closed", "open"} /\ upgradeFaults < MaxUpgradeFaults
  /\ upgradeFaults' = upgradeFaults + 1 /\ upgrade' = "closed" /\ work' = {}
  /\ unchecked' = (unchecked \/ upgrade = "check")
  /\ UNCHANGED <<disk, first, refusal>>

UpgradeNext ==
  \/ OpenDatabase \/ CommitBeforeRebuild \/ ApplyMigration \/ CommitRebuild
  \/ checkSQLiteForeignKeys \/ FinishUpgrade \/ UpgradeInterrupted
UpgradeSpec == UpgradeInit /\ [][UpgradeNext]_upgradeVars

(***************************************************************************)
(* Properties.                                                              *)
(***************************************************************************)
Supported(t) == t \in TaskIDs(first) /\ first.tasks[t].type \in SupportedTypes
Unfinished(t) == first.tasks[t].status = "running" /\ ~first.tasks[t].execution /\ first.version < 10

\* Nothing that is still supported is lost on the way, and a task's status
\* changes only from running without an execution to failed.
HistoryIsKept ==
  /\ \A t \in TaskIDs(first) : Supported(t) =>
       /\ t \in TaskIDs(disk)
       /\ disk.tasks[t].status \in {first.tasks[t].status} \cup (IF Unfinished(t) THEN {"failed"} ELSE {})
  /\ \A b \in first.backups : Supported(b.task) => \E c \in disk.backups : c.task = b.task

\* A reason for which a database cannot be brought to the schema at all.
CannotBeUpgraded ==
  \/ first.version < 5 /\ \E b \in first.backups : ~(WithNode(first, b).node \in DOMAIN first.instances
                                                     /\ b.task \in TaskIDs(first))
  \/ ~Unique(first, IndexedWide)

\* References that were broken before, those of what is removed left aside.
ReferencesBroken ==
  ~foreignKeysHold(WithoutUnsupported(first, {WithNode(first, b) : b \in {c \in first.backups : Supported(c.task)}}))

\* Invariant of Open in store/db.go, after any crashes and restarts: what is
\* supported is kept at every moment; an opened database has the current
\* version, only supported tasks, none still running from before executions
\* existed, at most one active task where the indexes say so, no backup
\* without its task, and references that hold unless their check has already
\* failed or been cut off once, which leaves the version behind it; and Open
\* fails for no other reason than such a reference, rows the new constraints do
\* not admit, or a newer schema.
UpgradesAreSafe ==
  /\ HistoryIsKept
  /\ upgrade = "open" =>
       /\ disk.version = sqliteSchemaVersion
       /\ \A t \in TaskIDs(disk) : Supported(t) /\ (Unfinished(t) => disk.tasks[t].status = "failed")
       /\ \A t \in DOMAIN disk.steps : (Supported(t) /\ Unfinished(t)) => disk.steps[t] # "running"
       /\ Unique(disk, IndexedWide)
       /\ \A b \in disk.backups : b.task \in TaskIDs(disk)
       /\ foreignKeysHold(disk) \/ unchecked
  /\ refusal = "check" => ReferencesBroken
  /\ refusal = "statement" => CannotBeUpgraded
  /\ refusal = "newer" => first.version > sqliteSchemaVersion
=============================================================================
