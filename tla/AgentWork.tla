----------------------------- MODULE AgentWork -----------------------------
(***************************************************************************)
(* What an agent does on its node: the tasks it executes one after another,  *)
(* each as a sequence of phases, and the state they change: the installed    *)
(* service directories, the compose projects, the generated Caddy files, the *)
(* data of a service and its snapshots.  Commands may fail, the task may be  *)
(* cancelled (its context ends) and the agent may crash.  How the outcome    *)
(* reaches the controller is the subject of TaskExecution.                   *)
(*                                                                         *)
(* A revision is a number and changes the files of every service.  A         *)
(* directory is its revision and the task that installed it: containers      *)
(* mount the directory they were created with.  An item of data is the       *)
(* number of its last write, 0 when it is empty or incomplete, and a         *)
(* snapshot what rustic found when it began to read it and when it ended.    *)
(***************************************************************************)
EXTENDS Naturals, Sequences, FiniteSets

CONSTANTS WorkServices,
          DataService, DataItems, StrategyOf,   \* the protected data of one service
          Shapes,          \* what the services declare
          WorkTypes,       \* task types that are given to the agent
          MaxRevision, MaxWork, MaxWrites, MaxWorkFaults

\* The task types of executePulledTask.
AgentTaskTypes ==
  {"deploy", "update", "stop", "restart", "backup", "restore", "caddy_sync", "caddy_reload",
   "image_check", "rustic_init", "rustic_forget", "rustic_prune", "prune", "docker_start",
   "docker_stop", "docker_restart", "docker_remove_container", "docker_remove_network",
   "docker_remove_volume", "docker_remove_image"}

ASSUME WorkAssumption == /\ WorkTypes \subseteq AgentTaskTypes
                         /\ \A x \in Shapes : x.rustic \in WorkServices

VARIABLES shape,           \* [infra, mounts, named, caddy, rustic]
          head,            \* the revision new tasks carry
          dir, bak,        \* the directory of a service and its ".bak" copy
          project,         \* the containers of a service
          generated,       \* revision of the generated Caddy file, 0: no file
          data, snapshots, \* the data of DataService, and the rustic repository
          artifacts,       \* snapshots recorded by the controller
          instanceStatus,  \* runtime status reported last
          job, last,       \* the task at work, and the one before
          works, writes, workFaults

installedVars == <<dir, bak>>
dataVars == <<data, snapshots, artifacts, writes>>
workVars == <<shape, head, dir, bak, project, generated, data, snapshots, artifacts,
              instanceStatus, job, last, works, writes, workFaults>>

NoDir == [rev |-> 0, id |-> 0]
NoProject == [rev |-> 0, id |-> 0, on |-> FALSE]
NoJob == [at |-> "idle"]
NoWork == [result |-> "none"]
Installed(s) == dir[s] # NoDir
Running(s) == project[s].on
Cold == "files.copy_after_stop"
Postgres == "database.pgdumpall"

-----------------------------------------------------------------------------
(* The phases of a task, in order.  "verify", "cold_stop" and the copying are *)
(* repeated for every directory and item.                                   *)

PrunePhases == <<"containers", "networks", "images", "volumes", "builder">>

\* The task functions of executePulledTask.
PhasesOf(type) ==
  CASE type = "deploy" ->
         <<"stage", "clear_bak", "move_old", "activate", "drop_bak", "compose_up", "caddy_write", "finalize">>
    [] type = "update" ->
         <<"stage", "clear_bak", "move_old", "activate", "drop_bak", "pull", "compose_up", "caddy_write", "finalize">>
    [] type = "stop" -> <<"local_root", "compose_down", "caddy_remove">>
    [] type = "restart" -> <<"local_root", "compose_down", "compose_up">>
    [] type = "backup" -> <<"verify", "cold_stop", "read_first", "read_rest", "cold_start">>
    [] type = "restore" -> <<"verify", "cold_stop", "clear", "fill", "cold_start">>
    [] type = "caddy_sync" -> <<"verify", "remove_generated", "write_generated">>
    [] type = "caddy_reload" -> <<"local_root", "caddy_reload">>
    [] type = "image_check" -> <<"verify", "observe">>
    [] type \in {"rustic_init", "rustic_prune"} -> <<"local_root", "rustic">>
    [] type = "rustic_forget" -> <<"local_root", "forget">>
    [] type = "prune" -> PrunePhases
    [] OTHER -> <<type>>

Commands == {"pull", "caddy_reload", "observe", "rustic", "finalize", "docker_remove_image",
             "docker_remove_network", "networks", "images", "builder"}

Position == CHOOSE k \in DOMAIN PhasesOf(job.type) : PhasesOf(job.type)[k] = job.at
Following == IF Position = Len(PhasesOf(job.type)) THEN "done" ELSE PhasesOf(job.type)[Position + 1]

\* The directories whose files must match the task's revision: the service and
\* its rustic provider, or every source of a Caddy sync.
VerifiedDirs(type, s, sources) ==
  CASE type \in {"backup", "restore"} -> {s, shape.rustic}
    [] type = "caddy_sync" -> sources
    [] type = "image_check" -> {s}
    [] OTHER -> {}

-----------------------------------------------------------------------------
\* Nothing is installed yet, or everything is deployed and backed up.
WorkInit ==
  /\ shape \in Shapes /\ head = 1
  /\ bak = [s \in WorkServices |-> NoDir]
  /\ data = [i \in DataItems |-> 1]
  /\ \/ /\ dir = [s \in WorkServices |-> NoDir]
        /\ snapshots = {}
        /\ project = [s \in WorkServices |-> NoProject]
        /\ generated = [s \in WorkServices |-> 0]
        /\ instanceStatus = [s \in WorkServices |-> "unknown"]
     \/ /\ dir = [s \in WorkServices |-> [rev |-> 1, id |-> 1]]
        /\ project = [s \in WorkServices |->
                        IF s \in shape.infra THEN NoProject
                        ELSE [rev |-> 1, id |-> 1, on |-> TRUE]]
        /\ generated = [s \in WorkServices |-> IF <<s, 1>> \in shape.caddy THEN 1 ELSE 0]
        /\ instanceStatus = [s \in WorkServices |-> "running"]
        /\ snapshots = {[item |-> i, first |-> 1, rest |-> 1] : i \in DataItems}
  /\ artifacts = snapshots
  /\ job = NoJob /\ last = NoWork /\ works = 1 /\ writes = 1 /\ workFaults = 0

\* executePulledTask.  A restore names an artifact of every item; a Caddy sync
\* is of one service, or a rebuild of all that use Caddy at the revision.
StartWork(type, s) ==
  /\ job = NoJob /\ works <= MaxWork /\ works' = works + 1
  /\ type \in {"backup", "restore"} => s = DataService
  /\ type = "rustic_forget" => s = shape.rustic
  /\ \E mode \in IF type \in {"deploy", "update"} THEN {"auto", "no", "force"} ELSE {"auto"},
        full \in IF type = "caddy_sync" THEN BOOLEAN ELSE {FALSE},
        chosen \in IF type = "restore" THEN {f \in [DataItems -> artifacts] :
                                               \A i \in DataItems : f[i].item = i}
                   ELSE {<<>>} :
       LET sources == IF full THEN {x \in WorkServices : <<x, head>> \in shape.caddy} ELSE {s}
       IN  job' = [type |-> type, service |-> s, rev |-> head, id |-> works + 1,
                   mode |-> mode, full |-> full, chosen |-> chosen,
                   at |-> PhasesOf(type)[1],
                   verify |-> VerifiedDirs(type, s, sources), sources |-> sources,
                   items |-> IF type \in {"backup", "restore"} THEN DataItems ELSE {},
                   item |-> "none", copy |-> 0, restart |-> FALSE, error |-> FALSE,
                   cancelled |-> FALSE, faults |-> 0, origin |-> "none",
                   before |-> [on |-> Running(s), installed |-> Installed(s),
                               generated |-> generated]]
  /\ UNCHANGED <<shape, head, dir, bak, project, generated, data, snapshots, artifacts,
                 instanceStatus, last, writes, workFaults>>

-----------------------------------------------------------------------------
(* Success and failure of a phase                                           *)

At(phase) == job.at = phase
GoOn == job' = [job EXCEPT !.at = Following] /\ UNCHANGED workFaults

\* A phase that runs a command or calls the controller needs its context.
Proceed == ~job.cancelled /\ GoOn

\* The phase fails: an operation breaks or the context has ended.
Breaks == \/ job.cancelled /\ UNCHANGED workFaults
          \/ workFaults < MaxWorkFaults /\ workFaults' = workFaults + 1
FaultsOf == IF job.cancelled THEN job.faults ELSE job.faults + 1
Abort == job' = [job EXCEPT !.at = "failed", !.origin = job.at, !.faults = FaultsOf]
Fails == Breaks /\ Abort

\* The phase is refused for what it found; nothing broke.
Refuse == job' = [job EXCEPT !.at = "failed", !.origin = job.at] /\ UNCHANGED workFaults

\* A file operation does not look at the context.
FileFault == workFaults < MaxWorkFaults /\ workFaults' = workFaults + 1

-----------------------------------------------------------------------------
(* render: downloadServiceBundle and replaceDirectory                       *)

\* The bundle is received and unpacked next to the directory.
StageBundle ==
  /\ At("stage") /\ (Proceed \/ Fails)
  /\ UNCHANGED <<shape, head, dir, bak, project, generated, dataVars, instanceStatus, last, works>>

RemoveOldBackup ==
  /\ At("clear_bak")
  /\ \/ GoOn /\ bak' = [bak EXCEPT ![job.service] = NoDir]
     \/ FileFault /\ Abort /\ UNCHANGED bak
  /\ UNCHANGED <<shape, head, dir, project, generated, dataVars, instanceStatus, last, works>>

MoveOldAway ==
  /\ At("move_old")
  /\ \/ /\ GoOn
        /\ bak' = [bak EXCEPT ![job.service] = dir[job.service]]
        /\ dir' = [dir EXCEPT ![job.service] = NoDir]
     \/ Installed(job.service) /\ FileFault /\ Abort /\ UNCHANGED installedVars
  /\ UNCHANGED <<shape, head, project, generated, dataVars, instanceStatus, last, works>>

PutBack == /\ dir' = [dir EXCEPT ![job.service] = bak[job.service]]
           /\ bak' = [bak EXCEPT ![job.service] = NoDir]

\* The old directory, if there was one, is moved back when the new one cannot
\* be activated; a disk that fails twice does not even do that.
ActivateStaged ==
  /\ At("activate")
  /\ \/ /\ GoOn
        /\ dir' = [dir EXCEPT ![job.service] = [rev |-> job.rev, id |-> job.id]]
        /\ UNCHANGED bak
     \/ FileFault /\ Abort /\ PutBack
     \/ /\ FileFault
        /\ job' = [job EXCEPT !.at = "failed", !.origin = job.at, !.faults = @ + 2]
        /\ UNCHANGED installedVars
  /\ UNCHANGED <<shape, head, project, generated, dataVars, instanceStatus, last, works>>

DropBackup ==
  /\ At("drop_bak")
  /\ \/ GoOn /\ bak' = [bak EXCEPT ![job.service] = NoDir]
     \/ bak[job.service] # NoDir /\ FileFault /\ Abort /\ UNCHANGED bak
  /\ UNCHANGED <<shape, head, dir, project, generated, dataVars, instanceStatus, last, works>>

-----------------------------------------------------------------------------
(* Local directories and their verification                                 *)

\* localServiceRoot: composia-meta.yaml is there.
LocalServiceRoot ==
  /\ At("local_root")
  /\ \/ Installed(job.service) /\ Proceed
     \/ ~Installed(job.service) /\ ~job.cancelled /\ Refuse
     \/ Fails
  /\ UNCHANGED <<shape, head, dir, bak, project, generated, dataVars, instanceStatus, last, works>>

\* checkTaskServiceFiles, a directory at a time: the files are those of the
\* revision the task was created at.
CheckTaskServiceFiles ==
  /\ At("verify")
  /\ \/ /\ job.verify = {} /\ GoOn
     \/ \E s \in job.verify :
          \/ /\ dir[s].rev = job.rev /\ ~job.cancelled /\ UNCHANGED workFaults
             /\ job' = [job EXCEPT !.verify = @ \ {s}]
          \/ dir[s].rev # job.rev /\ ~job.cancelled /\ Refuse
          \/ Fails
  /\ UNCHANGED <<shape, head, dir, bak, project, generated, dataVars, instanceStatus, last, works>>

\* A command that changes nothing the model holds.
RunCommand ==
  /\ job.at \in Commands /\ (Proceed \/ Fails)
  /\ UNCHANGED <<shape, head, dir, bak, project, generated, dataVars, instanceStatus, last, works>>

-----------------------------------------------------------------------------
(* Compose                                                                  *)

\* auto recreates where bind mounts from the service directory are found.
resolveComposeForceRecreate(s, mode) == mode = "force" \/ (mode = "auto" /\ s \in shape.mounts)

\* docker compose up -d: containers are created where there are none or their
\* configuration changed, and started.
AfterUp(s, force) ==
  IF force \/ project[s] = NoProject \/ project[s].rev # dir[s].rev
    THEN [rev |-> dir[s].rev, id |-> dir[s].id, on |-> TRUE]
    ELSE [project[s] EXCEPT !.on = TRUE]

StopProject(s) == project' = [project EXCEPT ![s] = NoProject]

\* A command that fails may have done its work before.
ComposeUp ==
  LET s == job.service
      up == [project EXCEPT ![s] =
               AfterUp(s, job.type # "restart" /\ resolveComposeForceRecreate(s, job.mode))]
  IN  /\ At("compose_up")
      /\ \/ s \in shape.infra /\ (Proceed \/ Fails) /\ UNCHANGED project
         \/ s \notin shape.infra /\ Proceed /\ project' = up
         \/ s \notin shape.infra /\ Fails /\ project' \in {project, up}
      /\ UNCHANGED <<shape, head, dir, bak, generated, dataVars, instanceStatus, last, works>>

\* A service without containers cannot be restarted, and has nothing to stop.
ComposeDown ==
  LET s == job.service
  IN  /\ At("compose_down")
      /\ \/ s \in shape.infra /\ job.type = "restart" /\ Refuse /\ UNCHANGED project
         \/ s \in shape.infra /\ job.type = "stop" /\ (Proceed \/ Fails)
            /\ UNCHANGED project
         \/ s \notin shape.infra /\ Proceed /\ StopProject(s)
         \/ s \notin shape.infra /\ Fails /\ (StopProject(s) \/ UNCHANGED project)
      /\ UNCHANGED <<shape, head, dir, bak, generated, dataVars, instanceStatus, last, works>>

\* executeDockerTask: one container, here all there is of a service.
DockerTask ==
  LET s == job.service
      exists == project[s] # NoProject
      to == CASE job.at = "docker_stop" -> {[project[s] EXCEPT !.on = FALSE]}
              [] job.at \in {"docker_start", "docker_restart"} -> {[project[s] EXCEPT !.on = TRUE]}
              [] job.at = "docker_remove_container" -> {NoProject}
              [] OTHER -> {}
  IN  /\ \E p \in to :
           \/ exists /\ Proceed /\ project' = [project EXCEPT ![s] = p]
           \/ ~exists /\ ~job.cancelled /\ Refuse /\ UNCHANGED project
           \/ Fails /\ UNCHANGED project
      /\ UNCHANGED <<shape, head, dir, bak, generated, dataVars, instanceStatus, last, works>>

\* docker container prune removes the containers that are stopped.
PruneContainers ==
  LET pruned == [s \in WorkServices |-> IF Running(s) THEN project[s] ELSE NoProject]
  IN  /\ At("containers")
      /\ \/ Proceed /\ project' = pruned
         \/ Fails /\ project' \in {project, pruned}
      /\ UNCHANGED <<shape, head, dir, bak, generated, dataVars, instanceStatus, last, works>>

\* Volumes that no container uses are removed, and the items they held; one
\* that is used cannot be.
RemoveVolumes ==
  LET used == project[DataService] # NoProject
      held == IF used THEN {} ELSE DataItems
  IN  /\ At("volumes") \/ At("docker_remove_volume")
      /\ \/ /\ Proceed \/ Fails
            /\ \E gone \in SUBSET held :
                 data' = [i \in DataItems |-> IF i \in gone THEN 0 ELSE data[i]]
         \/ used /\ At("docker_remove_volume") /\ ~job.cancelled /\ Refuse /\ UNCHANGED data
      /\ UNCHANGED <<shape, head, dir, bak, project, generated, snapshots, artifacts, writes,
                     instanceStatus, last, works>>

-----------------------------------------------------------------------------
(* Caddy files                                                              *)

\* syncServiceCaddyFile: a service that does not use Caddy is skipped.
Written(s) == IF <<s, dir[s].rev>> \in shape.caddy
                THEN [generated EXCEPT ![s] = dir[s].rev] ELSE generated

CaddyWrite ==
  /\ At("caddy_write")
  /\ \/ Proceed /\ generated' = Written(job.service)
     \/ Fails /\ UNCHANGED generated
  /\ UNCHANGED <<shape, head, dir, bak, project, dataVars, instanceStatus, last, works>>

CaddyRemove ==
  /\ At("caddy_remove")
  /\ \/ Proceed /\ generated' = [generated EXCEPT ![job.service] = 0]
     \/ Fails /\ UNCHANGED generated
  /\ UNCHANGED <<shape, head, dir, bak, project, dataVars, instanceStatus, last, works>>

\* A full rebuild removes every file, one after the other.
RemoveGenerated ==
  /\ At("remove_generated")
  /\ \/ job.full /\ GoOn /\ generated' = [s \in WorkServices |-> 0]
     \/ ~job.full /\ GoOn /\ UNCHANGED generated
     \/ /\ job.full /\ FileFault /\ Abort
        /\ generated' \in {[generated EXCEPT ![s] = 0] : s \in WorkServices} \cup {generated}
  /\ UNCHANGED <<shape, head, dir, bak, project, dataVars, instanceStatus, last, works>>

WriteGenerated ==
  /\ At("write_generated")
  /\ \/ job.sources = {} /\ GoOn /\ UNCHANGED generated
     \/ \E s \in job.sources :
          \/ /\ job' = [job EXCEPT !.sources = @ \ {s}] /\ generated' = Written(s)
             /\ UNCHANGED workFaults
          \/ FileFault /\ Abort /\ UNCHANGED generated
  /\ UNCHANGED <<shape, head, dir, bak, project, dataVars, instanceStatus, last, works>>

-----------------------------------------------------------------------------
(* Backup and restore, item by item                                         *)

\* The items look for a project named after the directory, while deployments
\* name it after the service.
ProjectSeen(s) == s \in shape.named /\ project[s] # NoProject
SeenRunning(s) == ProjectSeen(s) /\ Running(s)

\* Mutant: the project is not stopped for a cold backup.
StopsForRestore(i) == StrategyOf[i] = Cold /\ job.type = "restore" /\ SeenRunning(job.service)
StopsFor(i) == StrategyOf[i] = Cold /\ SeenRunning(job.service)

ColdStop ==
  /\ At("cold_stop")
  /\ \E i \in job.items :
       \/ /\ ~StopsFor(i) /\ ~job.cancelled
          /\ job' = [job EXCEPT !.at = Following, !.item = i]
          /\ UNCHANGED <<project, workFaults>>
       \/ /\ StopsFor(i) /\ ~job.cancelled /\ StopProject(job.service)
          /\ job' = [job EXCEPT !.at = Following, !.item = i, !.restart = TRUE]
          /\ UNCHANGED workFaults
       \/ Fails /\ IF StopsFor(i) THEN StopProject(job.service) \/ UNCHANGED project
                   ELSE UNCHANGED project
  /\ UNCHANGED <<shape, head, dir, bak, generated, dataVars, instanceStatus, last, works>>

\* An error of the item is kept while the project is started again.
ItemFails == Breaks /\ job' = [job EXCEPT !.at = "cold_start", !.error = TRUE, !.faults = FaultsOf]
ItemRefused == /\ job' = [job EXCEPT !.at = "cold_start", !.error = TRUE]
               /\ UNCHANGED workFaults

\* Files are read while rustic runs, a dump is what the database has committed.
ReadFirst ==
  /\ At("read_first")
  /\ \/ /\ StrategyOf[job.item] = Postgres => SeenRunning(job.service)
        /\ ~job.cancelled /\ UNCHANGED workFaults
        /\ job' = [job EXCEPT !.at = Following, !.copy = data[job.item]]
     \/ StrategyOf[job.item] = Postgres /\ ~SeenRunning(job.service) /\ ItemRefused
     \/ ItemFails
  /\ UNCHANGED <<shape, head, dir, bak, project, generated, dataVars, instanceStatus, last, works>>

\* rustic may have saved the snapshot although the command failed.
ReadRest ==
  LET rest == IF StrategyOf[job.item] = Postgres THEN job.copy ELSE data[job.item]
      saved == [item |-> job.item, first |-> job.copy, rest |-> rest]
  IN  /\ At("read_rest")
      /\ \/ /\ Proceed /\ snapshots' = snapshots \cup {saved}
            /\ artifacts' = artifacts \cup {saved}
         \/ ItemFails /\ snapshots' \in {snapshots, snapshots \cup {saved}} /\ UNCHANGED artifacts
      /\ UNCHANGED <<shape, head, dir, bak, project, generated, data, writes, instanceStatus,
                     last, works>>

\* prepareRestoreVolumeFlags: the targets are emptied before rustic is asked.
ClearTargets ==
  /\ At("clear")
  /\ \/ Proceed /\ data' = IF StrategyOf[job.item] = Postgres THEN data
                           ELSE [data EXCEPT ![job.item] = 0]
     \/ /\ ItemFails
        /\ data' \in {data} \cup IF StrategyOf[job.item] = Postgres THEN {}
                                 ELSE {[data EXCEPT ![job.item] = 0]}
  /\ UNCHANGED <<shape, head, dir, bak, project, generated, snapshots, artifacts, writes,
                 instanceStatus, last, works>>

\* The snapshot is written to the targets; a dump is fed to psql in the running
\* project, which goes on after an error.
FillTargets ==
  LET filled == [data EXCEPT ![job.item] = job.chosen[job.item].rest]
      postgres == StrategyOf[job.item] = Postgres
      possible == /\ job.chosen[job.item] \in snapshots
                  /\ postgres => SeenRunning(job.service)
  IN  /\ At("fill")
      /\ \/ possible /\ ~postgres /\ Proceed /\ data' = filled
         \/ possible /\ postgres /\ Proceed /\ data' \in {data, filled}
         \/ ~possible /\ ItemRefused /\ UNCHANGED data
         \/ possible /\ ItemFails /\ data' \in {data, [data EXCEPT ![job.item] = 0], filled}
      /\ UNCHANGED <<shape, head, dir, bak, project, generated, snapshots, artifacts, writes,
                     instanceStatus, last, works>>

\* The deferred start, with the context of the task; then the result of the
\* item is reported and the next one begins.
ColdStart ==
  LET s == job.service
      rest == job.items \ {job.item}
      up == [project EXCEPT ![s] = AfterUp(s, FALSE)]
      next == IF job.error THEN "failed" ELSE IF rest = {} THEN "done" ELSE "cold_stop"
  IN  /\ At("cold_start")
      /\ \/ /\ ~job.cancelled /\ UNCHANGED workFaults
            /\ job' = [job EXCEPT !.at = next, !.items = rest, !.item = "none",
                                  !.copy = 0, !.restart = FALSE]
            /\ project' = IF job.restart THEN up ELSE project
         \/ /\ job.cancelled /\ UNCHANGED workFaults
            /\ job' = [job EXCEPT !.at = "failed", !.origin = "cold_start"]
            /\ project' \in {project} \cup IF job.restart THEN {up} ELSE {}
         \/ /\ ~job.cancelled /\ job.restart /\ Fails /\ project' \in {project, up}
      /\ UNCHANGED <<shape, head, dir, bak, generated, dataVars, instanceStatus, last, works>>

\* runRusticForget: rustic removes what its policy no longer keeps.
RusticForget ==
  /\ At("forget")
  /\ \/ Proceed /\ snapshots' \in SUBSET snapshots
     \/ Fails /\ UNCHANGED snapshots
  /\ UNCHANGED <<shape, head, dir, bak, project, generated, data, artifacts, writes,
                 instanceStatus, last, works>>

-----------------------------------------------------------------------------
(* The end of a task                                                        *)

StatusAfter(type) == IF type \in {"deploy", "update", "restart"} THEN "running" ELSE "stopped"

\* failServiceTask, where failTask leaves the status alone.
FailsService == \/ job.type \in {"deploy", "update"}
                \/ job.type \in {"stop", "restart"} /\ job.origin # "local_root"

\* A status report that fails is ignored.
Reports(s, status) ==
  \/ ~job.cancelled /\ instanceStatus' = [instanceStatus EXCEPT ![s] = status] /\ UNCHANGED workFaults
  \/ Breaks /\ UNCHANGED instanceStatus

EndWork(result) ==
  /\ last' = [type |-> job.type, service |-> job.service, rev |-> job.rev, mode |-> job.mode,
              full |-> job.full, result |-> result, before |-> job.before, origin |-> job.origin,
              faults |-> job.faults + (workFaults' - workFaults)]
  /\ job' = NoJob

FinishWork ==
  /\ \/ /\ At("done")
        /\ \/ job.type \in {"deploy", "update", "stop", "restart"}
              /\ Reports(job.service, StatusAfter(job.type))
           \/ job.type \notin {"deploy", "update", "stop", "restart"}
              /\ UNCHANGED <<instanceStatus, workFaults>>
        /\ EndWork("succeeded")
     \/ /\ At("failed")
        /\ \/ FailsService /\ Reports(job.service, "error")
           \/ ~FailsService /\ UNCHANGED <<instanceStatus, workFaults>>
        /\ EndWork("failed")
  /\ UNCHANGED <<shape, head, dir, bak, project, generated, dataVars, works>>

-----------------------------------------------------------------------------
(* The environment                                                          *)

WorkCancelled ==
  /\ job # NoJob /\ ~job.cancelled
  /\ workFaults < MaxWorkFaults /\ workFaults' = workFaults + 1
  /\ job' = [job EXCEPT !.cancelled = TRUE, !.faults = @ + 1]
  /\ UNCHANGED <<shape, head, dir, bak, project, generated, dataVars, instanceStatus, last, works>>

AgentCrash ==
  /\ job # NoJob
  /\ workFaults < MaxWorkFaults /\ workFaults' = workFaults + 1
  /\ job' = NoJob /\ last' = [result |-> "lost"]
  /\ UNCHANGED <<shape, head, dir, bak, project, generated, dataVars, instanceStatus, works>>

\* HEAD matters when a task is created.
NewRevision ==
  /\ job = NoJob /\ head < MaxRevision /\ head' = head + 1
  /\ UNCHANGED <<shape, dir, bak, project, generated, dataVars, instanceStatus, job, last, works,
                 workFaults>>

ApplicationWrites(i) ==
  /\ Running(DataService) /\ writes < MaxWrites
  /\ data' = [data EXCEPT ![i] = writes + 1] /\ writes' = writes + 1
  /\ UNCHANGED <<shape, head, dir, bak, project, generated, snapshots, artifacts,
                 instanceStatus, job, last, works, workFaults>>

WorkPhase ==
  \/ StageBundle \/ RemoveOldBackup \/ MoveOldAway \/ ActivateStaged \/ DropBackup
  \/ LocalServiceRoot \/ CheckTaskServiceFiles \/ RunCommand
  \/ ComposeUp \/ ComposeDown \/ DockerTask \/ PruneContainers \/ RemoveVolumes
  \/ CaddyWrite \/ CaddyRemove \/ RemoveGenerated \/ WriteGenerated
  \/ ColdStop \/ ReadFirst \/ ReadRest \/ ClearTargets \/ FillTargets \/ ColdStart
  \/ RusticForget \/ FinishWork

WorkNext ==
  \/ \E type \in WorkTypes, s \in WorkServices : StartWork(type, s)
  \/ WorkPhase \/ WorkCancelled \/ AgentCrash \/ NewRevision
  \/ \E i \in DataItems : ApplicationWrites(i)

WorkSpec == WorkInit /\ [][WorkNext]_workVars

-----------------------------------------------------------------------------
(* Properties                                                               *)

Ended(types) == job = NoJob /\ last.result # "none" /\ last.result # "lost" /\ last.type \in types

\* A deployment or update that succeeded has installed its revision, the
\* containers were created from it and, unless recreation was refused, see its
\* files, and the Caddy file is its own.
DeploymentIsInForce ==
  Ended({"deploy", "update"}) /\ last.result = "succeeded" =>
    LET s == last.service
    IN  /\ dir[s].rev = last.rev /\ bak[s] = NoDir
        /\ s \notin shape.infra =>
             /\ project[s].on /\ project[s].rev = last.rev
             /\ s \in shape.mounts /\ last.mode # "no" => project[s].id = dir[s].id
        /\ <<s, last.rev>> \in shape.caddy => generated[s] = last.rev

\* A stop has left nothing running, a restart runs what is installed.
StopAndRestartAreInForce ==
  /\ Ended({"stop"}) /\ last.result = "succeeded"
       => project[last.service] = NoProject /\ generated[last.service] = 0
  /\ Ended({"restart"}) /\ last.result = "succeeded"
       => /\ project[last.service].on
          /\ project[last.service].rev = dir[last.service].rev
          /\ project[last.service].id = dir[last.service].id

\* The status reported at the end tells whether the service runs.
StatusIsTrue ==
  Ended({"deploy", "update", "stop", "restart"}) /\ last.faults = 0 =>
    LET s == last.service
    IN  /\ last.result = "succeeded" =>
             (instanceStatus[s] = "running") = (Running(s) \/ (s \in shape.infra /\ last.type # "stop"))
        /\ last.result = "failed" /\ last.origin # "local_root" => instanceStatus[s] = "error"

\* One fault, a failed file operation or a cancellation, leaves a service its
\* directory: the old one or the new one.
FailureKeepsDirectory ==
  Ended({"deploy", "update"}) /\ last.result = "failed" /\ last.faults <= 1 /\ last.before.installed
    => Installed(last.service)

\* A task that is refused because the files do not match has changed nothing,
\* a full rebuild included.
RefusedChangesNothing ==
  Ended({"caddy_sync", "backup", "restore"}) /\ last.result = "failed" /\ last.origin = "verify"
    => generated = last.before.generated /\ Running(last.service) = last.before.on

\* A backup or restore that succeeded, and one that failed for what it found,
\* leaves the project as it was: running or not.
ProjectRunsAgain ==
  Ended({"backup", "restore"}) /\ (last.result = "succeeded" \/ last.faults = 0)
    => Running(last.service) = last.before.on

\* What a cold backup has saved was not written to meanwhile.
ColdBackupsAreConsistent ==
  \A x \in snapshots : StrategyOf[x.item] = Cold => x.first = x.rest

\* A full rebuild that succeeded has left exactly the files of the revision.
RebuildIsExact ==
  Ended({"caddy_sync"}) /\ last.result = "succeeded" /\ last.full =>
    \A s \in WorkServices :
      generated[s] = IF <<s, last.rev>> \in shape.caddy THEN last.rev ELSE 0

\* The agent's tasks do what their results say.
AgentWorkIsSound ==
  /\ DeploymentIsInForce /\ StopAndRestartAreInForce /\ StatusIsTrue /\ FailureKeepsDirectory
  /\ RefusedChangesNothing /\ ProjectRunsAgain /\ RebuildIsExact
  /\ DataService \in shape.named => ColdBackupsAreConsistent
=============================================================================
