---------------------------- MODULE Capabilities ----------------------------
(***************************************************************************)
(* What users are told they may do, and what they may do.  The service,     *)
(* node and backup queries compute a capability for every action            *)
(* (capabilities.go); the request that follows passes checks of its own     *)
(* (service_command.go, task_admission.go, node.go, backup_record.go,       *)
(* container.go) against a repository, a configuration and nodes that may   *)
(* have changed in between, and ends in tasks or in a refusal.               *)
(*                                                                         *)
(* A capability is the reason it is disabled, "" when it is enabled.  A      *)
(* request names one RPC, an action and nodes; one service, "web", is asked  *)
(* about.                                                                   *)
(***************************************************************************)
EXTENDS ServiceMetas

CONSTANTS Repositories,   \* the repositories that are tried
          Setups,         \* configurations: [nodes, disabled, dns, tunnel, mainNodes, backup]
          MaxCapChanges   \* changes between a user's reading and the request

\* A file lists finitely many nodes; DNS and tunnels are usable, configured
\* without credentials or not configured.
ASSUME CapAssumption ==
  /\ \A files \in Repositories, p \in TopPlaces : files[p].decodes => IsFiniteSet(DOMAIN files[p].nodes)
  /\ \A x \in Setups : {x.dns, x.tunnel} \subseteq {"usable", "empty", "none"}

VARIABLES setup,          \* the running configuration, and the backup asked about
          online,         \* the nodes whose snapshot says online
          rows,           \* the rows of service_instances
          table,          \* the declared ones among them
          busyAt,         \* nodes on which every instance has an active task
          asked,          \* what a user was shown and is about to request
          reply,          \* how the last request ended
          capChanges

capVars == <<setup, online, rows, table, busyAt, asked, reply, capChanges>>
Nothing == <<>>
Web == "web"
CapNodes == UNION {x.nodes : x \in Setups}

ControllerTypes == {"dns_update", "cloudflare_tunnel_sync", "migrate", "migrate_rollback"}
AgentTypes ==
  {"deploy", "stop", "restart", "update", "backup", "restore", "caddy_sync", "caddy_reload",
   "image_check", "prune", "rustic_init", "rustic_forget", "rustic_prune", "docker_start",
   "docker_remove_network"}
RequiresOnlineNode(type) == type \notin ControllerTypes

\* The conversions to the wire: what is not listed becomes "unspecified".
protoTaskType(type) == IF type \in ControllerTypes \cup AgentTypes THEN <<"task", type>> ELSE <<"unspecified">>
taskTypeFromProto(value) == IF value[1] = "task" THEN {value[2]} ELSE {}
taskTypesFromProto(values) == UNION {taskTypeFromProto(v) : v \in values}
protoAgentTaskType(type) ==
  IF type \in (ControllerTypes \ {"migrate_rollback"}) \cup AgentTypes THEN <<"agent task", type>> ELSE <<"unspecified">>

-----------------------------------------------------------------------------
(* Capabilities.                                                            *)

FirstReason(reasons) ==
  LET given == {i \in DOMAIN reasons : reasons[i] # ""}
  IN  IF given = {} THEN "" ELSE reasons[CHOOSE i \in given : \A j \in given : i <= j]
When(condition, reason) == IF condition THEN reason ELSE ""

taskTargetNodeCapability(n, type) ==
  FirstReason(<<When(n \notin nodeSet, "node_not_eligible"),
                When(n \in setup.disabled, "node_disabled"),
                When(RequiresOnlineNode(type) /\ n \notin online, "node_offline")>>)
taskTargetNodesCapability(nodes, type) ==
  IF nodes = <<>> THEN "node_not_eligible"
  ELSE FirstReason([i \in DOMAIN nodes |-> taskTargetNodeCapability(nodes[i], type)])
anyNodeEligibleForTask(type) == \E n \in nodeSet : taskTargetNodeCapability(n, type) = ""

backupIntegrationCapability == When(FindRusticInfraService = NoService_, "missing_backup_integration")
dnsIntegrationCapability == When(setup.dns # "usable", "missing_dns_integration")
cloudflareTunnelIntegrationCapability == When(setup.tunnel # "usable", "missing_cloudflare_tunnel_integration")

\* The nodes of the rustic service, restricted to the configured main nodes.
MainNodeCandidates ==
  {n \in Range(FindRusticInfraService.nodes) : setup.mainNodes = {} \/ n \in setup.mainNodes}
rusticMaintenanceGlobalCapability ==
  CASE FindRusticInfraService = NoService_ -> "missing_backup_integration"
    [] OTHER -> FirstReason(<<
         When(MainNodeCandidates = {}, "missing_eligible_rustic_node"),
         When(\A n \in MainNodeCandidates : taskTargetNodeCapability(n, "rustic_init") # "",
              "missing_online_rustic_node")>>)

HasRestore(service, names) == \E item \in Range(service.meta.data) : item.name \in names /\ item.restore # {}
AllNames(service) == Range(NamesOf(service.meta.data))

buildServiceActionCapabilities(service) ==
  [backup |-> FirstReason(<<backupIntegrationCapability,
                When(EnabledBackupDataNames(service.meta) = {}, "missing_backup_definition"),
                taskTargetNodesCapability(service.nodes, "backup")>>),
   restore |-> FirstReason(<<backupIntegrationCapability,
                When(~HasRestore(service, AllNames(service)), "missing_restore_definition")>>),
   migrate |-> FirstReason(<<backupIntegrationCapability,
                When(service.meta.migrate = <<>>, "missing_migrate_definition")>>),
   dns_update |-> FirstReason(<<When(~service.meta.hasDNS, "service_dns_not_declared"), dnsIntegrationCapability>>),
   caddy_sync |-> FirstReason(<<When(service.meta.caddy # "managed", "service_not_caddy_managed"),
                taskTargetNodesCapability(service.nodes, "caddy_sync")>>),
   cloudflare_tunnel_sync |->
                FirstReason(<<When(service.meta.tunnel # "managed", "service_not_cloudflare_tunnel_managed"),
                              cloudflareTunnelIntegrationCapability>>)]
buildDisabledServiceActionCapabilities(reason) ==
  [a \in {"backup", "restore", "migrate", "dns_update", "caddy_sync", "cloudflare_tunnel_sync"} |-> reason]

buildNodeActionCapabilities(n) ==
  [caddy_sync |-> taskTargetNodeCapability(n, "caddy_sync"),
   caddy_reload |-> FirstReason(<<taskTargetNodeCapability(n, "caddy_reload"),
                      When(FindCaddyInfraService = NoService_, "missing_caddy_infra")>>),
   rustic_maintenance |-> FirstReason(<<taskTargetNodeCapability(n, "rustic_init"), backupIntegrationCapability,
                      When(FindRusticInfraService # NoService_ /\ n \notin Range(FindRusticInfraService.nodes),
                           "node_not_rustic_managed")>>)]

\* The backup asked about is one of item "d" of the service.
backupRestoreCapability ==
  LET service == FindService(Web)
  IN FirstReason(<<When(setup.backup = "failed", "backup_not_succeeded"),
       When(setup.backup = "no artifact", "backup_artifact_missing"), backupIntegrationCapability,
       When(service = NoService_, "service_not_declared"),
       When(service # NoService_ /\ ~HasRestore(service, {"d"}), "missing_restore_definition"),
       When(~anyNodeEligibleForTask("restore"), "missing_restore_target_node")>>)

\* The workspace of a folder: its file, read alone, and the table of services.
buildServiceWorkspaceSummary(p) ==
  CASE metas[p] = NoMeta -> buildDisabledServiceActionCapabilities("missing_service_meta")
    [] metas[p] # NoMeta /\ (~metas[p].decodes \/ ~Valid(p) \/ \A r \in table : r[1] # metas[p].name) ->
         buildDisabledServiceActionCapabilities("service_not_declared")
    [] OTHER -> buildServiceActionCapabilities(strictServiceFromMeta(p, metas[p]))

-----------------------------------------------------------------------------
(* Requests.                                                                *)

Refused(code) == [tasks |-> {}, code |-> code]
TasksOn(type, service, nodes) == {[type |-> type, service |-> service, node |-> n] : n \in nodes}

\* The store: an active task of an instance excludes, and every task of a
\* service on a node needs the instance's row.  CreateTask excludes only by
\* the index, which is an internal error.
Create(tasks, guarded) ==
  LET ofInstance == {t \in tasks : t.service # "" /\ t.node # ""}
      Indexed(t) == t.type \notin {"rustic_init", "rustic_forget", "rustic_prune"}
  IN IF guarded /\ \E t \in tasks : t.node \in busyAt THEN Refused("failed_precondition")
     ELSE IF \E t \in ofInstance : <<t.service, t.node>> \notin rows \/ (Indexed(t) /\ t.node \in busyAt)
          THEN Refused("internal")
     ELSE [tasks |-> tasks, code |-> ""]

\* Mutant: a disabled node is not refused.
validateTaskTargetNodeUnlessOffline(n, type) ==
  n \in nodeSet /\ (RequiresOnlineNode(type) => n \in online)

validateTaskTargetNode(n, type) ==
  n \in nodeSet \ setup.disabled /\ (RequiresOnlineNode(type) => n \in online)

resolveTargetNodeIDs(service, requested) ==
  IF requested = {} THEN Range(service.nodes)
  ELSE IF requested \subseteq Range(service.nodes) THEN requested ELSE {}

createServiceTasks(type, requested) ==
  LET service == FindService(Web)
      nodes == resolveTargetNodeIDs(service, requested)
  IN IF service = NoService_ THEN Refused("not_found")
     ELSE IF \/ nodes = {}
             \/ type = "backup" /\ (FindRusticInfraService = NoService_
                                     \/ ~(nodes \subseteq Range(FindRusticInfraService.nodes)))
             \/ \E n \in nodes : ~validateTaskTargetNode(n, type)
          THEN Refused("failed_precondition")
          ELSE Create(TasksOn(type, service.name, nodes), TRUE)

createServiceCloudflareTunnelSyncTask ==
  LET service == FindService(Web)
  IN IF service = NoService_ THEN Refused("not_found")
     ELSE IF service.meta.tunnel # "managed" \/ setup.tunnel = "none" THEN Refused("failed_precondition")
     ELSE IF busyAt # {} THEN Refused("failed_precondition")
     ELSE Create(TasksOn("cloudflare_tunnel_sync", service.name, {""}), TRUE)

\* A DNS update ignores the requested nodes.
RunServiceAction(action, requested) ==
  LET service == FindService(Web)
  IN IF service = NoService_ THEN Refused("not_found")
     ELSE IF \/ action = "restart" /\ "config" \in service.meta.infra
             \/ action = "backup" /\ EnabledBackupDataNames(service.meta) = {}
             \/ action = "dns_update" /\ (~service.meta.hasDNS \/ setup.dns = "none")
             \/ action = "caddy_sync" /\ service.meta.caddy # "managed"
          THEN Refused("failed_precondition")
     ELSE IF action = "cloudflare_tunnel_sync" THEN createServiceCloudflareTunnelSyncTask
     ELSE createServiceTasks(action, IF action = "dns_update" THEN {} ELSE requested)

createNodeCaddyReloadTask(n) ==
  IF ~validateTaskTargetNode(n, "caddy_reload") \/ FindCaddyInfraService = NoService_
  THEN Refused("failed_precondition")
  ELSE Create(TasksOn("caddy_reload", FindCaddyInfraService.name, {n}), TRUE)

createNodeCaddySyncTask(n, fullRebuild) ==
  LET service == FindService(Web)
  IN IF ~validateTaskTargetNode(n, "caddy_sync") THEN Refused("failed_precondition")
     ELSE IF fullRebuild THEN Create(TasksOn("caddy_sync", "", {n}), FALSE)
     ELSE IF service = NoService_ THEN Refused("not_found")
     ELSE IF service.meta.caddy # "managed" \/ n \notin Range(service.nodes) THEN Refused("failed_precondition")
     ELSE Create(TasksOn("caddy_sync", service.name, {n}), FALSE)

chooseRusticMainNode(type) ==
  IF FindRusticInfraService = NoService_ THEN {}
  ELSE {n \in MainNodeCandidates : validateTaskTargetNode(n, type)}

createNodeRusticMaintenanceTask(n, type) ==
  IF \/ ~validateTaskTargetNode(n, type) \/ FindRusticInfraService = NoService_
     \/ n \notin Range(FindRusticInfraService.nodes)
  THEN Refused("failed_precondition")
  ELSE Create(TasksOn(type, FindRusticInfraService.name, {n}), FALSE)

\* Rustic maintenance on a given node, or on any of the main nodes.
MaintainRustic(type, nodes) ==
  IF nodes # {} THEN {createNodeRusticMaintenanceTask(n, type) : n \in nodes}
  ELSE IF chooseRusticMainNode(type) = {} THEN {Refused("failed_precondition")}
  ELSE {createNodeRusticMaintenanceTask(n, type) : n \in chooseRusticMainNode(type)}

\* Only the snapshot is looked at.
PruneNodeDocker(n) ==
  IF n \in online THEN Create(TasksOn("prune", "", {n}), FALSE) ELSE Refused("failed_precondition")

createNodeDockerTask(n, type) ==
  IF validateTaskTargetNode(n, type) THEN Create(TasksOn(type, "", {n}), FALSE)
  ELSE Refused("failed_precondition")

\* A service without data_protect is dereferenced: the request dies.
RestoreBackup(n) ==
  LET service == FindService(Web)
  IN IF setup.backup # "succeeded" \/ ~validateTaskTargetNode(n, "restore") \/ n \in busyAt
     THEN Refused("failed_precondition")
     ELSE IF service = NoService_ THEN Refused("not_found")
     ELSE IF service.meta.data = <<>> THEN Refused("panic")
     ELSE IF ~HasRestore(service, {"d"}) THEN Refused("failed_precondition")
     ELSE Create(TasksOn("restore", Web, {n}), TRUE)

\* The target's instance row is made for the migration.
MigrateService(source, target) ==
  LET service == FindService(Web)
  IN IF source = target THEN Refused("invalid_argument")
     ELSE IF service = NoService_ THEN Refused("not_found")
     ELSE IF \/ source \notin Range(service.nodes) \/ target \in Range(service.nodes)
             \/ ~validateTaskTargetNode(source, "backup") \/ ~validateTaskTargetNode(target, "restore")
             \/ busyAt # {}
          THEN Refused("failed_precondition")
     ELSE Create(TasksOn("migrate", service.name, {""}), TRUE)

ServiceActions == {"deploy", "stop", "restart", "backup", "dns_update", "caddy_sync",
                   "cloudflare_tunnel_sync", "image_check"}
ByNode == {"ReloadNodeCaddy", "SyncNodeCaddyFiles", "RebuildNodeCaddyFiles",
           "PruneNodeDocker", "RemoveNetwork", "RestoreBackup"}
OneNode == {{n} : n \in CapNodes}
Requests ==
  [rpc : {"RunServiceAction"}, action : ServiceActions, nodes : {{}} \cup OneNode]
  \cup [rpc : {"Rustic"}, action : {"rustic_prune"}, nodes : {{}} \cup OneNode]
  \cup [rpc : ByNode, action : {""}, nodes : OneNode]
  \cup [rpc : {"MigrateService"}, action : CapNodes, nodes : OneNode]  \* from action to the node

TheNode(r) == CHOOSE n \in r.nodes : TRUE
Answers(r) ==
  CASE r.rpc = "RunServiceAction" -> {RunServiceAction(r.action, r.nodes)}
    [] r.rpc = "Rustic" -> MaintainRustic(r.action, r.nodes)
    [] r.rpc = "ReloadNodeCaddy" -> {createNodeCaddyReloadTask(TheNode(r))}
    [] r.rpc = "SyncNodeCaddyFiles" -> {createNodeCaddySyncTask(TheNode(r), FALSE)}
    [] r.rpc = "RebuildNodeCaddyFiles" -> {createNodeCaddySyncTask(TheNode(r), TRUE)}
    [] r.rpc = "PruneNodeDocker" -> {PruneNodeDocker(TheNode(r))}
    [] r.rpc = "RemoveNetwork" -> {createNodeDockerTask(TheNode(r), "docker_remove_network")}
    [] r.rpc = "RestoreBackup" -> {RestoreBackup(TheNode(r))}
    [] r.rpc = "MigrateService" -> {MigrateService(r.action, TheNode(r))}

\* What the user is shown for a request: GetService, the workspace of folder
\* p, GetNode, GetCapabilities or GetBackup.  "none" where there is no
\* capability or nothing is shown.
GetService ==
  IF FindService(Web) = NoService_ THEN buildDisabledServiceActionCapabilities("none")
  ELSE buildServiceActionCapabilities(FindService(Web))
ShownIn(capabilities, r) ==
  CASE r.rpc = "RunServiceAction" /\ r.action \in DOMAIN capabilities -> capabilities[r.action]
    [] r.rpc = "MigrateService" -> capabilities["migrate"]
    [] r.rpc = "Rustic" /\ r.nodes = {} -> rusticMaintenanceGlobalCapability
    [] r.rpc = "Rustic" /\ r.nodes # {} -> buildNodeActionCapabilities(TheNode(r)).rustic_maintenance
    [] r.rpc = "ReloadNodeCaddy" -> buildNodeActionCapabilities(TheNode(r)).caddy_reload
    [] r.rpc = "RebuildNodeCaddyFiles" -> buildNodeActionCapabilities(TheNode(r)).caddy_sync
    [] r.rpc = "RestoreBackup" -> backupRestoreCapability
    [] OTHER -> "none"

-----------------------------------------------------------------------------
DeclaredInstances(services) == UNION {{<<s.name, n>> : n \in Range(s.nodes)} : s \in services}

CapInit ==
  /\ metas \in Repositories /\ setup \in Setups /\ nodeSet = setup.nodes
  /\ online = setup.nodes /\ busyAt = {}
  /\ table = DeclaredInstances(DiscoverServices) /\ rows = table
  /\ asked = Nothing /\ reply = Nothing /\ capChanges = 0
  /\ changedAt = {} /\ pinned = NoService_ /\ metaWrites = 0

Look(r) ==
  /\ asked = Nothing /\ reply = Nothing
  /\ \/ asked' = [request |-> r, reason |-> ShownIn(GetService, r), fresh |-> TRUE]
     \/ \E p \in TopPlaces :
          /\ r.rpc \in {"RunServiceAction", "MigrateService"} /\ metas[p] # NoMeta /\ metas[p].name = Web
          /\ asked' = [request |-> r, reason |-> ShownIn(buildServiceWorkspaceSummary(p), r), fresh |-> TRUE]
  /\ UNCHANGED <<setup, online, rows, table, busyAt, reply, capChanges, metaVars>>

Submit ==
  /\ asked # Nothing
  /\ \E answer \in Answers(asked.request) :
       reply' = [request |-> asked.request, reason |-> asked.reason, fresh |-> asked.fresh, answer |-> answer]
  /\ asked' = Nothing
  /\ UNCHANGED <<setup, online, rows, table, busyAt, capChanges, metaVars>>

Changed ==
  /\ capChanges < MaxCapChanges /\ capChanges' = capChanges + 1
  /\ asked' = IF asked = Nothing THEN Nothing ELSE [asked EXCEPT !.fresh = FALSE]
  /\ reply' = Nothing

\* The refresh of the table follows a commit, outside the lock.
ChangeRepository(files) ==
  /\ Changed /\ metas' = files /\ files # metas
  /\ UNCHANGED <<setup, online, rows, table, busyAt, nodeSet, changedAt, pinned, metaWrites>>
SyncDeclaredServices ==
  /\ table # DeclaredInstances(DiscoverServices)
  /\ table' = DeclaredInstances(DiscoverServices) /\ rows' = rows \cup table'
  /\ asked' = IF asked = Nothing THEN Nothing ELSE [asked EXCEPT !.fresh = FALSE]
  /\ reply' = Nothing
  /\ UNCHANGED <<setup, online, busyAt, capChanges, metaVars>>
Reconfigure(next) ==
  /\ Changed /\ next # setup /\ setup' = next /\ nodeSet' = next.nodes
  /\ UNCHANGED <<online, rows, table, busyAt, metas, changedAt, pinned, metaWrites>>
NodeReports(n) ==
  /\ Changed /\ online' = IF n \in online THEN online \ {n} ELSE online \cup {n}
  /\ UNCHANGED <<setup, rows, table, busyAt, metaVars>>
OtherTask(n) ==
  /\ Changed /\ busyAt' = IF n \in busyAt THEN busyAt \ {n} ELSE busyAt \cup {n}
  /\ UNCHANGED <<setup, online, rows, table, metaVars>>

CapNext ==
  \/ \E r \in Requests : Look(r)
  \/ Submit \/ SyncDeclaredServices
  \/ \E files \in Repositories : ChangeRepository(files)
  \/ \E next \in Setups : Reconfigure(next)
  \/ \E n \in CapNodes : NodeReports(n) \/ OtherTask(n)

CapSpec == CapInit /\ [][CapNext]_<<capVars, metaVars>>

-----------------------------------------------------------------------------
Decided == reply # Nothing
InForce == table = DeclaredInstances(DiscoverServices)

\* Whatever was shown and whatever changed since, a task is admitted only for
\* a node that can take it: configured, enabled and online unless the
\* controller runs it (docker prune asks for online alone), where the service
\* is declared or has been, in a type the agent can be told.
AdmittedIsExecutable ==
  Decided => \A t \in reply.answer.tasks :
    /\ t.node # "" => /\ t.type \in AgentTypes => t.node \in online
                      /\ t.type # "prune" => t.node \in nodeSet \ setup.disabled
    /\ t.service # "" /\ t.node # "" => <<t.service, t.node>> \in rows
    /\ t.type \in AgentTypes <=> t.type \notin ControllerTypes
    /\ t.type \in AgentTypes => protoAgentTaskType(t.type) # <<"unspecified">>
    /\ taskTypesFromProto({protoTaskType(t.type)}) = {t.type}

\* What is shown as enabled is accepted when it is requested before anything
\* changes, for all of the service's nodes.  The checks disagree where rustic
\* is not declared on a node of the service, where a node of a DNS update is
\* disabled, where Caddy or rustic itself has no row on the node, while other
\* tasks are active, and in a folder whose service a broken file claims too.
EnabledIsAccepted ==
  Decided /\ reply.fresh /\ reply.reason = "" /\ busyAt = {} /\ InForce
    /\ (reply.request.rpc = "RunServiceAction" => reply.request.nodes = {})
    /\ reply.request.rpc \notin {"MigrateService", "RestoreBackup"} =>
  \/ reply.answer.code = ""
  \/ reply.answer.code = "not_found" /\ \E p \in Decoded : metas[p].name = Web /\ ~Valid(p)
  \/ /\ reply.request.action = "backup"
     /\ ~(Range(FindService(Web).nodes) \subseteq Range(FindRusticInfraService.nodes))
  \/ reply.request.action = "dns_update" /\ Range(FindService(Web).nodes) \cap setup.disabled # {}
  \/ reply.request.rpc = "ReloadNodeCaddy" /\ <<FindCaddyInfraService.name, TheNode(reply.request)>> \notin rows
  \/ /\ reply.request.rpc = "Rustic"
     /\ \E n \in Range(FindRusticInfraService.nodes) : <<FindRusticInfraService.name, n>> \notin rows

\* What is shown as disabled is refused, except: a migration without data or
\* without rustic, a restore without rustic, a DNS or tunnel section without
\* credentials, a full rebuild or a subset of the service's nodes, and a
\* service that is valid but claimed twice or not yet in the table.
DisabledIsRefused ==
  Decided /\ reply.fresh /\ reply.reason \notin {"", "none", "service_not_declared"}
    /\ (reply.request.rpc = "RunServiceAction" => reply.request.nodes = {}) =>
  \/ reply.answer.tasks = {}
  \/ reply.request.rpc = "MigrateService" /\ reply.reason \in {"missing_backup_integration", "missing_migrate_definition"}
  \/ reply.request.rpc = "RestoreBackup" /\ reply.reason = "missing_backup_integration"
  \/ reply.request.action = "dns_update" /\ setup.dns = "empty"
  \/ reply.request.action = "cloudflare_tunnel_sync" /\ setup.tunnel = "empty"

\* The folder's view and the service's view of one valid service agree.
ViewsAgree ==
  InForce => \A p \in TopPlaces :
    FindService(Web) # NoService_ /\ FindService(Web).at = p => buildServiceWorkspaceSummary(p) = GetService

\* A request dies in the handler only for a restore of a service that has
\* given up its data protection.
OnlyRestoreDies ==
  Decided /\ reply.answer.code = "panic" => reply.request.rpc = "RestoreBackup" /\ FindService(Web).meta.data = <<>>

\* What users are shown and what the controller admits fit together, up to
\* the exceptions named above (capabilities.go against task_admission.go).
CapabilitiesAreHonest ==
  AdmittedIsExecutable /\ EnabledIsAccepted /\ DisabledIsRefused /\ ViewsAgree /\ OnlyRestoreDies
=============================================================================
