CONSTANTS
  Tasks <- MCTasks
  Services = {"web"}
  Nodes = {"alpha"}
  StepNames = {}
  ExecutionIDs = {e1, e2, e3}
  Summaries = {"", "error", "restarted", "timeout", "operator"}
  TypeOf <- MCTypeOf
  ServiceOf <- MCServiceOf
  NodeOf <- MCNodeOf
  DedupeKeyOf <- MCDedupeKeyOf
  QueueKey <- MCQueueKey
  Declared <- MCDeclared
  DataOf <- MCDataOf
  MaxFaults = 2
  MaxStray = 2
  NoService = "noservice"
  NoNode = "nonode"
  NoKey = "nokey"
  NoExecution = "noexecution"
  None = None
  WorkServices = {"web","edge"}
  DataService = "web"
  DataItems = {"files", "db"}
  StrategyOf <- MCStrategyOf
  Shapes <- MCShapes
  WorkTypes = {"deploy", "update", "stop", "restart", "backup", "restore", "caddy_sync",
               "image_check", "rustic_forget", "prune", "docker_stop",
               "docker_start", "docker_remove_container", "docker_remove_volume"}
  MaxRevision = 2
  MaxWork = 2
  MaxWrites = 2
  MaxWorkFaults = 1
  ImageNodes = {1,2}
  UpdateOptions <- MCUpdateOptions
  MaxBatches = 2
  MaxVersion = 2
  MaxUserWrites = 1
  MaxImageFaults = 1
  Policies <- MCPolicies
  Registries <- MCRegistries
  ReleaseSets <- MCReleaseSets
  ForgeAuths <- MCForgeAuths
  TagChanges <- MCTagChanges
  FirstFiles <- MCFiles
  TagsPageSize = 3
  MaxTagChanges = 1
  MaxDiscoveryFaults = 1
SPECIFICATION MCSpec
CHECK_DEADLOCK FALSE
INVARIANTS
  SuccessHasEveryBackup AgentWorkIsSound UpdatesAreSound DiscoveryIsSound
