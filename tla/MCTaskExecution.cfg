SPECIFICATION Spec
CONSTANTS
  Tasks <- MCBackupTasks
  Services = {"web"}
  Nodes = {"alpha"}
  StepNames = {}
  ExecutionIDs = {e1, e2, e3, e4, e5}
  Summaries = {"", "error", "restarted", "timeout", "operator"}
  TypeOf <- MCBackupTypeOf
  ServiceOf <- MCBackupServiceOf
  NodeOf <- MCBackupNodeOf
  DedupeKeyOf <- MCBackupDedupeKeyOf
  QueueKey <- MCBackupQueueKey
  Declared <- MCDeclared
  DataOf <- MCBackupDataOf
  MaxFaults = 3
  MaxStray = 1
  NoService = "noservice"
  NoNode = "nonode"
  NoKey = "nokey"
  NoExecution = "noexecution"
  None = None
INVARIANTS
  ProtocolTypeOK
  RunsAtMostOnce
  OutcomeIsTheAgents
  DecisionIsDurable
  WorkIsFenced
  ArchivedIsRecorded
PROPERTIES
  ImplementsStore
