SPECIFICATION FairSpec
CONSTANTS
  Tasks <- MCTasks
  Services = {"web"}
  Nodes = {"alpha"}
  StepNames = {}
  ExecutionIDs = {e1, e2, e3, e4}
  Summaries = {"", "error", "restarted", "timeout", "operator"}
  TypeOf <- MCTypeOf
  ServiceOf <- MCServiceOf
  NodeOf <- MCNodeOf
  DedupeKeyOf <- MCDedupeKeyOf
  QueueKey <- MCQueueKey
  Declared <- MCDeclared
  DataOf <- MCDataOf
  MaxFaults = 2
  MaxStray = 1
  NoService = "noservice"
  NoNode = "nonode"
  NoKey = "nokey"
  NoExecution = "noexecution"
  None = None
PROPERTIES
  TasksEnd
  AgentGoesOn
