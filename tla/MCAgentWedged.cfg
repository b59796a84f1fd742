SPECIFICATION FairSpec
CONSTANTS
  Tasks <- MCTasks
  Services = {"web"}
  Nodes = {"alpha"}
  StepNames = {}
  ExecutionIDs = {e1, e2}
  Summaries = {"", "error", "restarted", "timeout", "operator"}
  TypeOf <- MCTypeOf
  ServiceOf <- MCServiceOf
  NodeOf <- MCNodeOf
  DedupeKeyOf <- MCDedupeKeyOf
  QueueKey <- MCQueueKey
  Declared <- MCDeclared
  DataOf <- MCDataOf
  MaxFaults = 1
  MaxStray = 1
  NoService = "noservice"
  NoNode = "nonode"
  NoKey = "nokey"
  NoExecution = "noexecution"
  None = None
PROPERTIES
  AgentGoesOn
