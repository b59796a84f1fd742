SPECIFICATION MCSpec
CONSTANTS
  Tasks <- MCTasks
  Services = {"web"}
  Nodes = {"alpha", "beta"}
  StepNames = {}
  ExecutionIDs = {"e1"}
  Summaries = {""}
  TypeOf <- MCTypeOf
  ServiceOf <- MCServiceOf
  NodeOf <- MCNodeOf
  DedupeKeyOf <- MCDedupeKeyOf
  QueueKey <- MCQueueKey
  Declared <- MCDeclared
  NoService = "noservice"
  NoNode = "nonode"
  NoKey = "nokey"
  NoExecution = "noexecution"
  TopPlaces = {"a", "b"}
  NestedIn <- MCNested
  MetaChoices <- MCMetaChoices
  NodeChoices = {{"n1"}, {"n1", "n2"}}
  MaxMetaWrites = 3
  Repositories <- MCRepositories
  Setups <- MCSetups
  MaxCapChanges = 1
INVARIANTS
  
  
  ActiveTasksExclusive
  
PROPERTIES
  ImplementsLifecycle
CHECK_DEADLOCK FALSE
