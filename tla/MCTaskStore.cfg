SPECIFICATION MCSpec
CONSTANTS
  Tasks <- MCTasks
  Services = {"web"}
  Nodes = {"alpha", "beta"}
  StepNames = {"render"}
  ExecutionIDs = {"e1", "e2"}
  Summaries = {""}
  TypeOf <- MCTypeOf
  ServiceOf <- MCServiceOf
  NodeOf <- MCNodeOf
  DedupeKeyOf <- MCDedupeKeyOf
  QueueKey <- MCQueueKey
  Declared <- MCDeclared
  Editors = {e1, e2}
  Edits <- MCEdits
  FirstContent <- MCFirstContent
  HandContents <- MCHandContents
  MaxHand = 1
  MaxReloads = 1
  MaxUpdates = 2
  MaxConfigFaults = 1
  FirstDatabases <- MCDatabases
  SupportedTypes <- MCSupportedTypes
  MaxUpgradeFaults = 1
  TargetNodes = {1,2}
  RusticNodes = {2,3}
  Images = {"i"}
  Schedules <- MCSchedules
  MaxMinutes = 1
  MaxPasses = 2
  MaxDisturbances = 3
  NoService = "noservice"
  NoNode = "nonode"
  NoKey = "nokey"
  NoExecution = "noexecution"
INVARIANTS
  TypeOK
  ExecutionColumnsAgree
  
  OutboxHoldsCompletedExecutions
  AggregateIsFresh
  ConfigIsSafe
  UpgradesAreSafe
PROPERTIES
  AcceptedNeverRequeued
  TerminalIsFinal
  ScheduleIsKept
CHECK_DEADLOCK FALSE
