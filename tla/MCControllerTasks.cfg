CONSTANTS
  Source = "alpha"
  Target = "beta"
  HasData = TRUE
  MovesDNS = TRUE
  MovesCaddy = TRUE
  Clients = {c1, c2}
  RollbackChoices = {{"compose_up"}, {"dns_update", "compose_up", "compose_down"}}
  MaxUserTasks = 1
  MaxRollbacks = 1
  MaxRestarts = 1
  MaxChunks = 2
  MaxBreaks = 2
  MaxFaults = 1
  MaxRestores = 1
SPECIFICATION MCSpec
CHECK_DEADLOCK FALSE
INVARIANTS
  MigrationIsSafe
PROPERTIES
  ControllerTasksEnd LogsAreFaithfulAndEnd
