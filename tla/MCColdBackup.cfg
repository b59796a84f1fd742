CONSTANTS
  WorkServices = {"web","edge"}
  DataService = "web"
  DataItems = {"files"}
  StrategyOf <- MCStrategyOf
  Shapes <- MCOtherName
  WorkTypes = {"deploy","backup"}
  MaxRevision = 2
  MaxWork = 1
  MaxWrites = 2
  MaxWorkFaults = 0
SPECIFICATION WorkSpec
CHECK_DEADLOCK FALSE
INVARIANT ColdBackupsAreConsistent
