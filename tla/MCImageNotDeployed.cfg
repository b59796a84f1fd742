CONSTANTS
  ImageNodes = {1}
  UpdateOptions <- MCUpdateOptions
  MaxBatches = 1
  MaxVersion = 2
  MaxUserWrites = 0
  MaxImageFaults = 1
SPECIFICATION ImageSpec
CHECK_DEADLOCK FALSE
INVARIANT CommittedUpdatesAreDeployed
