CONSTANTS
  Items <- MCItems
  Batches <- MCBatches
  Requests <- MCRequests
  Arms = {"random_context"}
  Capacity = 2
  MaxItems = 2
  MaxCalls = 5
  Generators <- MCGenerators
  Seed = 0
  Shuffle <- MCShuffle
SPECIFICATION Spec
INVARIANT SameAsUncached
CHECK_DEADLOCK FALSE
