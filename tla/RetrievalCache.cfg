CONSTANTS
  Items <- MCItems
  Batches <- MCBatches
  Requests <- MCRequests
  Arms = {"bm25", "brief_graph", "random_context"}
  Capacity = 2
  MaxItems = 2
  MaxCalls = 5
  Generators <- MCGenerators
  Seed = 0
  Shuffle <- MCShuffle
SPECIFICATION Spec
INVARIANTS TypeOK CacheCoherent LruResident
PROPERTY ImplementsArm
CHECK_DEADLOCK FALSE
