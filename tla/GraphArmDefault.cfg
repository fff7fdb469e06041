CONSTANTS
  Corpora <- MCCorpora
  Queries = {q1, q2}
  Configs <- MCDefault
  UseDecay = TRUE
  RestoreThreshold = 5
  PruneBelow = 16
  Unit = 64
  MaxItems = 4
  MaxTick = 4
SPECIFICATION Spec
INVARIANT ReinforcesUsed
CHECK_DEADLOCK FALSE
