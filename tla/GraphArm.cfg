CONSTANTS
  Corpora <- MCCorpora
  Queries = {q1, q2}
  Configs <- MCConfigs
  UseDecay = TRUE
  RestoreThreshold = 5
  PruneBelow = 16
  Unit = 64
  MaxItems = 4
  MaxTick = 4
SPECIFICATION Spec
INVARIANTS StableAnswers FadesUnused
PROPERTY GraphBuiltOnce
CHECK_DEADLOCK FALSE
