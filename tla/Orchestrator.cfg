SPECIFICATION Spec
CONSTANTS
  Datasets <- MCSeeds
  Blank = ""
  Seeds = 3
  Workers = 2
  Rows = 1
INVARIANTS
  BoundedConcurrency
  NoSendOnClosed
  ExitTellsAll
  OkMeansWhole
PROPERTIES
  Finishes
