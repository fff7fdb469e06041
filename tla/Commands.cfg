CONSTANTS
  Tasks <- MCTasks
  Kind <- MCKind
  Prewritten <- MCPrewritten
  Missing = {"mem0"}
  NoBackend = {"open"}
  Flaky = {"live"}
  Requests <- MCRequests
  DefaultModel = "claude"
  AblationDatasets <- MCAblationDatasets
  AblationArms <- MCAblationArms
  MaxCommands = 2
SPECIFICATION CommandSpec
INVARIANTS Isolated CellsWhole YieldsWhatRuns FilesAgree
