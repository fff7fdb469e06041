CONSTANTS
  Raised = Raised
  None = None
  Infinity = Infinity
  Subjects <- MCSubjects
  Alphabet <- MCAlphabet
  Length <- MCLength
  Models <- MCModels
  DepthBound = 8
  SigLevels <- MCLevels
  Alpha <- MCAlpha
  Confidence <- MCConfidence
  NullMeans <- MCNullMeans
  Budgets <- MCBudgets
  Rates <- MCRates
  Decisions <- MCDecisions
  PlainNames = {"b"}
  Tasks <- MCTasks
  ArmNames <- MCArmNames
  BriefArms = {"brief"}
  Claude = {"claude"}
  Strippable = {"dcbench", "synthetic"}
  AblationDatasets = {"dcbench"}
  AblationCells <- MCCells
  Areas <- MCAreas
  Relations <- MCRelations
  Fillers = 1
SPECIFICATION StudySpec
INVARIANTS TheoryHolds TestsSound EstimatesSound RankingSound GradingSound DatasetsSound TablesSound
PROPERTY Settled
CHECK_DEADLOCK FALSE
