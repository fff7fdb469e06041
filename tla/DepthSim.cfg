SPECIFICATION Spec
CONSTANTS
  MaxDepth = 2
  Trials = 5
  WorkersArg = 2
  Draws <- MCDraws
INVARIANTS
  EstimateExact
  FirstLead
PROPERTIES
  Terminates
