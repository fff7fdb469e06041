CONSTANTS
  Raised = Raised
  None = None
  Infinity = Infinity
  Calls <- MCCalls
  Responses <- MCResponses
  BriefLayer = 2
  Prices <- MCPrices
  Rates <- MCRates
SPECIFICATION Spec
INVARIANTS CallsAccounted TournamentBalances
PROPERTY SweepEnds
CHECK_DEADLOCK FALSE
