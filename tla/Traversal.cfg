CONSTANTS
  a = a
  b = b
  c = c
  d = d
  absent = absent
  Graphs <- MCGraphs
  Starts <- MCStarts
  Limits <- MCLimits
SPECIFICATION Spec
INVARIANTS BreadthFirst ComputesWalk
PROPERTY Terminates
CHECK_DEADLOCK FALSE
