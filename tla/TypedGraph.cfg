CONSTANTS
  Ids = {n1, n2}
  Types = {t1, t2}
  MaxEdges = 3
SPECIFICATION StoreSpec
INVARIANTS StoreTypeOK NoDanglingEdge IndexAgrees
