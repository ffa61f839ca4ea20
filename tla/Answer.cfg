SPECIFICATION Spec
CONSTANTS
  r1 = r1
  r2 = r2
  None = None
  Requests <- TwoRequests
  Names <- MCNames
  Fold <- MCFold
  Graphs <- MCGraphs
  Queries <- MCQueries
  Asks <- MCAsks
  DefaultLimit = 13
SYMMETRY Symmetry
CHECK_DEADLOCK FALSE
INVARIANTS TypeOK LimitExplained   TwoHopsOnly
