SPECIFICATION RememberSpec
CONSTANTS
  r1 = r1
  r2 = r2
  a = a
  b = b
  s = s
  t = t
  x = x
  y = y
  None = None
  Ids <- MCIds
  Slots <- MCSlots
  Values <- MCValues
  Texts <- MCTexts
  Requests <- TwoRequests
  Batches <- MCBatches
  Modes <- AllModes
  DryRuns <- Both
  Workers = 2
  HasDecisionRepo = TRUE
  DbFails = FALSE
SYMMETRY Symmetry
CHECK_DEADLOCK FALSE
INVARIANTS RememberTypeOK AnomaliesNeedOverlap  RecordTellsStore LossExplained ReviewsTraceable
