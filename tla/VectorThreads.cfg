SPECIFICATION ThreadsSpec
CONSTANTS
  i1 = i1
  i2 = i2
  i3 = i3
  i4 = i4
  t1 = t1
  t2 = t2
  p1 = p1
  p2 = p2
  None = None
  Ids <- MCIds
  Texts <- MCTexts
  TextsOf <- MCTextsOf
  Times <- MCTimes
  Threads <- MCTwoThreads
  MaxElements = 2
SYMMETRY Symmetry
INVARIANTS CapacityOvershoot  AnomaliesNeedRace
