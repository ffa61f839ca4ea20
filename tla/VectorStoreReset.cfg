SPECIFICATION ServerSpec
CONSTANTS
  i1 = i1
  i2 = i2
  i3 = i3
  i4 = i4
  t1 = t1
  t2 = t2
  t3 = t3
  None = None
  Ids <- MCIds
  Texts <- MCTexts
  TextsOf <- MCTextsOf
  Times <- MCTimes
  MaxElements = 2
INVARIANTS NoLookupFailure
