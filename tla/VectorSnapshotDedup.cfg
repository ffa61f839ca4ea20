SPECIFICATION OrderlySpec
CONSTANTS
  i1 = i1
  i2 = i2
  i3 = i3
  t1 = t1
  t2 = t2
  None = None
  Torn = Torn
  Ids <- MCIds
  Texts <- MCTexts
  TextsOf <- MCTextsOf
  Times <- MCTimes
  MaxElements = 2
  MaxKills = 1
INVARIANTS StoredTextIsKnown
