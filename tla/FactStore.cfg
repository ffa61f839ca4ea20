SPECIFICATION Spec
CONSTANTS
  a = a
  b = b
  c = c
  s = s
  S = S
  p = p
  x = x
  X = X
  y = y
  None = None
  Ids <- MCIds
  Subjects <- MCSubjects
  Predicates <- MCPredicates
  Objects <- MCObjects
  Claims <- MCClaims
  Times <- MCTimes
  Nows <- MCNows
  Canon <- MCCanon
SYMMETRY Symmetry
INVARIANTS TypeOK OneEdgePerId  EnginesAgree
PROPERTIES ImplementsFactMap SupersedeKeepsPeace
