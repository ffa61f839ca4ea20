SPECIFICATION Spec
CONSTANTS
  t1 = t1
  t2 = t2
  e1 = e1
  e2 = e2
  v1 = v1
  v2 = v2
  None = None
  Threads <- MCThreads
  Ids <- MCIds
  Versions <- MCVersions
  Expiring <- MCExpiring
  Flaws <- MCFlaws
CONSTRAINT OneUnspoiled
SYMMETRY Symmetry
INVARIANTS EpisodesKept QuietMeansCommitted
