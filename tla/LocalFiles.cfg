SPECIFICATION Spec
CONSTANTS
  p1 = p1
  p2 = p2
  i1 = i1
  i2 = i2
  Absent = Absent
  Open = Open
  Void = Void
  Torn = Torn
  Processes <- MCProcesses
  Ids <- MCIds
  Files <- MCFiles
CONSTRAINT FactsUndisturbed
SYMMETRY Symmetry
INVARIANTS TypeOK CallsDurable SuccessorKept
