SPECIFICATION Spec
CONSTANTS
  s1 = s1
  s2 = s2
  Scan = {s1, s2}
  Process = {p1, p2}
  Observed <- MCObserved
  Reported <- MCReported
  Clues <- MCClues
  TypeOrder <- MCTypeOrder
  MaxCommands = 2
  MaxImports = 1
SYMMETRY Symmetric
INVARIANTS GraphSound AnalysisSettles DriftExact
CHECK_DEADLOCK FALSE
