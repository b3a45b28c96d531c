SPECIFICATION FairSpec
CONSTANTS
  A = A
  B = B
  C = C
  None = None
  Goroutines = {g1, g2, g3}
  Defs = {A, B, C}
  Graphs <- MCGraphs
  Flaws <- MCFlaws
CHECK_DEADLOCK FALSE
PROPERTIES NewTypeReturns
