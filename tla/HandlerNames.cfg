SPECIFICATION Spec
CONSTANTS
  None = None
  MaxEntries = 2
  Goroutines = {g1, g2}
  Requests <- TwoNames
  Documents <- MCDocuments
  Roots = {"query"}
  Configs = {"LRU"}
CHECK_DEADLOCK FALSE
INVARIANTS AnsweredAsAsked
