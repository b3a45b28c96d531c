SPECIFICATION Spec
CONSTANTS
  None = None
  MaxEntries = 2
  Goroutines = {g1, g2, g3}
  Requests <- MCRequests
  Documents <- MCDocuments
  Roots = {"query"}
  Configs = {"LRU"}
CHECK_DEADLOCK FALSE
INVARIANTS AnsweredOwnQuery
