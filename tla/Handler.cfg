SPECIFICATION FairSpec
CONSTANTS
  None = None
  MaxEntries = 1
  Goroutines = {g1, g2, g3}
  Requests <- MCRequests
  Documents <- MCDocuments
  Roots = {"query"}
  Configs = {"LRU", "Nop"}
CHECK_DEADLOCK FALSE
INVARIANTS MissAnsweredAsAsked
PROPERTIES AnsweredUnlessFull
