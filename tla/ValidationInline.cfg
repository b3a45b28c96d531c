CONSTANTS
  Schema <- MCSchema
  Frames <- MCInlines
  MaxDepth = 3
  MaxInt32 = 1
  MaxFloat64 = 1
SPECIFICATION Spec
CHECK_DEADLOCK FALSE
INVARIANTS
  ConflictsFoundAll
