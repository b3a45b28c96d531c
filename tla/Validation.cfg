CONSTANTS
  Schema <- MCSchema
  Frames <- MCFrames
  MaxDepth = 3
  MaxInt32 = 1
  MaxFloat64 = 1
SPECIFICATION Spec
CHECK_DEADLOCK FALSE
INVARIANTS
  FragmentsJudged
  VariablesJudged
  ConflictsFound
  LiteralsJudged
