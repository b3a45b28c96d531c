CONSTANTS
  Frames <- MCFrames
  MaxChars = 5
SPECIFICATION Spec
CHECK_DEADLOCK FALSE
INVARIANTS
  LexesLongest
  StringsSurvivePrinting
