CONSTANTS
  ExperimentalFragmentVariables = TRUE
  Frames <- MCFrames
  MaxTokens = 5
SPECIFICATION Spec
CHECK_DEADLOCK FALSE
INVARIANTS
  AcceptsGrammar
  RangesExact
  PrintReparses
  VisitsInOrder
