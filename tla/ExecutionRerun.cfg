SPECIFICATION Spec
CONSTANTS
  r = r a = a b = b c = c d = d l = l e1 = e1 e2 = e2
  Nodes <- TheNodes
  Root = r
  Kids <- TheKids
  Shape <- TheShape
  NonNulls <- SomeNonNulls
  Answers <- SomeAnswers
  Chained = {c}
  MaxErrors = 2
INVARIANTS ReleasedUnused
CHECK_DEADLOCK FALSE
