CONSTANTS
  Places = {p1, p2, p3, p4}
  NumOfIterations = 3
SPECIFICATION FairSpec
CHECK_DEADLOCK FALSE
INVARIANTS TurnsAreOwed ErrorsShow  FailureIsKnown
PROPERTIES Ends
