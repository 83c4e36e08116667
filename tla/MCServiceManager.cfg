CONSTANTS
  Ids = {a, b, c}
  None = None
  MaxDeps = 2
  MaxAliases = 2
  Throws = TRUE
SPECIFICATION FairSpec
INVARIANTS LoadingIsRunning AnswersRight ExistsIfReturned
PROPERTIES MadeInOrder CallsReturn
