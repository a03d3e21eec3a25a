\* What follows an alternative that is negated.
CONSTANTS
  Fields = {"f", "g"}
  Values = {0, 1}
  BitFields = {}
  Buckets = {"p"}
  MaxTokens = 1
  Cse = TRUE
  MaxSize = 3
  Sources <- NegatedThenMetered
SPECIFICATION Spec
INVARIANT Compiled
CHECK_DEADLOCK FALSE
