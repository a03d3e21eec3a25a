CONSTANTS
  Fields = {"f", "g", "h", "b"}
  Values = {0, 1}
  BitFields = {"b"}
  Buckets = {"p"}
  MaxTokens = 2
  Cse = TRUE
  MaxSize = 3
  Sources <- Supported
SPECIFICATION Spec
INVARIANT Preserved
INVARIANT Canonical
CHECK_DEADLOCK FALSE
