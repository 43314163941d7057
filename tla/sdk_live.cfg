SPECIFICATION FairSpec
CONSTANTS
  a = a
  b = b
  s1 = s1
  s2 = s2
  Task = {a, b}
  Deps <- PairDeps
  Server = {s1}
  MaxRetries = 2
  MaxCancels = 0
  MaxCrashes = 0
  MaxErrors = 0
  Concurrency = 1
PROPERTIES ReplyOrStranded
CHECK_DEADLOCK FALSE
