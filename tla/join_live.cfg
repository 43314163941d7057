SPECIFICATION FairSpec
CONSTANTS
  a = a
  b = b
  c = c
  s1 = s1
  Task = {a, b, c}
  Deps <- JoinDeps
  Server = {s1}
  MaxRetries = 2
  MaxCancels = 0
  MaxCrashes = 0
  MaxErrors = 0
  Concurrency = 1
INVARIANTS DispatchesArePaidFor
PROPERTIES ReplyOrStranded
CHECK_DEADLOCK FALSE
