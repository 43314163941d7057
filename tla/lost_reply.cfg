SPECIFICATION FairSpec
CONSTANTS
  a = a
  b = b
  c = c
  s1 = s1
  Task = {a}
  Deps <- LoneDeps
  Server = {s1}
  MaxRetries = 1
  MaxCancels = 0
  MaxCrashes = 0
  MaxErrors = 0
  Concurrency = 2
PROPERTIES EventuallyReplied
CHECK_DEADLOCK FALSE
