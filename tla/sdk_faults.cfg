SPECIFICATION Spec
CONSTANTS
  a = a
  b = b
  s1 = s1
  s2 = s2
  Task = {a, b}
  Deps <- ChainDeps
  Server = {s1}
  MaxRetries = 2
  MaxCancels = 1
  MaxCrashes = 1
  MaxErrors = 1
  Concurrency = 2
CONSTRAINT FewDispatches
INVARIANTS CauseInv QuietMeansAnswered
PROPERTIES ImplementsContract
CHECK_DEADLOCK FALSE
