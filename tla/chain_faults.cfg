SPECIFICATION Spec
CONSTANTS
  a = a
  b = b
  c = c
  s1 = s1
  Task = {a, b}
  Deps <- ChainDeps
  Server = {s1}
  MaxRetries = 2
  MaxCancels = 1
  MaxCrashes = 1
  MaxErrors = 1
  Concurrency = 1
CONSTRAINT FewDispatches
INVARIANTS TypeOK DependenciesRespected CompletedReplyIsTrue ProducedInv QuietMeansAnswered
PROPERTIES ImplementsContract
CHECK_DEADLOCK FALSE
