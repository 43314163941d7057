SPECIFICATION FairSpec
CONSTANTS
    task = task  endless = endless  disconnect = disconnect  bad = bad  None = None
    Request = {task, endless, disconnect, bad}
    Kind <- MCKind
    MaxRequests = 2
    MaxTicks = 1
    MaxRetries = 2
    MaxConns = 2
    MaxSends = 2
    MaxRestores = 1
CHECK_DEADLOCK FALSE
INVARIANTS TypeOK AnswersInOrder RunsAreAskedFor
PROPERTIES OnlyMishapsKill RequestsAnswered HookRuns
