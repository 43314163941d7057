SPECIFICATION FairSpec
CONSTANTS
    n1 = n1  n2 = n2  a = a  b = b  c = c  t1 = t1  t2 = t2  v1 = v1  v2 = v2
    module = module  script = script
    wasm = wasm  process = process  image = image
    AnyNode = AnyNode  None = None
    Node = {n1, n2}
    Runner = {a, b, c}
    Runtime = {wasm, process}
    Wasm = wasm
    Version = {v1, v2}
    Manifest = {module, script}
    Layer = {image}
    Task = {t1, t2}
    Looping = {t2}
    NodeOf <- MCNodeOf
    Serves <- MCServes
    Content <- MCContent
    Push <- MCPush
    Uses <- MCUses
    RunnersCover = FALSE
    Concurrency = 2
    MaxRetries = 2
    MaxStops = 1
CONSTRAINT OneCause
CHECK_DEADLOCK FALSE
INVARIANTS TypeOK OutputOfItsRef NoExecutorExplained InterruptsFollowTimeouts
PROPERTIES ServedTasksEnd
