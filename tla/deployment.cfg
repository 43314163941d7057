SPECIFICATION FairSpec
CONSTANTS
    plane = plane  process = process  wasm = wasm  second = second  sdk = sdk
    here = here  there = there  None = None
    Process = {plane, process, wasm, second}
    Role <- MCRole
    Name = {here, there}
    NameOf <- MCNameOf
    Runtimes <- MCRuntimes
    MaxFaults = 1
CHECK_DEADLOCK FALSE
INVARIANTS TypeOK UpRunnersAreReached AdvertisedIsConsumed
PROPERTY AllComeUp
