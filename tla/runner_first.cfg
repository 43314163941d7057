SPECIFICATION Spec
CONSTANTS
    plane = plane  process = process  wasm = wasm  second = second  sdk = sdk
    here = here  there = there  None = None
    Process = {plane, process, wasm, sdk}
    Role <- MCRole
    Name = {here, there}
    NameOf <- MCNameOf
    Runtimes <- MCRuntimes
    MaxFaults = 0
CHECK_DEADLOCK FALSE
INVARIANT ControlPlaneCarriesTasks
