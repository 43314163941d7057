SPECIFICATION Spec
CONSTANTS
    s1 = s1  s2 = s2  operator = operator
    p1 = p1  p2 = p2  p3 = p3  v1 = v1  v2 = v2
    chunk = chunk  link = link  None = None
    Server = {s1, s2}
    Caller = {s1, s2, operator}
    Version = {v1, v2}
    Key = {chunk, link}
    Push = {p1, p2, p3}
    Manifest <- MCManifests
    Request <- MCRequest
    MaxAttempts = 2
    MaxErrors = 1
    MaxCrashes = 1
CONSTRAINTS MCKeysFirst MCFaults MCLateDelete MCRefusedAlone
SYMMETRY MCSymmetry
CHECK_DEADLOCK FALSE
INVARIANTS TypeOK CountsExact KeysAgree AckedIsCounted LatestSettles
PROPERTY CountsImplementCounter
