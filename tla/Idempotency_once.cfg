SPECIFICATION Spec
CONSTANTS
    a = a
    b = b
    c = c
    p = p
    q = q
    same = same
    other = other
    NoRequest = NoRequest
    Request = {a, b, c}
    Payload = {same, other}
    PayloadOf <- TwoPayloads
    Process = {p, q}
    ProcessOf <- TwoProcesses
    MaxFaults = 0
INVARIANT OneLinkPerKey
CHECK_DEADLOCK FALSE
