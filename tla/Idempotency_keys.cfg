SPECIFICATION Spec
CONSTANTS
    a = a
    b = b
    c = c
    p = p
    q = q
    same = same
    other = other
    NoRequest = NoRequest
    Request = {a, b, c}
    Payload = {same, other}
    PayloadOf <- TwoPayloads
    Process = {p, q}
    ProcessOf <- TwoProcesses
    MaxFaults = 2
INVARIANTS
    TypeOK
    ReplayIsFaithful
    WorkersBounded
    LinksBounded
    RetryIsSafe
PROPERTY ImplementsApi
CHECK_DEADLOCK FALSE
