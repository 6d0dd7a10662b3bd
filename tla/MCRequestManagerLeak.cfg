\* An async_request whose send fails.
SPECIFICATION Spec
CONSTANTS
    Callers = {c1, c2}
    Workers = {w1, w2}
    Requests = {r1, r2}
    NoRequest = NoRequest
    Topic = Topic
    Wait = 2
    MaxCopies = 1
    MaxInbox <- OnePerRequest
    MaxRegistrations <- OnePerRequest
INVARIANTS
    FailedSendUnregisters
