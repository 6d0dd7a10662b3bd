\* Two callers that may use two requests in turn, each once with a callback, two
\* pool threads, answers lost, late, or repeated by a retry.
SPECIFICATION Spec
CONSTANTS
    Callers = {c1, c2}
    Workers = {w1, w2}
    Requests = {r1, r2}
    NoRequest = NoRequest
    Topic = Topic
    Wait = 2
    MaxCopies = 1
    MaxInbox <- OnePerRequest
    MaxRegistrations <- OnePerRequest
SYMMETRY Symmetry
INVARIANTS
    AwaitedIsRegistered
    NoSyncResidue
    NoLostWakeup
    WaitBelowTwiceTimeout
