\* Two callers, two pool threads and three requests, one of which is answered
\* twice and may be registered twice; see PartSpec.
SPECIFICATION PartSpec
CONSTANTS
    Callers = {c1, c2}
    Workers = {w1, w2}
    Requests = {r1, r2, r3}
    NoRequest = NoRequest
    Topic = Topic
    Wait = 1
    MaxCopies = 2
    MaxInbox <- AnsweredTwice
    MaxRegistrations <- RegisteredTwice
INVARIANTS
    CallbackAtMostOnce
PROPERTIES
    ImplementsCalls
    SyncRequestReturns
    AnsweredCallbackRuns
