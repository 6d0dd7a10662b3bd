\* Two producers against a queue of one, two workers, a disconnect and a
\* shutdown.  The pool may stop for good: closed, or with its workers lost.
SPECIFICATION FairSpec
CONSTANTS
    Producers = {p1, p2}
    Workers = {w1, w2}
    Waiters = {closer, other}
    Closer = closer
    Tasks = {t1, t2, t3}
    NoTask = NoTask
    Exit = Exit
    QueueSize = 1
INVARIANTS
    TasksCounted
PROPERTIES
    JoinIsQuiet
    AcceptedTaskRuns
    ShutdownReturns
CHECK_DEADLOCK FALSE
