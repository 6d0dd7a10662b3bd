------------------------- MODULE MCClientConnection -------------------------
EXTENDS ClientConnection, TLC
\* No retry, or the default: no end of them.
RetrySettings == {0, Forever}

\* The client after a first connect(): the bounds are spent on what comes then.
Settled ==
    /\ connected = TRUE /\ thread = NoThread /\ terminate = FALSE
    /\ subs = {ReplyTopic} /\ destroyer = NoThread /\ destroyed = FALSE
    /\ connLock = NoThread /\ subsLock = NoThread /\ ackLock = NoThread
    /\ pc = [t \in Threads |-> "idle"]
    /\ todo = [t \in Threads |-> {}] /\ snap = [t \in Leavers |-> {}]
    /\ retries = [k \in Conns |-> 0]
    /\ sock = "up" /\ asked = {ReplyTopic} /\ leaving = FALSE /\ bye = FALSE
    /\ loop = "running" /\ loopStop = FALSE
    /\ calls = 0 /\ opens = 0 /\ swept = FALSE /\ closer = NoThread
SettledSpec == Settled /\ [][Next]_vars
FairSettledSpec == SettledSpec /\ Fairness
Symmetry == Permutations(Apps)
=============================================================================
