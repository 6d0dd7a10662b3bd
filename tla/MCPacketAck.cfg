\* Two subscribers and a disconnect, four packets in all.  The model stops when
\* the packets are used up.
SPECIFICATION FairSpec
CONSTANTS
    Lockers = {s1, s2}
    Leavers = {d1}
    NoThread = NoThread
    MaxWait = 2
    MaxMid = 4
INVARIANTS
    SleeperAwaits
    AwaitedIsOwned
    ReturnMeansAcked
PROPERTIES
    WaitEnds
CHECK_DEADLOCK FALSE
