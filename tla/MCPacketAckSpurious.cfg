\* A subscriber and a disconnect wait at once, one is acknowledged.
SPECIFICATION FairSpec
CONSTANTS
    Lockers = {s1}
    Leavers = {d1}
    NoThread = NoThread
    MaxWait = 2
    MaxMid = 3
INVARIANTS
    RaiseMeansTimeout
CHECK_DEADLOCK FALSE
