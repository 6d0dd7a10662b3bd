CONSTANTS
  Apps = {a1, a2}
  Timers = {m1, m2}
  Conn = conn
  NoThread = NoThread
  NoService = NoService
  s1 = s1
  s2 = s2
  t1 = t1
  t2 = t2
  Services = {s1, s2}
  Topics = {t1, t2}
  TopicsOf <- MCTopicsOf
  MaxCalls = 2
  MaxLosses = 1
SPECIFICATION FairSpec
INVARIANTS
  UnregisteredStays
  KnownIsServed
  RemovalIsComplete
  ReachesService
  KeepsTimer

  
CHECK_DEADLOCK FALSE
