CONSTANTS
  Apps = {a1}
  Timers = {m1, m2}
  Conn = conn
  NoThread = NoThread
  NoService = NoService
  s1 = s1
  s2 = s2
  t1 = t1
  t2 = t2
  Services = {s1, s2}
  Topics = {t1, t2}
  TopicsOf <- MCTopicsOf
  MaxCalls = 3
  MaxLosses = 1
SPECIFICATION Spec
INVARIANTS
  SharedTopicsServed
CHECK_DEADLOCK FALSE
