CONSTANTS
  Apps = {a1}
  Conns = {k1, k2, k3}
  Ups = {u1}
  Downs = {d1, d2}
  NoThread = NoThread
  Topics = {reply, t1}
  ReplyTopic = reply
  Retries <- RetrySettings
  Reconnect = TRUE
  MaxCalls = 1
  MaxOpens = 1
SPECIFICATION FairSettledSpec
INVARIANTS
  SubscriptionsRenewed
  QuietAfterDisconnect

  
CHECK_DEADLOCK FALSE
