------------------------ MODULE ClientConnection_proofs ------------------------
(***************************************************************************)
(* Theorems about ClientConnection for any threads, topics and bounds: the *)
(* types, and that every subscription is renewed and a disconnect leaves   *)
(* nothing behind, whatever connections come and go and whatever threads   *)
(* of earlier connections are still about; and that the threads can block  *)
(* one another in one way only, which then lasts.                          *)
(***************************************************************************)
EXTENDS ClientConnection, TLAPS

USE ThreadsApart, Bounds, TopicsFinite

\* The Boolean part of TypeOK, which the provers take better by itself.
Flags == /\ connected \in BOOLEAN /\ terminate \in BOOLEAN
         /\ destroyed \in BOOLEAN /\ swept \in BOOLEAN
         /\ leaving \in BOOLEAN /\ bye \in BOOLEAN /\ loopStop \in BOOLEAN

LEMMA NewThreadStarts ==
    ASSUME NEW S, Unstarted(S) # {}
    PROVE  NewThread(S) \in S /\ pc[NewThread(S)] = "idle"
  BY DEF NewThread, Unstarted, At

LEMMA TypeInit == Init => TypeOK
  <1> SUFFICES ASSUME Init PROVE TypeOK
    OBVIOUS
  <1> USE DEF Init, Leavers, Threads
  <1>1. pc \in [Threads -> Labels]
    BY DEF Labels
  <1>2. ReplyTopic \in Topics
    BY DEF TopicsFinite
  <1>2a. retries \in [Conns -> Nat \cup {Forever}]
    OBVIOUS
  <1>2b. calls \in 0 .. MaxCalls /\ opens \in 0 .. MaxOpens
    OBVIOUS
  <1>3. QED
    BY <1>1, <1>2, <1>2a, <1>2b DEF TypeOK

LEMMA TypeConnect ==
    ASSUME TypeOK, NEW a \in Apps,
           \/ CallConnect(a) \/ ConnectCheck(a) \/ ThreadCheck(a)
           \/ StartThread(a) \/ JoinCheck(a) \/ ConnectJoin(a) \/ ConnectAwait(a)
    PROVE  TypeOK'
  <1> USE DEF Leavers, Threads, At, Goto, Free, client, locks, local, paho, ghost
  <1>0. {"idle", "connectCheck", "threadCheck", "startThread", "joinCheck",
         "connectJoin", "connectAwait", "clear"} \subseteq Labels
    BY DEF Labels, ConnectLabels
  <1>1. CASE CallConnect(a)
    BY <1>0, <1>1, SMTT(30) DEF CallConnect, Call, TypeOK
  <1>2. CASE ConnectCheck(a)
    BY <1>0, <1>2 DEF ConnectCheck, TypeOK
  <1>3. CASE ThreadCheck(a)
    BY <1>0, <1>3 DEF ThreadCheck, TypeOK
  <1>4. CASE StartThread(a)
    <2>1. PICK count \in Retries : StartConnectThread(a, "joinCheck", count)
      BY <1>4 DEF StartThread
    <2>2. NewThread(Conns) \in Conns /\ count \in Nat \cup {Forever}
      BY <2>1, NewThreadStarts DEF StartConnectThread
    <2>3. /\ thread' \in Conns /\ pc' \in [Threads -> Labels]
          /\ retries' \in [Conns -> Nat \cup {Forever}]
      BY <1>0, <2>1, <2>2, SMTT(30) DEF StartConnectThread, Start, TypeOK
    <2> QED
      BY <1>4, <2>3, SMTT(30) DEF StartThread, TypeOK
  <1>5. CASE JoinCheck(a)
    BY <1>0, <1>5 DEF JoinCheck, TypeOK
  <1>6. CASE ConnectJoin(a)
    BY <1>0, <1>6 DEF ConnectJoin, TypeOK
  <1>7. CASE ConnectAwait(a)
    BY <1>0, <1>7 DEF ConnectAwait, TypeOK
  <1> QED
    BY <1>1, <1>2, <1>3, <1>4, <1>5, <1>6, <1>7

LEMMA TypeSubscribe ==
    ASSUME TypeOK, NEW a \in Apps,
           \/ CallSubscribe(a, "subWait") \/ CallSubscribe(a, "unsubWait")
           \/ Subscribe(a) \/ SubscribeCheck(a) \/ SubscribeSend(a)
           \/ SubscribeEnd(a) \/ Unsubscribe(a) \/ UnsubscribeCheck(a)
           \/ UnsubscribeSend(a) \/ UnsubscribeEnd(a)
    PROVE  TypeOK'
  <1> USE DEF Leavers, Threads, At, Goto, Free, Return, AskBroker, AskBrokerNot,
              client, locks, local, paho, ghost
  <1>0. {"idle", "subWait", "subCheck", "subSend", "subAck", "unsubWait",
         "unsubCheck", "unsubSend", "unsubAck"} \subseteq Labels
    BY DEF Labels, SubscribeLabels, UnsubscribeLabels
  <1>1. CASE \/ CallSubscribe(a, "subWait") \/ CallSubscribe(a, "unsubWait")
    BY <1>0, <1>1, SMTT(30) DEF CallSubscribe, Call, TypeOK
  <1>2. CASE Subscribe(a)
    BY <1>0, <1>2, SMTT(30) DEF Subscribe, TypeOK
  <1>3. CASE SubscribeCheck(a)
    BY <1>0, <1>3, SMTT(30) DEF SubscribeCheck, TypeOK
  <1>4. CASE SubscribeSend(a)
    BY <1>0, <1>4, SMTT(30) DEF SubscribeSend, TypeOK
  <1>5. CASE SubscribeEnd(a)
    BY <1>0, <1>5, SMTT(30) DEF SubscribeEnd, TypeOK
  <1>6. CASE Unsubscribe(a)
    BY <1>0, <1>6, SMTT(30) DEF Unsubscribe, TypeOK
  <1>7. CASE UnsubscribeCheck(a)
    BY <1>0, <1>7, SMTT(30) DEF UnsubscribeCheck, TypeOK
  <1>8. CASE UnsubscribeSend(a)
    BY <1>0, <1>8, SMTT(30) DEF UnsubscribeSend, TypeOK
  <1>9. CASE UnsubscribeEnd(a)
    BY <1>0, <1>9, SMTT(30) DEF UnsubscribeEnd, TypeOK
  <1> QED
    BY <1>1, <1>2, <1>3, <1>4, <1>5, <1>6, <1>7, <1>8, <1>9

LEMMA TypeLeave ==
    ASSUME TypeOK,
           \/ \E a \in Apps : CallDisconnect(a) \/ CallDestroy(a) \/ Release(a)
           \/ \E t \in Leavers : LeaveStep(t) \/ PoolDone(t)
    PROVE  TypeOK'
  <1> USE DEF Leavers, Threads, At, Goto, Free, Forget, AskBrokerNot, Raise, Home,
              client, locks, local, paho, ghost
  <1>0. {"idle", "done", "poolWait", "sweepStart", "sweep", "sweepAck", "loopStop", "loopJoin",
         "clientDisconnect", "threadTest", "threadJoin", "leaveAwait",
         "release", "restart", "downClean"} \subseteq Labels
    BY DEF Labels, LeaveLabels
  <1>1. ASSUME NEW a \in Apps, CallDisconnect(a) \/ CallDestroy(a)
        PROVE  TypeOK'
    BY <1>0, <1>1, SMTT(30) DEF CallDisconnect, CallDestroy, Call, BeginLeave, TypeOK
  <1>2. ASSUME NEW a \in Apps, Release(a)
        PROVE  TypeOK'
    BY <1>0, <1>2, SMTT(30) DEF Release, TypeOK
  <1>3. ASSUME NEW t \in Leavers, PoolDone(t) \/ SweepStart(t) \/ SweepRaise(t)
        PROVE  TypeOK'
    BY <1>0, <1>3, SMTT(30) DEF PoolDone, SweepStart, SweepRaise, TypeOK
  <1>4. ASSUME NEW t \in Leavers, SweepTopic(t)
        PROVE  TypeOK'
    <2>1. Flags'
      BY <1>4, Zenon DEF SweepTopic, Flags, TypeOK
    <2> QED
      BY <1>0, <1>4, <2>1, SMTT(30) DEF SweepTopic, Flags, TypeOK
  <1>5. ASSUME NEW t \in Leavers, SweepAck(t) \/ SweepEnd(t)
        PROVE  TypeOK'
    BY <1>0, <1>5, SMTT(30) DEF SweepAck, SweepEnd, TypeOK
  <1>6. ASSUME NEW t \in Leavers, LoopStop(t) \/ LoopJoin(t)
        PROVE  TypeOK'
    <2>1. Flags'
      BY <1>6, Zenon DEF LoopStop, LoopJoin, Flags, TypeOK
    <2> QED
      BY <1>0, <1>6, <2>1, SMTT(30) DEF LoopStop, LoopJoin, Flags, TypeOK
  <1>7. ASSUME NEW t \in Leavers, ClientDisconnect(t)
        PROVE  TypeOK'
    <2>1. Unstarted(Downs) # {} => NewThread(Downs) \in Downs
      BY NewThreadStarts
    <2>2. Flags'
      BY <1>7, Zenon DEF ClientDisconnect, Start, Flags, TypeOK
    <2> QED
      BY <1>0, <1>7, <2>1, <2>2, SMTT(30) DEF ClientDisconnect, Start, Flags, TypeOK
  <1>8. ASSUME NEW t \in Leavers, ThreadTest(t) \/ ThreadJoin(t)
        PROVE  TypeOK'
    <2>1. Flags'
      BY <1>8, Zenon DEF ThreadTest, ThreadJoin, Flags, TypeOK
    <2> QED
      BY <1>0, <1>8, <2>1, SMTT(30) DEF ThreadTest, ThreadJoin, Flags, TypeOK
  <1>9. ASSUME NEW t \in Leavers, LeaveAwait(t)
        PROVE  TypeOK'
    <2>1. AfterLeave(t) \in Labels
      BY <1>0 DEF AfterLeave
    <2> QED
      BY <1>0, <1>9, <2>1, SMTT(30) DEF LeaveAwait, TypeOK
  <1> QED
    BY <1>1, <1>2, <1>3, <1>4, <1>5, <1>6, <1>7, <1>8, <1>9 DEF LeaveStep

LEMMA TypeCallbacks ==
    ASSUME TypeOK,
           (\E u \in Ups : UpStep(u)) \/ (\E d \in Downs : DownStep(d))
    PROVE  TypeOK'
  <1> USE DEF Leavers, Threads, At, Goto, Free, AskBroker,
              client, locks, local, paho, ghost
  <1>0. {"upLock", "upSubs", "upRenew", "done", "poolWait", "restart", "clear"}
        \subseteq Labels
    BY DEF Labels, LeaveLabels
  <1>1. ASSUME NEW u \in Ups, UpLock(u) \/ UpSubs(u)
        PROVE  TypeOK'
    <2>1. Flags'
      BY <1>1, Zenon DEF UpLock, UpSubs, Flags, TypeOK
    <2> QED
      BY <1>0, <1>1, <2>1, SMTT(30) DEF UpLock, UpSubs, Flags, TypeOK
  <1>2. ASSUME NEW u \in Ups, UpRenew(u) \/ UpEnd(u)
        PROVE  TypeOK'
    BY <1>0, <1>2, SMTT(30) DEF UpRenew, UpEnd, TypeOK
  <1>3. ASSUME NEW d \in Downs, DownLock(d)
        PROVE  TypeOK'
    <2>1. Flags'
      BY <1>3, Zenon DEF DownLock, Flags, TypeOK
    <2> QED
      BY <1>0, <1>3, <2>1, SMTT(30) DEF DownLock, Flags, TypeOK
  <1>4. ASSUME NEW d \in Downs, Restart(d)
        PROVE  TypeOK'
    <2>1. Unstarted(Conns) # {} => NewThread(Conns) \in Conns
      BY NewThreadStarts
    <2> QED
      BY <1>0, <1>4, <2>1, SMTT(30)
         DEF Restart, StartConnectThread, Start, TypeOK
  <1> QED
    BY <1>1, <1>2, <1>3, <1>4 DEF UpStep, DownStep

LEMMA TypeConn ==
    ASSUME TypeOK, NEW k \in Conns, ConnStep(k) \/ BrokersFound(k)
    PROVE  TypeOK'
  <1> USE DEF Leavers, Threads, At, Goto, Free, client, locks, local, paho, ghost
  <1>0. {"done", "connCheck", "brokerWait", "attempt", "delay", "launch"}
        \subseteq Labels
    BY DEF Labels
  <1>1. CASE ConnClear(k) \/ ConnCheck(k) \/ AttemptStops(k)
    <2>1. Flags'
      BY <1>1, Zenon DEF ConnClear, ConnCheck, AttemptStops, Flags, TypeOK
    <2> QED
      BY <1>0, <1>1, <2>1, SMTT(30) DEF ConnClear, ConnCheck, AttemptStops, Flags, TypeOK
  <1>2. CASE AttemptSucceeds(k)
    <2>1. Flags'
      BY <1>2, Zenon DEF AttemptSucceeds, OpenSocket, Flags, TypeOK
    <2> QED
      BY <1>0, <1>2, <2>1, SMTT(30) DEF AttemptSucceeds, OpenSocket, Flags, TypeOK
  <1>3. CASE AttemptFails(k)
    BY <1>0, <1>3, SMTT(30) DEF AttemptFails, TypeOK
  <1>4. CASE Delay(k)
    BY <1>0, <1>4, SMTT(30) DEF Delay, GivesUp, Forever, TypeOK
  <1>5. CASE Launch(k)
    BY <1>0, <1>5, SMTT(30) DEF Launch, Forever, TypeOK
  <1>6. CASE BrokersFound(k) \/ BrokerWaitEnds(k)
    BY <1>0, <1>6, SMTT(30) DEF BrokersFound, BrokerWaitEnds, TypeOK
  <1> QED
    BY <1>1, <1>2, <1>3, <1>4, <1>5, <1>6 DEF ConnStep

LEMMA TypeNet ==
    ASSUME TypeOK, NetConnack \/ NetDrop \/ NetStep
    PROVE  TypeOK'
  <1> USE DEF Leavers, Threads, At, Goto, Free, Network,
              client, locks, local, paho, ghost
  <1>0. {"done", "upLock", "downClean", "downLost"} \subseteq Labels
    BY DEF Labels
  <1>1. CASE NetConnack
    <2>1. NewThread(Ups) \in Ups
      BY <1>1, NewThreadStarts DEF NetConnack
    <2>2. Flags'
      BY <1>1, Zenon DEF NetConnack, Flags, TypeOK
    <2> QED
      BY <1>0, <1>1, <2>1, <2>2, SMTT(30) DEF NetConnack, Flags, TypeOK
  <1>2. CASE NetDrop
    BY <1>2, SMTT(30) DEF NetDrop, TypeOK
  <1>3. CASE NetReport \/ NetBye
    <2>1. Unstarted(Downs) # {} => NewThread(Downs) \in Downs
      BY NewThreadStarts
    <2>2. Flags'
      BY <1>3, Zenon DEF NetReport, NetBye, Flags, TypeOK
    <2> QED
      BY <1>0, <1>3, <2>1, <2>2, SMTT(30) DEF NetReport, NetBye, Flags, TypeOK
  <1>4. CASE NetStart \/ NetStop \/ NetIdle \/ NetLostEnd
    <2>1. Flags'
      BY <1>4, Zenon DEF NetStart, NetStop, NetIdle, NetLostEnd, Flags, TypeOK
    <2> QED
      BY <1>4, <2>1, SMTT(30) DEF NetStart, NetStop, NetIdle, NetLostEnd, Flags, TypeOK
  <1>5. CASE NetReopen
    <2>1. Flags'
      BY <1>5, Zenon DEF NetReopen, OpenSocket, Flags, TypeOK
    <2> QED
      BY <1>5, <2>1, SMTT(30) DEF NetReopen, OpenSocket, Flags, TypeOK
  <1> QED
    BY <1>1, <1>2, <1>3, <1>4, <1>5 DEF NetStep

LEMMA TypeNext == TypeOK /\ [Next]_vars => TypeOK'
  <1> SUFFICES ASSUME TypeOK, [Next]_vars PROVE TypeOK'
    OBVIOUS
  <1>1. CASE UNCHANGED vars
    BY <1>1 DEF vars, client, locks, local, paho, ghost, TypeOK
  <1>2. CASE Next
    BY <1>2, TypeConnect, TypeSubscribe, TypeLeave, TypeCallbacks, TypeConn, TypeNet
       DEF Next, AppCall, AppStep, WaitStep
  <1> QED
    BY <1>1, <1>2

\* The client's fields, its locks, its threads and paho's state keep their types;
\* the retries of a connect thread count down to zero, or there is no end of
\* them (client.py:702-776).
THEOREM TypeCorrect == Spec => []TypeOK
  BY TypeInit, TypeNext, PTL DEF Spec
-----------------------------------------------------------------------------
(* The renewal of subscriptions *)

\* A session that the subscriptions have to be in.
InSession == connected /\ sock = "up" /\ ~swept /\ ~destroyed

\* subscribe() or unsubscribe() is between its test of the connection and its end.
Calling(a) == pc[a] \in {"subCheck", "subSend", "unsubAck"}

\* Somebody will still ask the broker for topic.
Taken(topic) == \/ topic \in asked
                \/ InHand(topic)
                \/ \E u \in Ups : At(u, "upRenew") /\ topic \in todo[u]

\* A renewal is to come, or each topic is asked for or taken care of.
Renewal ==
    InSession => \/ \E u \in Ups : pc[u] \in {"upLock", "upSubs"}
                 \/ \A topic \in subs : Taken(topic)

LEMMA RenewalInit == Init => Renewal
  BY DEF Init, Renewal, InSession

LEMMA RenewalMeans == Renewal => SubscriptionsRenewed
  BY DEF Renewal, SubscriptionsRenewed, InSession, Taken, At

\* A step that takes nothing from the session, from a call or from a renewal.
LEMMA RenewalKept ==
    ASSUME Renewal,
           InSession' => InSession /\ asked \subseteq asked',
           subs' \subseteq subs,
           \A u \in Ups : pc'[u] = pc[u] /\ todo'[u] = todo[u],
           \A a \in Apps : Calling(a) => Calling(a)' /\ todo'[a] = todo[a]
    PROVE  Renewal'
  <1> SUFFICES ASSUME InSession', \A u \in Ups : pc'[u] \notin {"upLock", "upSubs"},
                      NEW topic \in subs'
               PROVE  Taken(topic)'
    BY DEF Renewal
  <1>1. Taken(topic)
    BY DEF Renewal
  <1> QED
    BY <1>1 DEF Taken, InHand, At, Calling

LEMMA RenewalConnect ==
    ASSUME TypeOK, Renewal, NEW a \in Apps,
           \/ CallConnect(a) \/ ConnectCheck(a) \/ ThreadCheck(a)
           \/ StartThread(a) \/ JoinCheck(a) \/ ConnectJoin(a) \/ ConnectAwait(a)
    PROVE  Renewal'
  <1> USE DEF Leavers, Threads, At, Goto, client, locks, local, paho, ghost
  <1>1. pc[a] \notin {"subCheck", "subSend", "unsubAck"}
    BY DEF CallConnect, Call, ConnectCheck, ThreadCheck, StartThread, JoinCheck,
           ConnectJoin, ConnectAwait
  <1>2. /\ UNCHANGED <<connected, sock, swept, destroyed, asked, subs, todo>>
        /\ \A t \in Apps \cup Ups : t # a => pc'[t] = pc[t]
    <2>1. CASE StartThread(a)
      <3>1. NewThread(Conns) \in Conns
        BY <2>1, NewThreadStarts DEF StartThread, StartConnectThread
      <3> QED
        BY <2>1, <3>1 DEF StartThread, StartConnectThread, Start, TypeOK
    <2>2. CASE ~ StartThread(a)
      BY <2>2 DEF CallConnect, ConnectCheck, ThreadCheck, JoinCheck, ConnectJoin,
                  ConnectAwait, TypeOK
    <2> QED
      BY <2>1, <2>2
  <1> QED
    BY <1>1, <1>2, RenewalKept DEF InSession, Calling

LEMMA RenewalSubscribe ==
    ASSUME TypeOK, Renewal, NEW a \in Apps,
           \/ CallSubscribe(a, "subWait") \/ CallSubscribe(a, "unsubWait")
           \/ Subscribe(a) \/ SubscribeCheck(a) \/ SubscribeSend(a)
           \/ SubscribeEnd(a) \/ Unsubscribe(a) \/ UnsubscribeCheck(a)
           \/ UnsubscribeSend(a) \/ UnsubscribeEnd(a)
    PROVE  Renewal'
  <1> USE DEF Leavers, Threads, At, Goto, Return,
              client, locks, local, paho, ghost
  <1>1. CASE \/ CallSubscribe(a, "subWait") \/ CallSubscribe(a, "unsubWait")
             \/ SubscribeEnd(a) \/ Unsubscribe(a)
    <2>1. pc[a] \notin {"subCheck", "subSend", "unsubAck"}
      BY <1>1 DEF CallSubscribe, Call, SubscribeEnd, Unsubscribe
    <2>2. /\ UNCHANGED <<connected, sock, swept, destroyed, asked, subs>>
          /\ \A t \in Apps \cup Ups : t # a => pc'[t] = pc[t] /\ todo'[t] = todo[t]
      BY <1>1 DEF CallSubscribe, SubscribeEnd, Unsubscribe, TypeOK
    <2> QED
      BY <2>1, <2>2, RenewalKept DEF InSession, Calling
  <1>2. CASE SubscribeCheck(a) /\ connected
    BY <1>2, RenewalKept DEF SubscribeCheck, InSession, Calling, TypeOK
  <1>3. CASE (SubscribeCheck(a) \/ UnsubscribeCheck(a)) /\ ~connected
    BY <1>3 DEF SubscribeCheck, UnsubscribeCheck, Renewal, InSession
  <1>4. CASE UnsubscribeCheck(a) /\ connected
    BY <1>4, RenewalKept DEF UnsubscribeCheck, InSession, Calling, TypeOK
  <1>5. ASSUME \/ Subscribe(a) \/ SubscribeSend(a) \/ UnsubscribeSend(a)
               \/ UnsubscribeEnd(a)
        PROVE  Renewal'
    <2>1. /\ InSession' => InSession
          /\ \A t \in Apps \cup Ups : t # a => pc'[t] = pc[t] /\ todo'[t] = todo[t]
      BY <1>5 DEF Subscribe, SubscribeSend, UnsubscribeSend, UnsubscribeEnd,
                  InSession, TypeOK
    <2> SUFFICES ASSUME InSession', \A u \in Ups : pc'[u] \notin {"upLock", "upSubs"},
                        NEW topic \in subs'
                 PROVE  Taken(topic)'
      BY DEF Renewal
    <2>2. InSession /\ \A u \in Ups : pc'[u] = pc[u] /\ todo'[u] = todo[u]
      BY <2>1, ThreadsApart
    <2>3. CASE topic \in todo[a] /\ Subscribe(a)
      BY <2>3, <2>1, <2>2 DEF Subscribe, Renewal, Taken, InHand, TypeOK
    <2>4. CASE topic \in todo[a] /\ SubscribeSend(a)
      BY <2>4, <2>2 DEF SubscribeSend, AskBroker, Taken, InSession, TypeOK
    <2>5. CASE topic \in todo[a] /\ UnsubscribeSend(a)
      BY <2>5 DEF UnsubscribeSend, Taken, InHand, TypeOK
    <2>6. CASE topic \in todo[a] /\ UnsubscribeEnd(a)
      BY <2>6 DEF UnsubscribeEnd
    <2>7. CASE topic \notin todo[a]
      <3>1. topic \in subs /\ (topic \in asked => topic \in asked')
        BY <1>5, <2>7 DEF Subscribe, SubscribeSend, UnsubscribeSend, UnsubscribeEnd,
                          AskBroker, AskBrokerNot
      <3>2. Taken(topic)
        BY <2>2, <3>1 DEF Renewal
      <3> QED
        BY <2>1, <2>2, <2>7, <3>1, <3>2 DEF Taken, InHand
    <2> QED
      BY <1>5, <2>3, <2>4, <2>5, <2>6, <2>7
  <1> QED
    BY <1>1, <1>2, <1>3, <1>4, <1>5

LEMMA RenewalLeave ==
    ASSUME TypeOK, Renewal,
           \/ \E a \in Apps : CallDisconnect(a) \/ CallDestroy(a) \/ Release(a)
           \/ \E t \in Leavers : LeaveStep(t) \/ PoolDone(t)
    PROVE  Renewal'
  <1> USE DEF Leavers, Threads, At, Goto, Free, Forget, AskBrokerNot, Raise, Home,
              client, locks, local, paho, ghost
  <1>1. PICK t \in Leavers :
            \/ t \in Apps /\ (CallDisconnect(t) \/ CallDestroy(t) \/ Release(t))
            \/ LeaveStep(t) \/ PoolDone(t)
    OBVIOUS
  <1>2. pc[t] \notin {"subCheck", "subSend", "unsubAck"}
    BY <1>1 DEF CallDisconnect, CallDestroy, Call, Release, PoolDone, LeaveStep, SweepStart,
        SweepRaise, SweepTopic, SweepAck, SweepEnd, LoopStop, LoopJoin,
        ClientDisconnect, ThreadTest, ThreadJoin, LeaveAwait
  <1>3. \A s \in Apps \cup Ups : s # t => pc'[s] = pc[s] /\ todo'[s] = todo[s]
    <2>1. CASE ClientDisconnect(t)
      <3>1. Unstarted(Downs) # {} => NewThread(Downs) \in Downs
        BY NewThreadStarts
      <3> QED
        BY <2>1, <3>1 DEF ClientDisconnect, Start, TypeOK
    <2>2. CASE ~ ClientDisconnect(t)
      BY <1>1, <2>2 DEF CallDisconnect, CallDestroy, Release, PoolDone, LeaveStep,
         SweepStart, SweepRaise, SweepTopic, SweepAck, SweepEnd, LoopStop, LoopJoin,
         ThreadTest, ThreadJoin, LeaveAwait, TypeOK
    <2> QED
      BY <2>1, <2>2
  <1>4. (InSession' => InSession /\ asked' = asked) /\ subs' = subs
    <2>1. CASE SweepTopic(t)
      BY <2>1 DEF SweepTopic, InSession
    <2>2. CASE ClientDisconnect(t)
      BY <2>2 DEF ClientDisconnect, InSession
    <2>3. CASE ~ SweepTopic(t) /\ ~ ClientDisconnect(t)
      BY <1>1, <2>3 DEF CallDisconnect, CallDestroy, Release, PoolDone, LeaveStep,
         SweepStart, SweepRaise, SweepAck, SweepEnd, LoopStop, LoopJoin,
         ThreadTest, ThreadJoin, LeaveAwait, InSession
    <2> QED
      BY <2>1, <2>2, <2>3
  <1> QED
    BY <1>2, <1>3, <1>4, ThreadsApart, RenewalKept DEF Calling

LEMMA RenewalCallbacks ==
    ASSUME TypeOK, Renewal,
           (\E u \in Ups : UpStep(u)) \/ (\E d \in Downs : DownStep(d))
    PROVE  Renewal'
  <1> USE DEF Leavers, Threads, At, Goto, client, locks, local, paho, ghost
  <1>1. ASSUME NEW u \in Ups, UpLock(u)
        PROVE  Renewal'
    <2>1. pc'[u] = "upSubs"
      BY <1>1 DEF UpLock, TypeOK
    <2> QED
      BY <2>1 DEF Renewal
  <1>2. ASSUME NEW u \in Ups, UpSubs(u)
        PROVE  Renewal'
    <2>1. pc'[u] = "upRenew" /\ todo'[u] = subs /\ subs' = subs
      BY <1>2 DEF UpSubs, TypeOK
    <2> QED
      BY <2>1 DEF Renewal, Taken
  <1>3. ASSUME NEW u \in Ups, UpRenew(u)
        PROVE  Renewal'
    <2>1. /\ InSession' => InSession /\ asked \subseteq asked'
          /\ subs' = subs /\ pc' = pc
          /\ \A t \in Apps \cup Ups : t # u => todo'[t] = todo[t]
          /\ InSession => todo[u] \subseteq asked' \cup todo'[u]
      BY <1>3 DEF UpRenew, AskBroker, InSession, TypeOK
    <2> SUFFICES ASSUME InSession', \A v \in Ups : pc'[v] \notin {"upLock", "upSubs"},
                        NEW topic \in subs'
                 PROVE  Taken(topic)'
      BY DEF Renewal
    <2>2. Taken(topic)
      BY <2>1 DEF Renewal
    <2> QED
      BY <2>1, <2>2, ThreadsApart DEF Taken, InHand
  <1>4. ASSUME NEW u \in Ups, UpEnd(u)
        PROVE  Renewal'
    <2>1. /\ UNCHANGED <<connected, sock, swept, destroyed, asked, subs, todo>>
          /\ todo[u] = {} /\ pc[u] = "upRenew" /\ pc'[u] = "done"
          /\ \A t \in Apps \cup Ups : t # u => pc'[t] = pc[t]
      BY <1>4 DEF UpEnd, TypeOK
    <2> SUFFICES ASSUME InSession', \A v \in Ups : pc'[v] \notin {"upLock", "upSubs"},
                        NEW topic \in subs'
                 PROVE  Taken(topic)'
      BY DEF Renewal
    <2>2. Taken(topic)
      BY <2>1 DEF Renewal, InSession
    <2> QED
      BY <2>1, <2>2, ThreadsApart DEF Taken, InHand
  <1>5. ASSUME NEW d \in Downs, DownLock(d)
        PROVE  Renewal'
    BY <1>5 DEF DownLock, Renewal, InSession
  <1>6. ASSUME NEW d \in Downs, Restart(d)
        PROVE  Renewal'
    <2>1. Unstarted(Conns) # {} => NewThread(Conns) \in Conns
      BY NewThreadStarts
    <2>2. /\ UNCHANGED <<connected, sock, swept, destroyed, asked, subs, todo>>
          /\ \A t \in Apps \cup Ups : pc'[t] = pc[t]
      BY <1>6, <2>1, ThreadsApart DEF Restart, StartConnectThread, Start, TypeOK
    <2> QED
      BY <2>2, RenewalKept DEF InSession, Calling
  <1> QED
    BY <1>1, <1>2, <1>3, <1>4, <1>5, <1>6 DEF UpStep, DownStep

LEMMA RenewalConn ==
    ASSUME TypeOK, Renewal, NEW k \in Conns, ConnStep(k) \/ BrokersFound(k)
    PROVE  Renewal'
  <1> USE DEF Leavers, Threads, At, Goto, client, locks, local, paho, ghost
  <1>1. /\ UNCHANGED <<subs, todo>>
        /\ \A t \in Apps \cup Ups : pc'[t] = pc[t]
    BY ThreadsApart DEF ConnStep, ConnClear, ConnCheck, AttemptSucceeds,
       AttemptFails, AttemptStops, Delay, Launch, BrokersFound, BrokerWaitEnds,
       TypeOK
  <1>2. InSession' => InSession /\ asked' = asked
    <2>1. CASE AttemptSucceeds(k)
      BY <2>1 DEF AttemptSucceeds, OpenSocket, InSession
    <2>2. CASE AttemptFails(k)
      BY <2>2 DEF AttemptFails, InSession
    <2>3. CASE ~ AttemptSucceeds(k) /\ ~ AttemptFails(k)
      BY <2>3 DEF ConnStep, ConnClear, ConnCheck, AttemptStops, Delay, Launch,
                  BrokersFound, BrokerWaitEnds, InSession
    <2> QED
      BY <2>1, <2>2, <2>3
  <1> QED
    BY <1>1, <1>2, RenewalKept DEF Calling

LEMMA RenewalNet ==
    ASSUME TypeOK, Renewal, NetConnack \/ NetDrop \/ NetStep
    PROVE  Renewal'
  <1> USE DEF Leavers, Threads, At, Goto, Network, client, locks, local, paho, ghost
  <1>1. CASE NetConnack
    <2>1. NewThread(Ups) \in Ups
      BY <1>1, NewThreadStarts DEF NetConnack
    <2>2. CASE destroyed
      BY <1>1, <2>2 DEF NetConnack, Renewal, InSession
    <2>3. CASE ~destroyed
      <3>1. pc'[NewThread(Ups)] = "upLock"
        BY <1>1, <2>1, <2>3 DEF NetConnack, TypeOK
      <3> QED
        BY <2>1, <3>1 DEF Renewal
    <2> QED
      BY <2>2, <2>3
  <1>2. CASE NetReport \/ NetBye
    <2>1. Unstarted(Downs) # {} => NewThread(Downs) \in Downs
      BY NewThreadStarts
    <2>2. /\ UNCHANGED <<subs, todo>>
          /\ InSession' => InSession /\ asked' = asked
          /\ \A t \in Apps \cup Ups : pc'[t] = pc[t]
      BY <1>2, <2>1, ThreadsApart DEF NetReport, NetBye, InSession, TypeOK
    <2> QED
      BY <2>2, RenewalKept DEF Calling
  <1>3. CASE NetDrop \/ NetReopen
    BY <1>3 DEF NetDrop, NetReopen, OpenSocket, Renewal, InSession
  <1>4. CASE NetStart \/ NetStop \/ NetIdle \/ NetLostEnd
    BY <1>4, RenewalKept DEF NetStart, NetStop, NetIdle, NetLostEnd, InSession, Calling
  <1> QED
    BY <1>1, <1>2, <1>3, <1>4 DEF NetStep

LEMMA RenewalNext == TypeOK /\ Renewal /\ [Next]_vars => Renewal'
  <1> SUFFICES ASSUME TypeOK, Renewal, [Next]_vars PROVE Renewal'
    OBVIOUS
  <1>1. CASE UNCHANGED vars
    BY <1>1, RenewalKept
       DEF vars, client, locks, local, paho, ghost, InSession, Calling
  <1>2. CASE Next
    BY <1>2, RenewalConnect, RenewalSubscribe, RenewalLeave, RenewalCallbacks,
       RenewalConn, RenewalNet DEF Next, AppCall, AppStep, WaitStep
  <1> QED
    BY <1>1, <1>2

\* Once _on_connect_run is through, every subscription of the client has been
\* asked for on the connection it has, for any number of application threads,
\* lost connections and late callback threads (client.py:83-95, 829-866).
THEOREM Renewed == Spec => []SubscriptionsRenewed
  <1>1. Init => TypeOK /\ Renewal
    BY TypeInit, RenewalInit
  <1>2. TypeOK /\ Renewal /\ [Next]_vars => (TypeOK /\ Renewal)'
    BY TypeNext, RenewalNext
  <1> QED
    BY <1>1, <1>2, RenewalMeans, PTL DEF Spec
-----------------------------------------------------------------------------
(* Quiet after a disconnect *)

\* _disconnect up to paho's disconnect.
Closing == {"poolWait", "sweepStart", "sweep", "sweepAck", "loopStop", "loopJoin",
            "clientDisconnect"}

\* From its beginning nobody connects; past loop_stop the network thread has
\* ended, and past paho's disconnect the socket is closed as well.
Quiet ==
    closer # NoThread =>
        /\ ~Connecting
        /\ pc[closer] = "clientDisconnect" => loop = "off"
        /\ pc[closer] \notin Closing => sock = "none" /\ loop = "off"

LEMMA QuietInit == Init => Quiet
  BY DEF Init, Quiet

LEMMA QuietMeans == Quiet => QuietAfterDisconnect
  BY DEF Quiet, QuietAfterDisconnect, Closing

\* Nobody begins to connect in a step that makes none of the three kinds of
\* threads busy and loses no connection.
LEMMA StillApart ==
    ASSUME ~Connecting,
           \A a \in Apps : pc'[a] \in ConnectLabels => pc[a] \in ConnectLabels,
           \A k \in Conns : pc'[k] = pc[k],
           \A d \in Downs : pc'[d] = pc[d] \/ pc'[d] \in {"done", "downClean"},
           loop' = "dropping" => loop = "dropping"
    PROVE  ~Connecting'
  BY DEF Connecting, LeaveLabels

\* A step of another thread than closer that opens and starts nothing.
LEMMA QuietKept ==
    ASSUME Quiet,
           closer' \in {closer, NoThread},
           closer' # NoThread =>
               /\ pc'[closer] = pc[closer]
               /\ \A a \in Apps : pc'[a] \in ConnectLabels => pc[a] \in ConnectLabels
               /\ \A k \in Conns : pc'[k] = pc[k]
               /\ \A d \in Downs : pc'[d] = pc[d] \/ pc'[d] \in {"done", "downClean"}
               /\ loop' = "dropping" => loop = "dropping"
               /\ loop = "off" => loop' = "off"
               /\ sock = "none" /\ loop = "off" => sock' = "none"
    PROVE  Quiet'
  BY StillApart DEF Quiet

LEMMA QuietConnect ==
    ASSUME TypeOK, Quiet, NEW a \in Apps,
           \/ CallConnect(a) \/ ConnectCheck(a) \/ ThreadCheck(a)
           \/ StartThread(a) \/ JoinCheck(a) \/ ConnectJoin(a) \/ ConnectAwait(a)
    PROVE  Quiet'
  <1>1. CASE CallConnect(a)
    BY <1>1 DEF CallConnect, Quiet
  <1>2. CASE ~ CallConnect(a)
    <2>1. pc[a] \in ConnectLabels /\ closer' = closer
      BY <1>2 DEF ConnectCheck, ThreadCheck, StartThread, JoinCheck, ConnectJoin,
                  ConnectAwait, At, ConnectLabels, ghost
    <2>2. Connecting
      BY <2>1 DEF Connecting
    <2> QED
      BY <2>1, <2>2 DEF Quiet
  <1> QED
    BY <1>1, <1>2

LEMMA QuietSubscribe ==
    ASSUME TypeOK, Quiet, NEW a \in Apps,
           \/ CallSubscribe(a, "subWait") \/ CallSubscribe(a, "unsubWait")
           \/ Subscribe(a) \/ SubscribeCheck(a) \/ SubscribeSend(a)
           \/ SubscribeEnd(a) \/ Unsubscribe(a) \/ UnsubscribeCheck(a)
           \/ UnsubscribeSend(a) \/ UnsubscribeEnd(a)
    PROVE  Quiet'
  <1> DEFINE Calls == {"idle", "subWait", "subCheck", "subSend", "subAck",
                       "unsubWait", "unsubCheck", "unsubSend", "unsubAck"}
  <1>1. /\ UNCHANGED <<closer, sock, loop>>
        /\ pc[a] \in Calls /\ \E label \in Calls : Goto(a, label)
    BY DEF CallSubscribe, Call, Subscribe, SubscribeCheck, SubscribeSend,
           SubscribeEnd, Unsubscribe, UnsubscribeCheck, UnsubscribeSend,
           UnsubscribeEnd, Return, At, paho, ghost
  <1>2. PICK label \in Calls : Goto(a, label)
    BY <1>1
  <1>3. \A c \in Calls : c \notin ConnectLabels \cup Closing
    BY DEF ConnectLabels, Closing
  <1>4. /\ pc'[a] = label /\ \A t \in Threads : t # a => pc'[t] = pc[t]
        /\ Apps \subseteq Threads /\ Conns \subseteq Threads /\ Downs \subseteq Threads
        /\ closer \in Apps \cup {NoThread}
    BY <1>2 DEF Goto, TypeOK, Threads, Leavers
  <1> HIDE DEF Calls
  <1>5. SUFFICES ASSUME closer # NoThread PROVE Quiet'
    BY <1>1 DEF Quiet
  <1>6. ~Connecting'
    BY <1>1, <1>2, <1>3, <1>4, <1>5, ThreadsApart, StillApart DEF Quiet
  <1>7. pc'[closer] = pc[closer] \/ (pc[closer] \notin Closing /\ pc'[closer] \notin Closing)
    BY <1>1, <1>2, <1>3, <1>4, <1>5
  <1> QED
    BY <1>1, <1>5, <1>6, <1>7 DEF Quiet, Closing

LEMMA QuietCalls ==
    ASSUME TypeOK, Quiet, NEW a \in Apps,
           CallDisconnect(a) \/ CallDestroy(a) \/ Release(a)
    PROVE  Quiet'
  <1>0. a \in Threads /\ pc \in [Threads -> Labels]
    BY DEF TypeOK, Threads, Leavers
  <1>1. /\ UNCHANGED <<sock, loop>>
        /\ pc[a] \in {"idle", "release"}
        /\ \A t \in Threads : t # a => pc'[t] = pc[t]
        /\ pc'[a] \in {"poolWait", "release", "idle"}
        /\ \/ closer' = closer
           \/ closer' = NoThread
           \/ closer' = a /\ pc'[a] = "poolWait" /\ ~Connecting
    <2>1. /\ UNCHANGED <<sock, loop>> /\ pc[a] \in {"idle", "release"}
      BY DEF CallDisconnect, CallDestroy, Release, Call, At, paho
    <2>2. \E label \in {"poolWait", "release", "idle"} :
              /\ pc' = [pc EXCEPT ![a] = label]
              /\ \/ closer' = closer
                 \/ closer' = NoThread
                 \/ closer' = a /\ label = "poolWait" /\ ~Connecting
      <3>1. CASE Release(a)
        BY <3>1 DEF Release, Goto, ghost
      <3>2. CASE (CallDisconnect(a) \/ CallDestroy(a)) /\ connected
        <4>1. Goto(a, "poolWait") /\ BeginLeave(a)
          BY <3>2 DEF CallDisconnect, CallDestroy
        <4> QED
          BY <3>2, <4>1 DEF Goto, BeginLeave
      <3>3. CASE (CallDisconnect(a) \/ CallDestroy(a)) /\ ~connected
        <4>1. (Goto(a, "idle") \/ Goto(a, "release")) /\ BeginLeave(a)
          BY <3>3 DEF CallDisconnect, CallDestroy
        <4> QED
          BY <3>3, <4>1 DEF Goto, BeginLeave
      <3> QED
        BY <3>1, <3>2, <3>3
    <2>3. PICK label \in {"poolWait", "release", "idle"} :
              /\ pc' = [pc EXCEPT ![a] = label]
              /\ \/ closer' = closer
                 \/ closer' = NoThread
                 \/ closer' = a /\ label = "poolWait" /\ ~Connecting
      BY <2>2
    <2>4. pc'[a] = label /\ \A t \in Threads : t # a => pc'[t] = pc[t]
      BY <1>0, <2>3
    <2> QED
      BY <2>1, <2>3, <2>4
  <1>2. /\ Apps \subseteq Threads /\ Conns \subseteq Threads /\ Downs \subseteq Threads
        /\ closer \in Apps \cup {NoThread}
    BY DEF TypeOK, Threads, Leavers
  <1>3. ~Connecting => ~Connecting'
    <2> SUFFICES ASSUME ~Connecting PROVE ~Connecting'
      OBVIOUS
    <2>1. \A t \in Apps : pc'[t] \in ConnectLabels => pc[t] \in ConnectLabels
      BY <1>1, <1>2 DEF ConnectLabels
    <2> QED
      BY <1>1, <1>2, <2>1, ThreadsApart, StillApart
  <1> QED
    BY <1>1, <1>2, <1>3 DEF Quiet, Closing

\* No lost connection is being dealt with, so only applications are leaving.
LEMMA QuietLeave ==
    ASSUME TypeOK, Quiet, NEW t \in Leavers, LeaveStep(t) \/ PoolDone(t)
    PROVE  Quiet'
  <1> USE DEF Leavers, Threads
  <1>1. SUFFICES ASSUME closer # NoThread, closer' = closer PROVE Quiet'
    <2>1. closer' \in {closer, NoThread}
      BY DEF LeaveStep, PoolDone, SweepStart, SweepRaise, SweepTopic, SweepAck, SweepEnd,
             LoopStop, LoopJoin, ClientDisconnect, ThreadTest, ThreadJoin, LeaveAwait,
             Raise, ghost
    <2> QED
      BY <2>1 DEF Quiet
  <1>2. ~Connecting /\ closer \in Apps
    BY <1>1 DEF Quiet, TypeOK
  <1>3. pc[t] \in LeaveLabels
    BY DEF LeaveStep, PoolDone, SweepStart, SweepRaise, SweepTopic, SweepAck, SweepEnd,
           LoopStop, LoopJoin, ClientDisconnect, ThreadTest, ThreadJoin, LeaveAwait,
           At, LeaveLabels
  <1>4. t \in Apps
    BY <1>2, <1>3 DEF Connecting
  <1>5. /\ pc'[t] \in LeaveLabels \cup {"idle", "release"}
        /\ \A s \in Threads \ Downs : s # t => pc'[s] = pc[s]
        /\ \A d \in Downs : pc'[d] = pc[d] \/ pc'[d] = "downClean"
    <2>1. CASE ClientDisconnect(t)
      <3>1. Unstarted(Downs) # {} => NewThread(Downs) \in Downs
        BY NewThreadStarts
      <3> QED
        BY <1>4, <2>1, <3>1 DEF ClientDisconnect, Start, Raise, Home, Goto, TypeOK,
                                LeaveLabels
    <2>2. CASE ~ ClientDisconnect(t)
      <3>1. \E label \in LeaveLabels \cup {"idle", "release"} : pc' = [pc EXCEPT ![t] = label]
        <4>1. CASE SweepTopic(t)
          BY <4>1, <1>3 DEF SweepTopic, Goto, At, LeaveLabels, TypeOK
        <4>2. CASE LeaveAwait(t)
          <5>1. AfterLeave(t) \in {"idle", "release"}
            BY <1>4, ThreadsApart DEF AfterLeave
          <5> QED
            BY <4>2, <1>4, <5>1 DEF LeaveAwait, Raise, Home, Goto
        <4>3. CASE ~ SweepTopic(t) /\ ~ LeaveAwait(t)
          BY <2>2, <4>3, <1>4 DEF LeaveStep, PoolDone, SweepStart, SweepRaise, SweepAck,
             SweepEnd, LoopStop, LoopJoin, ThreadTest, ThreadJoin, Raise, Home, Goto,
             LeaveLabels
        <4> QED
          BY <4>1, <4>2, <4>3
      <3>2. PICK label \in LeaveLabels \cup {"idle", "release"} : pc' = [pc EXCEPT ![t] = label]
        BY <3>1
      <3> QED
        BY <1>4, <3>2, ThreadsApart DEF TypeOK
    <2> QED
      BY <2>1, <2>2
  <1>6. /\ loop' = "dropping" => loop = "dropping"
        /\ loop = "off" => loop' = "off"
        /\ sock = "none" => sock' = "none"
    BY DEF LeaveStep, PoolDone, SweepStart, SweepRaise, SweepTopic, SweepAck, SweepEnd,
           LoopStop, LoopJoin, ClientDisconnect, ThreadTest, ThreadJoin, LeaveAwait,
           paho
  <1>7. ~Connecting'
    <2>1. \A a \in Apps : pc'[a] \in ConnectLabels => pc[a] \in ConnectLabels
      BY <1>4, <1>5, ThreadsApart DEF ConnectLabels, LeaveLabels
    <2>2. \A k \in Conns : pc'[k] = pc[k]
      BY <1>4, <1>5, ThreadsApart
    <2> QED
      BY <1>2, <1>5, <1>6, <2>1, <2>2, StillApart
  <1>8. CASE closer # t
    <2>1. pc'[closer] = pc[closer]
      BY <1>2, <1>5, <1>8, ThreadsApart
    <2> QED
      BY <1>1, <1>6, <1>7, <2>1 DEF Quiet
  <1>9. CASE closer = t
    <2>1. /\ pc'[t] = "clientDisconnect" => loop' = "off"
          /\ pc'[t] \notin Closing => sock' = "none" /\ loop' = "off"
      <3>1. CASE LoopStop(t)
        BY <1>1, <1>4, <1>9, <3>1, ThreadsApart
           DEF LoopStop, Raise, Goto, At, Closing, TypeOK, paho
      <3>2. CASE LoopJoin(t)
        BY <1>1, <1>4, <1>9, <3>2, ThreadsApart
           DEF LoopJoin, Raise, Goto, At, Closing, TypeOK, paho
      <3>3. CASE ClientDisconnect(t)
        <4>1. loop = "off" /\ loop' = loop
          BY <1>1, <1>9, <3>3 DEF Quiet, ClientDisconnect, At
        <4>2. sock' = "none"
          BY <1>1, <1>4, <1>9, <3>3, <4>1, ThreadsApart DEF ClientDisconnect, Raise
        <4> QED
          BY <4>1, <4>2
      <3>4. CASE \/ PoolDone(t) \/ SweepStart(t) \/ SweepRaise(t)
                 \/ SweepTopic(t) \/ SweepAck(t) \/ SweepEnd(t)
        <4>1. pc'[t] \in Closing \ {"clientDisconnect"}
          <5>1. CASE SweepRaise(t)
            BY <1>1, <1>9, <5>1 DEF SweepRaise, Raise
          <5>2. CASE SweepTopic(t)
            BY <5>2 DEF SweepTopic, Goto, At, Closing, TypeOK
          <5>3. CASE PoolDone(t) \/ SweepStart(t) \/ SweepAck(t) \/ SweepEnd(t)
            BY <5>3 DEF PoolDone, SweepStart, SweepAck, SweepEnd, Goto, Closing, TypeOK
          <5> QED
            BY <3>4, <5>1, <5>2, <5>3
        <4> QED
          BY <4>1
      <3>5. CASE ThreadTest(t) \/ ThreadJoin(t) \/ LeaveAwait(t)
        <4>1. pc[t] \notin Closing /\ UNCHANGED <<sock, loop>>
          BY <3>5 DEF ThreadTest, ThreadJoin, LeaveAwait, At, Closing, paho
        <4> QED
          BY <1>1, <1>9, <4>1 DEF Quiet
      <3> QED
        BY <3>1, <3>2, <3>3, <3>4, <3>5 DEF LeaveStep
    <2> QED
      BY <1>1, <1>7, <1>9, <2>1 DEF Quiet
  <1> QED
    BY <1>8, <1>9

LEMMA QuietCallbacks ==
    ASSUME TypeOK, Quiet,
           (\E u \in Ups : UpStep(u)) \/ (\E d \in Downs : DownStep(d))
    PROVE  Quiet'
  <1> USE DEF Leavers, Threads, At, Goto, paho, ghost
  <1>1. ASSUME NEW u \in Ups, UpStep(u)
        PROVE  Quiet'
    <2>1. /\ UNCHANGED <<closer, sock, loop>>
          /\ \A t \in Leavers \cup Conns : pc'[t] = pc[t]
      BY <1>1, ThreadsApart DEF UpStep, UpLock, UpSubs, UpRenew, UpEnd, TypeOK
    <2> QED
      BY <2>1, QuietKept DEF TypeOK
  <1>2. ASSUME NEW d \in Downs, DownLock(d), At(d, "downClean")
        PROVE  Quiet'
    <2>1. /\ UNCHANGED <<closer, sock, loop>> /\ pc'[d] = "done"
          /\ \A t \in Threads : t # d => pc'[t] = pc[t]
      BY <1>2 DEF DownLock, TypeOK
    <2> QED
      BY <2>1, ThreadsApart, QuietKept DEF TypeOK
  <1>3. ASSUME NEW d \in Downs, DownStep(d), ~At(d, "downClean")
        PROVE  Quiet'
    <2>1. closer' = closer /\ Connecting
      BY <1>3 DEF DownStep, DownLock, Restart, Connecting
    <2> QED
      BY <2>1 DEF Quiet
  <1> QED
    BY <1>1, <1>2, <1>3 DEF DownStep, Restart

LEMMA QuietConn ==
    ASSUME TypeOK, Quiet, NEW k \in Conns, ConnStep(k) \/ BrokersFound(k)
    PROVE  Quiet'
  <1>1. pc[k] \notin {"idle", "done"} /\ closer' = closer
    BY DEF ConnStep, ConnClear, ConnCheck, AttemptSucceeds, AttemptFails,
           AttemptStops, Delay, Launch, BrokersFound, BrokerWaitEnds, At, ghost
  <1>2. Connecting
    BY <1>1 DEF Connecting
  <1> QED
    BY <1>1, <1>2 DEF Quiet

LEMMA QuietNet ==
    ASSUME TypeOK, Quiet, NetConnack \/ NetDrop \/ NetStep
    PROVE  Quiet'
  <1> USE DEF Leavers, Threads, At, Goto, Network, ghost
  <1>1. CASE NetDrop
    BY <1>1 DEF NetDrop, Quiet
  <1>2. CASE NetReport
    <2>1. closer' = closer /\ Connecting
      BY <1>2 DEF NetReport, Connecting
    <2> QED
      BY <2>1 DEF Quiet
  <1>3. CASE NetConnack
    <2>1. NewThread(Ups) \in Ups
      BY <1>3, NewThreadStarts DEF NetConnack
    <2>2. /\ UNCHANGED <<closer, loop>> /\ loop = "running"
          /\ \A t \in Leavers \cup Conns : pc'[t] = pc[t]
      BY <1>3, <2>1, ThreadsApart DEF NetConnack, TypeOK
    <2> QED
      BY <2>2, QuietKept DEF TypeOK
  <1>4. CASE NetBye
    <2>1. Unstarted(Downs) # {} => NewThread(Downs) \in Downs
      BY NewThreadStarts
    <2>2. /\ closer' = closer /\ loop = "running" /\ loop' \in {"running", "ended"}
          /\ \A t \in Apps \cup Conns : pc'[t] = pc[t]
          /\ \A d \in Downs : pc'[d] = pc[d] \/ pc'[d] = "downClean"
      BY <1>4, <2>1, ThreadsApart DEF NetBye, TypeOK
    <2> QED
      BY <2>2, QuietKept DEF TypeOK
  <1>5. CASE NetStart \/ NetStop \/ NetIdle \/ NetLostEnd \/ NetReopen
    <2>1. /\ UNCHANGED <<closer, pc>>
          /\ loop \in {"starting", "running", "lost"}
          /\ loop' \in {"running", "ended", "lost"}
      BY <1>5 DEF NetStart, NetStop, NetIdle, NetLostEnd, NetReopen
    <2> QED
      BY <2>1, QuietKept
  <1> QED
    BY <1>1, <1>2, <1>3, <1>4, <1>5 DEF NetStep

LEMMA QuietNext == TypeOK /\ Quiet /\ [Next]_vars => Quiet'
  <1> SUFFICES ASSUME TypeOK, Quiet, [Next]_vars PROVE Quiet'
    OBVIOUS
  <1>1. CASE UNCHANGED vars
    BY <1>1, QuietKept DEF vars, client, locks, local, paho, ghost
  <1>2. CASE Next
    BY <1>2, QuietConnect, QuietSubscribe, QuietCalls, QuietLeave, QuietCallbacks,
       QuietConn, QuietNet DEF Next, AppCall, AppStep, WaitStep
  <1> QED
    BY <1>1, <1>2

\* A disconnect() or destroy() that returned and that no connect() and no lost
\* connection came in the way of leaves neither a socket nor a network thread,
\* for any number of threads (client.py:568-624).
THEOREM QuietLeft == Spec => []QuietAfterDisconnect
  <1>1. Init => TypeOK /\ Quiet
    BY TypeInit, QuietInit
  <1>2. TypeOK /\ Quiet /\ [Next]_vars => (TypeOK /\ Quiet)'
    BY TypeNext, QuietNext
  <1> QED
    BY <1>1, <1>2, QuietMeans, PTL DEF Spec
-----------------------------------------------------------------------------
(* Who waits for whom *)

\* Who waits for which lock, and for whom: for the holder of the lock, or for a
\* connect thread to end.  paho's thread, which a loop_stop joins, waits for the
\* condition of the pending acks in on_disconnect.
ConnWaits(t) == \/ pc[t] \in {"connectCheck", "connectAwait", "leaveAwait",
                              "upLock", "downClean", "downLost", "connCheck"}
                \/ WantsConnLock(t)
SubsWaits(t) == pc[t] \in {"subWait", "unsubWait", "upSubs"}
AckWaits(t) == \/ pc[t] \in {"sweepStart", "sweepAck"} \/ WantsAckLock(t)
               \/ At(t, "clientDisconnect") /\ ~destroyed /\ sock # "none" /\ loop = "off"
LoopWaits == ~destroyed /\ \/ loop = "dropping"
                           \/ loop = "running" /\ bye /\ sock # "none"
WaitsFor(t, s) ==
    \/ ConnWaits(t) /\ s = connLock
    \/ SubsWaits(t) /\ s = subsLock
    \/ AckWaits(t) /\ s = ackLock
    \/ pc[t] \in {"connectJoin", "threadJoin"} /\ s = thread /\ ~At(s, "done")
    \/ At(t, "loopJoin") /\ LoopWaits /\ s = ackLock

\* Threads that wait only for one another.
Deadlock(S) == S # {} /\ \A t \in S : \E s \in S : WaitsFor(t, s)

\* A thread of the cycle, which only another one could let go on.
Halted(t) == \/ WantsConnLock(t) /\ connLock # NoThread
             \/ At(t, "upSubs") /\ subsLock # NoThread
             \/ WantsAckLock(t) /\ ackLock # NoThread

InCall == {"subCheck", "subSend", "subAck", "unsubCheck", "unsubSend", "unsubAck"}

\* Each lock is held by the thread that is inside its region, and by nobody else.
Holders ==
    /\ \A u \in Ups : (connLock = u) <=> (pc[u] \in {"upSubs", "upRenew"})
    /\ \A a \in Apps : (subsLock = a) <=> (pc[a] \in InCall)
    /\ \A u \in Ups : (subsLock = u) <=> (pc[u] = "upRenew")
    /\ \A t \in Leavers : (ackLock = t) <=> (pc[t] = "sweep")

LEMMA HoldersInit == Init => Holders
  BY DEF Init, Holders, InCall, Leavers, Threads

\* A step of a thread outside the regions that takes no lock.
LEMMA HoldersKept ==
    ASSUME Holders, UNCHANGED <<connLock, subsLock, ackLock>>,
           \A u \in Ups : pc'[u] = pc[u] \/ {pc[u], pc'[u]} \cap {"upSubs", "upRenew"} = {},
           \A t \in Leavers :
               pc'[t] = pc[t] \/ {pc[t], pc'[t]} \cap (InCall \cup {"sweep"}) = {}
    PROVE  Holders'
  BY DEF Holders, Leavers

LEMMA HoldersApp ==
    ASSUME TypeOK, Holders, NEW a \in Apps,
           AppCall(a) \/ AppStep(a) \/ Release(a)
    PROVE  Holders'
  <1> USE DEF Leavers, Threads, At, Goto, Free, client, locks, local, paho, ghost
  <1>1. CASE \/ CallConnect(a) \/ ConnectCheck(a) \/ ThreadCheck(a) \/ JoinCheck(a)
             \/ ConnectJoin(a) \/ ConnectAwait(a)
    <2>1. /\ pc[a] \notin InCall \cup {"sweep"} /\ pc'[a] \notin InCall \cup {"sweep"}
          /\ \A t \in Threads : t # a => pc'[t] = pc[t]
          /\ UNCHANGED <<connLock, subsLock, ackLock>>
      BY <1>1, SMTT(30) DEF CallConnect, Call, ConnectCheck, ThreadCheck, JoinCheck,
                            ConnectJoin, ConnectAwait, TypeOK, InCall
    <2> QED
      BY <2>1, HoldersKept
  <1>2. CASE StartThread(a)
    <2>1. NewThread(Conns) \in Conns
      BY <1>2, NewThreadStarts DEF StartThread, StartConnectThread
    <2>2. /\ pc[a] = "startThread" /\ pc'[a] = "joinCheck"
          /\ \A t \in Apps \cup Ups \cup Downs : t # a => pc'[t] = pc[t]
          /\ UNCHANGED <<connLock, subsLock, ackLock>>
      BY <1>2, <2>1 DEF StartThread, StartConnectThread, Start, TypeOK
    <2> QED
      BY <2>2, HoldersKept DEF InCall
  <1>3. CASE \/ CallSubscribe(a, "subWait") \/ CallSubscribe(a, "unsubWait")
             \/ CallDisconnect(a) \/ CallDestroy(a) \/ Release(a)
    <2>1. /\ pc[a] \notin InCall \cup {"sweep"} /\ pc'[a] \notin InCall \cup {"sweep"}
          /\ \A t \in Threads : t # a => pc'[t] = pc[t]
          /\ UNCHANGED <<connLock, subsLock, ackLock>>
      BY <1>3, SMTT(30) DEF CallSubscribe, CallDisconnect, CallDestroy, Call, Release,
                            TypeOK, InCall
    <2> QED
      BY <2>1, HoldersKept
  <1>4. CASE Subscribe(a) \/ Unsubscribe(a)
    <2>1. /\ pc[a] \in {"subWait", "unsubWait"} /\ subsLock = NoThread
          /\ \/ subsLock' = a /\ pc'[a] \in InCall
             \/ subsLock' = NoThread /\ pc'[a] = "idle"
          /\ \A t \in Threads : t # a => pc'[t] = pc[t]
          /\ UNCHANGED <<connLock, ackLock>>
      BY <1>4, SMTT(30) DEF Subscribe, Unsubscribe, Return, TypeOK, InCall
    <2> QED
      BY <2>1 DEF Holders, InCall
  <1>5. CASE SubscribeSend(a) \/ UnsubscribeSend(a)
    <2>1. /\ pc[a] \in InCall /\ pc'[a] \in InCall
          /\ \A t \in Threads : t # a => pc'[t] = pc[t]
          /\ UNCHANGED <<connLock, subsLock, ackLock>>
      BY <1>5 DEF SubscribeSend, UnsubscribeSend, TypeOK, InCall
    <2> QED
      BY <2>1 DEF Holders, InCall
  <1>6. CASE SubscribeCheck(a) \/ UnsubscribeCheck(a) \/ SubscribeEnd(a) \/ UnsubscribeEnd(a)
    <2>1. /\ pc[a] \in InCall
          /\ \/ subsLock' = subsLock /\ pc'[a] \in InCall
             \/ subsLock' = NoThread /\ pc'[a] = "idle"
          /\ \A t \in Threads : t # a => pc'[t] = pc[t]
          /\ UNCHANGED <<connLock, ackLock>>
      BY <1>6, SMTT(30) DEF SubscribeCheck, UnsubscribeCheck, SubscribeEnd, UnsubscribeEnd,
                            Return, TypeOK, InCall
    <2> QED
      BY <2>1 DEF Holders, InCall
  <1> QED
    BY <1>1, <1>2, <1>3, <1>4, <1>5, <1>6 DEF AppCall, AppStep

LEMMA HoldersLeave ==
    ASSUME TypeOK, Holders, NEW t \in Leavers, LeaveStep(t) \/ PoolDone(t)
    PROVE  Holders'
  <1> USE DEF Leavers, Threads, At, Goto, Free, Forget, Raise, Home,
              client, locks, local, paho, ghost
  <1>1. CASE SweepStart(t) \/ SweepAck(t)
    <2>1. /\ pc[t] \in {"sweepStart", "sweepAck"} /\ pc'[t] = "sweep"
          /\ ackLock = NoThread /\ ackLock' = t
          /\ \A s \in Threads : s # t => pc'[s] = pc[s]
          /\ UNCHANGED <<connLock, subsLock>>
      BY <1>1 DEF SweepStart, SweepAck, TypeOK
    <2> QED
      BY <2>1 DEF Holders, InCall
  <1>2. CASE SweepRaise(t) \/ SweepTopic(t) \/ SweepEnd(t)
    <2>1. /\ pc[t] = "sweep"
          /\ \/ ackLock' = ackLock /\ pc'[t] = "sweep"
             \/ ackLock' = NoThread /\ pc'[t] \in {"idle", "done", "sweepAck", "loopStop"}
          /\ \A s \in Threads : s # t => pc'[s] = pc[s]
          /\ UNCHANGED <<connLock, subsLock>>
      <3>1. CASE SweepRaise(t)
        BY <3>1 DEF SweepRaise, TypeOK
      <3>2. CASE SweepTopic(t)
        <4>1. (UNCHANGED <<ackLock, pc>>) \/ (ackLock' = NoThread /\ Goto(t, "sweepAck"))
          BY <3>2 DEF SweepTopic
        <4> QED
          BY <3>2, <4>1 DEF SweepTopic, TypeOK
      <3>3. CASE SweepEnd(t)
        BY <3>3 DEF SweepEnd, TypeOK
      <3> QED
        BY <1>2, <3>1, <3>2, <3>3
    <2> QED
      BY <2>1 DEF Holders, InCall
  <1>3. CASE \/ LoopStop(t) \/ LoopJoin(t) \/ ThreadTest(t) \/ ThreadJoin(t)
             \/ LeaveAwait(t) \/ PoolDone(t)
    <2>1. /\ pc[t] \notin InCall \cup {"sweep"} /\ pc'[t] \notin InCall \cup {"sweep"}
          /\ \A s \in Threads : s # t => pc'[s] = pc[s]
          /\ UNCHANGED <<connLock, subsLock, ackLock>>
      BY <1>3, SMTT(30) DEF LoopStop, LoopJoin, ThreadTest, ThreadJoin, LeaveAwait,
                            AfterLeave, PoolDone, TypeOK, InCall
    <2> QED
      BY <2>1, HoldersKept
  <1>4. CASE ClientDisconnect(t)
    <2>1. Unstarted(Downs) # {} => NewThread(Downs) \in Downs /\ pc[NewThread(Downs)] = "idle"
      BY NewThreadStarts
    <2>2. /\ pc[t] = "clientDisconnect" /\ UNCHANGED <<connLock, subsLock, ackLock>>
          /\ pc'[t] \in {"idle", "done", "threadTest", "downClean"}
          /\ \A s \in Threads : s # t =>
                 pc'[s] = pc[s] \/ (pc[s] = "idle" /\ pc'[s] = "downClean" /\ s \in Downs)
      BY <1>4, <2>1, SMTT(30) DEF ClientDisconnect, Start, TypeOK
    <2> QED
      BY <2>2, HoldersKept DEF InCall
  <1> QED
    BY <1>1, <1>2, <1>3, <1>4 DEF LeaveStep

LEMMA HoldersCallbacks ==
    ASSUME TypeOK, Holders,
           (\E u \in Ups : UpStep(u)) \/ (\E d \in Downs : DownStep(d))
    PROVE  Holders'
  <1> USE DEF Leavers, Threads, At, Goto, Free, client, locks, local, paho, ghost
  <1>1. ASSUME NEW u \in Ups, UpLock(u)
        PROVE  Holders'
    <2>1. /\ pc[u] = "upLock" /\ pc'[u] = "upSubs"
          /\ connLock = NoThread /\ connLock' = u
          /\ \A s \in Threads : s # u => pc'[s] = pc[s]
          /\ UNCHANGED <<subsLock, ackLock>>
      BY <1>1 DEF UpLock, TypeOK
    <2> QED
      BY <2>1 DEF Holders
  <1>2. ASSUME NEW u \in Ups, UpSubs(u)
        PROVE  Holders'
    <2>1. /\ pc[u] = "upSubs" /\ pc'[u] = "upRenew"
          /\ subsLock = NoThread /\ subsLock' = u
          /\ \A s \in Threads : s # u => pc'[s] = pc[s]
          /\ UNCHANGED <<connLock, ackLock>>
      BY <1>2 DEF UpSubs, TypeOK
    <2> QED
      BY <2>1 DEF Holders
  <1>3. ASSUME NEW u \in Ups, UpRenew(u)
        PROVE  Holders'
    BY <1>3 DEF UpRenew, Holders
  <1>4. ASSUME NEW u \in Ups, UpEnd(u)
        PROVE  Holders'
    <2>1. /\ pc[u] = "upRenew" /\ pc'[u] = "done"
          /\ connLock' = NoThread /\ subsLock' = NoThread
          /\ \A s \in Threads : s # u => pc'[s] = pc[s]
          /\ UNCHANGED ackLock
      BY <1>4 DEF UpEnd, TypeOK
    <2>2. connLock = u /\ subsLock = u
      BY <2>1 DEF Holders
    <2> QED
      BY <2>1, <2>2 DEF Holders
  <1>5. ASSUME NEW d \in Downs, DownLock(d)
        PROVE  Holders'
    <2>1. /\ pc[d] \in {"downClean", "downLost"} /\ pc'[d] \in {"poolWait", "done"}
          /\ \A s \in Threads : s # d => pc'[s] = pc[s]
          /\ UNCHANGED <<connLock, subsLock, ackLock>>
      BY <1>5 DEF DownLock, TypeOK
    <2> QED
      BY <2>1, HoldersKept DEF InCall
  <1>6. ASSUME NEW d \in Downs, Restart(d)
        PROVE  Holders'
    <2>1. Unstarted(Conns) # {} => NewThread(Conns) \in Conns
      BY NewThreadStarts
    <2>2. /\ pc[d] = "restart" /\ pc'[d] = "done"
          /\ \A s \in Apps \cup Ups \cup Downs : s # d => pc'[s] = pc[s]
          /\ UNCHANGED <<connLock, subsLock, ackLock>>
      BY <1>6, <2>1 DEF Restart, StartConnectThread, Start, TypeOK
    <2> QED
      BY <2>2, HoldersKept DEF InCall
  <1> QED
    BY <1>1, <1>2, <1>3, <1>4, <1>5, <1>6 DEF UpStep, DownStep

LEMMA HoldersRest ==
    ASSUME TypeOK, Holders,
           \/ \E k \in Conns : ConnStep(k) \/ BrokersFound(k)
           \/ NetConnack \/ NetDrop \/ NetStep
    PROVE  Holders'
  <1> USE DEF Leavers, Threads, At, Goto, Free, Network, client, locks, local, paho, ghost
  <1>1. ASSUME NEW k \in Conns, ConnStep(k) \/ BrokersFound(k)
        PROVE  Holders'
    <2>1. /\ \A s \in Apps \cup Ups \cup Downs : pc'[s] = pc[s]
          /\ UNCHANGED <<connLock, subsLock, ackLock>>
      BY <1>1 DEF ConnStep, ConnClear, ConnCheck, AttemptSucceeds, AttemptFails,
                  AttemptStops, Delay, Launch, BrokersFound, BrokerWaitEnds, TypeOK
    <2> QED
      BY <2>1, HoldersKept
  <1>2. CASE NetConnack
    <2>1. NewThread(Ups) \in Ups /\ pc[NewThread(Ups)] = "idle"
      BY <1>2, NewThreadStarts DEF NetConnack
    <2>2. /\ UNCHANGED <<connLock, subsLock, ackLock>>
          /\ pc'[NewThread(Ups)] \in {"done", "upLock"}
          /\ \A s \in Threads : s # NewThread(Ups) => pc'[s] = pc[s]
      BY <1>2, <2>1 DEF NetConnack, TypeOK
    <2> QED
      BY <2>1, <2>2, HoldersKept
  <1>3. CASE NetReport \/ NetBye
    <2>1. Unstarted(Downs) # {} => NewThread(Downs) \in Downs /\ pc[NewThread(Downs)] = "idle"
      BY NewThreadStarts
    <2>2. /\ UNCHANGED <<connLock, subsLock, ackLock>>
          /\ \A s \in Threads :
                 pc'[s] = pc[s]
                 \/ (pc[s] = "idle" /\ pc'[s] \in {"downClean", "downLost"} /\ s \in Downs)
      BY <1>3, <2>1 DEF NetReport, NetBye, TypeOK
    <2> QED
      BY <2>2, HoldersKept DEF InCall
  <1>4. CASE NetDrop \/ NetStart \/ NetStop \/ NetIdle \/ NetLostEnd \/ NetReopen
    <2>1. pc' = pc /\ UNCHANGED <<connLock, subsLock, ackLock>>
      BY <1>4 DEF NetDrop, NetStart, NetStop, NetIdle, NetLostEnd, NetReopen
    <2> QED
      BY <2>1, HoldersKept
  <1> QED
    BY <1>1, <1>2, <1>3, <1>4 DEF NetStep

LEMMA HoldersNext == TypeOK /\ Holders /\ [Next]_vars => Holders'
  <1> SUFFICES ASSUME TypeOK, Holders, [Next]_vars PROVE Holders'
    OBVIOUS
  <1>1. CASE UNCHANGED vars
    BY <1>1, HoldersKept DEF vars, locks, local
  <1>2. CASE Next
    BY <1>2, HoldersApp, HoldersLeave, HoldersCallbacks, HoldersRest
       DEF Next, WaitStep
  <1> QED
    BY <1>1, <1>2

\* A step of x leaves the other threads where they are; it may start one.
Others(x) ==
    /\ \A s \in Threads : s # x =>
          \/ pc'[s] = pc[s] /\ todo'[s] = todo[s]
          \/ /\ pc[s] = "idle"
             /\ pc'[s] \in {"clear", "upLock", "downClean", "downLost", "done"}
    /\ \A s \in Leavers : s # x => snap'[s] = snap[s]

LEMMA FrameApp ==
    ASSUME TypeOK, NEW a \in Apps, AppCall(a) \/ AppStep(a) \/ Release(a)
    PROVE  Others(a) /\ ~Halted(a)
  <1> USE DEF Leavers, Threads, At, Goto, Free, client, locks, local, paho, ghost
  <1> DEFINE Alone == \A s \in Threads : s # a => pc'[s] = pc[s] /\ todo'[s] = todo[s]
  <1>0. Alone /\ snap' = snap => Others(a)
    BY DEF Others
  <1> HIDE DEF Alone
  <1>1. CASE \/ CallConnect(a) \/ CallDisconnect(a) \/ CallDestroy(a)
             \/ CallSubscribe(a, "subWait") \/ CallSubscribe(a, "unsubWait")
    <2>1. Alone /\ snap' = snap /\ pc[a] = "idle"
      BY <1>1 DEF CallConnect, CallDisconnect, CallDestroy, CallSubscribe, Call,
                  TypeOK, Alone
    <2> QED
      BY <1>0, <2>1 DEF Halted, WantsConnLock, WantsAckLock
  <1>2. CASE \/ ConnectCheck(a) \/ ThreadCheck(a) \/ JoinCheck(a) \/ ConnectJoin(a)
             \/ ConnectAwait(a) \/ Release(a)
    <2>1. Alone /\ snap' = snap
          /\ pc[a] \in {"connectCheck", "threadCheck", "joinCheck", "connectJoin",
                        "connectAwait", "release"}
      BY <1>2 DEF ConnectCheck, ThreadCheck, JoinCheck, ConnectJoin, ConnectAwait,
                  Release, TypeOK, Alone
    <2> QED
      BY <1>0, <2>1 DEF Halted, WantsConnLock, WantsAckLock
  <1>3. CASE StartThread(a)
    <2>1. NewThread(Conns) \in Conns /\ pc[NewThread(Conns)] = "idle"
      BY <1>3, NewThreadStarts DEF StartThread, StartConnectThread
    <2>2. /\ pc[a] = "startThread" /\ snap' = snap /\ todo' = todo
          /\ pc' = [pc EXCEPT ![a] = "joinCheck", ![NewThread(Conns)] = "clear"]
      BY <1>3 DEF StartThread, StartConnectThread, Start
    <2> HIDE DEF Leavers
    <2>3. Others(a)
      BY <2>1, <2>2 DEF Others, TypeOK
    <2> QED
      BY <2>2, <2>3 DEF Halted, WantsConnLock, WantsAckLock
  <1>4. CASE \/ Subscribe(a) \/ Unsubscribe(a)
    <2>1. Alone /\ snap' = snap /\ pc[a] \in {"subWait", "unsubWait"}
      BY <1>4 DEF Subscribe, Unsubscribe, Return, TypeOK, Alone
    <2> QED
      BY <1>0, <2>1 DEF Halted, WantsConnLock, WantsAckLock
  <1>5. CASE SubscribeCheck(a) \/ UnsubscribeCheck(a)
    <2>1. /\ Alone /\ snap' = snap /\ pc[a] \in {"subCheck", "unsubCheck"}
          /\ connLock = NoThread
      BY <1>5 DEF SubscribeCheck, UnsubscribeCheck, Return, TypeOK, Alone
    <2> QED
      BY <1>0, <2>1 DEF Halted, WantsConnLock, WantsAckLock
  <1>6. CASE SubscribeSend(a) \/ UnsubscribeSend(a) \/ SubscribeEnd(a) \/ UnsubscribeEnd(a)
    <2>1. /\ Alone /\ snap' = snap
          /\ pc[a] \in {"subSend", "unsubSend", "subAck", "unsubAck"}
          /\ ackLock = NoThread
      BY <1>6 DEF SubscribeSend, UnsubscribeSend, SubscribeEnd, UnsubscribeEnd,
                  Return, TypeOK, Alone
    <2> QED
      BY <1>0, <2>1 DEF Halted, WantsConnLock, WantsAckLock
  <1> QED
    BY <1>1, <1>2, <1>3, <1>4, <1>5, <1>6 DEF AppCall, AppStep

LEMMA FrameLeave ==
    ASSUME TypeOK, NEW t \in Leavers, LeaveStep(t) \/ PoolDone(t)
    PROVE  Others(t) /\ ~Halted(t)
  <1> USE DEF Leavers, Threads, At, Goto, Free, Forget, Raise, client, locks, local,
              paho, ghost
  <1> DEFINE Alone == \A s \in Threads : s # t => pc'[s] = pc[s] /\ todo'[s] = todo[s]
             Still == \A s \in Leavers : s # t => snap'[s] = snap[s]
  <1>0. Alone /\ Still => Others(t)
    BY DEF Others
  <1> HIDE DEF Alone, Still
  <1>1. CASE SweepStart(t) \/ SweepAck(t)
    <2>1. Alone /\ Still /\ pc[t] \in {"sweepStart", "sweepAck"}
      BY <1>1 DEF SweepStart, SweepAck, TypeOK, Alone, Still
    <2> QED
      BY <1>0, <2>1 DEF Halted, WantsConnLock, WantsAckLock
  <1>2. CASE SweepRaise(t)
    <2>1. Alone /\ Still /\ pc[t] = "sweep" /\ Resized(t)
      BY <1>2 DEF SweepRaise, TypeOK, Alone, Still
    <2> QED
      BY <1>0, <2>1 DEF Halted, WantsConnLock, WantsAckLock
  <1>3. CASE SweepTopic(t)
    <2>1. /\ pc[t] = "sweep" /\ connLock = NoThread /\ snap' = snap
          /\ \E topic \in todo[t] : todo' = [todo EXCEPT ![t] = @ \ {topic}]
          /\ (pc' = pc \/ pc' = [pc EXCEPT ![t] = "sweepAck"])
      BY <1>3 DEF SweepTopic
    <2>2. Alone /\ Still
      BY <2>1 DEF TypeOK, Alone, Still
    <2> QED
      BY <1>0, <2>1, <2>2 DEF Halted, WantsConnLock, WantsAckLock
  <1>4. CASE SweepEnd(t)
    <2>1. Alone /\ Still /\ pc[t] = "sweep" /\ todo[t] = {}
      BY <1>4 DEF SweepEnd, TypeOK, Alone, Still
    <2> QED
      BY <1>0, <2>1 DEF Halted, WantsConnLock, WantsAckLock
  <1>5. CASE \/ LoopStop(t) \/ LoopJoin(t) \/ ThreadTest(t) \/ ThreadJoin(t)
             \/ LeaveAwait(t) \/ PoolDone(t)
    <2>1. /\ Alone /\ Still
          /\ pc[t] \in {"loopStop", "loopJoin", "threadTest", "threadJoin",
                        "leaveAwait", "poolWait"}
      BY <1>5 DEF LoopStop, LoopJoin, ThreadTest, ThreadJoin, LeaveAwait, PoolDone, TypeOK,
                  Alone, Still
    <2> QED
      BY <1>0, <2>1 DEF Halted, WantsConnLock, WantsAckLock
  <1>6. CASE ClientDisconnect(t)
    <2>1. Unstarted(Downs) # {} => NewThread(Downs) \in Downs /\ pc[NewThread(Downs)] = "idle"
      BY NewThreadStarts
    <2>2. pc[t] = "clientDisconnect" /\ Others(t)
      BY <1>6, <2>1, SMTT(30) DEF ClientDisconnect, Start, TypeOK, Others
    <2> QED
      BY <2>2 DEF Halted, WantsConnLock, WantsAckLock
  <1> QED
    BY <1>1, <1>2, <1>3, <1>4, <1>5, <1>6 DEF LeaveStep

LEMMA FrameUp ==
    ASSUME TypeOK, NEW u \in Ups, UpStep(u)
    PROVE  Others(u) /\ ~Halted(u)
  <1> USE DEF Leavers, Threads, At, Goto, Free, client, locks, local, paho, ghost
  <1>1. CASE UpLock(u)
    BY <1>1 DEF UpLock, TypeOK, Others, Halted, WantsConnLock, WantsAckLock
  <1>2. CASE UpSubs(u)
    BY <1>2 DEF UpSubs, TypeOK, Others, Halted, WantsConnLock, WantsAckLock
  <1>3. CASE UpRenew(u)
    <2>1. /\ pc[u] = "upRenew" /\ ackLock = NoThread /\ snap' = snap /\ pc' = pc
          /\ \E topic \in todo[u] : todo' = [todo EXCEPT ![u] = @ \ {topic}]
      BY <1>3 DEF UpRenew
    <2> QED
      BY <2>1 DEF TypeOK, Others, Halted, WantsConnLock, WantsAckLock
  <1>4. CASE UpEnd(u)
    BY <1>4 DEF UpEnd, TypeOK, Others, Halted, WantsConnLock, WantsAckLock
  <1> QED
    BY <1>1, <1>2, <1>3, <1>4 DEF UpStep

LEMMA FrameDown ==
    ASSUME TypeOK, NEW d \in Downs, DownStep(d)
    PROVE  Others(d) /\ ~Halted(d)
  <1> USE DEF Leavers, Threads, At, Goto, Free, client, locks, local, paho, ghost
  <1>1. CASE DownLock(d)
    BY <1>1 DEF DownLock, TypeOK, Others, Halted, WantsConnLock, WantsAckLock
  <1>2. CASE Restart(d)
    <2>1. Unstarted(Conns) # {} => NewThread(Conns) \in Conns /\ pc[NewThread(Conns)] = "idle"
      BY NewThreadStarts
    <2>2. Others(d) /\ pc[d] = "restart"
      BY <1>2, <2>1, SMTT(30) DEF Restart, StartConnectThread, Start, TypeOK, Others
    <2> QED
      BY <2>2 DEF Halted, WantsConnLock, WantsAckLock
  <1> QED
    BY <1>1, <1>2 DEF DownStep

LEMMA FrameConn ==
    ASSUME TypeOK, NEW k \in Conns, ConnStep(k) \/ BrokersFound(k)
    PROVE  /\ Others(k) /\ ~Halted(k)
           /\ pc'[k] \in {"connCheck", "brokerWait", "attempt", "delay", "launch",
                          "done"}
  <1> USE DEF Leavers, Threads, At, Goto, Free, client, locks, local, paho, ghost
  <1>1. pc[k] \in {"clear", "connCheck", "brokerWait", "attempt", "delay", "launch"}
    BY DEF ConnStep, ConnClear, ConnCheck, AttemptSucceeds, AttemptFails,
           AttemptStops, Delay, Launch, BrokersFound, BrokerWaitEnds
  <1>2. /\ \A s \in Threads : s # k => pc'[s] = pc[s]
        /\ pc'[k] \in {"connCheck", "brokerWait", "attempt", "delay", "launch", "done"}
        /\ UNCHANGED <<todo, snap>>
    BY DEF ConnStep, ConnClear, ConnCheck, AttemptSucceeds, AttemptFails,
           AttemptStops, Delay, Launch, BrokersFound, BrokerWaitEnds,
           TypeOK
  <1> QED
    BY <1>1, <1>2 DEF Others, Halted, WantsConnLock, WantsAckLock

LEMMA FrameNet ==
    ASSUME TypeOK, NetConnack \/ NetDrop \/ NetStep
    PROVE  Others(NoThread)
  <1> USE DEF Leavers, Threads, At, Goto, Free, Network, client, locks, local, paho, ghost
  <1>1. CASE NetConnack
    <2>1. NewThread(Ups) \in Ups /\ pc[NewThread(Ups)] = "idle"
      BY <1>1, NewThreadStarts DEF NetConnack
    <2> QED
      BY <1>1, <2>1 DEF NetConnack, TypeOK, Others
  <1>2. CASE NetReport \/ NetBye
    <2>1. Unstarted(Downs) # {} => NewThread(Downs) \in Downs /\ pc[NewThread(Downs)] = "idle"
      BY NewThreadStarts
    <2> QED
      BY <1>2, <2>1 DEF NetReport, NetBye, TypeOK, Others
  <1>3. CASE NetDrop \/ NetStart \/ NetStop \/ NetIdle \/ NetLostEnd \/ NetReopen
    BY <1>3 DEF NetDrop, NetStart, NetStop, NetIdle, NetLostEnd, NetReopen, Others
  <1> QED
    BY <1>1, <1>2, <1>3 DEF NetStep

\* A halted thread stays where it is.
LEMMA HaltedStays ==
    ASSUME TypeOK, Next, NEW t \in Threads, Halted(t)
    PROVE  /\ pc'[t] = pc[t] /\ todo'[t] = todo[t]
           /\ t \in Leavers => snap'[t] = snap[t]
  <1>1. PICK x : Others(x) /\ (x = NoThread \/ ~Halted(x))
    BY FrameApp, FrameLeave, FrameUp, FrameDown, FrameConn, FrameNet
       DEF Next, WaitStep
  <1>2. t # x
    BY <1>1
  <1>3. pc[t] # "idle"
    BY DEF Halted, WantsConnLock, WantsAckLock, At
  <1> QED
    BY <1>1, <1>2, <1>3 DEF Others

\* The connect threads join nobody.
NoJoins == \A k \in Conns : pc[k] \notin {"connectJoin", "threadJoin"}

LEMMA NoJoinsNext == TypeOK /\ NoJoins /\ [Next]_vars => NoJoins'
  <1> SUFFICES ASSUME TypeOK, NoJoins, [Next]_vars, NEW k \in Conns
               PROVE  pc'[k] \notin {"connectJoin", "threadJoin"}
    BY DEF NoJoins
  <1>1. CASE UNCHANGED vars
    BY <1>1 DEF vars, local, NoJoins
  <1>2. CASE ConnStep(k) \/ BrokersFound(k)
    BY <1>2, FrameConn
  <1>3. CASE Next /\ ~ConnStep(k) /\ ~BrokersFound(k)
    <2>1. PICK x : Others(x) /\ x # k
      BY <1>3, FrameApp, FrameLeave, FrameUp, FrameDown, FrameConn, FrameNet
         DEF Next, WaitStep, Threads, Leavers
    <2> QED
      BY <2>1 DEF Others, NoJoins, Threads
  <1> QED
    BY <1>1, <1>2, <1>3

LEMMA LocksHeld == Spec => [](TypeOK /\ Holders /\ NoJoins)
  <1>1. Init => NoJoins
    BY DEF Init, NoJoins, Threads
  <1> QED
    BY <1>1, TypeCorrect, HoldersInit, HoldersNext, NoJoinsNext, PTL DEF Spec

\* What a closed cycle consists of.
LEMMA CycleLocks ==
    ASSUME TypeOK, Holders, LockCycle
    PROVE  /\ connLock \in Ups /\ connLock # NoThread /\ subsLock # NoThread
           /\ \/ pc[connLock] = "upSubs" /\ subsLock \in Apps
              \/ pc[connLock] = "upRenew" /\ subsLock = connLock /\ ackLock # NoThread
           /\ ackLock # NoThread =>
                  ackLock \in Leavers /\ pc[ackLock] = "sweep" /\ ackLock \in Threads
  <1>1. connLock \in Ups /\ connLock # NoThread /\ pc[connLock] \in {"upSubs", "upRenew"}
    BY DEF LockCycle, TypeOK, Holders
  <1>2. ackLock # NoThread => ackLock \in Leavers /\ pc[ackLock] = "sweep" /\ ackLock \in Threads
    BY DEF TypeOK, Holders, Threads
  <1>3. CASE pc[connLock] = "upSubs"
    <2>1. subsLock # NoThread
      BY <1>3 DEF LockCycle, WantsAckLock
    <2>2. subsLock \notin Ups
      BY <1>1, <1>3 DEF Holders
    <2> QED
      BY <1>1, <1>2, <1>3, <2>1, <2>2 DEF TypeOK
  <1>4. CASE pc[connLock] = "upRenew"
    BY <1>1, <1>2, <1>4 DEF LockCycle, At, Holders
  <1> QED
    BY <1>1, <1>3, <1>4

\* _subscriptions changes only in the hands of a thread that goes on.
LEMMA SubsStay ==
    ASSUME TypeOK, Holders, LockCycle, Next
    PROVE  subs' = subs
  <1> USE DEF At, Goto, Free, Return, Call, client, locks, local, paho, ghost
  <1>1. ASSUME NEW a \in Apps, AppCall(a) \/ AppStep(a) \/ Release(a)
        PROVE  subs' = subs
    <2>1. ~Halted(a)
      BY <1>1, FrameApp
    <2>2. CASE Subscribe(a)
      BY <2>2, CycleLocks DEF Subscribe
    <2>3. CASE UnsubscribeCheck(a)
      BY <2>3, CycleLocks DEF UnsubscribeCheck
    <2>4. CASE UnsubscribeEnd(a)
      <3>1. pc[a] = "unsubAck" /\ ackLock = NoThread
        BY <2>4 DEF UnsubscribeEnd
      <3>2. subsLock = a
        BY <3>1 DEF Holders, InCall
      <3> QED
        BY <3>1, <3>2, CycleLocks DEF LockCycle, WantsConnLock
    <2>5. CASE AppCall(a)
      BY <2>5 DEF AppCall, CallConnect, CallDisconnect, CallDestroy, CallSubscribe
    <2>6. CASE \/ ConnectCheck(a) \/ ThreadCheck(a) \/ StartThread(a) \/ JoinCheck(a)
               \/ ConnectJoin(a) \/ ConnectAwait(a) \/ Release(a)
      BY <2>6 DEF ConnectCheck, ThreadCheck, StartThread, JoinCheck, ConnectJoin,
                  ConnectAwait, Release
    <2>7. CASE \/ SubscribeCheck(a) \/ SubscribeSend(a) \/ SubscribeEnd(a)
               \/ Unsubscribe(a) \/ UnsubscribeSend(a)
      BY <2>7 DEF SubscribeCheck, SubscribeSend, SubscribeEnd, Unsubscribe,
                  UnsubscribeSend
    <2> QED
      BY <1>1, <2>2, <2>3, <2>4, <2>5, <2>6, <2>7 DEF AppStep
  <1>2. ASSUME NEW t \in Leavers, LeaveStep(t) \/ PoolDone(t)
        PROVE  subs' = subs
    BY <1>2 DEF LeaveStep, PoolDone, SweepStart, SweepRaise, SweepTopic, SweepAck, SweepEnd,
                LoopStop, LoopJoin, ClientDisconnect, ThreadTest, ThreadJoin, LeaveAwait
  <1>3. ASSUME (\E u \in Ups : UpStep(u)) \/ (\E d \in Downs : DownStep(d))
        PROVE  subs' = subs
    BY <1>3 DEF UpStep, UpLock, UpSubs, UpRenew, UpEnd, DownStep, DownLock, Restart
  <1>4. ASSUME NEW k \in Conns, ConnStep(k) \/ BrokersFound(k)
        PROVE  subs' = subs
    BY <1>4 DEF ConnStep, ConnClear, ConnCheck, AttemptSucceeds, AttemptFails,
                AttemptStops, Delay, Launch, BrokersFound, BrokerWaitEnds
  <1>5. CASE NetConnack \/ NetDrop \/ NetStep
    BY <1>5 DEF NetConnack, NetDrop, NetStep, NetStart, NetReport, NetBye, NetStop,
                NetIdle, NetLostEnd, NetReopen, Network
  <1> QED
    BY <1>1, <1>2, <1>3, <1>4, <1>5 DEF Next, WaitStep
-----------------------------------------------------------------------------
(* The deadlocks *)

LEMMA CycleStays ==
    TypeOK /\ Holders /\ Holders' /\ LockCycle /\ [Next]_vars => LockCycle'
  <1> SUFFICES ASSUME TypeOK, Holders, Holders', LockCycle, Next PROVE LockCycle'
    BY DEF LockCycle, WantsConnLock, WantsAckLock, Resized, At, vars, client, locks, local
  <1>1. /\ connLock \in Ups /\ connLock \in Threads /\ connLock # NoThread
        /\ subsLock # NoThread
        /\ \/ pc[connLock] = "upSubs" /\ subsLock \in Apps
           \/ pc[connLock] = "upRenew" /\ subsLock = connLock /\ ackLock # NoThread
        /\ ackLock # NoThread =>
               ackLock \in Leavers /\ pc[ackLock] = "sweep" /\ ackLock \in Threads
        /\ subs' = subs
    BY CycleLocks, SubsStay DEF Threads
  <1>2. pc'[connLock] = pc[connLock] /\ connLock' = connLock
    <2>1. Halted(connLock)
      BY <1>1 DEF Halted, WantsAckLock, At
    <2>2. pc'[connLock] = pc[connLock]
      BY <1>1, <2>1, HaltedStays
    <2> QED
      BY <1>1, <2>2 DEF Holders
  <1>3. ASSUME ackLock # NoThread, WantsConnLock(ackLock)
        PROVE  ackLock' = ackLock /\ WantsConnLock(ackLock)'
    <2>1. pc'[ackLock] = "sweep" /\ todo'[ackLock] = todo[ackLock] /\ snap'[ackLock] = snap[ackLock]
      BY <1>1, <1>3, HaltedStays DEF Halted
    <2>2. ackLock' = ackLock
      BY <1>1, <1>3, <2>1 DEF Holders
    <2> QED
      BY <1>1, <1>3, <2>1, <2>2 DEF WantsConnLock, Resized, At
  <1>4. CASE pc[connLock] = "upSubs"
    <2>1. subsLock \in Apps /\ pc[subsLock] \in InCall /\ subsLock \in Threads
      BY <1>1, <1>4 DEF Holders, Threads, Leavers
    <2>2. Halted(subsLock)
      BY <1>1, <1>4 DEF LockCycle, Halted, WantsAckLock, At
    <2>3. pc'[subsLock] = pc[subsLock]
      BY <2>1, <2>2, HaltedStays
    <2>4. subsLock' = subsLock
      BY <2>1, <2>3 DEF Holders
    <2>5. CASE WantsConnLock(subsLock)
      <3>1. pc[subsLock] \in {"subCheck", "unsubCheck"}
        BY <2>1, <2>5 DEF WantsConnLock, InCall, At
      <3> QED
        BY <1>1, <1>2, <1>4, <2>3, <2>4, <3>1 DEF LockCycle, WantsConnLock, At
    <2>6. CASE WantsAckLock(subsLock) /\ ackLock # NoThread /\ WantsConnLock(ackLock)
      BY <1>1, <1>2, <1>3, <1>4, <2>3, <2>4, <2>6 DEF LockCycle, WantsAckLock, At
    <2> QED
      BY <1>4, <2>5, <2>6 DEF LockCycle, WantsAckLock
  <1>5. CASE pc[connLock] = "upRenew"
    <2>1. ackLock # NoThread /\ WantsConnLock(ackLock)
      BY <1>5 DEF LockCycle, At
    <2> QED
      BY <1>1, <1>2, <1>3, <1>5, <2>1 DEF LockCycle, WantsAckLock
  <1> QED
    BY <1>1, <1>4, <1>5

\* The lock cycle, once closed, is never left again: every thread in it stays
\* blocked, and with it every call that needs one of the locks
\* (client.py:76-98, 568-624, 829-866).
THEOREM LockCycleLasts == Spec => [][LockCycle => LockCycle']_vars
  <1>1. TypeOK /\ Holders /\ [Next]_vars => Holders'
    BY HoldersNext
  <1>2. LockCycle /\ UNCHANGED vars => LockCycle'
    BY DEF LockCycle, WantsConnLock, WantsAckLock, Resized, At, vars, client, locks, local
  <1> QED
    BY <1>1, <1>2, LocksHeld, CycleStays, PTL DEF Spec

\* A closed cycle is a set of threads that wait for one another.
LEMMA CycleIsDeadlock ==
    ASSUME TypeOK, Holders, LockCycle
    PROVE  \E S \in SUBSET Threads : Deadlock(S)
  <1>1. connLock \in Threads /\ connLock # NoThread
    BY CycleLocks DEF Threads
  <1>2. CASE pc[connLock] = "upSubs"
    <2>1. subsLock \in Threads /\ WaitsFor(connLock, subsLock)
      BY <1>2, CycleLocks DEF WaitsFor, SubsWaits, Threads, Leavers, WantsAckLock
    <2>2. CASE WantsConnLock(subsLock)
      <3>1. Deadlock({connLock, subsLock})
        BY <2>1, <2>2 DEF Deadlock, WaitsFor, ConnWaits
      <3> QED
        BY <1>1, <2>1, <3>1
    <2>3. CASE WantsAckLock(subsLock) /\ ackLock # NoThread /\ WantsConnLock(ackLock)
      <3>1. Deadlock({connLock, subsLock, ackLock})
        BY <2>1, <2>3 DEF Deadlock, WaitsFor, ConnWaits, AckWaits
      <3> QED
        BY <1>1, <2>1, <2>3, <3>1, CycleLocks
    <2> QED
      BY <1>2, <2>2, <2>3 DEF LockCycle, WantsAckLock
  <1>3. CASE pc[connLock] # "upSubs"
    <2>1. WantsAckLock(connLock) /\ ackLock # NoThread /\ WantsConnLock(ackLock)
      BY <1>3 DEF LockCycle, At
    <2>2. Deadlock({connLock, ackLock})
      BY <2>1 DEF Deadlock, WaitsFor, ConnWaits, AckWaits
    <2> QED
      BY <1>1, <2>1, <2>2, CycleLocks
  <1> QED
    BY <1>2, <1>3

\* Any set of threads that wait for one another closes the cycle.
LEMMA DeadlockIsCycle ==
    ASSUME TypeOK, Holders, NoJoins, NEW S \in SUBSET Threads, Deadlock(S)
    PROVE  LockCycle
  <1>1. \A t \in S : t \in Threads /\ t # NoThread /\ \E s \in S : WaitsFor(t, s)
    BY DEF Deadlock
  <1>2. ackLock \in S => /\ ackLock # NoThread /\ ackLock \in Leavers
                         /\ pc[ackLock] = "sweep"
    BY <1>1 DEF Holders, TypeOK
  <1>3. ackLock \in S => connLock \in S /\ WantsConnLock(ackLock)
    BY <1>1, <1>2 DEF WaitsFor, ConnWaits, SubsWaits, AckWaits, WantsAckLock, At
  <1>4. subsLock \in S => \/ subsLock \in Apps /\ pc[subsLock] \in InCall
                          \/ subsLock \in Ups /\ pc[subsLock] = "upRenew"
    BY <1>1 DEF Holders, TypeOK
  <1>5. ASSUME subsLock \in S
        PROVE  \/ connLock \in S /\ WantsConnLock(subsLock)
               \/ ackLock \in S /\ WantsAckLock(subsLock)
    <2>1. PICK s \in S : WaitsFor(subsLock, s)
      BY <1>1, <1>5
    <2> QED
      BY <1>4, <1>5, <2>1 DEF WaitsFor, ConnWaits, SubsWaits, AckWaits, WantsConnLock,
                              WantsAckLock, At, InCall
  <1>6. connLock \in S
    <2>1. ASSUME NEW t \in S, pc[t] \notin {"connectJoin", "threadJoin"}
          PROVE  connLock \in S
      BY <1>1, <1>3, <1>5, <2>1 DEF WaitsFor
    <2>2. PICK t \in S : TRUE
      BY DEF Deadlock
    <2>3. CASE pc[t] \in {"connectJoin", "threadJoin"} /\ thread \in S
      <3>1. thread \in Conns
        BY <1>1, <2>3 DEF TypeOK
      <3> QED
        BY <2>1, <2>3, <3>1 DEF NoJoins
    <2> QED
      BY <1>1, <1>3, <1>5, <2>1, <2>2, <2>3 DEF WaitsFor
  <1>7. connLock \in Ups /\ connLock # NoThread /\ pc[connLock] \in {"upSubs", "upRenew"}
    BY <1>1, <1>6 DEF TypeOK, Holders
  <1>8. CASE pc[connLock] = "upSubs"
    <2>1. subsLock \in S
      BY <1>1, <1>6, <1>8 DEF WaitsFor, ConnWaits, AckWaits, WantsConnLock,
                              WantsAckLock, At
    <2> QED
      BY <1>1, <1>2, <1>3, <1>5, <1>7, <1>8, <2>1 DEF LockCycle, At
  <1>9. CASE pc[connLock] = "upRenew"
    <2>1. ackLock \in S
      BY <1>1, <1>6, <1>9 DEF WaitsFor, ConnWaits, SubsWaits, WantsConnLock, At
    <2> QED
      BY <1>2, <1>3, <1>7, <1>9, <2>1 DEF LockCycle, WantsAckLock
  <1> QED
    BY <1>7, <1>8, <1>9

\* Threads wait only for one another exactly when the lock cycle is closed: no
\* other order in which connect, disconnect, destroy, subscribe, unsubscribe and
\* the callbacks take the three locks, join threads and stop the loop deadlocks
\* (client.py:76-150, 478-624, 806-866).
THEOREM OneDeadlock ==
    Spec => []((\E S \in SUBSET Threads : Deadlock(S)) <=> LockCycle)
  <1>1. TypeOK /\ Holders /\ NoJoins
        => ((\E S \in SUBSET Threads : Deadlock(S)) <=> LockCycle)
    BY CycleIsDeadlock, DeadlockIsCycle
  <1> QED
    BY <1>1, LocksHeld, PTL
=============================================================================
