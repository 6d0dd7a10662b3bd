-------------------------- MODULE ServiceManager_proofs --------------------------
(*
Theorems about ServiceManager for any applications, timers, services, topics and
bounds: types, the lock of the manager, and what becomes of a service in the
map, at the broker and in the subscriptions; and the one deadlock there is.
*)
EXTENDS ServiceManager, TLAPS

USE ThreadsApart, NoServiceApart, TopicsTyped, Bounds

Labels == AppLabels \cup TimerLabels \cup ConnLabels \cup RequestLabels

\* The labels at which a thread has no service.
Spare == {"idle", "endLock", "endNext", "off"} \cup ConnLabels
Busy == \A t \in Threads : pc[t] \notin Spare => svc[t] \in Services
TypeInv == TypeOK /\ Busy

\* What cancel() does to the threads, and what Arm does.
LEMMA CancelEffect ==
    ASSUME TypeOK, NEW s \in Services, NEW t \in Threads, NEW next \in Labels,
           NEW of \in Services \cup {NoService}, Cancel(s, t, next, of)
    PROVE  /\ pc' \in [Threads -> Labels]
           /\ svc' \in [Threads -> Services \cup {NoService}]
           /\ pc'[t] = next /\ svc'[t] = of
           /\ \A u \in Threads \ {t} :
                  \/ pc'[u] = pc[u] /\ svc'[u] = svc[u]
                  \/ u \in Timers /\ pc[u] = "pending" /\ pc'[u] = "off" /\ svc[u] = s /\ Pending(s)
  <1>1. Cancelled(s) \subseteq {u \in Timers : pc[u] = "pending" /\ svc[u] = s /\ Pending(s)}
    BY DEF Cancelled, Pending, At, TypeOK
  <1>2. /\ pc \in [Threads -> Labels] /\ svc \in [Threads -> Services \cup {NoService}]
        /\ "off" \in Labels
    BY DEF TypeOK, Labels, TimerLabels
  <1> HIDE DEF Cancelled, Labels, Pending
  <1> QED
    BY <1>1, <1>2 DEF Cancel

LEMMA ArmEffect ==
    ASSUME TypeOK, NEW s \in Services, NEW t \in Threads \ Timers, NEW next \in Labels,
           Arm(t, next, s)
    PROVE  /\ NewTimer \in Timers /\ pc[NewTimer] = "off"
           /\ pc' \in [Threads -> Labels]
           /\ svc' \in [Threads -> Services \cup {NoService}]
           /\ ttlTimer' \in [Services -> Timers \cup {NoThread}]
           /\ pc'[t] = next /\ svc'[t] = svc[t]
           /\ pc'[NewTimer] = "pending" /\ svc'[NewTimer] = s
           /\ \A u \in Threads \ {t, NewTimer} : pc'[u] = pc[u] /\ svc'[u] = svc[u]
  <1>1. NewTimer \in Timers /\ pc[NewTimer] = "off"
    BY DEF Arm, TimerLeft, NewTimer, At
  <1>2. /\ pc \in [Threads -> Labels] /\ svc \in [Threads -> Services \cup {NoService}]
        /\ ttlTimer \in [Services -> Timers \cup {NoThread}]
        /\ "pending" \in Labels /\ Timers \subseteq Threads
    BY DEF TypeOK, Labels, TimerLabels, Threads
  <1>3. /\ ttlTimer' = [ttlTimer EXCEPT ![s] = NewTimer]
        /\ svc' = [svc EXCEPT ![NewTimer] = s]
        /\ pc' = [pc EXCEPT ![t] = next, ![NewTimer] = "pending"]
    BY DEF Arm
  <1> HIDE DEF NewTimer, Labels
  <1> QED
    BY <1>1, <1>2, <1>3

LEMMA TypeInit == Init => TypeInv
  <1> SUFFICES ASSUME Init PROVE TypeInv
    OBVIOUS
  <1>1. connected \in BOOLEAN /\ gone \in BOOLEAN
    BY Zenon DEF Init
  <1>2. {"idle", "off", "down"} \subseteq Labels
    BY DEF Labels, AppLabels, TimerLabels, ConnLabels
  <1>3. pc \in [Threads -> Labels] /\ \A t \in Threads : pc[t] \in Spare
    BY <1>2 DEF Init, Spare, ConnLabels
  <1>4. Busy
    BY <1>3 DEF Busy
  <1> QED
    BY <1>1, <1>3, <1>4 DEF Init, TypeInv, TypeOK, Labels

LEMMA TypeAdd ==
    ASSUME TypeInv, NEW a \in Apps,
           \/ CallAdd(a) \/ AddLock(a) \/ AddTopic(a) \/ AddRaise(a) \/ AddStart(a)
           \/ AddArm(a) \/ AddEnd(a) \/ CallRemove(a) \/ CallDestroy(a)
    PROVE  TypeInv'
  <1> USE DEF At, Goto, Quit, Free, locks, topics, handler, local, bounds, ghost
  <1>0. /\ a \in Threads /\ a \in Threads \ Timers
        /\ {"idle", "addLock", "addTopics", "addArm", "addEnd", "remLock",
            "endLock"} \subseteq Labels
    BY DEF Threads, Labels, AppLabels
  <1>t. TypeOK /\ Busy /\ pc \in [Threads -> Labels]
    BY DEF TypeInv, TypeOK, Labels
  <1> HIDE DEF Labels, Threads
  <1>1. CASE CallAdd(a) \/ CallRemove(a) \/ CallDestroy(a)
    <2>1. /\ pc' \in [Threads -> Labels]
          /\ svc' \in [Threads -> Services \cup {NoService}]
          /\ used' \in SUBSET Services /\ calls' \in 0 .. MaxCalls
          /\ UNCHANGED <<connected, locks, services, handler, ttlTimer, topics,
                         local, gone, broker, losses, ghost>>
      BY <1>0, <1>1, <1>t, SMTT(30) DEF CallAdd, CallRemove, CallDestroy, Call, TypeOK
    <2>2. Busy'
      BY <1>0, <1>1, <1>t, SMTT(30) DEF CallAdd, CallRemove, CallDestroy, Call,
         Busy, Spare, TypeOK
    <2> QED
      BY <1>t, <2>1, <2>2 DEF TypeInv, TypeOK, Labels
  <1>2. CASE AddLock(a) \/ AddTopic(a) \/ AddStart(a)
    <2>1. svc[a] \in Services
      BY <1>0, <1>2, <1>t DEF AddLock, AddTopic, AddStart, Busy, Spare, ConnLabels
    <2>2. /\ pc' \in [Threads -> Labels] /\ svc' = svc
          /\ smLock' \in Apps \cup {Conn, NoThread}
          /\ copy' \in [Apps \cup {Conn} -> SUBSET Services]
          /\ left' \in [Apps -> SUBSET Topics]
          /\ subs' \in SUBSET Topics /\ callbacks' \in SUBSET Topics
          /\ UNCHANGED <<connected, connLock, hLock, services, handler, ttlTimer,
                         ending, gone, broker, bounds, ghost>>
      BY <1>0, <1>2, <1>t, <2>1, SMTT(30) DEF AddLock, AddTopic, AddStart, TypeOK
    <2>3. Busy'
      BY <1>0, <1>2, <1>t, <2>1, <2>2 DEF AddLock, AddTopic, AddStart, Busy
    <2> QED
      BY <1>t, <2>2, <2>3 DEF TypeInv, TypeOK, Labels
  <1>3. CASE AddRaise(a) \/ AddEnd(a)
    <2>1. svc[a] \in Services
      BY <1>0, <1>3, <1>t DEF AddRaise, AddEnd, Busy, Spare, ConnLabels
    <2>2. /\ pc' \in [Threads -> Labels]
          /\ svc' \in [Threads -> Services \cup {NoService}]
          /\ smLock' \in Apps \cup {Conn, NoThread}
          /\ services' \in SUBSET Services
          /\ copy' \in [Apps \cup {Conn} -> SUBSET Services]
          /\ left' \in [Apps -> SUBSET Topics] /\ subs' \in SUBSET Topics
          /\ UNCHANGED <<connected, connLock, hLock, handler, ttlTimer, callbacks,
                         ending, gone, broker, bounds, ghost>>
      BY <1>0, <1>3, <1>t, <2>1, SMTT(30) DEF AddRaise, AddEnd, TypeOK
    <2>3. Busy'
      BY <1>0, <1>3, <1>t DEF AddRaise, AddEnd, Busy, Spare, TypeOK
    <2> QED
      BY <1>t, <2>2, <2>3 DEF TypeInv, TypeOK, Labels
  <1>4. CASE AddArm(a)
    <2>1. svc[a] \in Services
      BY <1>0, <1>4, <1>t DEF AddArm, Busy, Spare, ConnLabels
    <2>2. UNCHANGED <<connected, locks, services, handler, topics, local, gone,
                      broker, bounds, ghost>>
      BY <1>4 DEF AddArm
    <2>3. CASE Arm(a, "addEnd", svc[a])
      <3>1. Busy'
        BY <1>0, <1>t, <2>1, <2>3, ArmEffect DEF Busy, Threads
      <3> QED
        BY <1>0, <1>t, <2>1, <2>2, <2>3, <3>1, ArmEffect DEF TypeInv, TypeOK, Labels
    <2>4. CASE Goto(a, "addEnd") /\ UNCHANGED <<ttlTimer, svc>>
      <3>1. Busy'
        BY <1>0, <1>t, <2>1, <2>4 DEF Busy
      <3>2. pc' \in [Threads -> Labels]
        BY <1>0, <1>t, <2>4
      <3> QED
        BY <1>t, <2>2, <2>4, <3>1, <3>2 DEF TypeInv, TypeOK, Labels
    <2> QED
      BY <1>4, <2>3, <2>4 DEF AddArm
  <1> QED
    BY <1>1, <1>2, <1>3, <1>4

LEMMA TypeRemove ==
    ASSUME TypeInv, NEW a \in Apps,
           \/ RemoveLock(a) \/ RemoveTopic(a) \/ RemoveRaise(a) \/ RemoveMark(a)
           \/ RemoveCheck(a) \/ RemoveSend(a) \/ RemoveAnswer(a) \/ RemoveDrop(a)
           \/ DestroyLock(a) \/ DestroyNext(a) \/ DestroyEnd(a)
    PROVE  TypeInv'
  <1> USE DEF At, Goto, Quit, Free, locks, topics, handler, local, bounds, ghost
  <1>0. /\ a \in Threads
        /\ {"idle", "remTopics", "remCheck", "remSend", "remDrop", "endNext"} \subseteq Labels
        /\ RequestLabels \subseteq Labels
    BY DEF Threads, Labels, AppLabels
  <1>t. TypeOK /\ Busy /\ pc \in [Threads -> Labels]
    BY DEF TypeInv, TypeOK, Labels
  <1> HIDE DEF Labels, Threads
  <1>1. ASSUME NEW s \in Services, BeginRemove(a, s),
               UNCHANGED <<connected, connLock, hLock, services, handler, topics,
                           copy, ending, gone, broker, bounds, ghost>>
        PROVE  TypeInv'
    <2>1. /\ Cancel(s, a, "remTopics", s) /\ ttlTimer' = [ttlTimer EXCEPT ![s] = NoThread]
          /\ left' = [left EXCEPT ![a] = TopicsOf[s]] /\ smLock' = a
      BY <1>1 DEF BeginRemove, StopTimer
    <2>2. Busy'
      BY <1>0, <1>t, <2>1, CancelEffect DEF Busy, Spare
    <2> QED
      BY <1>0, <1>1, <1>t, <2>1, <2>2, CancelEffect DEF TypeInv, TypeOK, Labels
  <1>2. CASE RemoveLock(a)
    <2>1. CASE svc[a] \in services
      BY <1>1, <1>2, <1>t, <2>1 DEF RemoveLock, TypeOK
    <2>2. CASE svc[a] \notin services
      <3>1. Busy'
        BY <1>0, <1>2, <1>t, <2>2 DEF RemoveLock, Busy, Spare, TypeOK
      <3> QED
        BY <1>0, <1>2, <1>t, <2>2, <3>1 DEF RemoveLock, TypeInv, TypeOK, Labels
    <2> QED
      BY <2>1, <2>2
  <1>3. CASE DestroyNext(a)
    BY <1>1, <1>3, <1>t DEF DestroyNext, TypeOK
  <1>4. CASE DestroyLock(a) \/ DestroyEnd(a)
    <2>1. Busy'
      BY <1>0, <1>4, <1>t DEF DestroyLock, DestroyEnd, Busy, Spare, TypeOK
    <2>2. gone' \in BOOLEAN
      BY <1>4, <1>t, Zenon DEF DestroyLock, DestroyEnd, TypeOK
    <2> QED
      BY <1>0, <1>4, <1>t, <2>1, <2>2, SMTT(30) DEF DestroyLock, DestroyEnd, TypeInv, TypeOK, Labels
  <1>5. CASE RemoveTopic(a) \/ RemoveRaise(a)
    <2>1. svc[a] \in Services
      BY <1>0, <1>5, <1>t DEF RemoveTopic, RemoveRaise, Busy, Spare, ConnLabels
    <2>2. Busy'
      BY <1>0, <1>5, <1>t DEF RemoveTopic, RemoveRaise, Busy, Spare, TypeOK
    <2>3. left' \in [Apps -> SUBSET Topics] /\ subs' \in SUBSET Topics
      BY <1>5, <1>t DEF RemoveTopic, RemoveRaise, TypeOK
    <2> QED
      BY <1>0, <1>5, <1>t, <2>1, <2>2, <2>3, SMTT(30) DEF RemoveTopic, RemoveRaise,
         TypeInv, TypeOK, Labels
  <1>6. CASE RemoveMark(a) \/ RemoveCheck(a) \/ RemoveDrop(a)
    <2>1. svc[a] \in Services
      BY <1>0, <1>6, <1>t DEF RemoveMark, RemoveCheck, RemoveDrop, Busy, Spare, ConnLabels
    <2>2. Busy'
      BY <1>0, <1>6, <1>t, <2>1 DEF RemoveMark, RemoveCheck, RemoveDrop, Busy, Spare, TypeOK
    <2> QED
      BY <1>0, <1>6, <1>t, <2>1, <2>2, SMTT(30) DEF RemoveMark, RemoveCheck, RemoveDrop,
         TypeInv, TypeOK, Labels
  <1>7. CASE RemoveSend(a) \/ RemoveAnswer(a)
    <2>1. svc[a] \in Services
      BY <1>0, <1>7, <1>t DEF RemoveSend, RemoveAnswer, Busy, Spare, ConnLabels, RequestLabels
    <2>2. /\ \E l \in {"remDrop"} \cup RequestLabels : pc' = [pc EXCEPT ![a] = l]
          /\ svc' = svc
      BY <1>7 DEF RemoveSend, RemoveAnswer, UnregisterOutcome, RequestLabels
    <2>3. pc' \in [Threads -> Labels] /\ Busy'
      BY <1>0, <1>t, <2>1, <2>2 DEF Busy
    <2>4. hLock' \in [Services -> Threads \cup {NoThread}]
      BY <1>0, <1>7, <1>t DEF RemoveSend, RemoveAnswer, Release, TypeOK
    <2>5. broker' \in SUBSET Services /\ closed' \in SUBSET Services
      BY <1>7, <1>t, <2>1 DEF RemoveSend, RemoveAnswer, SendUnregister, TypeOK
    <2>6. UNCHANGED <<connected, connLock, smLock, services, handler, ttlTimer, topics,
                      svc, local, gone, bounds, torn, lapsed>>
      BY <1>7 DEF RemoveSend, RemoveAnswer
    <2> QED
      BY <1>t, <2>3, <2>4, <2>5, <2>6 DEF TypeInv, TypeOK, Labels
  <1> QED
    BY <1>2, <1>3, <1>4, <1>5, <1>6, <1>7

LEMMA TypeTimer ==
    ASSUME TypeInv, NEW m \in Timers, TimerStep(m)
    PROVE  TypeInv'
  <1> USE DEF At, Goto, Quit, Free, locks, topics, handler, local, bounds, ghost
  <1>0. /\ m \in Threads
        /\ {"off", "pending", "check", "cancel", "lock", "goneAccepted",
            "goneUnsent"} \subseteq Labels
        /\ RequestLabels \subseteq Labels
    BY DEF Threads, Labels, TimerLabels
  <1>t. TypeOK /\ Busy /\ pc \in [Threads -> Labels]
    BY DEF TypeInv, TypeOK, Labels
  <1>s. svc[m] \in Services
    BY <1>0, <1>t DEF TimerStep, Fire, Check, CancelAny, LateSend, LateAnswer,
       Register, Registered, RegisterTimeout, Busy, Spare, ConnLabels, RequestLabels
  <1> HIDE DEF Labels, Threads
  <1>1. CASE Fire(m) \/ Check(m) \/ RegisterTimeout(m)
    <2>1. Busy'
      BY <1>0, <1>1, <1>t, <1>s DEF Fire, Check, RegisterTimeout, Busy, Spare, TypeOK
    <2>2. hLock' \in [Services -> Threads \cup {NoThread}]
      BY <1>0, <1>1, <1>t DEF Fire, Check, RegisterTimeout, Release, TypeOK
    <2> QED
      BY <1>0, <1>1, <1>t, <1>s, <2>1, <2>2, SMTT(30) DEF Fire, Check, RegisterTimeout,
         TypeInv, TypeOK, Labels
  <1>2. ASSUME Cancel(svc[m], m, "off", NoService),
               UNCHANGED <<connected, connLock, smLock, services, handler, ttlTimer,
                           topics, local, gone, broker, bounds, torn>>,
               hLock' \in [Services -> Threads \cup {NoThread}],
               closed' \in SUBSET Services, lapsed' \in SUBSET Services
        PROVE  TypeInv'
    <2>1. Busy'
      BY <1>0, <1>2, <1>t, <1>s, CancelEffect DEF Busy, Spare
    <2> QED
      BY <1>0, <1>2, <1>t, <1>s, <2>1, CancelEffect DEF TypeInv, TypeOK, Labels
  <1>3. CASE CancelAny(m)
    BY <1>2, <1>3, <1>t, <1>s DEF CancelAny, TypeOK
  <1>4. CASE LateAnswer(m)
    <2>1. hLock' \in [Services -> Threads \cup {NoThread}]
      BY <1>0, <1>4, <1>t DEF LateAnswer, Release, TypeOK
    <2>2. CASE Cancel(svc[m], m, "off", NoService) /\ closed' = closed \cup {svc[m]}
      BY <1>2, <1>4, <1>t, <1>s, <2>1, <2>2 DEF LateAnswer, TypeOK
    <2>3. CASE Quit(m, "off") /\ UNCHANGED closed
      <3>1. Busy'
        BY <1>0, <1>t, <2>3 DEF Busy, Spare, TypeOK
      <3> QED
        BY <1>0, <1>4, <1>t, <2>1, <2>3, <3>1 DEF LateAnswer, TypeInv, TypeOK, Labels
    <2> QED
      BY <1>4, <2>2, <2>3 DEF LateAnswer
  <1>5. CASE LateSend(m)
    <2>1. UNCHANGED <<connected, connLock, smLock, services, handler, ttlTimer,
                      topics, local, gone, bounds, ghost>>
      BY <1>5 DEF LateSend
    <2>2. CASE Cancel(svc[m], m, "off", NoService) /\ UNCHANGED <<hLock, broker>>
      BY <1>2, <1>t, <2>1, <2>2 DEF TypeOK
    <2>3. CASE Quit(m, "off") /\ UNCHANGED <<hLock, broker>>
      <3>1. Busy'
        BY <1>0, <1>t, <2>3 DEF Busy, Spare, TypeOK
      <3> QED
        BY <1>0, <1>t, <2>1, <2>3, <3>1 DEF TypeInv, TypeOK, Labels
    <2>4. CASE /\ hLock' = [hLock EXCEPT ![svc[m]] = m] /\ UNCHANGED svc
               /\ \E outcome \in UnregisterOutcome :
                   /\ SendUnregister(svc[m], outcome)
                   /\ Goto(m, IF outcome = "accepted" THEN "goneAccepted"
                                                      ELSE "goneUnsent")
      <3>1. \E l \in {"goneAccepted", "goneUnsent"} : pc' = [pc EXCEPT ![m] = l]
        BY <2>4
      <3>2. broker' \in SUBSET Services
        BY <1>t, <2>4 DEF SendUnregister, TypeOK
      <3>3. Busy' /\ pc' \in [Threads -> Labels]
        BY <1>0, <1>t, <1>s, <2>4, <3>1 DEF Busy
      <3>4. hLock' \in [Services -> Threads \cup {NoThread}]
        BY <1>0, <1>t, <2>4 DEF TypeOK
      <3> QED
        BY <1>t, <2>1, <2>4, <3>2, <3>3, <3>4 DEF TypeInv, TypeOK, Labels
    <2> QED
      BY <1>5, <2>2, <2>3, <2>4 DEF LateSend
  <1>6. CASE Register(m)
    <2>1. /\ UNCHANGED <<connected, connLock, smLock, services, handler, ttlTimer,
                         topics, svc, local, gone, bounds, ghost>>
          /\ hLock' = [hLock EXCEPT ![svc[m]] = m]
      BY <1>6 DEF Register
    <2>2. \E l \in RequestLabels : pc' = [pc EXCEPT ![m] = l]
      BY <1>6 DEF Register, RegisterOutcome, RequestLabels
    <2>3. broker' \in SUBSET Services
      BY <1>6, <1>t, <1>s DEF Register, SendRegister, TypeOK
    <2>4. Busy' /\ pc' \in [Threads -> Labels]
      BY <1>0, <1>t, <1>s, <2>1, <2>2 DEF Busy
    <2>5. hLock' \in [Services -> Threads \cup {NoThread}]
      BY <1>0, <1>t, <2>1 DEF TypeOK
    <2> QED
      BY <1>t, <2>1, <2>3, <2>4, <2>5 DEF TypeInv, TypeOK, Labels
  <1>7. CASE Registered(m)
    <2>1. /\ regTime' \in [Services -> {"never", "valid", "expired"}]
          /\ ttlTimer' \in [Services -> Timers \cup {NoThread}]
          /\ hLock' \in [Services -> Threads \cup {NoThread}]
      BY <1>0, <1>7, <1>t DEF Registered, Release, TypeOK
    <2>2. Busy' /\ pc' \in [Threads -> Labels]
      BY <1>0, <1>7, <1>t, <1>s DEF Registered, Busy
    <2> QED
      BY <1>7, <1>t, <2>1, <2>2 DEF Registered, TypeInv, TypeOK, Labels
  <1> QED
    BY <1>1, <1>3, <1>4, <1>5, <1>6, <1>7 DEF TimerStep

LEMMA TypeConn ==
    ASSUME TypeInv, Rise \/ Leave \/ ConnStep
    PROVE  TypeInv'
  <1> USE DEF At, Goto, Quit, Free, locks, topics, handler, local, bounds, ghost
  <1>0. /\ Conn \in Threads /\ Conn \in Threads \ Timers
        /\ ConnLabels \subseteq Labels /\ RequestLabels \subseteq Labels
        /\ ConnLabels \subseteq Spare
        /\ {"down", "rising", "starting", "up", "lost", "stopLock", "stop",
            "closing"} \subseteq ConnLabels
    BY DEF Threads, Labels, ConnLabels, Spare
  <1>t. TypeOK /\ Busy /\ pc \in [Threads -> Labels]
    BY DEF TypeInv, TypeOK, Labels
  <1> HIDE DEF Labels, Threads, ConnLabels, Spare
  <1>1. ASSUME NEW l \in ConnLabels, pc' = [pc EXCEPT ![Conn] = l], UNCHANGED svc
        PROVE  pc' \in [Threads -> Labels] /\ Busy'
    BY <1>0, <1>1, <1>t DEF Busy
  <1>2. CASE Rise \/ OnConnect \/ StartEnd \/ OnDisconnect \/ StopEnd \/ Leave
             \/ Drop("lost", "stopLock") \/ Drop("closing", "down")
    <2>1. UNCHANGED svc /\ \E l \in ConnLabels : pc' = [pc EXCEPT ![Conn] = l]
      BY <1>0, <1>2 DEF Rise, OnConnect, StartEnd, OnDisconnect, StopEnd, Leave, Drop
    <2>2. pc' \in [Threads -> Labels] /\ Busy'
      BY <1>1, <2>1
    <2>3. /\ smLock' \in Apps \cup {Conn, NoThread} /\ connLock' \in {Conn, NoThread}
          /\ copy' \in [Apps \cup {Conn} -> SUBSET Services]
          /\ losses' \in 0 .. MaxLosses
          /\ UNCHANGED <<hLock, services, handler, ttlTimer, topics, left, ending,
                         gone, broker, used, calls, ghost>>
      BY <1>2, <1>t, SMTT(30) DEF Rise, OnConnect, StartEnd, OnDisconnect, StopEnd,
         Leave, Drop, TypeOK
    <2>4. connected' \in BOOLEAN
      BY <1>2, <1>t, Zenon DEF Rise, OnConnect, StartEnd, OnDisconnect, StopEnd,
         Leave, Drop, TypeOK
    <2> QED
      BY <1>t, <2>1, <2>2, <2>3, <2>4 DEF TypeInv, TypeOK, Labels
  <1>3. CASE StartNext
    <2>1. PICK s \in copy[Conn] : /\ Arm(Conn, "starting", s)
                                  /\ copy' = [copy EXCEPT ![Conn] = @ \ {s}]
                                  /\ lapsed' = lapsed \ {s}
      BY <1>3 DEF StartNext
    <2>2. /\ s \in Services /\ copy' \in [Apps \cup {Conn} -> SUBSET Services]
          /\ "starting" \in Labels
      BY <1>0, <1>t, <2>1 DEF TypeOK
    <2>3. Busy'
      BY <1>0, <1>t, <2>1, <2>2, ArmEffect DEF Busy, Threads
    <2> QED
      BY <1>0, <1>3, <1>t, <2>1, <2>2, <2>3, ArmEffect DEF StartNext, TypeInv, TypeOK, Labels
  <1>4. ASSUME NEW s \in Services, Stop(s, "stop"),
               UNCHANGED <<connected, connLock, smLock, services, handler, topics,
                           left, ending, gone, broker, bounds, ghost>>,
               hLock' \in [Services -> Threads \cup {NoThread}]
        PROVE  TypeInv'
    <2>1. /\ Cancel(s, Conn, "stop", NoService)
          /\ ttlTimer' = [ttlTimer EXCEPT ![s] = NoThread]
          /\ copy' = [copy EXCEPT ![Conn] = @ \ {s}]
      BY <1>4 DEF Stop, StopTimer
    <2>2. "stop" \in Labels /\ "stop" \in Spare /\ "off" \in Spare
      BY <1>0 DEF Spare
    <2>3. Busy'
      <3>1. /\ pc'[Conn] = "stop"
            /\ \A u \in Threads \ {Conn} : \/ pc'[u] = pc[u] /\ svc'[u] = svc[u]
                                           \/ pc'[u] = "off"
        BY <1>0, <1>t, <2>1, <2>2, CancelEffect
      <3> QED
        BY <1>t, <2>2, <3>1 DEF Busy
    <2>4. /\ copy' \in [Apps \cup {Conn} -> SUBSET Services]
          /\ ttlTimer' \in [Services -> Timers \cup {NoThread}]
      BY <1>t, <2>1 DEF TypeOK
    <2> QED
      BY <1>0, <1>4, <1>t, <2>1, <2>2, <2>3, <2>4, CancelEffect DEF TypeInv, TypeOK, Labels
  <1>5. CASE StopNext
    BY <1>4, <1>5, <1>t DEF StopNext, TypeOK
  <1>6. CASE StopAnswer
    <2>1. svc[Conn] \in Services
      BY <1>0, <1>6, <1>t DEF StopAnswer, Busy, Spare, ConnLabels, RequestLabels
    <2>2. hLock' \in [Services -> Threads \cup {NoThread}]
      BY <1>0, <1>6, <1>t DEF StopAnswer, Release, TypeOK
    <2> QED
      BY <1>4, <1>6, <2>1, <2>2 DEF StopAnswer
  <1>7. CASE StopSend
    <2>1. PICK s \in copy[Conn] :
              /\ hLock' = [hLock EXCEPT ![s] = Conn] /\ svc' = [svc EXCEPT ![Conn] = s]
              /\ \E outcome \in UnregisterOutcome : /\ SendUnregister(s, outcome)
                                                    /\ Goto(Conn, outcome)
      BY <1>7 DEF StopSend
    <2>2. s \in Services
      BY <1>t, <2>1 DEF TypeOK
    <2>3. \E l \in RequestLabels : pc' = [pc EXCEPT ![Conn] = l]
      BY <2>1 DEF UnregisterOutcome, RequestLabels
    <2>4. /\ pc' \in [Threads -> Labels] /\ Busy'
          /\ svc' \in [Threads -> Services \cup {NoService}]
      BY <1>0, <1>t, <2>1, <2>2, <2>3 DEF Busy, TypeOK
    <2>5. /\ broker' \in SUBSET Services
          /\ hLock' \in [Services -> Threads \cup {NoThread}]
      BY <1>0, <1>t, <2>1 DEF SendUnregister, TypeOK
    <2>6. UNCHANGED <<connected, connLock, smLock, services, handler, ttlTimer,
                      topics, local, gone, bounds, ghost>>
      BY <1>7 DEF StopSend
    <2> QED
      BY <1>t, <2>4, <2>5, <2>6 DEF TypeInv, TypeOK, Labels
  <1> QED
    BY <1>2, <1>3, <1>5, <1>6, <1>7 DEF ConnStep

LEMMA TypeNext == TypeInv /\ [Next]_vars => TypeInv'
  <1> SUFFICES ASSUME TypeInv, [Next]_vars PROVE TypeInv'
    OBVIOUS
  <1>1. CASE UNCHANGED vars
    BY <1>1 DEF vars, locks, topics, handler, local, bounds, ghost, TypeInv, TypeOK, Busy
  <1>2. ASSUME NEW s \in Services, Expire(s)
        PROVE  TypeInv'
    BY <1>2 DEF Expire, locks, topics, local, bounds, ghost, TypeInv, TypeOK, Busy
  <1> QED
    BY <1>1, <1>2, TypeAdd, TypeRemove, TypeTimer, TypeConn DEF Next, AppStep

\* The manager, its handlers, the timers and the registry keep their types, and
\* a thread that is about a service has one.
THEOREM TypeCorrect == Spec => []TypeOK
  <1>1. TypeInv => TypeOK
    BY DEF TypeInv
  <1> QED
    BY <1>1, TypeInit, TypeNext, PTL DEF Spec

-----------------------------------------------------------------------------
(* What a step leaves alone. *)

LEMMA AppAlone ==
    ASSUME TypeInv, NEW a \in Apps,
           CallAdd(a) \/ CallRemove(a) \/ CallDestroy(a) \/ AppStep(a)
    PROVE  /\ \A u \in (Apps \cup {Conn}) \ {a} : pc'[u] = pc[u] /\ svc'[u] = svc[u]
           /\ \A u \in Timers :
                  \/ pc'[u] = pc[u] /\ svc'[u] = svc[u]
                  \/ pc[u] = "pending" /\ pc'[u] = "off"
                  \/ pc[u] = "off" /\ pc'[u] = "pending" /\ svc'[u] = svc[a] /\ AddArm(a)
  <1> USE DEF At, Goto, Quit
  <1>0. /\ a \in Threads /\ a \in Threads \ Timers
        /\ Apps \subseteq Threads \ Timers /\ Conn \in Threads \ Timers
        /\ Timers \subseteq Threads
        /\ {"remTopics", "addEnd"} \subseteq Labels
    BY DEF Threads, Labels, AppLabels
  <1>t. TypeOK /\ pc \in [Threads -> Labels] /\ svc \in [Threads -> Services \cup {NoService}]
    BY DEF TypeInv, TypeOK, Labels
  <1> HIDE DEF Labels, Threads
  <1>1. ASSUME NEW s \in Services, BeginRemove(a, s)
        PROVE  \A u \in Threads \ {a} : \/ pc'[u] = pc[u] /\ svc'[u] = svc[u]
                                        \/ u \in Timers /\ pc[u] = "pending" /\ pc'[u] = "off"
    BY <1>0, <1>1, <1>t, CancelEffect DEF BeginRemove, StopTimer
  <1>2. CASE RemoveLock(a) \/ DestroyNext(a)
    <2>1. CASE \E s \in Services : BeginRemove(a, s)
      BY <1>0, <1>1, <2>1
    <2>2. CASE Quit(a, "idle")
      BY <1>0, <1>t, <2>2
    <2> QED
      BY <1>2, <1>t, <2>1, <2>2 DEF RemoveLock, DestroyNext, TypeOK
  <1>3. CASE AddArm(a)
    <2>1. svc[a] \in Services
      BY <1>0, <1>3 DEF AddArm, TypeInv, Busy, Spare, ConnLabels
    <2>2. CASE Arm(a, "addEnd", svc[a])
      <3>1. /\ NewTimer \in Timers /\ pc[NewTimer] = "off" /\ pc'[NewTimer] = "pending"
            /\ svc'[NewTimer] = svc[a]
            /\ \A u \in Threads \ {a, NewTimer} : pc'[u] = pc[u] /\ svc'[u] = svc[u]
        BY <1>0, <1>t, <2>1, <2>2, ArmEffect
      <3> QED
        BY <1>0, <1>3, <3>1
    <2>3. CASE Goto(a, "addEnd") /\ UNCHANGED svc
      BY <1>0, <1>t, <2>3
    <2> QED
      BY <1>3, <2>2, <2>3 DEF AddArm
  <1>4. CASE \/ CallAdd(a) \/ CallRemove(a) \/ CallDestroy(a)
             \/ AddLock(a) \/ AddTopic(a) \/ AddRaise(a) \/ AddStart(a) \/ AddEnd(a)
    <2>1. \A u \in Threads \ {a} : pc'[u] = pc[u] /\ svc'[u] = svc[u]
      BY <1>0, <1>4, <1>t DEF CallAdd, CallRemove, CallDestroy, Call, AddLock, AddTopic,
         AddRaise, AddStart, AddEnd
    <2> QED
      BY <1>0, <2>1
  <1>5. CASE \/ RemoveTopic(a) \/ RemoveRaise(a) \/ RemoveMark(a) \/ RemoveCheck(a)
             \/ RemoveSend(a) \/ RemoveAnswer(a) \/ RemoveDrop(a)
             \/ DestroyLock(a) \/ DestroyEnd(a)
    <2>1. \A u \in Threads \ {a} : pc'[u] = pc[u] /\ svc'[u] = svc[u]
      BY <1>0, <1>5, <1>t DEF RemoveTopic, RemoveRaise, RemoveMark, RemoveCheck,
         RemoveSend, RemoveAnswer, RemoveDrop, DestroyLock, DestroyEnd
    <2> QED
      BY <1>0, <2>1
  <1> QED
    BY <1>2, <1>3, <1>4, <1>5 DEF AppStep

LEMMA TimerAlone ==
    ASSUME TypeInv, NEW m \in Timers, TimerStep(m)
    PROVE  /\ \A u \in Apps \cup {Conn} : pc'[u] = pc[u] /\ svc'[u] = svc[u]
           /\ \A u \in Timers \ {m} : \/ pc'[u] = pc[u] /\ svc'[u] = svc[u]
                                      \/ pc[u] = "pending" /\ pc'[u] = "off"
           /\ UNCHANGED <<connected, connLock, smLock, services, deleted, destroyed,
                          topics, local, gone, bounds, torn>>
  <1> USE DEF At, Goto, Quit
  <1>0. /\ m \in Threads /\ Apps \subseteq Threads \ Timers /\ Conn \in Threads \ Timers
        /\ Timers \subseteq Threads /\ "off" \in Labels
    BY DEF Threads, Labels, TimerLabels
  <1>t. TypeOK /\ pc \in [Threads -> Labels] /\ svc \in [Threads -> Services \cup {NoService}]
    BY DEF TypeInv, TypeOK, Labels
  <1>s. svc[m] \in Services
    BY <1>0 DEF TypeInv, TimerStep, Fire, Check, CancelAny, LateSend, LateAnswer,
       Register, Registered, RegisterTimeout, Busy, Spare, ConnLabels, RequestLabels
  <1>1. UNCHANGED <<connected, connLock, smLock, services, deleted, destroyed,
                    topics, local, gone, bounds, torn>>
    BY DEF TimerStep, Fire, Check, CancelAny, LateSend, LateAnswer, Register,
       Registered, RegisterTimeout, locks, handler, ghost
  <1> HIDE DEF Labels, Threads
  <1>2. CASE Cancel(svc[m], m, "off", NoService)
    BY <1>0, <1>1, <1>2, <1>s, <1>t, CancelEffect
  <1>3. CASE \E l \in Labels : pc' = [pc EXCEPT ![m] = l]
    <2>1. svc' = svc \/ svc' = [svc EXCEPT ![m] = NoService]
          \/ Cancel(svc[m], m, "off", NoService)
      BY DEF TimerStep, Fire, Check, CancelAny, LateSend, LateAnswer, Register,
         Registered, RegisterTimeout
    <2> QED
      BY <1>0, <1>1, <1>2, <1>3, <1>t, <2>1
  <1>4. \/ Cancel(svc[m], m, "off", NoService)
        \/ \E l \in Labels : pc' = [pc EXCEPT ![m] = l]
    <2>1. /\ {"off", "pending", "check", "cancel", "lock", "goneAccepted",
              "goneUnsent", "accepted", "refused", "unsent"} \subseteq Labels
      BY DEF Labels, TimerLabels, RequestLabels
    <2> QED
      BY <2>1 DEF TimerStep, Fire, Check, CancelAny, LateSend, LateAnswer, Register,
         Registered, RegisterTimeout, RegisterOutcome, UnregisterOutcome, RequestLabels
  <1> QED
    BY <1>2, <1>3, <1>4

LEMMA ConnAlone ==
    ASSUME TypeInv, Rise \/ Leave \/ ConnStep
    PROVE  /\ \A u \in Apps : pc'[u] = pc[u] /\ svc'[u] = svc[u]
           /\ \A u \in Timers :
                  \/ pc'[u] = pc[u] /\ svc'[u] = svc[u]
                  \/ pc[u] = "pending" /\ pc'[u] = "off"
                  \/ /\ pc[u] = "off" /\ pc'[u] = "pending"
                     /\ svc'[u] \in copy[Conn] /\ StartNext
           /\ UNCHANGED <<services, deleted, destroyed, subs, callbacks, left, ending,
                          gone, used, calls, closed, torn>>
           /\ \A b \in Apps : copy'[b] = copy[b]
  <1> USE DEF At, Goto
  <1>0. /\ Conn \in Threads /\ Apps \subseteq Threads \ Timers /\ Conn \in Threads \ Timers
        /\ Timers \subseteq Threads /\ {"starting", "stop"} \subseteq Labels
    BY DEF Threads, Labels, ConnLabels
  <1>t. TypeOK /\ pc \in [Threads -> Labels] /\ svc \in [Threads -> Services \cup {NoService}]
    BY DEF TypeInv, TypeOK, Labels
  <1>1. UNCHANGED <<services, deleted, destroyed, subs, callbacks, left, ending,
                    gone, used, calls, closed, torn>>
    BY DEF Rise, Leave, ConnStep, OnConnect, StartNext, StartEnd, OnDisconnect,
       StopNext, StopSend, StopAnswer, StopEnd, Drop, handler, topics, local, bounds, ghost
  <1>2. \A b \in Apps : copy'[b] = copy[b]
    BY <1>t DEF Rise, Leave, ConnStep, OnConnect, StartNext, StartEnd, OnDisconnect,
       StopNext, StopSend, StopAnswer, StopEnd, Stop, Drop, local, TypeOK
  <1> HIDE DEF Labels, Threads
  <1>3. CASE StartNext
    <2>1. PICK s \in copy[Conn] : Arm(Conn, "starting", s)
      BY <1>3 DEF StartNext
    <2>2. s \in Services
      BY <1>t, <2>1 DEF TypeOK
    <2>3. /\ NewTimer \in Timers /\ pc[NewTimer] = "off" /\ pc'[NewTimer] = "pending"
          /\ svc'[NewTimer] = s
          /\ \A u \in Threads \ {Conn, NewTimer} : pc'[u] = pc[u] /\ svc'[u] = svc[u]
      BY <1>0, <1>t, <2>1, <2>2, ArmEffect
    <2> QED
      BY <1>0, <1>1, <1>2, <1>3, <2>3
  <1>4. ASSUME NEW s \in Services, Stop(s, "stop")
        PROVE  \A u \in Threads \ {Conn} :
                   \/ pc'[u] = pc[u] /\ svc'[u] = svc[u]
                   \/ u \in Timers /\ pc[u] = "pending" /\ pc'[u] = "off"
    BY <1>0, <1>4, <1>t, CancelEffect DEF Stop, StopTimer
  <1>5. CASE StopNext \/ StopAnswer
    <2>1. StopAnswer => svc[Conn] \in Services
      BY <1>0 DEF TypeInv, StopAnswer, Busy, Spare, ConnLabels, RequestLabels
    <2>2. \E s \in Services : Stop(s, "stop")
      BY <1>5, <1>t, <2>1 DEF StopNext, StopAnswer, TypeOK
    <2> QED
      BY <1>0, <1>1, <1>2, <1>4, <2>2
  <1>6. CASE Rise \/ OnConnect \/ StartEnd \/ OnDisconnect \/ StopEnd \/ Leave
             \/ StopSend \/ Drop("lost", "stopLock") \/ Drop("closing", "down")
    <2>1. \A u \in Threads \ {Conn} : pc'[u] = pc[u] /\ svc'[u] = svc[u]
      BY <1>0, <1>6, <1>t DEF Rise, OnConnect, StartEnd, OnDisconnect, StopEnd, Leave,
         StopSend, Drop
    <2> QED
      BY <1>0, <1>1, <1>2, <2>1
  <1> QED
    BY <1>3, <1>5, <1>6 DEF ConnStep

-----------------------------------------------------------------------------
(* The manager's lock and its map of services. *)

Starting == {"addTopics", "addArm", "addEnd"}
Adders == {"addLock"} \cup Starting
Dropping == {"remCheck", "remSend", "remDrop"} \cup RequestLabels
Looping == {"starting", "stop"} \cup RequestLabels

\* A thread inside the manager's lock holds it.
LockInv ==
    /\ \A a \in Apps : pc[a] \in Starting \cup Dropping \cup {"remTopics", "endNext"}
                       => smLock = a
    /\ pc[Conn] \in Looping => smLock = Conn

\* A service is added by one thread, is then in the map, and is marked as deleted
\* only by the thread that takes it out of the map.
MapInv ==
    /\ services \cup deleted \subseteq used
    /\ \A a \in Apps : pc[a] \in Adders => svc[a] \in used \ (services \cup deleted)
    /\ \A a, b \in Apps : pc[a] \in Adders /\ pc[b] \in Adders /\ svc[a] = svc[b] => a = b
    /\ \A a \in Apps : pc[a] \in Starting => copy[a] = services
    /\ \A a \in Apps : pc[a] = "remTopics" => svc[a] \in services
    /\ \A a \in Apps : pc[a] \in Dropping => svc[a] \in services \cap deleted
    /\ \A s \in services \cap deleted : \E a \in Apps : pc[a] \in Dropping /\ svc[a] = s
    /\ pc[Conn] \in Looping => copy[Conn] \subseteq services
    /\ destroyed \subseteq deleted
SmInv == LockInv /\ MapInv

LEMMA SmKept ==
    ASSUME SmInv, \A u \in Apps \cup {Conn} : pc'[u] = pc[u] /\ svc'[u] = svc[u],
           UNCHANGED <<smLock, services, deleted, destroyed, used, copy>>
    PROVE  SmInv'
  <1>1. LockInv'
    BY DEF SmInv, LockInv
  <1>2. MapInv'
    BY DEF SmInv, MapInv
  <1> QED
    BY <1>1, <1>2 DEF SmInv

LEMMA SmAdd ==
    ASSUME TypeInv, SmInv, NEW a \in Apps,
           \/ CallAdd(a) \/ AddLock(a) \/ AddTopic(a) \/ AddRaise(a) \/ AddStart(a)
           \/ AddArm(a) \/ AddEnd(a)
    PROVE  SmInv'
  <1> USE DEF At, Goto, Quit, Free, locks, handler, local, bounds
  <1>0. /\ a \in Threads /\ a # Conn /\ a \notin Timers
        /\ \A u \in Apps \cup {Conn} : u # NoThread
    BY DEF Threads
  <1>t. TypeOK /\ pc \in [Threads -> Labels] /\ svc \in [Threads -> Services \cup {NoService}]
    BY DEF TypeInv, TypeOK, Labels
  <1>o. \A u \in (Apps \cup {Conn}) \ {a} : pc'[u] = pc[u] /\ svc'[u] = svc[u]
    BY AppAlone DEF AppStep
  <1> HIDE DEF Labels, Threads
  <1>1. CASE CallAdd(a)
    <2>1. /\ pc[a] = "idle" /\ pc'[a] = "addLock" /\ svc'[a] \in Services \ used
          /\ used' = used \cup {svc'[a]}
          /\ UNCHANGED <<smLock, services, deleted, destroyed, copy>>
      BY <1>0, <1>1, <1>t DEF CallAdd, Call
    <2>2. LockInv'
      BY <1>o, <2>1 DEF SmInv, LockInv, Starting, Dropping, RequestLabels
    <2>3. MapInv'
      BY <1>o, <2>1, SMTT(30) DEF SmInv, MapInv, Adders, Starting, Dropping, RequestLabels
    <2> QED
      BY <2>2, <2>3 DEF SmInv
  <1>2. CASE AddLock(a)
    <2>1. /\ pc[a] = "addLock" /\ pc'[a] = "addTopics" /\ svc'[a] = svc[a]
          /\ smLock = NoThread /\ smLock' = a
          /\ copy'[a] = services /\ copy'[Conn] = copy[Conn]
          /\ \A b \in Apps \ {a} : copy'[b] = copy[b]
          /\ UNCHANGED <<services, deleted, destroyed, used>>
      BY <1>0, <1>2, <1>t DEF AddLock, TypeOK
    <2>2. LockInv'
      BY <1>0, <1>o, <2>1 DEF SmInv, LockInv, Starting, Dropping, RequestLabels
    <2>3. MapInv'
      BY <1>o, <2>1, SMTT(30) DEF SmInv, MapInv, Adders, Starting, Dropping, RequestLabels
    <2> QED
      BY <2>2, <2>3 DEF SmInv
  <1>3. CASE AddTopic(a) \/ AddStart(a) \/ AddArm(a)
    <2>1. pc[a] \in Starting /\ UNCHANGED <<smLock, services, deleted, destroyed, used, copy>>
      BY <1>3 DEF AddTopic, AddStart, AddArm, Starting
    <2>2. pc'[a] \in Starting /\ svc'[a] = svc[a]
      <3>1. CASE AddTopic(a) \/ AddStart(a)
        BY <1>0, <1>t, <3>1 DEF AddTopic, AddStart, Starting
      <3>2. CASE AddArm(a)
        <4>1. svc[a] \in Services
          BY <1>0, <3>2 DEF AddArm, TypeInv, Busy, Spare, ConnLabels
        <4>2. "addEnd" \in Labels
          BY DEF Labels, AppLabels
        <4>3. CASE Arm(a, "addEnd", svc[a])
          BY <1>0, <1>t, <4>1, <4>2, <4>3, ArmEffect DEF Starting
        <4>4. CASE Goto(a, "addEnd") /\ UNCHANGED svc
          BY <1>0, <1>t, <4>4 DEF Starting
        <4> QED
          BY <3>2, <4>3, <4>4 DEF AddArm
      <3> QED
        BY <1>3, <3>1, <3>2
    <2>3. LockInv'
      BY <1>o, <2>1, <2>2 DEF SmInv, LockInv
    <2>4. Starting \cap Dropping = {} /\ "remTopics" \notin Starting /\ Starting \subseteq Adders
      BY DEF Starting, Dropping, Adders, RequestLabels
    <2>5. MapInv'
      BY <1>o, <2>1, <2>2, <2>4, SMTT(30) DEF SmInv, MapInv
    <2> QED
      BY <2>3, <2>5 DEF SmInv
  <1>4. CASE AddRaise(a)
    <2>1. /\ pc[a] = "addTopics" /\ pc'[a] = "idle" /\ smLock = a /\ smLock' = NoThread
          /\ \A b \in (Apps \cup {Conn}) \ {a} : copy'[b] = copy[b]
          /\ UNCHANGED <<services, deleted, destroyed, used>>
      BY <1>0, <1>4, <1>t DEF AddRaise, TypeOK, SmInv, LockInv, Starting
    <2>2. LockInv'
      BY <1>0, <1>o, <2>1 DEF SmInv, LockInv, Starting, Dropping, RequestLabels
    <2>3. MapInv'
      BY <1>0, <1>o, <2>1, SMTT(30) DEF SmInv, MapInv, Adders, Starting, Dropping, RequestLabels
    <2> QED
      BY <2>2, <2>3 DEF SmInv
  <1>5. CASE AddEnd(a)
    <2>1. /\ pc[a] = "addEnd" /\ pc'[a] = "idle" /\ smLock = a /\ smLock' = NoThread
          /\ \A b \in (Apps \cup {Conn}) \ {a} : copy'[b] = copy[b]
          /\ copy[a] = services /\ services' = services \cup {svc[a]}
          /\ svc[a] \in used \ (services \cup deleted)
          /\ UNCHANGED <<deleted, destroyed, used>>
      BY <1>0, <1>5, <1>t DEF AddEnd, TypeOK, SmInv, LockInv, MapInv, Adders, Starting
    <2>2. LockInv'
      BY <1>0, <1>o, <2>1 DEF SmInv, LockInv, Starting, Dropping, RequestLabels
    <2>3. \A b \in Apps \ {a} : pc[b] \notin Starting \cup Dropping \cup {"remTopics"}
      BY <1>0, <2>1 DEF SmInv, LockInv
    <2>4. pc[Conn] \notin Looping
      BY <1>0, <2>1 DEF SmInv, LockInv
    <2>5. services' \cap deleted' = {}
      <3>1. a \in Apps /\ pc[a] \notin Dropping
        BY <2>1 DEF Dropping, RequestLabels
      <3>2. services \cap deleted = {}
        BY <2>3, <3>1 DEF SmInv, MapInv
      <3> QED
        BY <2>1, <3>2
    <2>6. \A b \in Apps : pc'[b] \in Adders => b # a /\ pc[b] \in Adders /\ svc'[b] # svc[a]
      BY <1>o, <2>1 DEF SmInv, MapInv, Adders, Starting
    <2>7. \A b \in Apps : pc'[b] \notin Starting \cup Dropping \cup {"remTopics"}
      BY <1>o, <2>1, <2>3 DEF Starting, Dropping, RequestLabels
    <2>8. MapInv'
      BY <1>o, <1>0, <2>1, <2>4, <2>5, <2>6, <2>7, SMTT(30) DEF SmInv, MapInv
    <2> QED
      BY <2>2, <2>8 DEF SmInv
  <1> QED
    BY <1>1, <1>2, <1>3, <1>4, <1>5

LEMMA SmRemove ==
    ASSUME TypeInv, SmInv, NEW a \in Apps,
           \/ CallRemove(a) \/ CallDestroy(a) \/ RemoveLock(a) \/ RemoveTopic(a)
           \/ RemoveRaise(a) \/ RemoveMark(a) \/ RemoveCheck(a) \/ RemoveSend(a)
           \/ RemoveAnswer(a) \/ RemoveDrop(a) \/ DestroyLock(a) \/ DestroyNext(a)
           \/ DestroyEnd(a)
    PROVE  SmInv'
  <1> USE DEF At, Goto, Quit, Free, locks, handler, local, bounds
  <1>0. /\ a \in Threads /\ a # Conn /\ a \notin Timers
        /\ \A u \in Apps \cup {Conn} : u # NoThread
    BY DEF Threads
  <1>t. TypeOK /\ pc \in [Threads -> Labels] /\ svc \in [Threads -> Services \cup {NoService}]
    BY DEF TypeInv, TypeOK, Labels
  <1>o. \A u \in (Apps \cup {Conn}) \ {a} : pc'[u] = pc[u] /\ svc'[u] = svc[u]
    BY AppAlone DEF AppStep
  <1>l. /\ Starting \cap Dropping = {} /\ Starting \subseteq Adders
        /\ Adders \cap Dropping = {} /\ "remTopics" \notin Adders \cup Dropping
        /\ {"idle", "remLock", "endLock", "endNext"} \cap (Adders \cup Dropping) = {}
        /\ {"remCheck", "remSend", "remDrop"} \subseteq Dropping
        /\ RequestLabels \subseteq Dropping
    BY DEF Starting, Dropping, Adders, RequestLabels
  <1> HIDE DEF Labels, Threads
  <1>1. CASE CallRemove(a) \/ CallDestroy(a)
    <2>1. /\ pc[a] = "idle" /\ pc'[a] \in {"remLock", "endLock"}
          /\ UNCHANGED <<smLock, services, deleted, destroyed, used, copy>>
      BY <1>0, <1>1, <1>t DEF CallRemove, CallDestroy, Call
    <2>2. LockInv'
      BY <1>l, <1>o, <2>1 DEF SmInv, LockInv
    <2>3. MapInv'
      BY <1>l, <1>o, <2>1, SMTT(30) DEF SmInv, MapInv
    <2> QED
      BY <2>2, <2>3 DEF SmInv
  <1>2. CASE DestroyLock(a)
    <2>1. /\ pc[a] = "endLock" /\ pc'[a] = "endNext" /\ smLock = NoThread /\ smLock' = a
          /\ UNCHANGED <<services, deleted, destroyed, used, copy>>
      BY <1>0, <1>2, <1>t DEF DestroyLock
    <2>2. LockInv'
      BY <1>0, <1>l, <1>o, <2>1 DEF SmInv, LockInv
    <2>3. MapInv'
      BY <1>l, <1>o, <2>1, SMTT(30) DEF SmInv, MapInv
    <2> QED
      BY <2>2, <2>3 DEF SmInv
  <1>3. CASE DestroyEnd(a)
    <2>1. /\ pc[a] = "endNext" /\ pc'[a] = "idle" /\ smLock = a /\ smLock' = NoThread
          /\ UNCHANGED <<services, deleted, destroyed, used, copy>>
      BY <1>0, <1>3, <1>t DEF DestroyEnd, SmInv, LockInv
    <2>2. LockInv'
      BY <1>0, <1>l, <1>o, <2>1 DEF SmInv, LockInv
    <2>3. MapInv'
      BY <1>l, <1>o, <2>1, SMTT(30) DEF SmInv, MapInv
    <2> QED
      BY <2>2, <2>3 DEF SmInv
  <1>4. ASSUME NEW s \in services, BeginRemove(a, s), pc[a] \in {"remLock", "endNext"},
               smLock \in {NoThread, a},
               UNCHANGED <<services, deleted, destroyed, used, copy>>
        PROVE  SmInv'
    <2>1. s \in Services /\ "remTopics" \in Labels
      BY <1>t DEF TypeOK, Labels, AppLabels
    <2>2. smLock' = a /\ Cancel(s, a, "remTopics", s)
      BY <1>4 DEF BeginRemove, StopTimer
    <2>3. pc'[a] = "remTopics" /\ svc'[a] = s
      BY <1>0, <1>t, <2>1, <2>2, CancelEffect
    <2>4. LockInv'
      BY <1>0, <1>4, <1>l, <1>o, <2>2, <2>3 DEF SmInv, LockInv
    <2>5. MapInv'
      BY <1>4, <1>l, <1>o, <2>3, SMTT(30) DEF SmInv, MapInv
    <2> QED
      BY <2>4, <2>5 DEF SmInv
  <1>5. CASE RemoveLock(a)
    <2>1. CASE svc[a] \in services
      BY <1>4, <1>5, <2>1 DEF RemoveLock
    <2>2. CASE svc[a] \notin services
      <3>1. /\ pc[a] = "remLock" /\ pc'[a] = "idle"
            /\ UNCHANGED <<smLock, services, deleted, destroyed, used, copy>>
        BY <1>0, <1>5, <1>t, <2>2 DEF RemoveLock
      <3>2. LockInv'
        BY <1>l, <1>o, <3>1 DEF SmInv, LockInv
      <3>3. MapInv'
        BY <1>l, <1>o, <3>1, SMTT(30) DEF SmInv, MapInv
      <3> QED
        BY <3>2, <3>3 DEF SmInv
    <2> QED
      BY <2>1, <2>2
  <1>6. CASE DestroyNext(a)
    <2>1. smLock = a
      BY <1>6 DEF DestroyNext, SmInv, LockInv
    <2> QED
      BY <1>4, <1>6, <2>1 DEF DestroyNext
  <1>7. CASE RemoveTopic(a)
    <2>1. pc' = pc /\ svc' = svc
      BY <1>7 DEF RemoveTopic
    <2> QED
      BY <1>7, <2>1, SmKept DEF RemoveTopic
  <1>8. CASE RemoveRaise(a)
    <2>1. /\ pc[a] = "remTopics" /\ pc'[a] = "idle" /\ smLock = a /\ smLock' = NoThread
          /\ UNCHANGED <<services, deleted, destroyed, used, copy>>
      BY <1>0, <1>8, <1>t DEF RemoveRaise, SmInv, LockInv
    <2>2. LockInv'
      BY <1>0, <1>l, <1>o, <2>1 DEF SmInv, LockInv
    <2>3. MapInv'
      BY <1>l, <1>o, <2>1, SMTT(30) DEF SmInv, MapInv
    <2> QED
      BY <2>2, <2>3 DEF SmInv
  <1>9. CASE RemoveMark(a)
    <2>1. /\ pc[a] = "remTopics" /\ pc'[a] = "remCheck" /\ svc'[a] = svc[a] /\ smLock = a
          /\ svc[a] \in services /\ deleted' = deleted \cup {svc[a]}
          /\ UNCHANGED <<smLock, services, destroyed, used, copy>>
      BY <1>0, <1>9, <1>t DEF RemoveMark, SmInv, LockInv, MapInv
    <2>2. LockInv'
      BY <1>0, <1>l, <1>o, <2>1 DEF SmInv, LockInv
    <2>3. \A b \in Apps : pc'[b] \in Adders => pc[b] \in Adders /\ svc'[b] = svc[b]
      BY <1>l, <1>o, <2>1
    <2>4. \A s \in services' \cap deleted' :
              \E b \in Apps : pc'[b] \in Dropping /\ svc'[b] = s
      <3>1. CASE services \cap deleted = {}
        BY <1>l, <2>1, <3>1
      <3>2. CASE services \cap deleted # {}
        <4>1. PICK b \in Apps : pc[b] \in Dropping
          BY <3>2 DEF SmInv, MapInv
        <4>2. b = a
          BY <2>1, <4>1 DEF SmInv, LockInv
        <4> QED
          BY <1>l, <2>1, <4>1, <4>2
      <3> QED
        BY <3>1, <3>2
    <2>5. MapInv'
      BY <1>l, <1>o, <2>1, <2>3, <2>4, SMTT(30) DEF SmInv, MapInv
    <2> QED
      BY <2>2, <2>5 DEF SmInv
  <1>10. CASE RemoveCheck(a) \/ RemoveSend(a) \/ RemoveAnswer(a)
    <2>1. /\ pc[a] \in Dropping /\ pc'[a] \in Dropping /\ svc'[a] = svc[a]
          /\ UNCHANGED <<smLock, services, deleted, destroyed, used, copy>>
      BY <1>0, <1>10, <1>t DEF RemoveCheck, RemoveSend, RemoveAnswer, UnregisterOutcome,
         Dropping, RequestLabels
    <2>2. LockInv'
      BY <1>0, <1>l, <1>o, <2>1 DEF SmInv, LockInv
    <2>3. MapInv'
      BY <1>l, <1>o, <2>1, SMTT(30) DEF SmInv, MapInv
    <2> QED
      BY <2>2, <2>3 DEF SmInv
  <1>11. CASE RemoveDrop(a)
    <2>1. /\ pc[a] = "remDrop" /\ pc'[a] \in {"endNext", "idle"} /\ smLock = a
          /\ (pc'[a] = "endNext" /\ smLock' = a) \/ (pc'[a] = "idle" /\ smLock' = NoThread)
          /\ svc[a] \in services \cap deleted
          /\ services' = services \ {svc[a]} /\ destroyed' = destroyed \cup {svc[a]}
          /\ UNCHANGED <<deleted, used, copy>>
      BY <1>0, <1>11, <1>l, <1>t DEF RemoveDrop, SmInv, LockInv, MapInv
    <2>2. LockInv'
      BY <1>0, <1>l, <1>o, <2>1 DEF SmInv, LockInv
    <2>3. /\ \A b \in Apps \ {a} : pc[b] \notin Starting \cup Dropping \cup {"remTopics"}
          /\ pc[Conn] \notin Looping
      BY <1>0, <2>1 DEF SmInv, LockInv
    <2>4. services' \cap deleted' = {}
      BY <2>1, <2>3 DEF SmInv, MapInv
    <2>5. \A b \in Apps : pc'[b] \notin Starting \cup Dropping \cup {"remTopics"}
      BY <1>l, <1>o, <2>1, <2>3
    <2>6. \A b \in Apps : pc'[b] \in Adders => b # a /\ pc[b] \in Adders /\ svc'[b] = svc[b]
      BY <1>l, <1>o, <2>1
    <2>7. MapInv'
      BY <1>0, <1>o, <2>1, <2>3, <2>4, <2>5, <2>6, SMTT(30) DEF SmInv, MapInv
    <2> QED
      BY <2>2, <2>7 DEF SmInv
  <1> QED
    BY <1>1, <1>2, <1>3, <1>5, <1>6, <1>7, <1>8, <1>9, <1>10, <1>11

LEMMA SmConn ==
    ASSUME TypeInv, SmInv, Rise \/ Leave \/ ConnStep
    PROVE  SmInv'
  <1> USE DEF At, Goto, Free, locks, handler, local, bounds
  <1>0. Conn \in Threads /\ Conn \notin Timers /\ \A u \in Apps : u # NoThread /\ u # Conn
    BY DEF Threads
  <1>t. TypeOK /\ pc \in [Threads -> Labels]
    BY DEF TypeInv, TypeOK, Labels
  <1>o. /\ \A u \in Apps : pc'[u] = pc[u] /\ svc'[u] = svc[u] /\ copy'[u] = copy[u]
        /\ UNCHANGED <<services, deleted, destroyed, used>>
    BY ConnAlone
  <1> HIDE DEF Labels, Threads
  <1>1. ASSUME LockInv', pc'[Conn] \in Looping => copy'[Conn] \subseteq services
        PROVE  SmInv'
    <2>1. MapInv'
      BY <1>1, <1>o DEF SmInv, MapInv
    <2> QED
      BY <1>1, <2>1 DEF SmInv
  <1>2. CASE Rise \/ Leave \/ Drop("lost", "stopLock") \/ Drop("closing", "down")
    <2>1. pc'[Conn] \notin Looping /\ smLock' = smLock
      BY <1>0, <1>2, <1>t DEF Rise, Leave, Drop, Looping, RequestLabels
    <2> QED
      BY <1>1, <1>o, <2>1 DEF SmInv, LockInv
  <1>3. CASE OnConnect \/ OnDisconnect
    <2>1. smLock = NoThread /\ smLock' = Conn /\ copy'[Conn] = services
      BY <1>3, <1>t DEF OnConnect, OnDisconnect, TypeOK
    <2> QED
      BY <1>0, <1>1, <1>o, <2>1 DEF SmInv, LockInv
  <1>4. CASE StartEnd \/ StopEnd
    <2>1. /\ pc[Conn] \in Looping /\ pc'[Conn] \notin Looping /\ smLock' = NoThread
      BY <1>0, <1>4, <1>t DEF StartEnd, StopEnd, Looping, RequestLabels
    <2>2. smLock = Conn
      BY <2>1 DEF SmInv, LockInv
    <2> QED
      BY <1>0, <1>1, <1>o, <2>1, <2>2 DEF SmInv, LockInv
  <1>5. CASE StartNext \/ StopNext \/ StopSend \/ StopAnswer
    <2>1. pc[Conn] \in Looping /\ smLock' = smLock
      BY <1>5 DEF StartNext, StopNext, StopSend, StopAnswer, Looping
    <2>2. copy'[Conn] \subseteq copy[Conn]
      BY <1>5, <1>t DEF StartNext, StopNext, StopSend, StopAnswer, Stop, TypeOK
    <2> QED
      BY <1>1, <1>o, <2>1, <2>2 DEF SmInv, LockInv, MapInv
  <1> QED
    BY <1>2, <1>3, <1>4, <1>5 DEF ConnStep

LEMMA SmNext == TypeInv /\ SmInv /\ [Next]_vars => SmInv'
  <1> SUFFICES ASSUME TypeInv, SmInv, [Next]_vars PROVE SmInv'
    OBVIOUS
  <1>1. CASE UNCHANGED vars
    BY <1>1, SmKept DEF vars, locks, handler, local, bounds
  <1>2. ASSUME NEW m \in Timers, TimerStep(m)
        PROVE  SmInv'
    BY <1>2, TimerAlone, SmKept DEF local, bounds
  <1>3. ASSUME NEW s \in Services, Expire(s)
        PROVE  SmInv'
    BY <1>3, SmKept DEF Expire, locks, local, bounds
  <1> QED
    BY <1>1, <1>2, <1>3, SmAdd, SmRemove, SmConn DEF Next, AppStep

LEMMA SmInit == Init => SmInv
  <1> SUFFICES ASSUME Init PROVE SmInv
    OBVIOUS
  <1>1. /\ \A a \in Apps : pc[a] = "idle"
        /\ pc[Conn] = "down"
    BY DEF Init, Threads
  <1>2. LockInv
    BY <1>1 DEF LockInv, Starting, Dropping, Looping, RequestLabels
  <1>3. MapInv
    BY <1>1 DEF Init, MapInv, Adders, Starting, Dropping, Looping, RequestLabels
  <1> QED
    BY <1>2, <1>3 DEF SmInv

\* When the manager's lock is free no service in the map is marked as deleted:
\* every removal that marks one takes it out, whatever the broker answers
\* (service.py:613-653).
THEOREM RemovalCompletes == Spec => []RemovalIsComplete
  <1>1. TypeInv /\ SmInv => RemovalIsComplete
    <2> SUFFICES ASSUME TypeInv, SmInv, Free(smLock) PROVE services \cap deleted = {}
      BY DEF RemovalIsComplete
    <2>1. \A a \in Apps : pc[a] \notin Dropping
      BY DEF SmInv, LockInv, Free, Threads
    <2> QED
      BY <2>1 DEF SmInv, MapInv
  <1> QED
    BY <1>1, TypeInit, TypeNext, SmInit, SmNext, PTL DEF Spec

-----------------------------------------------------------------------------
(* What the broker's registry may hold. *)

Known == services \cup deleted \cup {s \in Services : Adding(s)}

\* What is registered, and what a timer is about, has been added.
KnownInv == /\ broker \subseteq Known
            /\ \A m \in Timers : pc[m] # "off" => svc[m] \in Known

\* No service that has been added is forgotten.
LEMMA KnownGrows ==
    ASSUME TypeInv, SmInv, [Next]_vars
    PROVE  Known \subseteq Known'
  <1> USE DEF At, Goto, Quit, Known, Adding
  <1>1. ASSUME NEW a \in Apps, AddEnd(a)
        PROVE  Known \subseteq Known'
    <2>1. /\ services' = services \cup {svc[a]} /\ deleted' = deleted
          /\ \A b \in Apps \ {a} : pc'[b] = pc[b] /\ svc'[b] = svc[b]
      BY <1>1, AppAlone DEF AddEnd, AppStep, SmInv, MapInv, Starting, handler
    <2> QED
      BY <2>1
  <1>2. ASSUME NEW a \in Apps, RemoveDrop(a)
        PROVE  Known \subseteq Known'
    <2>1. /\ services' = services \ {svc[a]} /\ deleted' = deleted
          /\ svc[a] \in deleted /\ pc[a] = "remDrop"
          /\ \A b \in Apps \ {a} : pc'[b] = pc[b] /\ svc'[b] = svc[b]
      BY <1>2, AppAlone DEF RemoveDrop, AppStep, SmInv, MapInv, Dropping
    <2> QED
      BY <2>1
  <1>3. ASSUME services' = services, deleted \subseteq deleted',
               \A b \in Apps : pc[b] \in {"addArm", "addEnd"} =>
                   pc'[b] \in {"addArm", "addEnd"} /\ svc'[b] = svc[b]
        PROVE  Known \subseteq Known'
    BY <1>3
  <1>4. ASSUME NEW a \in Apps, AddArm(a)
        PROVE  Known \subseteq Known'
    <2>1. a \in Threads \ Timers /\ "addEnd" \in Labels /\ svc[a] \in Services
      BY <1>4 DEF AddArm, Threads, Labels, AppLabels, TypeInv, Busy, Spare, ConnLabels
    <2>2. pc'[a] = "addEnd" /\ svc'[a] = svc[a]
      <3>1. CASE Arm(a, "addEnd", svc[a])
        BY <2>1, <3>1, ArmEffect DEF TypeInv
      <3>2. CASE Goto(a, "addEnd") /\ UNCHANGED svc
        BY <2>1, <3>2 DEF TypeInv, TypeOK
      <3> QED
        BY <1>4, <3>1, <3>2 DEF AddArm
    <2> QED
      BY <1>3, <1>4, <2>2, AppAlone DEF AddArm, AppStep, handler
  <1>5. ASSUME NEW a \in Apps,
               \/ CallAdd(a) \/ CallRemove(a) \/ CallDestroy(a)
               \/ AddLock(a) \/ AddTopic(a) \/ AddRaise(a) \/ AddStart(a)
        PROVE  Known \subseteq Known'
    <2>1. a \in Threads
      BY DEF Threads
    <2>2. pc[a] \in {"addArm", "addEnd"} => FALSE
      BY <1>5 DEF CallAdd, CallRemove, CallDestroy, Call, AddLock, AddTopic, AddRaise, AddStart
    <2> QED
      BY <1>3, <1>5, <2>1, <2>2, AppAlone DEF CallAdd, CallRemove, CallDestroy, AddLock,
         AddTopic, AddRaise, AddStart, AppStep, handler
  <1>6. ASSUME NEW a \in Apps,
               \/ RemoveLock(a) \/ RemoveTopic(a) \/ RemoveRaise(a) \/ RemoveMark(a)
               \/ RemoveCheck(a) \/ RemoveSend(a) \/ RemoveAnswer(a)
               \/ DestroyLock(a) \/ DestroyNext(a) \/ DestroyEnd(a)
        PROVE  Known \subseteq Known'
    <2>1. pc[a] \notin {"addArm", "addEnd"}
      BY <1>6 DEF RemoveLock, RemoveTopic, RemoveRaise, RemoveMark, RemoveCheck,
         RemoveSend, RemoveAnswer, DestroyLock, DestroyNext, DestroyEnd, RequestLabels
    <2>2. services' = services /\ deleted \subseteq deleted'
      BY <1>6 DEF RemoveLock, RemoveTopic, RemoveRaise, RemoveMark, RemoveCheck,
         RemoveSend, RemoveAnswer, DestroyLock, DestroyNext, DestroyEnd, handler
    <2> QED
      BY <1>3, <1>6, <2>1, <2>2, AppAlone DEF AppStep
  <1>7. ASSUME NEW m \in Timers, TimerStep(m)
        PROVE  Known \subseteq Known'
    BY <1>3, <1>7, TimerAlone
  <1>8. CASE Rise \/ Leave \/ ConnStep
    BY <1>3, <1>8, ConnAlone
  <1>9. ASSUME NEW s \in Services, Expire(s)
        PROVE  Known \subseteq Known'
    BY <1>3, <1>9 DEF Expire
  <1>10. CASE UNCHANGED vars
    BY <1>3, <1>10 DEF vars, handler
  <1> QED
    BY <1>1, <1>2, <1>4, <1>5, <1>6, <1>7, <1>8, <1>9, <1>10 DEF Next, AppStep

\* Where registrations and timers come from.
LEMMA Sources ==
    ASSUME TypeInv, [Next]_vars
    PROVE  /\ \A s \in broker' \ broker :
                  \E m \in Timers : pc[m] = "lock" /\ svc[m] = s /\ s \notin deleted
           /\ \A m \in Timers : pc'[m] # "off" =>
                  \/ pc[m] # "off" /\ svc'[m] = svc[m]
                  \/ \E a \in Apps : AddArm(a) /\ svc'[m] = svc[a]
                  \/ StartNext /\ svc'[m] \in copy[Conn]
  <1> USE DEF At, Goto, Quit
  <1>t. TypeOK /\ pc \in [Threads -> Labels] /\ svc \in [Threads -> Services \cup {NoService}]
    BY DEF TypeInv, TypeOK, Labels
  <1>0. Timers \subseteq Threads
    BY DEF Threads
  <1> HIDE DEF Labels, Threads
  <1>1. ASSUME NEW a \in Apps,
               CallAdd(a) \/ CallRemove(a) \/ CallDestroy(a) \/ AppStep(a)
        PROVE  /\ broker' \subseteq broker
               /\ \A m \in Timers : pc'[m] # "off" =>
                      \/ pc[m] # "off" /\ svc'[m] = svc[m]
                      \/ AddArm(a) /\ svc'[m] = svc[a]
    <2>1. broker' \subseteq broker
      BY <1>1 DEF CallAdd, CallRemove, CallDestroy, AppStep, AddLock, AddTopic, AddRaise,
         AddStart, AddArm, AddEnd, RemoveLock, RemoveTopic, RemoveRaise, RemoveMark,
         RemoveCheck, RemoveSend, RemoveAnswer, RemoveDrop, DestroyLock, DestroyNext,
         DestroyEnd, SendUnregister
    <2> QED
      BY <1>1, <2>1, AppAlone
  <1>2. ASSUME NEW m \in Timers, TimerStep(m)
        PROVE  /\ broker' \subseteq broker
                  \/ (Register(m) /\ broker' \subseteq broker \cup {svc[m]})
               /\ \A u \in Timers : pc'[u] # "off" => pc[u] # "off" /\ svc'[u] = svc[u]
    <2>1. broker' \subseteq broker \/ (Register(m) /\ broker' \subseteq broker \cup {svc[m]})
      BY <1>2 DEF TimerStep, Fire, Check, CancelAny, LateSend, LateAnswer, Register,
         Registered, RegisterTimeout, SendUnregister, SendRegister
    <2>2. ASSUME pc'[m] # "off"
          PROVE  pc[m] # "off" /\ svc'[m] = svc[m]
      <3>1. ~Cancel(svc[m], m, "off", NoService)
        BY <1>0, <2>2 DEF Cancel
      <3>2. ~Quit(m, "off")
        BY <1>0, <1>t, <2>2
      <3> QED
        BY <1>2, <3>1, <3>2 DEF TimerStep, Fire, Check, CancelAny, LateSend, LateAnswer,
           Register, Registered, RegisterTimeout, RequestLabels
    <2> QED
      BY <1>2, <2>1, <2>2, TimerAlone
  <1>3. CASE Rise \/ Leave \/ ConnStep
    <2>1. broker' \subseteq broker
      BY <1>3 DEF Rise, Leave, ConnStep, OnConnect, StartNext, StartEnd, OnDisconnect,
         StopNext, StopSend, StopAnswer, StopEnd, Drop, SendUnregister
    <2> QED
      BY <1>3, <2>1, ConnAlone
  <1>4. ASSUME NEW s \in Services, Expire(s)
        PROVE  broker' \subseteq broker /\ UNCHANGED <<pc, svc>>
    BY <1>4 DEF Expire
  <1>5. CASE UNCHANGED vars
    BY <1>5 DEF vars
  <1>6. \A m \in Timers : Register(m) => pc[m] = "lock" /\ svc[m] \notin deleted
    BY DEF Register
  <1> QED
    BY <1>1, <1>2, <1>3, <1>4, <1>5, <1>6 DEF Next

LEMMA KnownNext == TypeInv /\ SmInv /\ KnownInv /\ [Next]_vars => KnownInv'
  <1> SUFFICES ASSUME TypeInv, SmInv, KnownInv, [Next]_vars PROVE KnownInv'
    OBVIOUS
  <1>1. Known \subseteq Known'
    BY KnownGrows
  <1>2. broker' \subseteq Known
    BY Sources DEF KnownInv
  <1>3. ASSUME NEW m \in Timers, pc'[m] # "off"
        PROVE  svc'[m] \in Known
    <2>1. CASE pc[m] # "off" /\ svc'[m] = svc[m]
      BY <2>1 DEF KnownInv
    <2>2. ASSUME NEW a \in Apps, AddArm(a), svc'[m] = svc[a]
          PROVE  svc'[m] \in Known
      BY <2>2 DEF AddArm, At, Known, Adding, TypeInv, Busy, Spare, ConnLabels, Threads
    <2>3. CASE StartNext /\ svc'[m] \in copy[Conn]
      BY <2>3 DEF StartNext, At, SmInv, MapInv, Looping, Known
    <2> QED
      BY <1>3, <2>1, <2>2, <2>3, Sources
  <1> QED
    BY <1>1, <1>2, <1>3 DEF KnownInv

\* What the broker may route a request to is in the map, or is being added or has
\* been removed, for any number of threads that add, remove and reconnect
\* (service.py:596-611, 647-653, 706-724).
THEOREM RegisteredIsKnown == Spec => []KnownIsServed
  <1>1. Init => KnownInv
    BY DEF Init, KnownInv, Threads
  <1>2. KnownInv => KnownIsServed
    BY DEF KnownInv, Known, KnownIsServed
  <1> QED
    BY <1>1, <1>2, TypeInit, TypeNext, SmInit, SmNext, KnownNext, PTL DEF Spec

\* A thread that got the answer to an unregister request will find the service
\* deleted and out of the registry.
ClosedInv ==
    /\ closed \subseteq deleted \ broker
    /\ \A a \in Apps : pc[a] = "accepted" => svc[a] \in deleted \ broker
    /\ \A m \in Timers : pc[m] = "goneAccepted" => svc[m] \in deleted \ broker

\* A mark is never taken back.
LEMMA DeletedGrows ==
    ASSUME TypeInv, [Next]_vars
    PROVE  deleted \subseteq deleted'
  <1>1. ASSUME NEW a \in Apps, AppStep(a)
        PROVE  deleted \subseteq deleted'
    BY <1>1 DEF AppStep, AddLock, AddTopic, AddRaise, AddStart, AddArm, AddEnd,
       RemoveLock, RemoveTopic, RemoveRaise, RemoveMark, RemoveCheck, RemoveSend,
       RemoveAnswer, RemoveDrop, DestroyLock, DestroyNext, DestroyEnd, handler
  <1>2. ASSUME NEW a \in Apps, CallAdd(a) \/ CallRemove(a) \/ CallDestroy(a)
        PROVE  deleted' = deleted
    BY <1>2 DEF CallAdd, CallRemove, CallDestroy, handler
  <1>3. ASSUME NEW s \in Services, Expire(s)
        PROVE  deleted' = deleted
    BY <1>3 DEF Expire
  <1>4. CASE UNCHANGED vars
    BY <1>4 DEF vars, handler
  <1> QED
    BY <1>1, <1>2, <1>3, <1>4, TimerAlone, ConnAlone DEF Next

\* A removed service that is out of the registry stays out of it.
LEMMA GoneStaysGone ==
    ASSUME TypeInv, [Next]_vars
    PROVE  deleted \ broker \subseteq deleted' \ broker'
  <1>1. \A s \in broker' \ broker : s \notin deleted
    BY Sources
  <1> QED
    BY <1>1, DeletedGrows

LEMMA ClosedNext == TypeInv /\ SmInv /\ ClosedInv /\ [Next]_vars => ClosedInv'
  <1> SUFFICES ASSUME TypeInv, SmInv, ClosedInv, [Next]_vars PROVE ClosedInv'
    OBVIOUS
  <1> USE DEF At, Goto, Quit
  <1>0. deleted \ broker \subseteq deleted' \ broker'
    BY GoneStaysGone
  <1>t. /\ TypeOK /\ pc \in [Threads -> Labels] /\ svc \in [Threads -> Services \cup {NoService}]
        /\ Apps \subseteq Threads /\ Timers \subseteq Threads
    BY DEF TypeInv, TypeOK, Labels, Threads
  <1>k. ASSUME closed' \subseteq closed \cup (deleted \ broker),
               \A a \in Apps : pc'[a] = "accepted" =>
                   pc[a] = "accepted" /\ svc'[a] = svc[a],
               \A m \in Timers : pc'[m] = "goneAccepted" =>
                   pc[m] = "goneAccepted" /\ svc'[m] = svc[m]
        PROVE  ClosedInv'
    BY <1>0, <1>k DEF ClosedInv
  <1>1. ASSUME NEW a \in Apps, RemoveSend(a)
        PROVE  ClosedInv'
    <2>1. /\ \A b \in Apps \ {a} : pc'[b] = pc[b] /\ svc'[b] = svc[b]
          /\ \A m \in Timers : pc'[m] = "goneAccepted" =>
                 pc[m] = "goneAccepted" /\ svc'[m] = svc[m]
          /\ closed' = closed /\ deleted' = deleted /\ svc'[a] = svc[a]
      BY <1>1, AppAlone DEF AppStep, RemoveSend, ghost, handler
    <2>2. svc[a] \in deleted
      BY <1>1 DEF RemoveSend, SmInv, MapInv, Dropping
    <2>3. pc'[a] = "accepted" => broker' = broker \ {svc[a]}
      <3>1. CASE \E outcome \in UnregisterOutcome : /\ SendUnregister(svc[a], outcome)
                                                    /\ Goto(a, outcome)
        BY <1>t, <3>1 DEF SendUnregister
      <3>2. CASE Goto(a, "remDrop")
        BY <1>t, <3>2
      <3> QED
        BY <1>1, <3>1, <3>2 DEF RemoveSend
    <2> QED
      BY <1>0, <2>1, <2>2, <2>3 DEF ClosedInv
  <1>2. ASSUME NEW m \in Timers, LateSend(m)
        PROVE  ClosedInv'
    <2>1. /\ \A b \in Apps : pc'[b] = pc[b] /\ svc'[b] = svc[b]
          /\ \A u \in Timers \ {m} : pc'[u] = "goneAccepted" =>
                 pc[u] = "goneAccepted" /\ svc'[u] = svc[u]
          /\ closed' = closed /\ deleted' = deleted /\ svc[m] \in deleted
      BY <1>2, TimerAlone DEF TimerStep, LateSend, ghost, handler
    <2>2. pc'[m] = "goneAccepted" => broker' = broker \ {svc[m]} /\ svc'[m] = svc[m]
      <3>1. CASE /\ UNCHANGED svc
                 /\ \E outcome \in UnregisterOutcome :
                      /\ SendUnregister(svc[m], outcome)
                      /\ Goto(m, IF outcome = "accepted" THEN "goneAccepted"
                                                         ELSE "goneUnsent")
        <4>1. PICK outcome \in UnregisterOutcome :
                  /\ SendUnregister(svc[m], outcome)
                  /\ Goto(m, IF outcome = "accepted" THEN "goneAccepted" ELSE "goneUnsent")
          BY <3>1
        <4>2. CASE outcome = "accepted"
          BY <3>1, <4>1, <4>2 DEF SendUnregister
        <4>3. CASE outcome # "accepted"
          BY <1>t, <4>1, <4>3
        <4> QED
          BY <4>2, <4>3
      <3>2. CASE Cancel(svc[m], m, "off", NoService)
        BY <1>t, <3>2 DEF Cancel
      <3>3. CASE Quit(m, "off")
        BY <1>t, <3>3
      <3> QED
        BY <1>2, <3>1, <3>2, <3>3 DEF LateSend
    <2> QED
      BY <1>0, <2>1, <2>2 DEF ClosedInv
  <1>3. ASSUME NEW a \in Apps, RemoveAnswer(a)
        PROVE  ClosedInv'
    <2>1. closed' \subseteq closed \cup (deleted \ broker)
      BY <1>3 DEF RemoveAnswer, ClosedInv
    <2>2. pc'[a] = "remDrop"
      BY <1>3, <1>t DEF RemoveAnswer
    <2> QED
      BY <1>3, <1>k, <2>1, <2>2, AppAlone DEF AppStep
  <1>4. ASSUME NEW m \in Timers, LateAnswer(m)
        PROVE  ClosedInv'
    <2>1. closed' \subseteq closed \cup (deleted \ broker)
      BY <1>4 DEF LateAnswer, ClosedInv
    <2>2. pc'[m] = "off"
      BY <1>4, <1>t DEF LateAnswer, Cancel
    <2> QED
      BY <1>4, <1>k, <2>1, <2>2, TimerAlone DEF TimerStep
  <1>5. ASSUME NEW a \in Apps,
               \/ CallAdd(a) \/ CallRemove(a) \/ CallDestroy(a)
               \/ AddLock(a) \/ AddTopic(a) \/ AddRaise(a) \/ AddStart(a) \/ AddEnd(a)
               \/ RemoveTopic(a) \/ RemoveRaise(a) \/ RemoveMark(a) \/ RemoveCheck(a)
               \/ RemoveDrop(a) \/ DestroyLock(a) \/ DestroyEnd(a)
               \/ AddArm(a) \/ RemoveLock(a) \/ DestroyNext(a)
        PROVE  ClosedInv'
    <2>1. closed' = closed
      BY <1>5 DEF CallAdd, CallRemove, CallDestroy, AddLock, AddTopic, AddRaise, AddStart,
         AddEnd, RemoveTopic, RemoveRaise, RemoveMark, RemoveCheck, RemoveDrop,
         DestroyLock, DestroyEnd, AddArm, RemoveLock, DestroyNext, ghost
    <2>2. ASSUME pc'[a] = "accepted"
          PROVE  FALSE
      <3>1. CASE AddArm(a)
        <4>1. a \in Threads \ Timers /\ "addEnd" \in Labels /\ svc[a] \in Services
          BY <3>1 DEF AddArm, Threads, Labels, AppLabels, TypeInv, Busy, Spare, ConnLabels
        <4> QED
          BY <1>t, <2>2, <3>1, <4>1, ArmEffect DEF AddArm
      <3>2. CASE RemoveLock(a) \/ DestroyNext(a)
        BY <1>t, <2>2, <3>2 DEF RemoveLock, DestroyNext, BeginRemove, StopTimer, Cancel
      <3> QED
        BY <1>5, <1>t, <2>2, <3>1, <3>2 DEF CallAdd, CallRemove, CallDestroy, Call, AddLock,
           AddTopic, AddRaise, AddStart, AddEnd, RemoveTopic, RemoveRaise, RemoveMark,
           RemoveCheck, RemoveDrop, DestroyLock, DestroyEnd
    <2> QED
      BY <1>5, <1>k, <2>1, <2>2, AppAlone DEF AppStep
  <1>6. ASSUME NEW m \in Timers,
               \/ Fire(m) \/ Check(m) \/ CancelAny(m) \/ Register(m)
               \/ Registered(m) \/ RegisterTimeout(m)
        PROVE  ClosedInv'
    <2>1. closed' = closed
      BY <1>6 DEF Fire, Check, CancelAny, Register, Registered, RegisterTimeout, ghost
    <2>2. pc'[m] # "goneAccepted"
      BY <1>6, <1>t DEF Fire, Check, CancelAny, Register, Registered, RegisterTimeout,
         RegisterOutcome, RequestLabels, Cancel
    <2> QED
      BY <1>6, <1>k, <2>1, <2>2, TimerAlone DEF TimerStep
  <1>7. CASE Rise \/ Leave \/ ConnStep
    BY <1>7, <1>k, ConnAlone
  <1>8. ASSUME NEW s \in Services, Expire(s)
        PROVE  ClosedInv'
    BY <1>8, <1>k DEF Expire, ghost
  <1>9. CASE UNCHANGED vars
    BY <1>9, <1>k DEF vars, ghost
  <1> QED
    BY <1>1, <1>2, <1>3, <1>4, <1>5, <1>6, <1>7, <1>8, <1>9 DEF Next, AppStep, TimerStep

\* Once the broker has answered the unregister request of a removed service, no
\* timer, registration in progress or reconnection brings it back, for any
\* number of them (service.py:488-504, 613-653).
THEOREM StaysUnregistered == Spec => []UnregisteredStays
  <1>1. Init => ClosedInv
    BY DEF Init, ClosedInv, Threads
  <1>2. ClosedInv => UnregisteredStays
    BY DEF ClosedInv, UnregisteredStays
  <1> QED
    BY <1>1, <1>2, TypeInit, TypeNext, SmInit, SmNext, ClosedNext, PTL DEF Spec

-----------------------------------------------------------------------------
(* The topics of the services. *)

Removed(topic) == \E a \in Apps : pc[a] = "remTopics" /\ topic \in TopicsOf[svc[a]] \ left[a]

TopicInv ==
    /\ \A a \in Apps : pc[a] \in Starting =>
           TopicsOf[svc[a]] \ left[a] \subseteq subs \cap callbacks
    /\ \A a \in Apps : pc[a] \in {"addArm", "addEnd"} => left[a] = {}
    /\ \A a \in Apps : pc[a] = "remTopics" => left[a] \subseteq TopicsOf[svc[a]]
    /\ \A s \in services \ (torn \cup deleted) : \A topic \in TopicsOf[s] :
           topic \in subs \cap callbacks \/ topic \in Taken(s) \/ Removed(topic)

\* A step outside the loops over the topics.
LEMMA TopicKept ==
    ASSUME TypeInv, TopicInv,
           UNCHANGED <<subs, callbacks, torn, left>>, services' \subseteq services,
           deleted \subseteq deleted',
           \A a \in Apps : \/ pc'[a] = pc[a] /\ svc'[a] = svc[a]
                           \/ pc[a] # "remTopics" /\ pc'[a] \notin Starting \cup {"remTopics"}
                           \/ pc[a] # "remTopics" /\ pc[a] \in Starting /\ svc'[a] = svc[a]
                              /\ left[a] = {} /\ pc'[a] # "remTopics"
    PROVE  TopicInv'
  <1>1. \A s \in services : \A topic \in TopicsOf[s] : topic \in Taken(s) => topic \in Taken(s)'
    BY DEF Taken
  <1>2. \A topic : Removed(topic) => Removed(topic)'
    BY DEF Removed
  <1>3. \A s \in services' \ (torn' \cup deleted') : \A topic \in TopicsOf[s] :
            topic \in subs' \cap callbacks' \/ topic \in Taken(s)' \/ Removed(topic)'
    BY <1>1, <1>2 DEF TopicInv
  <1>4. \A a \in Apps : pc'[a] \in {"addArm", "addEnd"} => pc'[a] \in Starting
    BY DEF Starting
  <1> QED
    BY <1>3, <1>4 DEF TopicInv

LEMMA TopicNext == TypeInv /\ SmInv /\ TopicInv /\ [Next]_vars => TopicInv'
  <1> SUFFICES ASSUME TypeInv, SmInv, TopicInv, [Next]_vars PROVE TopicInv'
    OBVIOUS
  <1> USE DEF At, Goto, Quit, topics, local, handler, ghost
  <1>t. /\ TypeOK /\ pc \in [Threads -> Labels] /\ svc \in [Threads -> Services \cup {NoService}]
        /\ Apps \subseteq Threads
    BY DEF TypeInv, TypeOK, Labels, Threads
  <1>l. /\ Starting \cap ({"remTopics", "idle", "addLock", "remLock", "endLock", "endNext"}
                          \cup Dropping) = {}
        /\ {"addTopics", "addArm", "addEnd"} = Starting
        /\ "remTopics" \notin Dropping
    BY DEF Starting, Dropping, RequestLabels
  <1>o. ASSUME NEW a \in Apps,
               CallAdd(a) \/ CallRemove(a) \/ CallDestroy(a) \/ AppStep(a)
        PROVE  \A b \in Apps \ {a} : pc'[b] = pc[b] /\ svc'[b] = svc[b]
    BY <1>o, AppAlone
  <1>x. ASSUME NEW a \in Apps, NEW b \in Apps, a # b,
               pc[a] \in Starting \cup {"remTopics"}
        PROVE  pc[b] \notin Starting \cup {"remTopics"}
    BY <1>x DEF SmInv, LockInv
  <1>1. ASSUME NEW a \in Apps, AddLock(a)
        PROVE  TopicInv'
    <2>1. /\ pc[a] = "addLock" /\ pc'[a] = "addTopics" /\ svc'[a] = svc[a]
          /\ left'[a] = TopicsOf[svc[a]] /\ \A b \in Apps \ {a} : left'[b] = left[b]
          /\ UNCHANGED <<subs, callbacks, torn, services, deleted>>
      BY <1>1, <1>t DEF AddLock, TypeOK
    <2>2. \A topic : Removed(topic) => Removed(topic)'
      BY <1>1, <1>o, <2>1 DEF AppStep, Removed
    <2>3. \A s \in services : \A topic \in TopicsOf[s] : topic \in Taken(s) => topic \in Taken(s)'
      BY <2>1 DEF Taken
    <2> QED
      BY <1>1, <1>o, <2>1, <2>2, <2>3 DEF AppStep, TopicInv
  <1>2. ASSUME NEW a \in Apps, AddTopic(a)
        PROVE  TopicInv'
    <2>1. PICK topic \in left[a] :
              /\ pc[a] = "addTopics" /\ pc' = pc /\ svc' = svc
              /\ subs' = subs \cup {topic} /\ callbacks' = callbacks \cup {topic}
              /\ left'[a] = left[a] \ {topic} /\ \A b \in Apps \ {a} : left'[b] = left[b]
              /\ UNCHANGED <<torn, services, deleted>>
      BY <1>2, <1>t DEF AddTopic, TypeOK
    <2>2. \A p : Removed(p) => Removed(p)'
      BY <2>1 DEF Removed
    <2>3. \A s \in services : \A p \in TopicsOf[s] : p \in Taken(s) => p \in Taken(s)'
      BY <2>1 DEF Taken
    <2>4. \A b \in Apps : pc[b] = "remTopics" => b # a
      BY <2>1
    <2> QED
      BY <2>1, <2>2, <2>3, <2>4 DEF TopicInv
  <1>3. ASSUME NEW a \in Apps, AddRaise(a)
        PROVE  TopicInv'
    <2>1. /\ pc[a] = "addTopics" /\ pc'[a] = "idle"
          /\ subs \subseteq subs' /\ \A b \in Apps \ {a} : left'[b] = left[b]
          /\ UNCHANGED <<callbacks, torn, services, deleted>>
      BY <1>3, <1>t DEF AddRaise, TypeOK
    <2>2. \A p : Removed(p) => Removed(p)'
      BY <1>3, <1>o, <2>1 DEF AppStep, Removed
    <2>3. \A s \in services : \A p \in TopicsOf[s] : p \in Taken(s) => p \in Taken(s)'
      BY <2>1 DEF Taken
    <2> QED
      BY <1>3, <1>l, <1>o, <2>1, <2>2, <2>3 DEF AppStep, TopicInv
  <1>4. ASSUME NEW a \in Apps, AddStart(a) \/ AddArm(a)
        PROVE  TopicInv'
    <2>1. /\ pc[a] \in Starting /\ left[a] = {} /\ pc[a] # "remTopics"
          /\ UNCHANGED <<subs, callbacks, torn, left, services, deleted>>
      BY <1>4 DEF AddStart, AddArm, TopicInv, Starting
    <2>2. pc'[a] # "remTopics" /\ svc'[a] = svc[a]
      <3>1. CASE AddStart(a)
        BY <1>t, <3>1 DEF AddStart
      <3>2. CASE AddArm(a)
        <4>1. a \in Threads \ Timers /\ "addEnd" \in Labels /\ svc[a] \in Services
          BY <3>2 DEF AddArm, Threads, Labels, AppLabels, TypeInv, Busy, Spare, ConnLabels
        <4> QED
          BY <1>t, <3>2, <4>1, ArmEffect DEF AddArm
      <3> QED
        BY <1>4, <3>1, <3>2
    <2> QED
      BY <1>4, <1>o, <2>1, <2>2, TopicKept DEF AppStep
  <1>5. ASSUME NEW a \in Apps, AddEnd(a)
        PROVE  TopicInv'
    <2>1. /\ pc[a] = "addEnd" /\ pc'[a] = "idle" /\ services' = services \cup {svc[a]}
          /\ UNCHANGED <<subs, callbacks, torn, deleted, left>>
      BY <1>5, <1>t DEF AddEnd, SmInv, MapInv, Starting
    <2>2. TopicsOf[svc[a]] \subseteq subs \cap callbacks
      BY <1>l, <2>1 DEF TopicInv
    <2>3. \A p : Removed(p) => Removed(p)'
      BY <1>5, <1>o, <2>1 DEF AppStep, Removed
    <2>4. \A s \in services : \A p \in TopicsOf[s] : p \in Taken(s) => p \in Taken(s)'
      BY <2>1 DEF Taken
    <2> QED
      BY <1>5, <1>l, <1>o, <2>1, <2>2, <2>3, <2>4 DEF AppStep, TopicInv
  <1>6. ASSUME NEW a \in Apps, NEW s \in services, BeginRemove(a, s),
               AppStep(a), pc[a] \in {"remLock", "endNext"},
               UNCHANGED <<subs, callbacks, torn, services, deleted>>
        PROVE  TopicInv'
    <2>1. s \in Services /\ "remTopics" \in Labels
      BY <1>t DEF TypeOK, Labels, AppLabels
    <2>2. Cancel(s, a, "remTopics", s) /\ left' = [left EXCEPT ![a] = TopicsOf[s]]
      BY <1>6 DEF BeginRemove, StopTimer
    <2>3. /\ pc'[a] = "remTopics" /\ svc'[a] = s /\ left'[a] = TopicsOf[s]
          /\ \A b \in Apps \ {a} : left'[b] = left[b]
      BY <1>t, <2>1, <2>2, CancelEffect DEF TypeOK
    <2>4. \A p : Removed(p) => Removed(p)'
      BY <1>6, <1>o, <2>3 DEF Removed
    <2>5. \A r \in services : \A p \in TopicsOf[r] : p \in Taken(r) => p \in Taken(r)'
      BY <1>6 DEF Taken
    <2> QED
      BY <1>6, <1>l, <1>o, <2>3, <2>4, <2>5 DEF TopicInv
  <1>7. ASSUME NEW a \in Apps, RemoveLock(a)
        PROVE  TopicInv'
    <2>1. CASE svc[a] \in services
      BY <1>6, <1>7, <2>1 DEF RemoveLock, AppStep
    <2>2. CASE svc[a] \notin services
      <3>1. /\ pc[a] = "remLock" /\ pc'[a] = "idle"
            /\ UNCHANGED <<subs, callbacks, torn, left, services, deleted>>
        BY <1>7, <1>t, <2>2 DEF RemoveLock
      <3> QED
        BY <1>7, <1>l, <1>o, <3>1, TopicKept DEF AppStep
    <2> QED
      BY <2>1, <2>2
  <1>8. ASSUME NEW a \in Apps, DestroyNext(a)
        PROVE  TopicInv'
    BY <1>6, <1>8 DEF DestroyNext, AppStep
  <1>9. ASSUME NEW a \in Apps, RemoveTopic(a)
        PROVE  TopicInv'
    <2>1. PICK topic \in left[a] :
              /\ pc[a] = "remTopics" /\ pc' = pc /\ svc' = svc
              /\ subs' = subs \ {topic} /\ callbacks' = callbacks \ {topic}
              /\ left'[a] = left[a] \ {topic} /\ \A b \in Apps \ {a} : left'[b] = left[b]
              /\ UNCHANGED <<torn, services, deleted>>
      BY <1>9, <1>t DEF RemoveTopic, TypeOK
    <2>2. topic \in TopicsOf[svc[a]] \ left'[a]
      BY <2>1 DEF TopicInv
    <2>3. \A p : p = topic \/ Removed(p) => Removed(p)'
      BY <2>1, <2>2 DEF Removed
    <2>4. \A s \in services : \A p \in TopicsOf[s] : p \in Taken(s) => p \in Taken(s)'
      BY <2>1 DEF Taken
    <2>5. \A b \in Apps : pc'[b] \notin Starting
      BY <1>l, <1>x, <2>1
    <2> QED
      BY <1>l, <2>1, <2>3, <2>4, <2>5 DEF TopicInv
  <1>10. ASSUME NEW a \in Apps, RemoveRaise(a) \/ RemoveMark(a)
         PROVE  TopicInv'
    <2>1. /\ pc[a] = "remTopics" /\ pc'[a] \notin Starting \cup {"remTopics"}
          /\ svc[a] \in (torn' \cup deleted') /\ torn \subseteq torn' /\ deleted \subseteq deleted'
          /\ subs \ left[a] \subseteq subs' /\ subs' \subseteq subs
          /\ \A b \in Apps \ {a} : left'[b] = left[b]
          /\ UNCHANGED <<callbacks, services>>
      BY <1>10, <1>l, <1>t DEF RemoveRaise, RemoveMark, TypeOK
    <2>2. left[a] \subseteq TopicsOf[svc[a]]
      BY <2>1 DEF TopicInv
    <2>3. \A s \in services \ {svc[a]}, p \in TopicsOf[svc[a]] : p \in Taken(s)'
      BY <2>1 DEF Taken
    <2>4. \A s \in services : \A p \in TopicsOf[s] : p \in Taken(s) => p \in Taken(s)'
      BY <2>1 DEF Taken
    <2>5. \A p : Removed(p) => p \in TopicsOf[svc[a]] \/ Removed(p)'
      BY <1>10, <1>o, <2>1 DEF AppStep, Removed
    <2>6. ASSUME NEW s \in services' \ (torn' \cup deleted'), NEW p \in TopicsOf[s]
          PROVE  p \in subs' \cap callbacks' \/ p \in Taken(s)' \/ Removed(p)'
      <3>1. s \in services \ {svc[a]} /\ s \notin torn \cup deleted
        BY <2>1
      <3>2. p \in subs \cap callbacks \/ p \in Taken(s) \/ Removed(p)
        BY <3>1 DEF TopicInv
      <3> QED
        BY <2>1, <2>2, <2>3, <2>4, <2>5, <3>1, <3>2
    <2>7. \A b \in Apps : pc'[b] \notin Starting \cup {"remTopics"}
      BY <1>10, <1>o, <1>x, <2>1 DEF AppStep
    <2> QED
      BY <1>l, <2>6, <2>7 DEF TopicInv
  <1>11. ASSUME NEW a \in Apps,
                \/ CallAdd(a) \/ CallRemove(a) \/ CallDestroy(a) \/ RemoveCheck(a)
                \/ RemoveSend(a) \/ RemoveAnswer(a) \/ RemoveDrop(a)
                \/ DestroyLock(a) \/ DestroyEnd(a)
         PROVE  TopicInv'
    <2>1. /\ pc[a] # "remTopics" /\ pc'[a] \notin Starting \cup {"remTopics"}
          /\ services' \subseteq services
          /\ UNCHANGED <<subs, callbacks, torn, left, deleted>>
      BY <1>11, <1>t DEF CallAdd, CallRemove, CallDestroy, Call, RemoveCheck, RemoveSend,
         RemoveAnswer, RemoveDrop, DestroyLock, DestroyEnd, UnregisterOutcome,
         RequestLabels, Starting
    <2> QED
      BY <1>11, <1>o, <2>1, TopicKept DEF AppStep
  <1>12. ASSUME NEW m \in Timers, TimerStep(m)
         PROVE  TopicInv'
    BY <1>12, TimerAlone, TopicKept
  <1>13. CASE Rise \/ Leave \/ ConnStep
    BY <1>13, ConnAlone, TopicKept
  <1>14. ASSUME NEW s \in Services, Expire(s)
         PROVE  TopicInv'
    BY <1>14, TopicKept DEF Expire
  <1>15. CASE UNCHANGED vars
    BY <1>15, TopicKept DEF vars
  <1> QED
    BY <1>1, <1>2, <1>3, <1>4, <1>5, <1>7, <1>8, <1>9, <1>10, <1>11, <1>12, <1>13,
       <1>14, <1>15 DEF Next, AppStep

\* A service in the map has its topics subscribed with a callback, but for those
\* that a removal of another service, or its own, has taken, for any services
\* and any topics they share (service.py:603-606, 633-635).
THEOREM ServiceReached == Spec => []ReachesService
  <1>1. Init => TopicInv
    BY DEF Init, TopicInv, Starting, Threads
  <1>2. SmInv /\ TopicInv => ReachesService
    <2> SUFFICES ASSUME SmInv, TopicInv, Free(smLock), NEW s \in services \ torn
                 PROVE  TopicsOf[s] \ Taken(s) \subseteq subs \cap callbacks
      BY DEF ReachesService
    <2>1. \A a \in Apps : pc[a] \notin Dropping \cup {"remTopics"}
      BY DEF SmInv, LockInv, Free, Threads
    <2>2. s \notin deleted
      BY <2>1 DEF SmInv, MapInv
    <2>3. \A topic : ~Removed(topic)
      BY <2>1 DEF Removed
    <2> QED
      BY <2>2, <2>3 DEF TopicInv
  <1> QED
    BY <1>1, <1>2, TypeInit, TypeNext, SmInit, SmNext, TopicNext, PTL DEF Spec

-----------------------------------------------------------------------------
(* The timers of the services. *)

\* A service whose timer is set or runs towards a registration, or that is known
\* to have none.
Timed(s) == \/ \E m \in Timers : svc[m] = s /\ pc[m] \notin {"off", "cancel"}
            \/ s \in lapsed \cup torn \cup deleted
            \/ \E a \in Apps : svc[a] = s /\ pc[a] = "remTopics"

LinkInv == /\ pc[Conn] \in {"rising", "starting", "up"} => connected
           /\ pc[Conn] \in {"rising", "starting"} => connLock = Conn
GoneInv == \A m \in Timers : pc[m] \in {"goneAccepted", "goneUnsent"} => svc[m] \in deleted
TimerInv ==
    /\ LinkInv /\ GoneInv
    /\ pc[Conn] = "up" => /\ \A s \in services : Timed(s)
                          /\ \A a \in Apps : pc[a] = "addEnd" => Timed(svc[a])
    /\ pc[Conn] = "starting" => \A s \in services \ copy[Conn] : Timed(s)

LEMMA LinkNext == TypeInv /\ LinkInv /\ [Next]_vars => LinkInv'
  <1> SUFFICES ASSUME TypeInv, LinkInv, [Next]_vars PROVE LinkInv'
    OBVIOUS
  <1> USE DEF At, Goto, Quit
  <1>t. /\ TypeOK /\ pc \in [Threads -> Labels] /\ Conn \in Threads
        /\ Conn \in Threads \ Timers
    BY DEF TypeInv, TypeOK, Labels, Threads
  <1>1. ASSUME UNCHANGED <<connected, connLock>>, pc'[Conn] = pc[Conn]
        PROVE  LinkInv'
    BY <1>1 DEF LinkInv
  <1>2. ASSUME NEW a \in Apps,
               CallAdd(a) \/ CallRemove(a) \/ CallDestroy(a) \/ AppStep(a)
        PROVE  LinkInv'
    <2>1. UNCHANGED <<connected, connLock>>
      BY <1>2 DEF CallAdd, CallRemove, CallDestroy, AppStep, AddLock, AddTopic, AddRaise,
         AddStart, AddArm, AddEnd, RemoveLock, RemoveTopic, RemoveRaise, RemoveMark,
         RemoveCheck, RemoveSend, RemoveAnswer, RemoveDrop, DestroyLock, DestroyNext,
         DestroyEnd, locks
    <2>2. pc'[Conn] = pc[Conn]
      BY <1>2, AppAlone
    <2> QED
      BY <1>1, <2>1, <2>2
  <1>3. ASSUME NEW m \in Timers, TimerStep(m)
        PROVE  LinkInv'
    BY <1>1, <1>3, TimerAlone
  <1>4. CASE Rise \/ OnConnect \/ StartEnd
    BY <1>4, <1>t DEF Rise, OnConnect, StartEnd, LinkInv
  <1>5. CASE StartNext
    <2>1. PICK s \in copy[Conn] : Arm(Conn, "starting", s)
      BY <1>5 DEF StartNext
    <2>2. s \in Services /\ "starting" \in Labels
      BY <1>t, <2>1 DEF TypeOK, Labels, ConnLabels
    <2>3. pc'[Conn] = "starting" /\ pc[Conn] = "starting"
      BY <1>5, <1>t, <2>1, <2>2, ArmEffect DEF StartNext
    <2> QED
      BY <1>1, <1>5, <2>3 DEF StartNext, locks
  <1>6. CASE \/ Leave \/ OnDisconnect \/ StopNext \/ StopSend \/ StopAnswer \/ StopEnd
             \/ Drop("lost", "stopLock") \/ Drop("closing", "down")
    <2>1. pc'[Conn] \notin {"rising", "starting", "up"}
      BY <1>6, <1>t DEF Leave, OnDisconnect, StopNext, StopSend, StopAnswer, StopEnd,
         Drop, Stop, StopTimer, Cancel, UnregisterOutcome, RequestLabels
    <2> QED
      BY <2>1 DEF LinkInv
  <1>7. ASSUME NEW s \in Services, Expire(s)
        PROVE  LinkInv'
    BY <1>1, <1>7 DEF Expire, locks
  <1>8. CASE UNCHANGED vars
    BY <1>1, <1>8 DEF vars, locks
  <1> QED
    BY <1>2, <1>3, <1>4, <1>5, <1>6, <1>7, <1>8 DEF Next, ConnStep

LEMMA GoneNext == TypeInv /\ GoneInv /\ [Next]_vars => GoneInv'
  <1> SUFFICES ASSUME TypeInv, GoneInv, [Next]_vars PROVE GoneInv'
    OBVIOUS
  <1> USE DEF At, Goto, Quit
  <1>t. /\ TypeOK /\ pc \in [Threads -> Labels] /\ Timers \subseteq Threads
        /\ svc \in [Threads -> Services \cup {NoService}]
    BY DEF TypeInv, TypeOK, Labels, Threads
  <1>d. deleted \subseteq deleted'
    BY DeletedGrows
  <1>1. ASSUME \A m \in Timers : pc'[m] \in {"goneAccepted", "goneUnsent"} =>
                   pc'[m] = pc[m] /\ svc'[m] = svc[m]
        PROVE  GoneInv'
    BY <1>1, <1>d DEF GoneInv
  <1>2. ASSUME NEW m \in Timers, TimerStep(m)
        PROVE  GoneInv'
    <2>1. CASE LateSend(m)
      <3>1. svc[m] \in deleted /\ svc[m] \in Services
        BY <2>1, <1>t DEF LateSend, TypeOK
      <3>2. pc'[m] \in {"goneAccepted", "goneUnsent"} => svc'[m] = svc[m]
        BY <2>1, <1>t DEF LateSend, Cancel
      <3> QED
        BY <1>2, <1>d, <3>1, <3>2, TimerAlone DEF GoneInv
    <2>2. CASE ~LateSend(m)
      <3>1. pc'[m] \notin {"goneAccepted", "goneUnsent"}
        BY <1>2, <1>t, <2>2 DEF TimerStep, Fire, Check, CancelAny, LateAnswer, Register,
           Registered, RegisterTimeout, RegisterOutcome, RequestLabels, Cancel
      <3> QED
        BY <1>1, <1>2, <3>1, TimerAlone
    <2> QED
      BY <2>1, <2>2
  <1>3. ASSUME NEW a \in Apps,
               CallAdd(a) \/ CallRemove(a) \/ CallDestroy(a) \/ AppStep(a)
        PROVE  GoneInv'
    BY <1>1, <1>3, AppAlone
  <1>4. CASE Rise \/ Leave \/ ConnStep
    BY <1>1, <1>4, ConnAlone
  <1>5. ASSUME NEW s \in Services, Expire(s)
        PROVE  GoneInv'
    BY <1>1, <1>5 DEF Expire
  <1>6. CASE UNCHANGED vars
    BY <1>1, <1>6 DEF vars
  <1> QED
    BY <1>2, <1>3, <1>4, <1>5, <1>6 DEF Next

\* A step that leaves the connection up, or on its way up, takes its timer from
\* no service but by cancelling it, removing the service, or failing to register.
LEMMA TimedKept ==
    ASSUME TypeInv, SmInv, LinkInv, GoneInv, [Next]_vars,
           pc[Conn] \in {"starting", "up"}, pc'[Conn] \in {"starting", "up"},
           NEW s \in Services, Timed(s)
    PROVE  Timed(s)'
  <1> USE DEF At, Goto, Quit
  <1>t. /\ TypeOK /\ pc \in [Threads -> Labels] /\ Apps \subseteq Threads
        /\ svc \in [Threads -> Services \cup {NoService}]
        /\ Timers \subseteq Threads /\ Conn \in Threads \ Timers
        /\ Apps \subseteq Threads \ Timers
    BY DEF TypeInv, TypeOK, Labels, Threads
  <1>d. deleted \subseteq deleted'
    BY DeletedGrows
  <1>l. {"off", "remTopics", "starting", "addEnd"} \subseteq Labels
    BY DEF Labels, AppLabels, TimerLabels, ConnLabels
  <1>c. connected
    BY DEF LinkInv
  <1>k. ASSUME lapsed \subseteq lapsed', torn \subseteq torn',
               \A a \in Apps : svc[a] = s /\ pc[a] = "remTopics" =>
                   \/ svc'[a] = s /\ pc'[a] = "remTopics"
                   \/ s \in torn' \cup deleted',
               \A m \in Timers : svc[m] = s /\ pc[m] \notin {"off", "cancel"} =>
                   \/ svc'[m] = s /\ pc'[m] \notin {"off", "cancel"}
                   \/ s \in lapsed' \cup torn' \cup deleted'
                   \/ \E a \in Apps : svc'[a] = s /\ pc'[a] = "remTopics"
        PROVE  Timed(s)'
    BY <1>d, <1>k DEF Timed
  <1>1. ASSUME NEW a \in Apps, NEW r \in Services, BeginRemove(a, r), AppStep(a),
               pc[a] # "remTopics", UNCHANGED <<lapsed, torn>>
        PROVE  Timed(s)'
    <2>1. Cancel(r, a, "remTopics", r)
      BY <1>1 DEF BeginRemove, StopTimer
    <2>2. /\ pc'[a] = "remTopics" /\ svc'[a] = r
          /\ \A u \in Threads \ {a} : \/ pc'[u] = pc[u] /\ svc'[u] = svc[u]
                                      \/ u \in Timers /\ svc[u] = r
      BY <1>l, <1>t, <2>1, CancelEffect
    <2>3. \A b \in Apps \ {a} : pc'[b] = pc[b] /\ svc'[b] = svc[b]
      BY <1>1, AppAlone
    <2> QED
      BY <1>1, <1>k, <1>t, <2>2, <2>3
  <1>2. ASSUME NEW a \in Apps, RemoveLock(a) \/ DestroyNext(a)
        PROVE  Timed(s)'
    <2>1. UNCHANGED <<lapsed, torn>> /\ pc[a] # "remTopics"
      BY <1>2 DEF RemoveLock, DestroyNext, ghost
    <2>2. CASE \E r \in Services : BeginRemove(a, r)
      BY <1>1, <1>2, <2>1, <2>2 DEF AppStep
    <2>3. CASE Quit(a, "idle")
      BY <1>k, <1>t, <2>1, <2>3
    <2> QED
      BY <1>2, <1>t, <2>2, <2>3 DEF RemoveLock, DestroyNext, TypeOK
  <1>3. ASSUME NEW a \in Apps,
               \/ CallAdd(a) \/ CallRemove(a) \/ CallDestroy(a) \/ AddLock(a)
               \/ AddTopic(a) \/ AddRaise(a) \/ AddStart(a) \/ AddArm(a) \/ AddEnd(a)
               \/ RemoveTopic(a) \/ RemoveRaise(a) \/ RemoveMark(a) \/ RemoveCheck(a)
               \/ RemoveSend(a) \/ RemoveAnswer(a) \/ RemoveDrop(a)
               \/ DestroyLock(a) \/ DestroyEnd(a)
        PROVE  Timed(s)'
    <2>1. lapsed' = lapsed /\ torn \subseteq torn'
      BY <1>3 DEF CallAdd, CallRemove, CallDestroy, AddLock, AddTopic, AddRaise, AddStart,
         AddArm, AddEnd, RemoveTopic, RemoveRaise, RemoveMark, RemoveCheck, RemoveSend,
         RemoveAnswer, RemoveDrop, DestroyLock, DestroyEnd, ghost
    <2>2. pc[a] = "remTopics" => \/ svc'[a] = svc[a] /\ pc'[a] = "remTopics"
                                 \/ svc[a] \in torn' \cup deleted'
      BY <1>3, <1>t DEF CallAdd, CallRemove, CallDestroy, Call, AddLock, AddTopic, AddRaise,
         AddStart, AddArm, AddEnd, RemoveTopic, RemoveRaise, RemoveMark, RemoveCheck,
         RemoveSend, RemoveAnswer, RemoveDrop, DestroyLock, DestroyEnd, RequestLabels
    <2>3. \A u \in Timers : pc[u] \notin {"off", "cancel"} =>
              svc'[u] = svc[u] /\ pc'[u] \notin {"off", "cancel"}
      <3>1. CASE AddArm(a)
        <4>1. svc[a] \in Services
          BY <3>1, <1>t DEF AddArm, TypeInv, Busy, Spare, ConnLabels
        <4> QED
          BY <1>c, <1>l, <1>t, <3>1, <4>1, ArmEffect DEF AddArm
      <3> QED
        BY <1>3, <1>t, <3>1 DEF CallAdd, CallRemove, CallDestroy, AddLock, AddTopic,
           AddRaise, AddStart, AddEnd, RemoveTopic, RemoveRaise, RemoveMark, RemoveCheck,
           RemoveSend, RemoveAnswer, RemoveDrop, DestroyLock, DestroyEnd
    <2>4. \A b \in Apps \ {a} : pc'[b] = pc[b] /\ svc'[b] = svc[b]
      BY <1>3, AppAlone DEF AppStep
    <2> QED
      BY <1>k, <2>1, <2>2, <2>3, <2>4
  <1>4. ASSUME NEW m \in Timers, TimerStep(m)
        PROVE  Timed(s)'
    <2>1. lapsed \subseteq lapsed' /\ torn' = torn
      BY <1>4, TimerAlone DEF TimerStep, Fire, Check, CancelAny, LateSend, LateAnswer,
         Register, Registered, RegisterTimeout, ghost
    <2>2. \A b \in Apps : pc'[b] = pc[b] /\ svc'[b] = svc[b]
      BY <1>4, TimerAlone
    <2>3. svc[m] \in Services
      BY <1>4, <1>t DEF TimerStep, Fire, Check, CancelAny, LateSend, LateAnswer, Register,
         Registered, RegisterTimeout, TypeInv, Busy, Spare, ConnLabels, RequestLabels
    <2>4. ASSUME svc[m] = s, pc[m] \notin {"off", "cancel"}
          PROVE  \/ svc'[m] = s /\ pc'[m] \notin {"off", "cancel"}
                 \/ s \in lapsed' \cup torn' \cup deleted'
      <3>1. CASE LateSend(m) \/ LateAnswer(m)
        BY <1>d, <2>4, <3>1 DEF LateSend, LateAnswer, GoneInv
      <3>2. CASE Fire(m) \/ Register(m) \/ Registered(m)
        BY <1>t, <2>4, <3>2 DEF Fire, Register, Registered, RegisterOutcome, RequestLabels
      <3>3. CASE Check(m)
        BY <1>c, <1>d, <1>t, <2>4, <3>3 DEF Check, SmInv, MapInv
      <3>4. CASE RegisterTimeout(m)
        BY <2>4, <3>4 DEF RegisterTimeout
      <3>5. ~CancelAny(m)
        BY <2>4 DEF CancelAny
      <3> QED
        BY <1>4, <3>1, <3>2, <3>3, <3>4, <3>5 DEF TimerStep
    <2>5. ASSUME NEW u \in Timers \ {m}, svc[u] = s, pc[u] \notin {"off", "cancel"}
          PROVE  \/ svc'[u] = s /\ pc'[u] \notin {"off", "cancel"}
                 \/ s \in lapsed' \cup torn' \cup deleted'
      <3>1. CASE Cancel(svc[m], m, "off", NoService)
        <4>1. \/ pc'[u] = pc[u] /\ svc'[u] = svc[u]
              \/ svc[u] = svc[m] /\ Pending(svc[m])
          BY <1>l, <1>t, <2>3, <3>1, CancelEffect
        <4>2. CancelAny(m) /\ Pending(svc[m]) => svc[m] \in lapsed'
          BY DEF CancelAny
        <4>3. LateSend(m) \/ LateAnswer(m) => svc[m] \in deleted
          BY DEF LateSend, LateAnswer, GoneInv
        <4>4. Fire(m) \/ Check(m) \/ Register(m) \/ Registered(m) \/ RegisterTimeout(m)
              => pc'[u] = pc[u] /\ svc'[u] = svc[u]
          BY <1>t DEF Fire, Check, Register, Registered, RegisterTimeout
        <4> QED
          BY <1>4, <1>d, <2>5, <4>1, <4>2, <4>3, <4>4 DEF TimerStep
      <3>2. CASE ~Cancel(svc[m], m, "off", NoService)
        BY <1>4, <1>t, <2>5, <3>2 DEF TimerStep, Fire, Check, CancelAny, LateSend, LateAnswer,
           Register, Registered, RegisterTimeout
      <3> QED
        BY <3>1, <3>2
    <2> QED
      BY <1>k, <2>1, <2>2, <2>4, <2>5
  <1>5. CASE StartNext
    <2>1. PICK r \in copy[Conn] : Arm(Conn, "starting", r) /\ lapsed' = lapsed \ {r}
      BY <1>5 DEF StartNext
    <2>2. r \in Services
      BY <1>t, <2>1 DEF TypeOK
    <2>3. /\ NewTimer \in Timers /\ svc'[NewTimer] = r /\ pc'[NewTimer] = "pending"
          /\ \A u \in Timers : pc[u] # "off" => pc'[u] = pc[u] /\ svc'[u] = svc[u]
      BY <1>l, <1>t, <2>1, <2>2, ArmEffect
    <2>4. /\ torn' = torn
          /\ \A b \in Apps : pc'[b] = pc[b] /\ svc'[b] = svc[b]
      BY <1>5, ConnAlone DEF ConnStep
    <2>5. CASE s = r
      BY <2>3, <2>5 DEF Timed
    <2>6. CASE s # r
      BY <1>d, <2>1, <2>3, <2>4, <2>6 DEF Timed
    <2> QED
      BY <2>5, <2>6
  <1>6. CASE StartEnd
    BY <1>6, <1>k, <1>t DEF StartEnd, ghost
  <1>7. ~(\/ Rise \/ OnConnect \/ Leave \/ OnDisconnect \/ StopNext \/ StopSend \/ StopAnswer
          \/ StopEnd \/ Drop("lost", "stopLock") \/ Drop("closing", "down"))
    BY <1>t DEF Rise, OnConnect, Leave, OnDisconnect, StopNext, StopSend, StopAnswer,
       StopEnd, Drop, RequestLabels
  <1>8. ASSUME NEW r \in Services, Expire(r)
        PROVE  Timed(s)'
    BY <1>8, <1>k DEF Expire, ghost
  <1>9. CASE UNCHANGED vars
    BY <1>9, <1>k DEF vars, ghost
  <1> QED
    BY <1>2, <1>3, <1>4, <1>5, <1>6, <1>7, <1>8, <1>9 DEF Next, AppStep, ConnStep

LEMMA TimerNext == TypeInv /\ SmInv /\ TimerInv /\ [Next]_vars => TimerInv'
  <1> SUFFICES ASSUME TypeInv, SmInv, TimerInv, [Next]_vars PROVE TimerInv'
    OBVIOUS
  <1> USE DEF At, Goto, Quit
  <1>t. /\ TypeOK /\ pc \in [Threads -> Labels] /\ Apps \subseteq Threads
        /\ svc \in [Threads -> Services \cup {NoService}]
        /\ Conn \in Threads \ Timers /\ Conn \notin Apps
        /\ Apps \subseteq Threads \ Timers
    BY DEF TypeInv, TypeOK, Labels, Threads
  <1>l. {"starting", "addEnd"} \subseteq Labels
    BY DEF Labels, AppLabels, ConnLabels
  <1>i. LinkInv /\ GoneInv /\ LinkInv' /\ GoneInv'
    BY LinkNext, GoneNext DEF TimerInv
  <1>k. ASSUME NEW s \in Services, Timed(s), pc[Conn] \in {"starting", "up"},
               pc'[Conn] \in {"starting", "up"}
        PROVE  Timed(s)'
    BY <1>i, <1>k, TimedKept
  <1>s. /\ services \subseteq Services
        /\ \A a \in Apps : pc[a] = "addEnd" => svc[a] \in Services
    BY <1>t DEF TypeOK, TypeInv, Busy, Spare, ConnLabels
  <1>x. pc[Conn] = "starting" => \A a \in Apps : pc[a] \notin Starting
    BY <1>t DEF SmInv, LockInv, Looping
  <1> DEFINE Same == /\ pc'[Conn] = pc[Conn] /\ copy'[Conn] = copy[Conn]
                     /\ services' \subseteq services
                     /\ \A a \in Apps : pc'[a] = "addEnd" =>
                            pc[a] = "addEnd" /\ svc'[a] = svc[a]
  <1>0. ASSUME Same
        PROVE  TimerInv'
    <2>1. pc'[Conn] = "up" => \A s \in services' : Timed(s)'
      BY <1>0, <1>k, <1>s DEF TimerInv
    <2>2. pc'[Conn] = "up" => \A a \in Apps : pc'[a] = "addEnd" => Timed(svc[a])'
                                                               /\ svc'[a] = svc[a]
      BY <1>0, <1>k, <1>s DEF TimerInv
    <2>3. pc'[Conn] = "starting" => \A s \in services' \ copy'[Conn] : Timed(s)'
      BY <1>0, <1>k, <1>s DEF TimerInv
    <2> QED
      BY <1>i, <2>1, <2>2, <2>3 DEF TimerInv, Timed
  <1>1. ASSUME NEW a \in Apps, AddEnd(a)
        PROVE  TimerInv'
    <2>1. /\ pc[a] = "addEnd" /\ services' = services \cup {svc[a]}
          /\ pc'[a] = "idle"
      BY <1>1, <1>t DEF AddEnd, SmInv, MapInv, Starting
    <2>2. /\ pc'[Conn] = pc[Conn] /\ pc[Conn] # "starting"
          /\ \A b \in Apps \ {a} : pc'[b] = pc[b] /\ svc'[b] = svc[b]
      BY <1>1, <1>t, <1>x, <2>1, AppAlone DEF AppStep, Starting
    <2>3. pc'[Conn] = "up" => \A s \in services' : Timed(s)'
      BY <1>k, <1>s, <2>1, <2>2 DEF TimerInv
    <2>4. \A b \in Apps : pc'[b] # "addEnd"
      BY <2>1, <2>2, <1>1, <1>t DEF SmInv, LockInv, Starting
    <2> QED
      BY <1>i, <2>2, <2>3, <2>4 DEF TimerInv
  <1>2. ASSUME NEW a \in Apps, AddStart(a) \/ AddArm(a)
        PROVE  TimerInv'
    <2>1. /\ pc[a] \in Starting /\ services' = services
          /\ pc'[Conn] = pc[Conn] /\ pc[Conn] # "starting"
          /\ \A b \in Apps \ {a} : pc'[b] = pc[b] /\ svc'[b] = svc[b]
      BY <1>2, <1>t, <1>x, AppAlone DEF AppStep, AddStart, AddArm, Starting
    <2>2. \A b \in Apps \ {a} : pc'[b] # "addEnd"
      BY <1>t, <2>1 DEF SmInv, LockInv, Starting
    <2>3. ASSUME pc[Conn] = "up", pc'[a] = "addEnd"
          PROVE  Timed(svc[a])' /\ svc'[a] = svc[a]
      <3>1. connected
        BY <1>i, <2>3 DEF LinkInv
      <3>2. AddArm(a) /\ Arm(a, "addEnd", svc[a])
        BY <1>2, <1>t, <2>3, <3>1 DEF AddStart, AddArm
      <3>3. svc[a] \in Services
        BY <1>t, <3>2 DEF AddArm, TypeInv, Busy, Spare, ConnLabels
      <3>4. /\ NewTimer \in Timers /\ svc'[NewTimer] = svc[a]
            /\ pc'[NewTimer] = "pending" /\ svc'[a] = svc[a]
        BY <1>l, <1>t, <3>2, <3>3, ArmEffect
      <3> QED
        BY <3>4 DEF Timed
    <2>4. pc'[Conn] = "up" => \A s \in services' : Timed(s)'
      BY <1>k, <1>s, <2>1 DEF TimerInv
    <2> QED
      BY <1>i, <2>1, <2>2, <2>3, <2>4 DEF TimerInv, Timed
  <1>3. ASSUME NEW a \in Apps,
               \/ CallAdd(a) \/ CallRemove(a) \/ CallDestroy(a) \/ AddLock(a)
               \/ AddTopic(a) \/ AddRaise(a) \/ RemoveLock(a) \/ RemoveTopic(a)
               \/ RemoveRaise(a) \/ RemoveMark(a) \/ RemoveCheck(a) \/ RemoveSend(a)
               \/ RemoveAnswer(a) \/ RemoveDrop(a) \/ DestroyLock(a)
               \/ DestroyNext(a) \/ DestroyEnd(a)
        PROVE  TimerInv'
    <2>1. services' \subseteq services /\ copy'[Conn] = copy[Conn]
      BY <1>3, <1>t DEF CallAdd, CallRemove, CallDestroy, AddLock, AddTopic, AddRaise,
         RemoveLock, RemoveTopic, RemoveRaise, RemoveMark, RemoveCheck, RemoveSend,
         RemoveAnswer, RemoveDrop, DestroyLock, DestroyNext, DestroyEnd, local, TypeOK
    <2>2. \A u \in (Apps \cup {Conn}) \ {a} : pc'[u] = pc[u] /\ svc'[u] = svc[u]
      BY <1>3, AppAlone DEF AppStep
    <2>3. pc'[a] = "addEnd" => FALSE
      BY <1>3, <1>t DEF CallAdd, CallRemove, CallDestroy, Call, AddLock, AddTopic, AddRaise,
         RemoveLock, RemoveTopic, RemoveRaise, RemoveMark, RemoveCheck, RemoveSend,
         RemoveAnswer, RemoveDrop, DestroyLock, DestroyNext, DestroyEnd, BeginRemove,
         StopTimer, Cancel, UnregisterOutcome, RequestLabels
    <2> QED
      BY <1>0, <1>t, <2>1, <2>2, <2>3
  <1>4. ASSUME NEW m \in Timers, TimerStep(m)
        PROVE  TimerInv'
    BY <1>0, <1>4, TimerAlone DEF local
  <1>5. CASE StartNext
    <2>1. PICK r \in copy[Conn] : Arm(Conn, "starting", r) /\ copy'[Conn] = copy[Conn] \ {r}
      BY <1>5, <1>t DEF StartNext, TypeOK
    <2>2. r \in Services /\ pc[Conn] = "starting"
      BY <1>5, <1>t, <2>1 DEF StartNext, TypeOK
    <2>3. /\ NewTimer \in Timers /\ svc'[NewTimer] = r /\ pc'[NewTimer] = "pending"
          /\ pc'[Conn] = "starting"
      BY <1>l, <1>t, <2>1, <2>2, ArmEffect
    <2>4. services' = services
      BY <1>5, ConnAlone DEF ConnStep
    <2>5. Timed(r)'
      BY <2>3 DEF Timed
    <2>6. \A s \in services \ copy[Conn] : Timed(s)'
      BY <1>k, <1>s, <2>2, <2>3 DEF TimerInv
    <2> QED
      BY <1>i, <2>1, <2>3, <2>4, <2>5, <2>6 DEF TimerInv
  <1>6. CASE StartEnd
    <2>1. /\ pc[Conn] = "starting" /\ copy[Conn] = {} /\ services' = services
          /\ pc'[Conn] = "up" /\ \A a \in Apps : pc'[a] = pc[a] /\ svc'[a] = svc[a]
      BY <1>6, <1>t, ConnAlone DEF StartEnd, ConnStep
    <2>2. \A s \in services' : Timed(s)'
      BY <1>k, <1>s, <2>1 DEF TimerInv
    <2>3. \A a \in Apps : pc'[a] # "addEnd"
      BY <1>x, <2>1 DEF Starting
    <2> QED
      BY <1>i, <2>1, <2>2, <2>3 DEF TimerInv
  <1>7. CASE OnConnect
    <2>1. pc'[Conn] = "starting" /\ copy'[Conn] = services /\ services' = services
      BY <1>7, <1>t, ConnAlone DEF OnConnect, ConnStep, TypeOK
    <2> QED
      BY <1>i, <2>1 DEF TimerInv
  <1>8. CASE \/ Rise \/ Leave \/ OnDisconnect \/ StopNext \/ StopSend \/ StopAnswer
             \/ StopEnd \/ Drop("lost", "stopLock") \/ Drop("closing", "down")
    <2>1. pc'[Conn] \notin {"starting", "up"}
      BY <1>8, <1>t DEF Rise, Leave, OnDisconnect, StopNext, StopSend, StopAnswer, StopEnd,
         Drop, Stop, StopTimer, Cancel, UnregisterOutcome, RequestLabels
    <2> QED
      BY <1>i, <2>1 DEF TimerInv
  <1>9. ASSUME NEW s \in Services, Expire(s)
        PROVE  TimerInv'
    BY <1>0, <1>9 DEF Expire, local
  <1>10. CASE UNCHANGED vars
    BY <1>0, <1>10 DEF vars, local
  <1> QED
    BY <1>1, <1>2, <1>3, <1>4, <1>5, <1>6, <1>7, <1>8, <1>9, <1>10
    DEF Next, AppStep, ConnStep

\* While the client is connected no service in the map is without a timer that is
\* set or running, but for those whose registration got no answer, whose timer a
\* callback cancelled or whose removal failed, for any number of timers that
\* fire, replace and cancel each other (service.py:488-527, 698-724).
THEOREM TimersKept == Spec => []KeepsTimer
  <1>1. Init => TimerInv
    BY DEF Init, TimerInv, LinkInv, GoneInv, Threads
  <1>2. TypeInv /\ SmInv /\ TimerInv => KeepsTimer
    <2> SUFFICES ASSUME SmInv, TimerInv, At(Conn, "up"), Free(smLock), NEW s \in services
                 PROVE  HasTimer(s) \/ s \in lapsed \cup torn
      BY DEF KeepsTimer
    <2>1. \A a \in Apps : pc[a] \notin Dropping \cup {"remTopics"}
      BY DEF SmInv, LockInv, Free, Threads
    <2>2. s \notin deleted
      BY <2>1 DEF SmInv, MapInv
    <2>3. Timed(s)
      BY DEF TimerInv, At
    <2> QED
      BY <2>1, <2>2, <2>3 DEF Timed, HasTimer, At
  <1> QED
    BY <1>1, <1>2, TypeInit, TypeNext, SmInit, SmNext, TimerNext, PTL DEF Spec
-----------------------------------------------------------------------------
(* Who waits for whom *)

Requesting == RequestLabels \cup {"goneAccepted", "goneUnsent"}
Holding == Starting \cup Dropping \cup {"remTopics", "endNext"}

\* Each lock is held by the thread that is inside its region.
HeldInv ==
    /\ \A a \in Apps : smLock = a => pc[a] \in Holding
    /\ smLock = Conn => pc[Conn] \in Looping
    /\ (connLock = Conn) <=> (pc[Conn] \in {"rising", "starting"})
    /\ \A s \in Services, t \in Threads : hLock[s] = t => pc[t] \in Requesting /\ svc[t] = s

\* Who waits for whom: for the thread that holds _connected_lock, the manager's
\* lock or the lock of a handler.
ConnWaits(t) == AsksConnected(t) \/ (At(t, "check") /\ svc[t] \notin destroyed)
ManagerWaits(t) == pc[t] \in {"addLock", "remLock", "endLock", "rising", "stopLock"}
HandlerWaits(t, s) ==
    \/ pc[t] \in {"remSend", "lock"} /\ s = hLock[svc[t]]
    \/ t = Conn /\ At(t, "stop") /\ connected /\ \E r \in copy[t] : s = hLock[r]
WaitsFor(t, s) == \/ ConnWaits(t) /\ s = connLock
                  \/ ManagerWaits(t) /\ s = smLock
                  \/ HandlerWaits(t, s)

\* Threads that wait only for one another.
Deadlock(S) == S # {} /\ \A t \in S : \E s \in S : WaitsFor(t, s)

\* A step of t that takes, keeps or gives up the manager's lock as it should.
ManagerKept(t, labels) ==
    \/ smLock' = NoThread
    \/ smLock' = t /\ pc'[t] \in labels
    \/ smLock' = smLock /\ (pc'[t] \in labels \/ pc[t] \notin labels)

\* The same of a handler's lock.
HandlerKept(t) ==
    \/ hLock' = hLock /\ pc[t] \notin Requesting
    \/ /\ pc[t] \in Requesting /\ Release(svc[t], t)
    \/ /\ pc[t] \notin Requesting
       /\ \E s \in Services : /\ hLock' = [hLock EXCEPT ![s] = t]
                              /\ pc'[t] \in Requesting /\ svc'[t] = s

LEMMA HandlersHeld ==
    ASSUME TypeInv, HeldInv, NEW t \in Threads, HandlerKept(t),
           \A u \in Threads : u # t => \/ pc'[u] = pc[u] /\ svc'[u] = svc[u]
                                       \/ pc[u] \in {"off", "pending"}
    PROVE  \A s \in Services, u \in Threads : hLock'[s] = u => pc'[u] \in Requesting /\ svc'[u] = s
  <1> SUFFICES ASSUME NEW s \in Services, NEW u \in Threads, hLock'[s] = u
               PROVE  pc'[u] \in Requesting /\ svc'[u] = s
    OBVIOUS
  <1>1. hLock \in [Services -> Threads \cup {NoThread}]
    BY DEF TypeInv, TypeOK
  <1>2. "off" \notin Requesting /\ "pending" \notin Requesting
    BY DEF Requesting, RequestLabels
  <1>3. \A r \in Services, v \in Threads : hLock[r] = v => pc[v] \in Requesting /\ svc[v] = r
    BY DEF HeldInv
  <1> HIDE DEF Threads, Requesting
  <1>4. CASE u # t
    <2>1. hLock[s] = u
      BY <1>1, <1>4 DEF HandlerKept, Release
    <2> QED
      BY <1>2, <1>3, <1>4, <2>1
  <1>5. CASE u = t
    <2>1. CASE hLock' = hLock /\ pc[t] \notin Requesting
      BY <1>3, <1>5, <2>1
    <2>2. CASE pc[t] \in Requesting /\ Release(svc[t], t)
      <3>1. hLock[s] = t /\ s # svc[t]
        BY <1>1, <1>5, <2>2 DEF Release
      <3> QED
        BY <1>3, <3>1
    <2>3. CASE pc[t] \notin Requesting /\ \E r \in Services :
                   hLock' = [hLock EXCEPT ![r] = t] /\ pc'[t] \in Requesting /\ svc'[t] = r
      <3>1. PICK r \in Services :
                hLock' = [hLock EXCEPT ![r] = t] /\ pc'[t] \in Requesting /\ svc'[t] = r
        BY <2>3
      <3>2. s # r => hLock[s] = t
        BY <1>1, <1>5, <3>1
      <3> QED
        BY <1>3, <1>5, <2>3, <3>1, <3>2
    <2> QED
      BY <2>1, <2>2, <2>3 DEF HandlerKept
  <1> QED
    BY <1>4, <1>5

LEMMA HeldApp ==
    ASSUME TypeInv, SmInv, HeldInv, NEW a \in Apps,
           CallAdd(a) \/ CallRemove(a) \/ CallDestroy(a) \/ AppStep(a)
    PROVE  HeldInv'
  <1> USE DEF At, Goto, Quit, Free
  <1>0. a \in Threads /\ a # Conn /\ svc \in [Threads -> Services \cup {NoService}]
        /\ pc \in [Threads -> Labels] /\ (pc[a] \in Holding => smLock = a)
    BY DEF Threads, TypeInv, TypeOK, Labels, SmInv, LockInv, Holding
  <1>1. /\ \A u \in (Apps \cup {Conn}) \ {a} : pc'[u] = pc[u] /\ svc'[u] = svc[u]
        /\ \A u \in Threads : u # a => \/ pc'[u] = pc[u] /\ svc'[u] = svc[u]
                                       \/ pc[u] \in {"off", "pending"}
    BY AppAlone DEF Threads
  <1>2. ManagerKept(a, Holding) /\ HandlerKept(a) /\ connLock' = connLock
    <2> HIDE DEF Threads, Labels
    <2>1. CASE CallAdd(a) \/ CallRemove(a) \/ CallDestroy(a)
      BY <2>1 DEF CallAdd, CallRemove, CallDestroy, Call, locks, ManagerKept, HandlerKept,
         Holding, Starting, Dropping, Requesting, RequestLabels
    <2>2. CASE AddLock(a) \/ AddTopic(a) \/ AddRaise(a) \/ AddStart(a) \/ AddEnd(a)
      BY <1>0, <2>2, SMTT(30) DEF AddLock, AddTopic, AddRaise, AddStart, AddEnd, locks,
         ManagerKept, HandlerKept, Holding, Starting, Dropping, Requesting, RequestLabels
    <2>3. CASE AddArm(a)
      <3>1. /\ pc[a] = "addArm" /\ UNCHANGED locks
            /\ Arm(a, "addEnd", svc[a]) \/ pc' = [pc EXCEPT ![a] = "addEnd"]
        BY <2>3 DEF AddArm
      <3>2. svc[a] \in Services /\ a \in Threads \ Timers /\ "addEnd" \in Labels
        BY <1>0, <3>1 DEF TypeInv, Busy, Spare, ConnLabels, Labels, AppLabels
      <3>3. pc'[a] = "addEnd"
        BY <1>0, <3>1, <3>2, ArmEffect DEF TypeInv
      <3> QED
        BY <3>1, <3>3 DEF locks, ManagerKept, HandlerKept, Holding, Starting, Dropping,
           Requesting, RequestLabels
    <2>4. CASE RemoveLock(a) \/ DestroyNext(a)
      <3>1. ASSUME NEW s \in Services, BeginRemove(a, s)
            PROVE  smLock' = a /\ pc'[a] = "remTopics"
        <4>1. "remTopics" \in Labels
          BY DEF Labels, AppLabels
        <4> QED
          BY <1>0, <3>1, <4>1, CancelEffect DEF BeginRemove, StopTimer, TypeInv
      <3>2. /\ pc[a] \in {"remLock", "endNext"} /\ hLock' = hLock /\ connLock' = connLock
            /\ \/ \E s \in Services : BeginRemove(a, s)
               \/ pc[a] = "remLock" /\ smLock' = smLock
        BY <2>4 DEF RemoveLock, DestroyNext, TypeInv, TypeOK
      <3> QED
        BY <3>1, <3>2 DEF ManagerKept, HandlerKept, Holding, Starting, Dropping, Requesting,
           RequestLabels
    <2>5. CASE \/ RemoveTopic(a) \/ RemoveRaise(a) \/ RemoveMark(a) \/ RemoveCheck(a)
               \/ DestroyLock(a) \/ DestroyEnd(a)
      BY <1>0, <2>5, SMTT(30) DEF RemoveTopic, RemoveRaise, RemoveMark, RemoveCheck,
         DestroyLock, DestroyEnd, locks, ManagerKept, HandlerKept, Holding, Starting,
         Dropping, Requesting, RequestLabels
    <2>6. CASE RemoveDrop(a)
      <3>1. /\ pc[a] = "remDrop" /\ hLock' = hLock /\ connLock' = connLock
            /\ \/ smLock' = smLock /\ pc'[a] = "endNext"
               \/ smLock' = NoThread
        BY <1>0, <2>6 DEF RemoveDrop
      <3> QED
        BY <3>1 DEF ManagerKept, HandlerKept, Holding, Starting, Dropping, Requesting,
           RequestLabels
    <2>7. CASE RemoveSend(a)
      <3>1. svc[a] \in Services
        BY <1>0, <2>7 DEF RemoveSend, TypeInv, Busy, Spare, ConnLabels
      <3>2. /\ pc[a] = "remSend" /\ smLock' = smLock /\ connLock' = connLock /\ svc' = svc
            /\ \/ /\ hLock' = [hLock EXCEPT ![svc[a]] = a]
                  /\ pc'[a] \in {"accepted", "unsent"}
               \/ hLock' = hLock /\ pc'[a] = "remDrop"
        BY <1>0, <2>7 DEF RemoveSend, UnregisterOutcome
      <3> QED
        BY <3>1, <3>2 DEF ManagerKept, HandlerKept, Holding, Starting, Dropping, Requesting,
           RequestLabels
    <2>8. CASE RemoveAnswer(a)
      <3>1. /\ pc[a] \in RequestLabels /\ smLock' = smLock /\ connLock' = connLock
            /\ Release(svc[a], a) /\ pc'[a] = "remDrop"
        BY <1>0, <2>8 DEF RemoveAnswer
      <3> QED
        BY <3>1 DEF ManagerKept, HandlerKept, Holding, Starting, Dropping, Requesting
    <2> QED
      BY <2>1, <2>2, <2>3, <2>4, <2>5, <2>6, <2>7, <2>8 DEF AppStep
  <1>3. \A s \in Services, u \in Threads : hLock'[s] = u => pc'[u] \in Requesting /\ svc'[u] = s
    BY <1>0, <1>1, <1>2, HandlersHeld
  <1>4. /\ \A b \in Apps : smLock' = b => pc'[b] \in Holding
        /\ smLock' = Conn => pc'[Conn] \in Looping
        /\ (connLock' = Conn) <=> (pc'[Conn] \in {"rising", "starting"})
    BY <1>0, <1>1, <1>2 DEF HeldInv, ManagerKept, Threads
  <1> QED
    BY <1>3, <1>4 DEF HeldInv

LEMMA HeldTimer ==
    ASSUME TypeInv, HeldInv, NEW m \in Timers, TimerStep(m)
    PROVE  HeldInv'
  <1> USE DEF At, Goto, Quit, Free
  <1>0. /\ m \in Threads /\ svc \in [Threads -> Services \cup {NoService}]
        /\ pc \in [Threads -> Labels] /\ "off" \in Labels
    BY DEF Threads, TypeInv, TypeOK, Labels, TimerLabels
  <1>1. /\ \A u \in Apps \cup {Conn} : pc'[u] = pc[u] /\ svc'[u] = svc[u]
        /\ \A u \in Threads : u # m => \/ pc'[u] = pc[u] /\ svc'[u] = svc[u]
                                       \/ pc[u] \in {"off", "pending"}
        /\ UNCHANGED <<connLock, smLock>>
    BY TimerAlone DEF Threads
  <1>2. HandlerKept(m)
    <2> HIDE DEF Threads, Labels
    <2>1. CASE Fire(m) \/ Check(m) \/ CancelAny(m)
      BY <2>1 DEF Fire, Check, CancelAny, locks, HandlerKept, Requesting, RequestLabels
    <2>2. CASE LateSend(m)
      <3>1. svc[m] \in Services
        BY <1>0, <2>2 DEF LateSend, TypeInv, Busy, Spare, ConnLabels
      <3>2. /\ pc[m] = "lock"
            /\ \/ /\ hLock' = [hLock EXCEPT ![svc[m]] = m] /\ svc' = svc
                  /\ pc'[m] \in {"goneAccepted", "goneUnsent"}
               \/ hLock' = hLock
        BY <1>0, <2>2 DEF LateSend, UnregisterOutcome
      <3> QED
        BY <3>1, <3>2 DEF HandlerKept, Requesting, RequestLabels
    <2>3. CASE Register(m)
      <3>1. svc[m] \in Services
        BY <1>0, <2>3 DEF Register, TypeInv, Busy, Spare, ConnLabels
      <3>2. /\ pc[m] = "lock" /\ hLock' = [hLock EXCEPT ![svc[m]] = m] /\ svc' = svc
            /\ pc'[m] \in RequestLabels
        BY <1>0, <2>3 DEF Register, RegisterOutcome, RequestLabels
      <3> QED
        BY <3>1, <3>2 DEF HandlerKept, Requesting, RequestLabels
    <2>4. CASE LateAnswer(m) \/ Registered(m) \/ RegisterTimeout(m)
      BY <2>4 DEF LateAnswer, Registered, RegisterTimeout, HandlerKept, Requesting
    <2> QED
      BY <2>1, <2>2, <2>3, <2>4 DEF TimerStep
  <1>3. \A s \in Services, u \in Threads : hLock'[s] = u => pc'[u] \in Requesting /\ svc'[u] = s
    BY <1>0, <1>1, <1>2, HandlersHeld
  <1> QED
    BY <1>1, <1>3 DEF HeldInv

LEMMA HeldConn ==
    ASSUME TypeInv, SmInv, HeldInv, Rise \/ Leave \/ ConnStep
    PROVE  HeldInv'
  <1> USE DEF At, Goto, Free
  <1>0. /\ Conn \in Threads /\ Conn \notin Apps /\ Conn \in Threads \ Timers
        /\ svc \in [Threads -> Services \cup {NoService}]
        /\ pc \in [Threads -> Labels] /\ (pc[Conn] \in Looping => smLock = Conn)
        /\ {"starting", "stop"} \subseteq Labels /\ copy[Conn] \subseteq Services
    BY DEF Threads, TypeInv, TypeOK, Labels, ConnLabels, SmInv, LockInv
  <1>1. /\ \A u \in Apps : pc'[u] = pc[u] /\ svc'[u] = svc[u]
        /\ \A u \in Threads : u # Conn => \/ pc'[u] = pc[u] /\ svc'[u] = svc[u]
                                          \/ pc[u] \in {"off", "pending"}
    BY ConnAlone DEF Threads
  <1>2. /\ ManagerKept(Conn, Looping) /\ HandlerKept(Conn)
        /\ connLock' = Conn <=> pc'[Conn] \in {"rising", "starting"}
    <2> HIDE DEF Threads, Labels
    <2>1. CASE \/ Rise \/ Leave \/ OnConnect \/ OnDisconnect \/ StartEnd
               \/ StopEnd \/ Drop("lost", "stopLock") \/ Drop("closing", "down")
      <3>1. /\ pc[Conn] \notin Requesting /\ hLock' = hLock
            /\ \/ smLock' = smLock /\ pc[Conn] \notin Looping
               \/ smLock' = Conn /\ pc'[Conn] \in {"starting", "stop"}
               \/ smLock' = NoThread
        BY <1>0, <2>1, SMTT(30) DEF Rise, Leave, OnConnect, OnDisconnect, StartEnd, StopEnd, Drop,
           locks, Requesting, RequestLabels, Looping
      <3>2. connLock' = Conn <=> pc'[Conn] \in {"rising", "starting"}
        BY <1>0, <2>1, SMTT(30) DEF Rise, Leave, OnConnect, OnDisconnect, StartEnd, StopEnd, Drop,
           locks, HeldInv, ThreadsApart
      <3> QED
        BY <3>1, <3>2 DEF ManagerKept, HandlerKept, Looping
    <2>2. CASE StartNext
      <3>1. PICK s \in copy[Conn] : Arm(Conn, "starting", s)
        BY <2>2 DEF StartNext
      <3>2. pc[Conn] = "starting" /\ pc'[Conn] = "starting" /\ UNCHANGED locks
        BY <1>0, <2>2, <3>1, ArmEffect DEF StartNext, TypeInv
      <3> QED
        BY <3>2 DEF locks, ManagerKept, HandlerKept, Looping, Requesting, RequestLabels, HeldInv
    <2>3. ASSUME NEW s \in Services, Stop(s, "stop")
          PROVE  pc'[Conn] = "stop"
      BY <1>0, <2>3, CancelEffect DEF Stop, StopTimer, TypeInv
    <2>4. CASE StopNext
      <3>1. pc[Conn] = "stop" /\ pc'[Conn] = "stop" /\ UNCHANGED locks
        BY <1>0, <2>3, <2>4 DEF StopNext
      <3> QED
        BY <3>1 DEF locks, ManagerKept, HandlerKept, Looping, Requesting, RequestLabels, HeldInv
    <2>5. CASE StopSend
      <3>1. /\ pc[Conn] = "stop" /\ UNCHANGED <<connLock, smLock>>
            /\ pc'[Conn] \in {"accepted", "unsent"}
            /\ \E s \in Services : hLock' = [hLock EXCEPT ![s] = Conn] /\ svc'[Conn] = s
        BY <1>0, <2>5 DEF StopSend, UnregisterOutcome
      <3> QED
        BY <3>1 DEF ManagerKept, HandlerKept, Looping, Requesting, RequestLabels, HeldInv
    <2>6. CASE StopAnswer
      <3>1. svc[Conn] \in Services
        BY <1>0, <2>6 DEF StopAnswer, TypeInv, Busy, Spare, ConnLabels, RequestLabels
      <3>2. /\ pc[Conn] \in RequestLabels /\ pc'[Conn] = "stop"
            /\ UNCHANGED <<connLock, smLock>> /\ Release(svc[Conn], Conn)
        BY <2>3, <2>6, <3>1 DEF StopAnswer
      <3> QED
        BY <3>2 DEF ManagerKept, HandlerKept, Looping, Requesting, RequestLabels, HeldInv
    <2> QED
      BY <2>1, <2>2, <2>4, <2>5, <2>6 DEF ConnStep
  <1>3. \A s \in Services, u \in Threads : hLock'[s] = u => pc'[u] \in Requesting /\ svc'[u] = s
    BY <1>0, <1>1, <1>2, HandlersHeld
  <1>4. /\ \A b \in Apps : smLock' = b => pc'[b] \in Holding
        /\ smLock' = Conn => pc'[Conn] \in Looping
    BY <1>0, <1>1, <1>2 DEF HeldInv, ManagerKept, Threads
  <1> QED
    BY <1>2, <1>3, <1>4 DEF HeldInv

LEMMA HeldNext == TypeInv /\ SmInv /\ HeldInv /\ [Next]_vars => HeldInv'
  <1> SUFFICES ASSUME TypeInv, SmInv, HeldInv, [Next]_vars PROVE HeldInv'
    OBVIOUS
  <1>1. ASSUME UNCHANGED <<locks, pc, svc>>
        PROVE  HeldInv'
    BY <1>1 DEF HeldInv, locks
  <1>2. CASE UNCHANGED vars
    BY <1>1, <1>2 DEF vars
  <1>3. ASSUME NEW s \in Services, Expire(s)
        PROVE  HeldInv'
    BY <1>1, <1>3 DEF Expire
  <1> QED
    BY <1>2, <1>3, HeldApp, HeldTimer, HeldConn DEF Next

LEMMA LocksHeld == Spec => [](TypeInv /\ SmInv /\ HeldInv)
  <1>1. Init => HeldInv
    <2> SUFFICES ASSUME Init PROVE HeldInv
      OBVIOUS
    <2>1. pc[Conn] = "down"
      BY DEF Init, Threads
    <2> QED
      BY <2>1 DEF Init, HeldInv, Threads
  <1> QED
    BY <1>1, TypeInit, TypeNext, SmInit, SmNext, HeldNext, PTL DEF Spec
-----------------------------------------------------------------------------
(* The deadlocks *)

LEMMA CycleStays == TypeInv /\ SmInv /\ HeldInv /\ LockCycle /\ [Next]_vars => LockCycle'
  <1> SUFFICES ASSUME TypeInv, SmInv, HeldInv, LockCycle, [Next]_vars PROVE LockCycle'
    OBVIOUS
  <1> USE DEF At, Goto, Free
  <1>1. /\ pc[Conn] = "rising" /\ connLock = Conn /\ connLock # NoThread
        /\ smLock \in Apps /\ smLock # NoThread /\ AsksConnected(smLock)
    BY DEF LockCycle, HeldInv, Threads, ThreadsApart
  <1>2. ASSUME pc'[Conn] = pc[Conn], smLock' = smLock, pc'[smLock] = pc[smLock],
               left' = left, subs' = subs
        PROVE  LockCycle'
    BY <1>1, <1>2 DEF LockCycle, AsksConnected
  <1>3. CASE UNCHANGED vars
    BY <1>2, <1>3 DEF vars, locks, topics, local
  <1>4. ASSUME NEW s \in Services, Expire(s)
        PROVE  LockCycle'
    BY <1>2, <1>4 DEF Expire, locks, topics, local
  <1>5. ASSUME NEW m \in Timers, TimerStep(m)
        PROVE  LockCycle'
    BY <1>1, <1>2, <1>5, TimerAlone DEF topics, local
  <1>6. CASE Rise \/ Leave \/ ConnStep
    BY <1>1, <1>6 DEF Rise, Leave, ConnStep, OnConnect, StartNext, StartEnd, OnDisconnect,
       StopNext, StopSend, StopAnswer, StopEnd, Drop, RequestLabels
  <1>7. ASSUME NEW a \in Apps, CallAdd(a) \/ CallRemove(a) \/ CallDestroy(a)
        PROVE  LockCycle'
    <2>1. pc[a] = "idle" /\ UNCHANGED <<smLock, left, subs>>
      BY <1>7 DEF CallAdd, CallRemove, CallDestroy, Call, locks, topics, local
    <2>2. a # smLock
      BY <1>1, <2>1 DEF AsksConnected
    <2>3. pc'[Conn] = pc[Conn] /\ pc'[smLock] = pc[smLock]
      BY <1>1, <1>7, <2>2, AppAlone DEF ThreadsApart
    <2> QED
      BY <1>2, <2>1, <2>3
  <1>8. ASSUME NEW a \in Apps, AppStep(a)
        PROVE  FALSE
    <2>1. CASE AddLock(a) \/ RemoveLock(a) \/ DestroyLock(a)
      BY <1>1, <2>1 DEF AddLock, RemoveLock, DestroyLock
    <2>2. CASE ~ (AddLock(a) \/ RemoveLock(a) \/ DestroyLock(a))
      <3>1. pc[a] \in Starting \cup Dropping \cup {"remTopics", "endNext"}
        BY <1>8, <2>2 DEF AppStep, AddTopic, AddRaise, AddStart, AddArm, AddEnd, RemoveTopic,
           RemoveRaise, RemoveMark, RemoveCheck, RemoveSend, RemoveAnswer, RemoveDrop,
           DestroyNext, DestroyEnd, Starting, Dropping, RequestLabels
      <3>2. smLock = a
        BY <3>1 DEF SmInv, LockInv
      <3>3. CASE pc[a] \in {"addArm", "remCheck"}
        BY <1>1, <1>8, <3>3 DEF AppStep, AddLock, AddTopic, AddRaise, AddStart, AddArm, AddEnd,
           RemoveTopic, RemoveRaise, RemoveMark, RemoveCheck, RemoveSend, RemoveAnswer,
           RemoveDrop, RemoveLock, DestroyLock, DestroyNext, DestroyEnd, RequestLabels
      <3>4. CASE pc[a] = "addTopics" /\ left[a] \cap subs = {}
        <4>1. AddTopic(a) \/ AddRaise(a) \/ AddStart(a)
          BY <1>8, <3>4 DEF AppStep, AddLock, AddArm, AddEnd, RemoveTopic, RemoveRaise,
             RemoveMark, RemoveCheck, RemoveSend, RemoveAnswer, RemoveDrop, RemoveLock,
             DestroyLock, DestroyNext, DestroyEnd, RequestLabels
        <4> QED
          BY <1>1, <3>4, <4>1 DEF AddTopic, AddRaise, AddStart
      <3>5. CASE pc[a] = "remTopics" /\ left[a] # {} /\ left[a] \subseteq subs
        <4>1. RemoveTopic(a) \/ RemoveRaise(a) \/ RemoveMark(a)
          BY <1>8, <3>5 DEF AppStep, AddLock, AddTopic, AddRaise, AddStart, AddArm, AddEnd,
             RemoveCheck, RemoveSend, RemoveAnswer, RemoveDrop, RemoveLock,
             DestroyLock, DestroyNext, DestroyEnd, RequestLabels
        <4> QED
          BY <1>1, <3>5, <4>1 DEF RemoveTopic, RemoveRaise, RemoveMark
      <3> QED
        BY <1>1, <3>2, <3>3, <3>4, <3>5 DEF AsksConnected
    <2> QED
      BY <2>1, <2>2
  <1> QED
    BY <1>3, <1>4, <1>5, <1>6, <1>7, <1>8 DEF Next

\* Once _on_connect_run, holding _connected_lock, waits for the manager's lock
\* whose holder asks whether the client is connected, neither ever goes on: no
\* timer, answer, expiry or other call breaks the cycle (client.py:83-95,
\* service.py:596-653, 698-724).
THEOREM LockCycleLasts == Spec => [][LockCycle => LockCycle']_vars
  BY LocksHeld, CycleStays, PTL DEF Spec

LEMMA CycleIsDeadlock ==
    ASSUME HeldInv, LockCycle
    PROVE  \E S \in SUBSET Threads : Deadlock(S)
  <1>1. /\ connLock = Conn /\ smLock \in Apps /\ AsksConnected(smLock) /\ pc[Conn] = "rising"
        /\ {Conn, smLock} \in SUBSET Threads
    BY DEF HeldInv, LockCycle, At, Threads
  <1>2. WaitsFor(Conn, smLock) /\ WaitsFor(smLock, Conn)
    BY <1>1 DEF WaitsFor, ConnWaits, ManagerWaits
  <1>3. Deadlock({Conn, smLock})
    BY <1>2 DEF Deadlock
  <1> QED
    BY <1>1, <1>3

LEMMA DeadlockIsCycle ==
    ASSUME TypeInv, SmInv, HeldInv, NEW S \in SUBSET Threads, Deadlock(S)
    PROVE  LockCycle
  <1>1. \A t \in S : t \in Threads /\ t # NoThread /\ \E s \in S : WaitsFor(t, s)
    BY DEF Deadlock, ThreadsApart
  <1>2. ASSUME NEW t \in S, NEW s \in S, HandlerWaits(t, s)
        PROVE  FALSE
    <2>1. PICK r \in Services : hLock[r] = s
      <3>1. CASE pc[t] \in {"remSend", "lock"} /\ s = hLock[svc[t]]
        <4>1. svc[t] \in Services
          BY <3>1 DEF TypeInv, Busy, Spare, ConnLabels
        <4> QED
          BY <3>1, <4>1
      <3>2. CASE t = Conn /\ \E r \in copy[t] : s = hLock[r]
        BY <3>2 DEF TypeInv, TypeOK
      <3> QED
        BY <1>2, <3>1, <3>2 DEF HandlerWaits
    <2>2. pc[s] \in Requesting
      BY <2>1 DEF HeldInv
    <2> QED
      BY <1>1, <2>2 DEF WaitsFor, ConnWaits, AsksConnected, ManagerWaits, HandlerWaits, At,
         Requesting, RequestLabels
  <1>3. connLock \in S => pc[Conn] = "rising" /\ smLock \in S
    <2> SUFFICES ASSUME connLock \in S PROVE pc[Conn] = "rising" /\ smLock \in S
      OBVIOUS
    <2>1. connLock = Conn /\ pc[Conn] \in {"rising", "starting"}
      BY <1>1 DEF TypeInv, TypeOK, HeldInv
    <2>2. PICK s \in S : WaitsFor(Conn, s)
      BY <1>1, <2>1
    <2> QED
      BY <1>2, <2>1, <2>2 DEF WaitsFor, ConnWaits, AsksConnected, ManagerWaits, At
  <1>4. smLock \in S => smLock \in Apps /\ AsksConnected(smLock) /\ connLock \in S
    <2> SUFFICES ASSUME smLock \in S
                 PROVE  smLock \in Apps /\ AsksConnected(smLock) /\ connLock \in S
      OBVIOUS
    <2>1. PICK s \in S : WaitsFor(smLock, s)
      BY <1>1
    <2>2. CASE smLock = Conn
      <3>1. pc[Conn] \in Looping
        BY <2>2 DEF HeldInv
      <3> QED
        BY <1>2, <2>1, <2>2, <3>1 DEF WaitsFor, ConnWaits, AsksConnected, ManagerWaits, At,
           Looping, RequestLabels
    <2>3. CASE smLock \in Apps
      <3>1. pc[smLock] \in Holding
        BY <2>3 DEF HeldInv
      <3> QED
        BY <1>2, <2>1, <2>3, <3>1 DEF WaitsFor, ConnWaits, ManagerWaits, At, Holding,
           Starting, Dropping, RequestLabels
    <2> QED
      BY <1>1, <2>2, <2>3 DEF TypeInv, TypeOK
  <1>5. connLock \in S \/ smLock \in S
    BY <1>1, <1>2 DEF Deadlock, WaitsFor
  <1> QED
    BY <1>3, <1>4, <1>5 DEF LockCycle, At

\* Threads wait only for one another exactly when that cycle is closed: no other
\* order in which add_service, remove_service, destroy, the timers, on_connect
\* and on_disconnect take the three locks deadlocks (service.py:488-527,
\* 571-653, 698-745).
THEOREM OneDeadlock ==
    Spec => []((\E S \in SUBSET Threads : Deadlock(S)) <=> LockCycle)
  <1>1. TypeInv /\ SmInv /\ HeldInv
        => ((\E S \in SUBSET Threads : Deadlock(S)) <=> LockCycle)
    BY CycleIsDeadlock, DeadlockIsCycle
  <1> QED
    BY <1>1, LocksHeld, PTL
=============================================================================
