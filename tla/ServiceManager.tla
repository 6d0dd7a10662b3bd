---------------------------- MODULE ServiceManager ----------------------------
(***************************************************************************)
(* dxlclient/service.py: the service manager of a client, the handlers of  *)
(* its services with their TTL timers, and the broker's registry as the    *)
(* requests of the handlers change it.  A service is registered once, so   *)
(* that service, ServiceRegistrationInfo and handler are one value.        *)
(*                                                                         *)
(* Threads: Apps register and unregister services and destroy the manager, *)
(* Timers run _timer_callback, Conn is the connection, which calls         *)
(* on_connect and on_disconnect (module ClientConnection has its inner     *)
(* life).  smLock is the manager's lock, hLock[s] the handler's, connLock  *)
(* _connected_lock, that Conn holds through on_connect and everybody takes *)
(* to read the property `connected`.  An id of Timers stands for a Timer   *)
(* object; the timer that a callback installs takes the id of the one that *)
(* has just fired.                                                         *)
(***************************************************************************)
EXTENDS Naturals, FiniteSets

CONSTANTS Apps, Timers, Conn, NoThread,
          Services, NoService, Topics, TopicsOf,
          MaxCalls, MaxLosses       \* bounds: calls made, connections ended

Threads == Apps \cup Timers \cup {Conn}

ASSUME ThreadsApart == /\ Apps \cap Timers = {}
                       /\ Conn \notin Apps \cup Timers
                       /\ NoThread \notin Threads
ASSUME NoServiceApart == NoService \notin Services
ASSUME TopicsTyped == TopicsOf \in [Services -> SUBSET Topics]
ASSUME Bounds == MaxCalls \in Nat /\ MaxLosses \in Nat

VARIABLES
    connected, connLock, smLock, hLock,
    services,                   \* the keys of the published map
    copy,                       \* the copy of it that a thread works on
    deleted, destroyed,         \* handlers marked for deletion, without client
    regTime, ttlTimer,          \* register_time and ttl_timer of the handlers
    subs, callbacks,            \* topics subscribed, topics with the manager's callback
    pc, svc, left,              \* of the threads
    ending, gone,               \* who is in destroy(); the manager is destroyed
    broker,                     \* services in the broker's registry
    used, calls, losses,        \* bounds
    closed, torn, lapsed        \* history, see the properties

locks   == <<connLock, smLock, hLock>>
topics  == <<subs, callbacks>>
handler == <<deleted, destroyed, regTime>>
local   == <<left, copy, ending>>
bounds  == <<used, calls, losses>>
ghost   == <<closed, torn, lapsed>>
vars == <<connected, locks, services, handler, ttlTimer, topics, pc, svc,
          local, gone, broker, bounds, ghost>>

RequestLabels == {"accepted", "refused", "unsent"}
AppLabels == {"idle", "addLock", "addTopics", "addStart", "addArm", "addEnd",
              "remLock", "remTopics", "remCheck", "remSend", "remDrop",
              "endLock", "endNext"}
TimerLabels == {"off", "pending", "check", "cancel", "lock",
                "goneAccepted", "goneUnsent"}
ConnLabels == {"down", "rising", "starting", "up", "lost", "stopLock", "stop",
               "closing"}

TypeOK ==
    /\ connected \in BOOLEAN /\ gone \in BOOLEAN
    /\ connLock \in {Conn, NoThread}
    /\ smLock \in Apps \cup {Conn, NoThread}
    /\ hLock \in [Services -> Threads \cup {NoThread}]
    /\ services \in SUBSET Services
    /\ copy \in [Apps \cup {Conn} -> SUBSET Services]
    /\ deleted \in SUBSET Services /\ destroyed \in SUBSET Services
    /\ regTime \in [Services -> {"never", "valid", "expired"}]
    /\ ttlTimer \in [Services -> Timers \cup {NoThread}]
    /\ subs \in SUBSET Topics /\ callbacks \in SUBSET Topics
    /\ pc \in [Threads -> AppLabels \cup TimerLabels \cup ConnLabels
                          \cup RequestLabels]
    /\ svc \in [Threads -> Services \cup {NoService}]
    /\ left \in [Apps -> SUBSET Topics]
    /\ ending \in Apps \cup {NoThread}
    /\ broker \in SUBSET Services /\ used \in SUBSET Services
    /\ calls \in 0 .. MaxCalls /\ losses \in 0 .. MaxLosses
    /\ closed \in SUBSET Services /\ torn \in SUBSET Services
    /\ lapsed \in SUBSET Services

Init ==
    /\ connected = FALSE /\ gone = FALSE
    /\ connLock = NoThread /\ smLock = NoThread
    /\ hLock = [s \in Services |-> NoThread]
    /\ services = {} /\ copy = [t \in Apps \cup {Conn} |-> {}]
    /\ deleted = {} /\ destroyed = {}
    /\ regTime = [s \in Services |-> "never"]
    /\ ttlTimer = [s \in Services |-> NoThread]
    /\ subs = {} /\ callbacks = {}
    /\ pc = [t \in Threads |-> CASE t \in Apps -> "idle"
                                 [] t \in Timers -> "off"
                                 [] OTHER -> "down"]
    /\ svc = [t \in Threads |-> NoService]
    /\ left = [a \in Apps |-> {}]
    /\ ending = NoThread
    /\ broker = {} /\ used = {} /\ calls = 0 /\ losses = 0
    /\ closed = {} /\ torn = {} /\ lapsed = {}

Free(lock) == lock = NoThread
At(t, label) == pc[t] = label
Goto(t, label) == pc' = [pc EXCEPT ![t] = label]
\* The thread is through with its service.
Quit(t, label) == Goto(t, label) /\ svc' = [svc EXCEPT ![t] = NoService]
Linked == connected /\ ~At(Conn, "lost")

NewTimer == CHOOSE m \in Timers : At(m, "off")
TimerLeft == \E m \in Timers : At(m, "off")

\* self.ttl_timer = Timer(0, ...); start(): a timer that it replaces is not
\* cancelled.
Arm(t, next, s) ==
    /\ TimerLeft
    /\ ttlTimer' = [ttlTimer EXCEPT ![s] = NewTimer]
    /\ svc' = [svc EXCEPT ![NewTimer] = s]
    /\ pc' = [pc EXCEPT ![t] = next, ![NewTimer] = "pending"]

Pending(s) == /\ ttlTimer[s] # NoThread
              /\ At(ttlTimer[s], "pending") /\ svc[ttlTimer[s]] = s

\* cancel() has no effect on a timer whose callback has begun.
Cancelled(s) == IF Pending(s) THEN {ttlTimer[s]} ELSE {}
Cancel(s, t, next, of) ==
    /\ pc' = [u \in Threads |-> IF u = t THEN next
                                ELSE IF u \in Cancelled(s) THEN "off" ELSE pc[u]]
    /\ svc' = [u \in Threads |-> IF u = t THEN of
                                 ELSE IF u \in Cancelled(s) THEN NoService
                                 ELSE svc[u]]

StopTimer(s, t, next, of) == Cancel(s, t, next, of)
                             /\ ttlTimer' = [ttlTimer EXCEPT ![s] = NoThread]
-----------------------------------------------------------------------------
(* Requests to the registry, sent under the handler's lock.  One that the   *)
(* broker gets is accepted or refused; the answer to either may be lost.    *)

RegisterOutcome == IF Linked THEN RequestLabels ELSE {"unsent"}
\* To the sender of an unregister request a refusal is like no answer.
UnregisterOutcome == IF Linked THEN {"accepted", "unsent"} ELSE {"unsent"}

SendRegister(s, outcome) ==
    broker' = IF outcome = "accepted" THEN broker \cup {s} ELSE broker

SendUnregister(s, outcome) ==
    broker' = IF outcome = "accepted" THEN broker \ {s} ELSE broker

\* register_time > 0 and not older than the TTL.
MayUnregister(s) == regTime[s] = "valid"
-----------------------------------------------------------------------------
(* register_service_async and add_service *)

Call(a) == /\ At(a, "idle") /\ ~gone
           /\ calls < MaxCalls
           /\ calls' = calls + 1

CallAdd(a) ==
    /\ Call(a)
    /\ \E s \in Services \ used : /\ used' = used \cup {s}
                                  /\ svc' = [svc EXCEPT ![a] = s]
    /\ Goto(a, "addLock")
    /\ UNCHANGED <<connected, locks, services, handler, ttlTimer, topics,
                   local, gone, broker, losses, ghost>>

\* Bug: the map is copied before the lock is taken, as if a copy were enough.
AddLock_Bare(a) ==
    /\ At(a, "addLock")
    /\ copy' = [copy EXCEPT ![a] = services]
    /\ smLock' = IF Free(smLock) THEN a ELSE smLock
    /\ left' = [left EXCEPT ![a] = TopicsOf[svc[a]]]
    /\ Goto(a, "addTopics")
    /\ UNCHANGED <<connected, connLock, hLock, services, handler, ttlTimer,
                   topics, svc, ending, gone, broker, bounds, ghost>>

AddLock(a) ==
    /\ At(a, "addLock") /\ Free(smLock)
    /\ smLock' = a
    /\ copy' = [copy EXCEPT ![a] = services]
    /\ left' = [left EXCEPT ![a] = TopicsOf[svc[a]]]
    /\ Goto(a, "addTopics")
    /\ UNCHANGED <<connected, connLock, hLock, services, handler, ttlTimer,
                   topics, svc, ending, gone, broker, bounds, ghost>>

\* client.subscribe returns at once for a topic it has; else it reads
\* `connected` and waits for an acknowledgement.
AddTopic(a) ==
    /\ At(a, "addTopics")
    /\ \E topic \in left[a] :
        /\ topic \in subs \/ Free(connLock)
        /\ subs' = subs \cup {topic} /\ callbacks' = callbacks \cup {topic}
        /\ left' = [left EXCEPT ![a] = @ \ {topic}]
    /\ UNCHANGED <<connected, locks, services, handler, ttlTimer, pc, svc,
                   copy, ending, gone, broker, bounds, ghost>>


\* Bug: the topics of the failed registration are given up again.
AddRaise_Undoes(a) ==
    /\ At(a, "addTopics") /\ Free(connLock) /\ connected /\ left[a] # {}
    /\ subs' = subs \ TopicsOf[svc[a]]
    /\ smLock' = NoThread
    /\ left' = [left EXCEPT ![a] = {}] /\ copy' = [copy EXCEPT ![a] = {}]
    /\ Quit(a, "idle")
    /\ UNCHANGED <<connected, connLock, hLock, services, handler, ttlTimer,
                   callbacks, ending, gone, broker, bounds, ghost>>

\* The acknowledgement does not come: add_service raises half-way.
AddRaise(a) ==
    /\ At(a, "addTopics") /\ Free(connLock) /\ connected
    /\ \E topic \in left[a] \ subs : subs' = subs \cup {topic}
    /\ smLock' = NoThread
    /\ left' = [left EXCEPT ![a] = {}] /\ copy' = [copy EXCEPT ![a] = {}]
    /\ Quit(a, "idle")
    /\ UNCHANGED <<connected, connLock, hLock, services, handler, ttlTimer,
                   callbacks, ending, gone, broker, bounds, ghost>>

AddStart(a) ==
    /\ At(a, "addTopics") /\ left[a] = {} /\ Free(connLock)
    /\ Goto(a, IF connected THEN "addArm" ELSE "addEnd")
    /\ UNCHANGED <<connected, locks, services, handler, ttlTimer, topics, svc,
                   local, gone, broker, bounds, ghost>>

\* start_timer, which reads `connected` again.
AddArm(a) ==
    /\ At(a, "addArm") /\ Free(connLock)
    /\ IF connected THEN Arm(a, "addEnd", svc[a])
                    ELSE Goto(a, "addEnd") /\ UNCHANGED <<ttlTimer, svc>>
    /\ UNCHANGED <<connected, locks, services, handler, topics, local, gone,
                   broker, bounds, ghost>>

AddEnd(a) ==
    /\ At(a, "addEnd")
    /\ services' = copy[a] \cup {svc[a]}
    /\ copy' = [copy EXCEPT ![a] = {}]
    /\ smLock' = NoThread
    /\ Quit(a, "idle")
    /\ UNCHANGED <<connected, connLock, hLock, handler, ttlTimer, topics,
                   left, ending, gone, broker, bounds, ghost>>
-----------------------------------------------------------------------------
(* unregister_service_async, remove_service and destroy *)

CallRemove(a) ==
    /\ Call(a)
    /\ \E s \in used : svc' = [svc EXCEPT ![a] = s]
    /\ Goto(a, "remLock")
    /\ UNCHANGED <<connected, locks, services, handler, ttlTimer, topics,
                   local, gone, broker, used, losses, ghost>>

CallDestroy(a) ==
    /\ Call(a)
    /\ Goto(a, "endLock")
    /\ UNCHANGED <<connected, locks, services, handler, ttlTimer, topics, svc,
                   local, gone, broker, used, losses, ghost>>

\* From the lookup of the handler to the loop over its channels.
BeginRemove(a, s) ==
    /\ smLock' = a
    /\ StopTimer(s, a, "remTopics", s)
    /\ left' = [left EXCEPT ![a] = TopicsOf[s]]

RemoveLock(a) ==
    /\ At(a, "remLock") /\ Free(smLock)
    /\ IF svc[a] \in services
       THEN BeginRemove(a, svc[a])
       ELSE Quit(a, "idle") /\ UNCHANGED <<smLock, ttlTimer, left>>
    /\ UNCHANGED <<connected, connLock, hLock, services, handler, topics,
                   copy, ending, gone, broker, bounds, ghost>>

DestroyLock(a) ==
    /\ At(a, "endLock") /\ Free(smLock)
    /\ smLock' = a /\ ending' = a
    /\ Goto(a, "endNext")
    /\ UNCHANGED <<connected, connLock, hLock, services, handler, ttlTimer,
                   topics, svc, left, copy, gone, broker, bounds, ghost>>

DestroyNext(a) ==
    /\ At(a, "endNext") /\ services # {}
    /\ \E s \in services : BeginRemove(a, s)
    /\ UNCHANGED <<connected, connLock, hLock, services, handler, topics,
                   copy, ending, gone, broker, bounds, ghost>>

DestroyEnd(a) ==
    /\ At(a, "endNext") /\ services = {}
    /\ gone' = TRUE
    /\ smLock' = NoThread /\ ending' = NoThread
    /\ Quit(a, "idle")
    /\ UNCHANGED <<connected, connLock, hLock, services, handler, ttlTimer,
                   topics, left, copy, broker, bounds, ghost>>

\* client.unsubscribe reads `connected` when it has the topic, which it drops
\* in any case.
RemoveTopic(a) ==
    /\ At(a, "remTopics")
    /\ \E topic \in left[a] :
        /\ topic \notin subs \/ Free(connLock)
        /\ subs' = subs \ {topic} /\ callbacks' = callbacks \ {topic}
        /\ left' = [left EXCEPT ![a] = @ \ {topic}]
    /\ UNCHANGED <<connected, locks, services, handler, ttlTimer, pc, svc,
                   copy, ending, gone, broker, bounds, ghost>>

\* The acknowledgement does not come: the service stays, without its timer.
RemoveRaise(a) ==
    /\ At(a, "remTopics") /\ Free(connLock) /\ connected
    /\ \E topic \in left[a] \cap subs : subs' = subs \ {topic}
    /\ torn' = torn \cup {svc[a]}
    /\ smLock' = NoThread /\ ending' = NoThread
    /\ left' = [left EXCEPT ![a] = {}]
    /\ Quit(a, "idle")
    /\ UNCHANGED <<connected, connLock, hLock, services, handler, ttlTimer,
                   callbacks, copy, gone, broker, bounds, closed,
                   lapsed>>

RemoveMark(a) ==
    /\ At(a, "remTopics") /\ left[a] = {}
    /\ deleted' = deleted \cup {svc[a]}
    /\ Goto(a, "remCheck")
    /\ UNCHANGED <<connected, locks, services, destroyed, regTime, ttlTimer,
                   topics, svc, local, gone, broker, bounds, ghost>>

RemoveCheck(a) ==
    /\ At(a, "remCheck") /\ Free(connLock)
    /\ Goto(a, IF connected THEN "remSend" ELSE "remDrop")
    /\ UNCHANGED <<connected, locks, services, handler, ttlTimer, topics, svc,
                   local, gone, broker, bounds, ghost>>

RemoveSend(a) ==
    /\ At(a, "remSend") /\ Free(hLock[svc[a]])
    /\ \/ /\ MayUnregister(svc[a])
          /\ hLock' = [hLock EXCEPT ![svc[a]] = a]
          /\ \E outcome \in UnregisterOutcome : /\ SendUnregister(svc[a], outcome)
                                          /\ Goto(a, outcome)
       \/ /\ ~MayUnregister(svc[a])
          /\ Goto(a, "remDrop")
          /\ UNCHANGED <<hLock, broker>>
    /\ UNCHANGED <<connected, connLock, smLock, services, handler, ttlTimer,
                   topics, svc, local, gone, bounds, ghost>>

Release(s, t) == hLock' = [hLock EXCEPT ![s] = IF @ = t THEN NoThread ELSE @]

\* Bug: the exception of a timeout is not caught.
RemoveAnswer_Raises(a) ==
    /\ pc[a] \in RequestLabels
    /\ Release(svc[a], a)
    /\ \/ /\ At(a, "accepted") /\ Linked /\ closed' = closed \cup {svc[a]}
          /\ Goto(a, "remDrop")
          /\ UNCHANGED <<smLock, svc>>
       \/ /\ Quit(a, "idle") /\ smLock' = NoThread
          /\ UNCHANGED closed
    /\ UNCHANGED <<connected, connLock, services, handler, ttlTimer, topics,
                   local, gone, broker, bounds, torn, lapsed>>

\* The response, an error or the timeout; remove_service swallows the latter.
RemoveAnswer(a) ==
    /\ pc[a] \in RequestLabels
    /\ \/ At(a, "accepted") /\ Linked /\ closed' = closed \cup {svc[a]}
       \/ UNCHANGED closed
    /\ Release(svc[a], a)
    /\ Goto(a, "remDrop")
    /\ UNCHANGED <<connected, connLock, smLock, services, handler, ttlTimer,
                   topics, svc, local, gone, broker, bounds, torn,
                   lapsed>>

RemoveDrop(a) ==
    /\ At(a, "remDrop")
    /\ services' = services \ {svc[a]}
    /\ destroyed' = destroyed \cup {svc[a]}
    /\ IF ending = a THEN Quit(a, "endNext") /\ UNCHANGED smLock
                     ELSE Quit(a, "idle") /\ smLock' = NoThread
    /\ UNCHANGED <<connected, connLock, hLock, deleted, regTime, ttlTimer,
                   topics, local, gone, broker, bounds, ghost>>
-----------------------------------------------------------------------------
(* _timer_callback *)

Fire(m) ==
    /\ At(m, "pending")
    /\ Goto(m, "check")
    /\ UNCHANGED <<connected, locks, services, handler, ttlTimer, topics, svc,
                   local, gone, broker, bounds, ghost>>

\* self.client is None after remove_service: AttributeError, the timer is over.
Check(m) ==
    /\ At(m, "check")
    /\ \/ svc[m] \in destroyed /\ Quit(m, "off")
       \/ /\ svc[m] \notin destroyed /\ Free(connLock)
          /\ Goto(m, IF connected THEN "lock" ELSE "cancel") /\ UNCHANGED svc
    /\ UNCHANGED <<connected, locks, services, handler, ttlTimer, topics,
                   local, gone, broker, bounds, ghost>>

\* Not connected: whatever timer the handler has by now is cancelled.
CancelAny(m) ==
    /\ At(m, "cancel")
    /\ Cancel(svc[m], m, "off", NoService)
    /\ lapsed' = IF Pending(svc[m]) THEN lapsed \cup {svc[m]} ELSE lapsed
    /\ UNCHANGED <<connected, locks, services, handler, ttlTimer, topics,
                   local, gone, broker, bounds, closed, torn>>

\* The removal came before the lock: the service is unregistered once more, if
\* the handler still has its client, and then a timer that another callback may
\* have left behind is cancelled.
LateSend(m) ==
    /\ At(m, "lock") /\ Free(hLock[svc[m]]) /\ svc[m] \in deleted
    /\ \/ /\ svc[m] \notin destroyed /\ MayUnregister(svc[m])
          /\ hLock' = [hLock EXCEPT ![svc[m]] = m]
          /\ \E outcome \in UnregisterOutcome :
              /\ SendUnregister(svc[m], outcome)
              /\ Goto(m, IF outcome = "accepted" THEN "goneAccepted"
                                                 ELSE "goneUnsent")
          /\ UNCHANGED svc
       \/ /\ svc[m] \notin destroyed /\ ~MayUnregister(svc[m])
          /\ Cancel(svc[m], m, "off", NoService)
          /\ UNCHANGED <<hLock, broker>>
       \/ /\ svc[m] \in destroyed
          /\ Quit(m, "off")
          /\ UNCHANGED <<hLock, broker>>
    /\ UNCHANGED <<connected, connLock, smLock, services, handler, ttlTimer,
                   topics, local, gone, bounds, ghost>>

LateAnswer(m) ==
    /\ \/ /\ At(m, "goneAccepted") /\ Linked
          /\ closed' = closed \cup {svc[m]}
          /\ Cancel(svc[m], m, "off", NoService)
       \/ /\ pc[m] \in {"goneAccepted", "goneUnsent"}
          /\ Quit(m, "off")
          /\ UNCHANGED closed
    /\ Release(svc[m], m)
    /\ UNCHANGED <<connected, connLock, smLock, services, handler, ttlTimer,
                   topics, local, gone, broker, bounds, torn, lapsed>>

\* Bug: the mark of remove_service is not looked at.
Register_Blind(m) ==
    /\ At(m, "lock") /\ Free(hLock[svc[m]]) /\ svc[m] \notin destroyed
    /\ hLock' = [hLock EXCEPT ![svc[m]] = m]
    /\ \E outcome \in RegisterOutcome : /\ SendRegister(svc[m], outcome)
                                    /\ Goto(m, outcome)
    /\ UNCHANGED <<connected, connLock, smLock, services, handler, ttlTimer,
                   topics, svc, local, gone, bounds, ghost>>

Register(m) ==
    /\ At(m, "lock") /\ Free(hLock[svc[m]]) /\ svc[m] \notin deleted
    /\ hLock' = [hLock EXCEPT ![svc[m]] = m]
    /\ \E outcome \in RegisterOutcome : /\ SendRegister(svc[m], outcome)
                                    /\ Goto(m, outcome)
    /\ UNCHANGED <<connected, connLock, smLock, services, handler, ttlTimer,
                   topics, svc, local, gone, bounds, ghost>>

\* Accepted or refused, the next timer is installed; after a timeout it is not.
Registered(m) ==
    /\ pc[m] \in RequestLabels \ {"unsent"} /\ Linked
    /\ regTime' = IF At(m, "accepted") THEN [regTime EXCEPT ![svc[m]] = "valid"]
                                       ELSE regTime
    /\ ttlTimer' = [ttlTimer EXCEPT ![svc[m]] = m]
    /\ Release(svc[m], m)
    /\ Goto(m, "pending")
    /\ UNCHANGED <<connected, connLock, smLock, services, deleted, destroyed,
                   topics, svc, local, gone, broker, bounds, ghost>>

RegisterTimeout(m) ==
    /\ pc[m] \in RequestLabels
    /\ Release(svc[m], m)
    /\ lapsed' = lapsed \cup {svc[m]}
    /\ Quit(m, "off")
    /\ UNCHANGED <<connected, connLock, smLock, services, handler, ttlTimer,
                   topics, local, gone, broker, bounds, closed, torn>>
-----------------------------------------------------------------------------
(* on_connect and on_disconnect, as _on_connect_run and _disconnect call them *)

Rise ==
    /\ At(Conn, "down")
    /\ connLock' = Conn /\ connected' = TRUE
    /\ Goto(Conn, "rising")
    /\ UNCHANGED <<smLock, hLock, services, handler, ttlTimer, topics, svc,
                   local, gone, broker, bounds, ghost>>

\* The manager, if there still is one, goes over its services under its lock.
OnConnect ==
    /\ At(Conn, "rising") /\ Free(smLock)
    /\ smLock' = Conn
    /\ copy' = [copy EXCEPT ![Conn] = services]
    /\ Goto(Conn, "starting")
    /\ UNCHANGED <<connected, connLock, hLock, services, handler, ttlTimer,
                   topics, svc, left, ending, gone, broker, bounds, ghost>>

\* Bug: the timers are left to those that ran before the connection was lost.
StartNext_Trusts ==
    /\ At(Conn, "starting")
    /\ copy[Conn] # {} /\ copy' = [copy EXCEPT ![Conn] = {}]
    /\ UNCHANGED <<connected, locks, services, handler, ttlTimer, topics, pc,
                   svc, left, ending, gone, broker, bounds, ghost>>

\* start_timer of one service.  The branch for deleted services is never taken
\* (RemovalIsComplete), nor is is_invalid_reference ever true, so that the map
\* that is published in the end is the one that was read.
StartNext ==
    /\ At(Conn, "starting")
    /\ \E s \in copy[Conn] : /\ Arm(Conn, "starting", s)
                             /\ copy' = [copy EXCEPT ![Conn] = @ \ {s}]
                             /\ lapsed' = lapsed \ {s}
    /\ UNCHANGED <<connected, locks, services, handler, topics, left, ending,
                   gone, broker, bounds, closed, torn>>

StartEnd ==
    /\ At(Conn, "starting") /\ copy[Conn] = {}
    /\ smLock' = NoThread /\ connLock' = NoThread
    /\ Goto(Conn, "up")
    /\ UNCHANGED <<connected, hLock, services, handler, ttlTimer, topics, svc,
                   local, gone, broker, bounds, ghost>>

\* disconnect() calls on_disconnect on a live connection; a lost one is first
\* noted by _on_disconnect_run.
Leave ==
    /\ At(Conn, "up") /\ losses < MaxLosses
    /\ losses' = losses + 1
    /\ pc' \in {[pc EXCEPT ![Conn] = label] : label \in {"stopLock", "lost"}}
    /\ UNCHANGED <<connected, locks, services, handler, ttlTimer, topics, svc,
                   local, gone, broker, used, calls, ghost>>

Drop(label, next) ==
    /\ At(Conn, label)
    /\ connected' = FALSE
    /\ Goto(Conn, next)
    /\ UNCHANGED <<locks, services, handler, ttlTimer, topics, svc, local,
                   gone, broker, bounds, ghost>>

OnDisconnect ==
    /\ At(Conn, "stopLock") /\ Free(smLock)
    /\ smLock' = Conn
    /\ copy' = [copy EXCEPT ![Conn] = services]
    /\ Goto(Conn, "stop")
    /\ UNCHANGED <<connected, connLock, hLock, services, handler, ttlTimer,
                   topics, svc, left, ending, gone, broker, bounds, ghost>>

Stop(s, next) == /\ StopTimer(s, Conn, next, NoService)
                 /\ copy' = [copy EXCEPT ![Conn] = @ \ {s}]

\* Nothing to unregister, or nobody to tell.
StopNext ==
    /\ At(Conn, "stop")
    /\ \E s \in copy[Conn] : /\ ~connected \/ (Free(hLock[s]) /\ ~MayUnregister(s))
                             /\ Stop(s, "stop")
    /\ UNCHANGED <<connected, locks, services, handler, topics, left, ending,
                   gone, broker, bounds, ghost>>

StopSend ==
    /\ At(Conn, "stop") /\ connected
    /\ \E s \in copy[Conn] :
        /\ Free(hLock[s]) /\ MayUnregister(s)
        /\ hLock' = [hLock EXCEPT ![s] = Conn]
        /\ svc' = [svc EXCEPT ![Conn] = s]
        /\ \E outcome \in UnregisterOutcome : /\ SendUnregister(s, outcome)
                                        /\ Goto(Conn, outcome)
    /\ UNCHANGED <<connected, connLock, smLock, services, handler, ttlTimer,
                   topics, local, gone, bounds, ghost>>

\* Answered or not; then stop_timer.
StopAnswer ==
    /\ pc[Conn] \in RequestLabels
    /\ Release(svc[Conn], Conn)
    /\ Stop(svc[Conn], "stop")
    /\ UNCHANGED <<connected, connLock, smLock, services, handler, topics,
                   left, ending, gone, broker, bounds, ghost>>

StopEnd ==
    /\ At(Conn, "stop") /\ copy[Conn] = {}
    /\ smLock' = NoThread
    /\ Goto(Conn, IF connected THEN "closing" ELSE "down")
    /\ UNCHANGED <<connected, connLock, hLock, services, handler, ttlTimer,
                   topics, svc, local, gone, broker, bounds, ghost>>
-----------------------------------------------------------------------------
\* The TTL passes without a registration, for the client and for the broker.
Expire(s) ==
    /\ regTime[s] = "valid"
    /\ regTime' = [regTime EXCEPT ![s] = "expired"]
    /\ broker' = broker \ {s}
    /\ UNCHANGED <<connected, locks, services, deleted, destroyed, ttlTimer,
                   topics, pc, svc, local, gone, bounds, ghost>>

AppStep(a) ==
    \/ AddLock(a) \/ AddTopic(a) \/ AddRaise(a) \/ AddStart(a) \/ AddArm(a)
    \/ AddEnd(a) \/ RemoveLock(a) \/ RemoveTopic(a) \/ RemoveRaise(a)
    \/ RemoveMark(a) \/ RemoveCheck(a) \/ RemoveSend(a) \/ RemoveAnswer(a)
    \/ RemoveDrop(a) \/ DestroyLock(a) \/ DestroyNext(a) \/ DestroyEnd(a)

TimerStep(m) == \/ Fire(m) \/ Check(m) \/ CancelAny(m) \/ LateSend(m)
                \/ LateAnswer(m) \/ Register(m) \/ Registered(m)
                \/ RegisterTimeout(m)

\* What the connection does by itself; Rise and Leave are up to others.
ConnStep == \/ OnConnect \/ StartNext \/ StartEnd \/ OnDisconnect \/ StopNext
            \/ StopSend \/ StopAnswer \/ StopEnd
            \/ Drop("lost", "stopLock") \/ Drop("closing", "down")

Next == \/ \E a \in Apps : CallAdd(a) \/ CallRemove(a) \/ CallDestroy(a) \/ AppStep(a)
        \/ \E m \in Timers : TimerStep(m)
        \/ Rise \/ Leave \/ ConnStep
        \/ \E s \in Services : Expire(s)

Spec == Init /\ [][Next]_vars

Fairness == /\ \A a \in Apps : WF_vars(AppStep(a))
            /\ SF_vars(\E a \in Apps : RemoveSend(a))
            /\ \A m \in Timers : WF_vars(TimerStep(m))
            /\ WF_vars(ConnStep) /\ SF_vars(StopNext \/ StopSend)

FairSpec == Spec /\ Fairness
-----------------------------------------------------------------------------
(* Properties *)

\* Once the broker has answered the unregister request of a removed service,
\* nothing registers it again: not a timer that fired before it was stopped,
\* not a registration in progress, not a reconnection (service.py:488-504,
\* 613-653).
UnregisteredStays == closed \cap broker = {}

\* What the broker may route a request to is in the map that on_request reads,
\* unless it is being added or has been removed: no update of the map is lost
\* to a concurrent add_service, remove_service or on_connect (596-611, 647-653,
\* 706-724).
Adding(s) == \E a \in Apps : svc[a] = s /\ pc[a] \in {"addArm", "addEnd"}
KnownIsServed == \A s \in broker \ services : s \in deleted \/ Adding(s)

\* remove_service ends with the service out of the map even if the broker does
\* not answer; that is why on_connect never meets a deleted service (706-724).
RemovalIsComplete == Free(smLock) => services \cap deleted = {}

\* A service in the map has its topics subscribed and the manager's callback on
\* them, unless its own removal failed half-way or a service of the same topic
\* was removed (603-606, 633-635).
Taken(s) == UNION {TopicsOf[r] : r \in (deleted \cup torn) \ {s}}
ReachesService ==
    Free(smLock) => \A s \in services \ torn :
                        TopicsOf[s] \ Taken(s) \subseteq subs \cap callbacks

\* The same without the exception: "Multiple service "instances" can be
\* registered with the DXL fabric that respond to the same "topics"" (31).
SharedTopicsServed ==
    Free(smLock) => \A s \in services \ torn : TopicsOf[s] \subseteq subs \cap callbacks

\* While the client is connected each service has a timer that is set or
\* running, or its last registration got no answer, or a callback of the time
\* before the connection cancelled the timer of now, or its removal failed
\* (488-527, 698-724).
HasTimer(s) == \E m \in Timers : svc[m] = s /\ ~At(m, "off")
KeepsTimer ==
    (connected /\ At(Conn, "up") /\ Free(smLock))
    => \A s \in services : HasTimer(s) \/ s \in lapsed \cup torn

\* Who, in the middle of a call, has to ask whether the client is connected.
AsksConnected(a) == \/ pc[a] \in {"addArm", "remCheck"}
                    \/ At(a, "addTopics") /\ left[a] \cap subs = {}
                    \/ At(a, "remTopics") /\ left[a] # {} /\ left[a] \subseteq subs

\* _on_connect_run holds _connected_lock and waits for the manager's lock, whose
\* holder asks whether the client is connected.
LockCycle == At(Conn, "rising") /\ smLock \in Apps /\ AsksConnected(smLock)

=============================================================================
