-------------------------- MODULE ClientConnection --------------------------
(***************************************************************************)
(* The connection of dxlclient/client.py: connect, disconnect, destroy,    *)
(* subscribe and unsubscribe of the application threads (Apps), the        *)
(* connect threads (Conns), the threads that _on_connect and               *)
(* _on_disconnect start (Ups and Downs), and paho's network thread as far  *)
(* as the client depends on it (paho/mqtt/client.py: connect, loop_start,  *)
(* loop_stop, disconnect, loop_forever).                                   *)
(*                                                                         *)
(* connLock is _connected_lock, subsLock is _subscriptions_lock and        *)
(* ackLock the lock of _packets_awaiting_ack_condition; the three are      *)
(* reentrant and a wait on a condition gives its lock up.  A thread at a   *)
(* label whose action needs a free lock is blocked there.  The wait for an *)
(* acknowledgement (module PacketAck) ends at any moment, acknowledged or  *)
(* not.  Two waits may last for ever: that for the service manager and the *)
(* pool (modules ServiceManager and ThreadPool say when they do), and that *)
(* for brokers in the configuration.                                       *)
(***************************************************************************)
EXTENDS Integers, FiniteSets

CONSTANTS Apps, Conns, Ups, Downs,  \* the threads, the last three used once
          NoThread,
          Topics, ReplyTopic,
          Retries,                  \* the values connect_retries is set to
          Reconnect,                \* reconnect_when_disconnected
          MaxCalls, MaxOpens        \* bounds: calls made, sockets opened

Leavers == Apps \cup Downs
Threads == Leavers \cup Conns \cup Ups

ASSUME ThreadsApart ==
    /\ Apps \cap (Conns \cup Ups \cup Downs) = {}
    /\ Conns \cap (Ups \cup Downs) = {}
    /\ Ups \cap Downs = {}
    /\ NoThread \notin Threads
ASSUME TopicsFinite == IsFiniteSet(Topics) /\ ReplyTopic \in Topics

Forever == -1                       \* no end of retries

ASSUME Bounds == Retries \subseteq Nat \cup {Forever} /\ Reconnect \in BOOLEAN
                 /\ MaxCalls \in Nat /\ MaxOpens \in Nat

VARIABLES
    connected, thread, terminate, subs,         \* fields of DxlClient
    destroyer, destroyed,                       \* who is in destroy()
    connLock, subsLock, ackLock,
    pc, todo, snap, retries,                    \* of each thread
    sock, asked, leaving, bye, loop, loopStop,  \* paho
    calls, opens, swept, closer                 \* bounds and history

client == <<connected, thread, terminate, subs, destroyer, destroyed>>
locks  == <<connLock, subsLock, ackLock>>
local  == <<pc, todo, snap, retries>>
paho   == <<sock, asked, leaving, bye, loop, loopStop>>
ghost  == <<swept, closer>>
vars   == <<client, locks, local, paho, calls, opens, ghost>>

ConnectLabels == {"connectCheck", "threadCheck", "startThread", "joinCheck",
                  "connectJoin", "connectAwait"}
SubscribeLabels == {"subWait", "subCheck", "subSend", "subAck"}
UnsubscribeLabels == {"unsubWait", "unsubCheck", "unsubSend", "unsubAck"}
LeaveLabels == {"poolWait", "sweepStart", "sweep", "sweepAck", "loopStop",
                "loopJoin", "clientDisconnect", "threadTest", "threadJoin",
                "leaveAwait"}
Labels == ConnectLabels \cup SubscribeLabels \cup UnsubscribeLabels
          \cup LeaveLabels
          \cup {"idle", "done", "release", "restart", "downClean", "downLost",
                "upLock", "upSubs", "upRenew", "clear", "connCheck",
                "brokerWait", "attempt", "delay", "launch"}

TypeOK ==
    /\ connected \in BOOLEAN /\ terminate \in BOOLEAN /\ destroyed \in BOOLEAN
    /\ thread \in Conns \cup {NoThread}
    /\ destroyer \in Apps \cup {NoThread}
    /\ subs \in SUBSET Topics /\ asked \in SUBSET Topics
    /\ connLock \in Ups \cup {NoThread}
    /\ subsLock \in Apps \cup Ups \cup {NoThread}
    /\ ackLock \in Leavers \cup {NoThread}
    /\ pc \in [Threads -> Labels]
    /\ todo \in [Threads -> SUBSET Topics] /\ snap \in [Leavers -> SUBSET Topics]
    /\ retries \in [Conns -> Nat \cup {Forever}]
    /\ sock \in {"none", "open", "up", "refused"}
    /\ leaving \in BOOLEAN /\ bye \in BOOLEAN /\ loopStop \in BOOLEAN
    /\ loop \in {"off", "starting", "running", "dropping", "lost", "ended"}
    /\ calls \in 0 .. MaxCalls /\ opens \in 0 .. MaxOpens
    /\ swept \in BOOLEAN /\ closer \in Apps \cup {NoThread}

\* __init__, which subscribes to the reply channel.
Init ==
    /\ connected = FALSE /\ thread = NoThread /\ terminate = FALSE
    /\ subs = {ReplyTopic} /\ destroyer = NoThread /\ destroyed = FALSE
    /\ connLock = NoThread /\ subsLock = NoThread /\ ackLock = NoThread
    /\ pc = [t \in Threads |-> "idle"]
    /\ todo = [t \in Threads |-> {}] /\ snap = [t \in Leavers |-> {}]
    /\ retries = [k \in Conns |-> 0]
    /\ sock = "none" /\ asked = {} /\ leaving = FALSE /\ bye = FALSE
    /\ loop = "off" /\ loopStop = FALSE
    /\ calls = 0 /\ opens = 0 /\ swept = FALSE /\ closer = NoThread

Free(lock) == lock = NoThread
At(t, label) == pc[t] = label
Goto(t, label) == pc' = [pc EXCEPT ![t] = label]
Start(t, label, s, first) == pc' = [pc EXCEPT ![t] = label, ![s] = first]

\* threading.Thread(...): one that has not run yet; the sets of threads bound
\* how often.
Unstarted(S) == {t \in S : At(t, "idle")}
NewThread(S) == CHOOSE t \in Unstarted(S) : TRUE

\* Where a thread goes when a call raises: it leaves the call, or it dies.
Home(t) == IF t \in Apps THEN "idle" ELSE "done"
Raise(t) == /\ Goto(t, Home(t))
            /\ destroyer' = IF destroyer = t THEN NoThread ELSE destroyer
            /\ closer' = IF closer = t THEN NoThread ELSE closer
-----------------------------------------------------------------------------
(* connect() *)

Call(a) == /\ At(a, "idle")
           /\ calls < MaxCalls
           /\ ~destroyed /\ destroyer = NoThread
           /\ calls' = calls + 1

CallConnect(a) ==
    /\ Call(a)
    /\ Goto(a, "connectCheck")
    /\ closer' = NoThread
    /\ UNCHANGED <<client, locks, todo, snap, retries, paho, opens, swept>>

ConnectCheck(a) ==
    /\ At(a, "connectCheck") /\ Free(connLock)
    /\ Goto(a, IF connected THEN "idle" ELSE "threadCheck")
    /\ UNCHANGED <<client, locks, todo, snap, retries, paho, calls, opens, ghost>>

ThreadCheck(a) ==
    /\ At(a, "threadCheck")
    /\ Goto(a, IF thread # NoThread THEN "idle" ELSE "startThread")
    /\ UNCHANGED <<client, locks, todo, snap, retries, paho, calls, opens, ghost>>

\* _start_connect_thread, of connect() and of _on_disconnect_run.
StartConnectThread(t, next, count) ==
    /\ Unstarted(Conns) # {}
    /\ thread' = NewThread(Conns)
    /\ retries' = [retries EXCEPT ![NewThread(Conns)] = count]
    /\ Start(t, next, NewThread(Conns), "clear")

StartThread(a) ==
    /\ At(a, "startThread")
    /\ \E count \in Retries : StartConnectThread(a, "joinCheck", count)
    /\ UNCHANGED <<connected, terminate, subs, destroyer, destroyed, locks,
                   todo, snap, paho, calls, opens, ghost>>

JoinCheck(a) ==
    /\ At(a, "joinCheck")
    /\ Goto(a, IF thread = NoThread THEN "connectAwait" ELSE "connectJoin")
    /\ UNCHANGED <<client, locks, todo, snap, retries, paho, calls, opens, ghost>>

\* self._thread.isAlive() raises AttributeError when another thread has set
\* _thread to None in between.
ConnectJoin(a) ==
    /\ At(a, "connectJoin")
    /\ \/ thread = NoThread /\ Goto(a, "idle") /\ UNCHANGED thread
       \/ /\ thread # NoThread /\ At(thread, "done")
          /\ thread' = NoThread
          /\ Goto(a, "connectAwait")
    /\ UNCHANGED <<connected, terminate, subs, destroyer, destroyed, locks,
                   todo, snap, retries, paho, calls, opens, ghost>>

\* The wait of at most ten seconds and the last check.
ConnectAwait(a) ==
    /\ At(a, "connectAwait") /\ Free(connLock)
    /\ Goto(a, "idle")
    /\ UNCHANGED <<client, locks, todo, snap, retries, paho, calls, opens, ghost>>
-----------------------------------------------------------------------------
(* subscribe(topic), unsubscribe(topic); any topic, the reply channel too *)

CallSubscribe(a, label) ==
    /\ Call(a)
    /\ \E topic \in Topics : todo' = [todo EXCEPT ![a] = {topic}]
    /\ Goto(a, label)
    /\ UNCHANGED <<client, locks, snap, retries, paho, opens, ghost>>

Return(a) == Goto(a, "idle") /\ todo' = [todo EXCEPT ![a] = {}]

Subscribe(a) ==
    /\ At(a, "subWait") /\ Free(subsLock)
    /\ \/ /\ todo[a] \subseteq subs
          /\ Return(a)
          /\ UNCHANGED <<subs, subsLock>>
       \/ /\ ~ (todo[a] \subseteq subs)
          /\ subs' = subs \cup todo[a]
          /\ subsLock' = a
          /\ Goto(a, "subCheck") /\ UNCHANGED todo
    /\ UNCHANGED <<connected, thread, terminate, destroyer, destroyed, connLock,
                   ackLock, snap, retries, paho, calls, opens, ghost>>

Unsubscribe(a) ==
    /\ At(a, "unsubWait") /\ Free(subsLock)
    /\ \/ /\ ~ (todo[a] \subseteq subs)
          /\ Return(a)
          /\ UNCHANGED subsLock
       \/ /\ todo[a] \subseteq subs
          /\ subsLock' = a
          /\ Goto(a, "unsubCheck") /\ UNCHANGED todo
    /\ UNCHANGED <<client, connLock, ackLock, snap, retries, paho, calls,
                   opens, ghost>>

\* self.connected, read under the subscriptions lock.
SubscribeCheck(a) ==
    /\ At(a, "subCheck") /\ Free(connLock)
    /\ IF connected THEN Goto(a, "subSend") /\ UNCHANGED <<subsLock, todo>>
                    ELSE Return(a) /\ subsLock' = NoThread
    /\ UNCHANGED <<client, connLock, ackLock, snap, retries, paho, calls,
                   opens, ghost>>

UnsubscribeCheck(a) ==
    /\ At(a, "unsubCheck") /\ Free(connLock)
    /\ IF connected
       THEN Goto(a, "unsubSend") /\ UNCHANGED <<subs, subsLock, todo>>
       ELSE Return(a) /\ subsLock' = NoThread /\ subs' = subs \ todo[a]
    /\ UNCHANGED <<connected, thread, terminate, destroyer, destroyed, connLock,
                   ackLock, snap, retries, paho, calls, opens, ghost>>

\* paho's subscribe and unsubscribe send nothing without a socket.
AskBroker(topics) == asked' = IF sock = "none" THEN asked ELSE asked \cup topics
AskBrokerNot(topics) == asked' = asked \ topics

SubscribeSend(a) ==
    /\ At(a, "subSend") /\ Free(ackLock)
    /\ AskBroker(todo[a])
    /\ Goto(a, "subAck")
    /\ UNCHANGED <<client, locks, todo, snap, retries, sock, leaving, bye, loop,
                   loopStop, calls, opens, ghost>>

UnsubscribeSend(a) ==
    /\ At(a, "unsubSend") /\ Free(ackLock)
    /\ AskBrokerNot(todo[a])
    /\ Goto(a, "unsubAck")
    /\ UNCHANGED <<client, locks, todo, snap, retries, sock, leaving, bye, loop,
                   loopStop, calls, opens, ghost>>

\* Acknowledged, timed out or nothing to wait for: the finally clauses.
SubscribeEnd(a) ==
    /\ At(a, "subAck") /\ Free(ackLock)
    /\ subsLock' = NoThread
    /\ Return(a)
    /\ UNCHANGED <<client, connLock, ackLock, snap, retries, paho, calls,
                   opens, ghost>>

UnsubscribeEnd(a) ==
    /\ At(a, "unsubAck") /\ Free(ackLock)
    /\ subs' = subs \ todo[a]
    /\ subsLock' = NoThread
    /\ Return(a)
    /\ UNCHANGED <<connected, thread, terminate, destroyer, destroyed, connLock,
                   ackLock, snap, retries, paho, calls, opens, ghost>>
-----------------------------------------------------------------------------
(* disconnect(), destroy() and _disconnect() *)

\* Somebody connects, or a lost connection is being dealt with.
Connecting == \/ \E a \in Apps : pc[a] \in ConnectLabels
              \/ \E k \in Conns : pc[k] \notin {"idle", "done"}
              \/ \E d \in Downs : pc[d] \in LeaveLabels \cup {"downLost", "restart"}
              \/ loop = "dropping"

\* closer made the last disconnect or destroy that began on a connected client
\* with nobody connecting.
BeginLeave(a) ==
    closer' = IF ~connected THEN closer ELSE IF Connecting THEN NoThread ELSE a

\* disconnect() reads _connected without the lock.
CallDisconnect(a) ==
    /\ Call(a)
    /\ Goto(a, IF connected THEN "poolWait" ELSE "idle")
    /\ BeginLeave(a)
    /\ UNCHANGED <<client, locks, todo, snap, retries, paho, opens, swept>>

CallDestroy(a) ==
    /\ Call(a)
    /\ destroyer' = a
    /\ Goto(a, IF connected THEN "poolWait" ELSE "release")
    /\ BeginLeave(a)
    /\ UNCHANGED <<connected, thread, terminate, subs, destroyed, locks, todo,
                   snap, retries, paho, opens, swept>>

\* on_disconnect of the service manager and wait_completion of the thread pool
\* take any time; a worker that died, or a callback that disconnects, makes it
\* for ever.
PoolDone(t) ==
    /\ At(t, "poolWait")
    /\ Goto(t, "sweepStart")
    /\ UNCHANGED <<client, locks, todo, snap, retries, paho, calls, opens, ghost>>

\* The loop over _subscriptions takes its iterator, without _subscriptions_lock.
SweepStart(t) ==
    /\ At(t, "sweepStart") /\ Free(ackLock)
    /\ ackLock' = t
    /\ todo' = [todo EXCEPT ![t] = subs]
    /\ snap' = [snap EXCEPT ![t] = subs]
    /\ Goto(t, "sweep")
    /\ UNCHANGED <<client, connLock, subsLock, retries, paho, calls, opens, ghost>>

Forget(t) == /\ todo' = [todo EXCEPT ![t] = {}]
             /\ snap' = [snap EXCEPT ![t] = {}]

Resized(t) == Cardinality(subs) # Cardinality(snap[t])

\* "set changed size during iteration"
SweepRaise(t) ==
    /\ At(t, "sweep") /\ Resized(t)
    /\ ackLock' = NoThread
    /\ Raise(t) /\ Forget(t)
    /\ UNCHANGED <<connected, thread, terminate, subs, destroyed, connLock,
                   subsLock, retries, paho, calls, opens, swept>>

SweepTopic(t) ==
    /\ At(t, "sweep") /\ ~Resized(t) /\ Free(connLock)
    /\ \E topic \in todo[t] :
        /\ todo' = [todo EXCEPT ![t] = @ \ {topic}]
        /\ IF connected /\ sock # "none"
           THEN /\ AskBrokerNot({topic})
                /\ ackLock' = NoThread
                /\ swept' = TRUE
                /\ Goto(t, "sweepAck")
           ELSE UNCHANGED <<asked, ackLock, swept, pc>>
    /\ UNCHANGED <<client, connLock, subsLock, snap, retries, sock, leaving, bye,
                   loop, loopStop, calls, opens, closer>>

SweepAck(t) ==
    /\ At(t, "sweepAck") /\ Free(ackLock)
    /\ ackLock' = t
    /\ Goto(t, "sweep")
    /\ UNCHANGED <<client, connLock, subsLock, todo, snap, retries, paho, calls,
                   opens, ghost>>

SweepEnd(t) ==
    /\ At(t, "sweep") /\ ~Resized(t) /\ todo[t] = {}
    /\ ackLock' = NoThread
    /\ Goto(t, "loopStop") /\ Forget(t)
    /\ UNCHANGED <<client, connLock, subsLock, retries, paho, calls,
                   opens, ghost>>

\* Bug: the event loop is left running.
LoopStop_Left(t) ==
    /\ At(t, "loopStop")
    /\ Goto(t, "clientDisconnect")
    /\ UNCHANGED <<client, locks, todo, snap, retries, paho, calls, opens, ghost>>

\* paho's loop_stop: the flag first, then the join.  After destroy() the
\* client's _client is None.
LoopStop(t) ==
    /\ At(t, "loopStop")
    /\ IF destroyed
       THEN Raise(t) /\ UNCHANGED loopStop
       ELSE /\ UNCHANGED <<destroyer, closer>>
            /\ IF loop = "off"
               THEN Goto(t, "clientDisconnect") /\ UNCHANGED loopStop
               ELSE loopStop' = TRUE /\ Goto(t, "loopJoin")
    /\ UNCHANGED <<connected, thread, terminate, subs, destroyed, locks, todo,
                   snap, retries, sock, asked, leaving, bye, loop, calls, opens,
                   swept>>

\* Of two threads in loop_stop the later one may find paho's _thread None and
\* raise, or have been inside the same join.
LoopJoin(t) ==
    /\ At(t, "loopJoin")
    /\ \/ /\ loop = "ended"
          /\ loop' = "off"
          /\ Goto(t, "clientDisconnect")
          /\ UNCHANGED <<destroyer, closer>>
       \/ /\ loop = "off"
          /\ Goto(t, "clientDisconnect")
          /\ UNCHANGED <<loop, destroyer, closer>>
       \/ loop = "off" /\ Raise(t) /\ UNCHANGED loop
    /\ UNCHANGED <<connected, thread, terminate, subs, destroyed, locks, todo,
                   snap, retries, sock, asked, leaving, bye, loopStop, calls,
                   opens, swept>>

\* paho's disconnect: with the loop running DISCONNECT is queued, else it is
\* sent at once and _on_disconnect is called by this thread.
ClientDisconnect(t) ==
    /\ At(t, "clientDisconnect")
    /\ \/ /\ destroyed
          /\ Raise(t)
          /\ UNCHANGED <<leaving, bye, sock, asked>>
       \/ /\ ~destroyed /\ sock # "none" /\ loop = "off" /\ Free(ackLock)
          /\ Unstarted(Downs) # {}
          /\ Start(t, "threadTest", NewThread(Downs), "downClean")
          /\ leaving' = TRUE /\ sock' = "none" /\ asked' = {}
          /\ UNCHANGED <<bye, destroyer, closer>>
       \/ /\ ~destroyed /\ (sock = "none" \/ loop # "off")
          /\ Goto(t, "threadTest")
          /\ leaving' = TRUE /\ bye' = (bye \/ sock # "none")
          /\ UNCHANGED <<sock, asked, destroyer, closer>>
    /\ UNCHANGED <<connected, thread, terminate, subs, destroyed, locks, todo,
                   snap, retries, loop, loopStop, calls, opens, swept>>

ThreadTest(t) ==
    /\ At(t, "threadTest")
    /\ IF thread = NoThread
       THEN Goto(t, "leaveAwait") /\ UNCHANGED terminate
       ELSE terminate' = TRUE /\ Goto(t, "threadJoin")
    /\ UNCHANGED <<connected, thread, subs, destroyer, destroyed, locks, todo,
                   snap, retries, paho, calls, opens, ghost>>

ThreadJoin(t) ==
    /\ At(t, "threadJoin")
    /\ \/ thread = NoThread /\ Raise(t) /\ UNCHANGED thread
       \/ /\ thread # NoThread /\ At(thread, "done")
          /\ thread' = NoThread
          /\ Goto(t, "leaveAwait")
          /\ UNCHANGED <<destroyer, closer>>
    /\ UNCHANGED <<connected, terminate, subs, destroyed, locks, todo, snap,
                   retries, paho, calls, opens, swept>>

AfterLeave(t) == CASE t \in Downs -> "restart"
                   [] destroyer = t -> "release"
                   [] OTHER -> "idle"

\* The wait for _on_disconnect_run, or "Failed to disconnect".
LeaveAwait(t) ==
    /\ At(t, "leaveAwait") /\ Free(connLock)
    /\ IF connected
       THEN Raise(t)
       ELSE Goto(t, AfterLeave(t)) /\ UNCHANGED <<destroyer, closer>>
    /\ UNCHANGED <<connected, thread, terminate, subs, destroyed, locks, todo,
                   snap, retries, paho, calls, opens, swept>>

\* The rest of destroy(): shutdown of the thread pool, which waits like
\* wait_completion; _config, the user data and _client become None.
Release(a) ==
    /\ At(a, "release")
    /\ destroyed' = TRUE
    /\ destroyer' = NoThread
    /\ Goto(a, "idle")
    /\ UNCHANGED <<connected, thread, terminate, subs, locks, todo, snap, retries,
                   paho, calls, opens, ghost>>
-----------------------------------------------------------------------------
(* _on_connect_run and _on_disconnect_run *)

UpLock(u) ==
    /\ At(u, "upLock") /\ Free(connLock)
    /\ connLock' = u
    /\ connected' = TRUE
    /\ Goto(u, "upSubs")
    /\ UNCHANGED <<thread, terminate, subs, destroyer, destroyed, subsLock,
                   ackLock, todo, snap, retries, paho, calls, opens, ghost>>

UpSubs(u) ==
    /\ At(u, "upSubs") /\ Free(subsLock)
    /\ subsLock' = u
    /\ todo' = [todo EXCEPT ![u] = subs]
    /\ Goto(u, "upRenew")
    /\ UNCHANGED <<client, connLock, ackLock, snap, retries, paho, calls, opens,
                   ghost>>

\* One subscription is sent; the lock is given up in the wait for its ack.
UpRenew(u) ==
    /\ At(u, "upRenew") /\ Free(ackLock)
    /\ \E topic \in todo[u] : /\ AskBroker({topic})
                              /\ todo' = [todo EXCEPT ![u] = @ \ {topic}]
    /\ UNCHANGED <<client, locks, pc, snap, retries, sock, leaving, bye, loop,
                   loopStop, calls, opens, ghost>>

\* Bug: an exception in the renewal of one topic ends the whole renewal.
UpEnd_Aborts(u) ==
    /\ At(u, "upRenew") /\ Free(ackLock)
    /\ subsLock' = NoThread /\ connLock' = NoThread
    /\ Goto(u, "done")
    /\ UNCHANGED <<client, ackLock, todo, snap, retries, paho, calls, opens, ghost>>

UpEnd(u) ==
    /\ At(u, "upRenew") /\ Free(ackLock) /\ todo[u] = {}
    /\ subsLock' = NoThread /\ connLock' = NoThread
    /\ Goto(u, "done")
    /\ UNCHANGED <<client, ackLock, todo, snap, retries, paho, calls, opens, ghost>>

\* A clean disconnect ends here, a lost connection goes on to _disconnect().
DownLock(d) ==
    /\ pc[d] \in {"downClean", "downLost"} /\ Free(connLock)
    /\ connected' = FALSE
    /\ Goto(d, IF At(d, "downLost") THEN "poolWait" ELSE "done")
    /\ UNCHANGED <<thread, terminate, subs, destroyer, destroyed, locks, todo,
                   snap, retries, paho, calls, opens, ghost>>

Restart(d) ==
    /\ At(d, "restart")
    /\ IF Reconnect /\ ~destroyed
       THEN StartConnectThread(d, "done", Forever)
       ELSE Goto(d, "done") /\ UNCHANGED <<thread, retries>>
    /\ UNCHANGED <<connected, terminate, subs, destroyer, destroyed, locks,
                   todo, snap, paho, calls, opens, ghost>>
-----------------------------------------------------------------------------
(* _connect_thread_main and _loop_until_connected *)

ConnClear(k) ==
    /\ At(k, "clear")
    /\ terminate' = FALSE
    /\ Goto(k, "connCheck")
    /\ UNCHANGED <<connected, thread, subs, destroyer, destroyed, locks, todo,
                   snap, retries, paho, calls, opens, ghost>>

ConnCheck(k) ==
    /\ At(k, "connCheck") /\ Free(connLock)
    /\ Goto(k, IF connected THEN "done" ELSE "brokerWait")
    /\ UNCHANGED <<client, locks, todo, snap, retries, paho, calls, opens, ghost>>

\* The configuration has brokers, which it may never have.
BrokersFound(k) ==
    /\ At(k, "brokerWait") /\ ~terminate /\ ~destroyed
    /\ Goto(k, "attempt")
    /\ UNCHANGED <<client, locks, todo, snap, retries, paho, calls, opens, ghost>>

\* The wait is told to stop, or meets a _config that is None and raises.
BrokerWaitEnds(k) ==
    /\ At(k, "brokerWait") /\ (terminate \/ destroyed)
    /\ Goto(k, "done")
    /\ UNCHANGED <<client, locks, todo, snap, retries, paho, calls, opens, ghost>>

\* paho's reconnect closes an open socket without a callback, and what was
\* queued is dropped.
OpenSocket ==
    /\ opens < MaxOpens
    /\ opens' = opens + 1
    /\ sock' = "open" /\ asked' = {} /\ leaving' = FALSE /\ bye' = FALSE
    /\ swept' = FALSE

GivesUp(k) == terminate \/ retries[k] = 0

\* _connect over all brokers as one step: one of them is reached, or none.
AttemptSucceeds(k) ==
    /\ At(k, "attempt") /\ ~terminate /\ ~destroyed
    /\ OpenSocket
    /\ Goto(k, "launch")
    /\ UNCHANGED <<client, locks, todo, snap, retries, loop, loopStop, calls,
                   closer>>

AttemptFails(k) ==
    /\ At(k, "attempt") /\ ~terminate
    /\ sock' = IF destroyed THEN sock ELSE "none"
    /\ asked' = IF destroyed THEN asked ELSE {}
    /\ leaving' = (leaving /\ destroyed) /\ bye' = (bye /\ destroyed)
    /\ Goto(k, "delay")
    /\ UNCHANGED <<client, locks, todo, snap, retries, loop, loopStop, calls,
                   opens, ghost>>

AttemptStops(k) ==
    /\ At(k, "attempt") /\ terminate
    /\ Goto(k, "launch")
    /\ UNCHANGED <<client, locks, todo, snap, retries, paho, calls, opens, ghost>>

\* The test of the loop, then the wait of retry_delay.  With the retries used
\* up the loop ends and the event loop is launched all the same.
Delay(k) ==
    /\ At(k, "delay")
    /\ \/ GivesUp(k) /\ Goto(k, "launch") /\ UNCHANGED retries
       \/ /\ ~GivesUp(k)
          /\ retries' = [retries EXCEPT ![k] = IF @ = Forever THEN @ ELSE @ - 1]
          /\ Goto(k, IF destroyed THEN "done" ELSE "attempt")
    /\ UNCHANGED <<client, locks, todo, snap, paho, calls, opens, ghost>>

Launch(k) ==
    /\ At(k, "launch")
    /\ retries' = [retries EXCEPT ![k] = 0]
    /\ loop' = IF ~terminate /\ ~destroyed /\ loop = "off" THEN "starting" ELSE loop
    /\ Goto(k, "done")
    /\ UNCHANGED <<client, locks, todo, snap, sock, asked, leaving, bye,
                   loopStop, calls, opens, ghost>>
-----------------------------------------------------------------------------
(* paho's network thread: _thread_main, loop_forever and the callbacks *)

Network(stage) == loop = stage /\ UNCHANGED <<client, locks, todo, snap, retries,
                                             calls>>

\* _thread_main resets the flag that loop_stop may have set already.
NetStart ==
    /\ Network("starting")
    /\ loop' = "running" /\ loopStop' = FALSE
    /\ UNCHANGED <<pc, sock, asked, leaving, bye, opens, ghost>>

\* CONNACK: on_connect is called whatever its return code; a code other than 0
\* makes loop_read close the connection (NetDrop).  The user data is None after
\* destroy(), which ends the new thread at once.
NetConnack ==
    /\ Network("running")
    /\ sock = "open"
    /\ Unstarted(Ups) # {}
    /\ Goto(NewThread(Ups), IF destroyed THEN "done" ELSE "upLock")
    /\ \/ sock' = "up" /\ leaving' = FALSE
       \/ sock' = "refused" /\ UNCHANGED leaving
    /\ UNCHANGED <<asked, bye, loop, loopStop, opens, ghost>>

\* The connection is closed, by a refusal, an error or a missing PINGRESP.
NetDrop ==
    /\ Network("running")
    /\ sock # "none"
    /\ sock' = "none" /\ asked' = {}
    /\ loop' = "dropping"
    /\ closer' = NoThread
    /\ UNCHANGED <<pc, leaving, bye, loopStop, opens, swept>>

\* _on_disconnect resets the pending acks and starts a thread; without user
\* data it raises, which ends the network thread.
NetReport ==
    /\ Network("dropping")
    /\ IF destroyed
       THEN loop' = "ended" /\ UNCHANGED pc
       ELSE /\ Free(ackLock)
            /\ loop' = "lost"
            /\ Unstarted(Downs) # {}
            /\ Goto(NewThread(Downs), IF leaving THEN "downClean" ELSE "downLost")
    /\ UNCHANGED <<sock, asked, leaving, bye, loopStop, opens, ghost>>

\* The queued DISCONNECT is sent.
NetBye ==
    /\ Network("running")
    /\ bye /\ sock # "none"
    /\ IF destroyed
       THEN loop' = "ended" /\ UNCHANGED <<pc, sock, asked>>
       ELSE /\ Free(ackLock)
            /\ Unstarted(Downs) # {}
            /\ Goto(NewThread(Downs), "downClean")
            /\ sock' = "none" /\ asked' = {}
            /\ UNCHANGED loop
    /\ bye' = FALSE
    /\ UNCHANGED <<leaving, loopStop, opens, ghost>>

\* loop_forever: told to stop with nothing left to send, without a socket, or
\* after the second's sleep.
NetStop ==
    /\ Network("running")
    /\ loopStop /\ ~bye
    /\ loop' = "ended"
    /\ UNCHANGED <<pc, sock, asked, leaving, bye, loopStop, opens, ghost>>

NetIdle ==
    /\ Network("running")
    /\ sock = "none"
    /\ loop' = IF leaving \/ loopStop THEN "ended" ELSE "lost"
    /\ UNCHANGED <<pc, sock, asked, leaving, bye, loopStop, opens, ghost>>


NetLostEnd ==
    /\ Network("lost")
    /\ leaving \/ loopStop
    /\ loop' = "ended"
    /\ UNCHANGED <<pc, sock, asked, leaving, bye, loopStop, opens, ghost>>

NetReopen ==
    /\ Network("lost")
    /\ ~leaving /\ ~loopStop
    /\ OpenSocket
    /\ loop' = "running"
    /\ UNCHANGED <<pc, loopStop, closer>>
-----------------------------------------------------------------------------
AppStep(a) ==
    \/ ConnectCheck(a) \/ ThreadCheck(a) \/ StartThread(a) \/ JoinCheck(a)
    \/ ConnectJoin(a) \/ ConnectAwait(a)
    \/ Subscribe(a) \/ SubscribeCheck(a) \/ SubscribeSend(a) \/ SubscribeEnd(a)
    \/ Unsubscribe(a) \/ UnsubscribeCheck(a) \/ UnsubscribeSend(a)
    \/ UnsubscribeEnd(a)

AppCall(a) ==
    \/ CallConnect(a) \/ CallDisconnect(a) \/ CallDestroy(a)
    \/ CallSubscribe(a, "subWait") \/ CallSubscribe(a, "unsubWait")

LeaveStep(t) ==
    \/ SweepStart(t) \/ SweepRaise(t) \/ SweepTopic(t)
    \/ SweepAck(t) \/ SweepEnd(t) \/ LoopStop(t) \/ LoopJoin(t)
    \/ ClientDisconnect(t) \/ ThreadTest(t) \/ ThreadJoin(t) \/ LeaveAwait(t)

UpStep(u) == UpLock(u) \/ UpSubs(u) \/ UpRenew(u) \/ UpEnd(u)

DownStep(d) == DownLock(d) \/ Restart(d)

ConnStep(k) ==
    \/ ConnClear(k) \/ ConnCheck(k) \/ BrokerWaitEnds(k) \/ AttemptSucceeds(k)
    \/ AttemptFails(k) \/ AttemptStops(k) \/ Delay(k) \/ Launch(k)

\* The waits that need not end.
WaitStep == \/ \E t \in Leavers : PoolDone(t)
            \/ \E a \in Apps : Release(a)
            \/ \E k \in Conns : BrokersFound(k)

\* What the network thread does by itself; NetConnack and NetDrop are the
\* broker's and the network's choice.
NetStep == \/ NetStart \/ NetReport \/ NetBye \/ NetStop \/ NetIdle \/ NetLostEnd
           \/ NetReopen

Next == \/ \E a \in Apps : AppCall(a) \/ AppStep(a)
        \/ \E t \in Leavers : LeaveStep(t)
        \/ \E u \in Ups : UpStep(u)
        \/ \E d \in Downs : DownStep(d)
        \/ \E k \in Conns : ConnStep(k)
        \/ WaitStep
        \/ NetConnack \/ NetDrop \/ NetStep

Spec == Init /\ [][Next]_vars

Fairness == /\ \A a \in Apps : WF_vars(AppStep(a) \/ LeaveStep(a))
            /\ \A d \in Downs : WF_vars(DownStep(d) \/ LeaveStep(d))
            /\ \A u \in Ups : WF_vars(UpStep(u))
            /\ \A k \in Conns : WF_vars(ConnStep(k))
            /\ WF_vars(NetStep)

FairSpec == Spec /\ Fairness
-----------------------------------------------------------------------------
(* Properties *)

\* A subscription is being made or undone.
InHand(topic) == \E a \in Apps : /\ pc[a] \in {"subCheck", "subSend", "unsubAck"}
                                 /\ topic \in todo[a]

\* The broker has been asked for every topic of _subscriptions once
\* _on_connect_run is through, whichever way subscribe, unsubscribe, a lost
\* connection and the renewal interleave; until _disconnect unsubscribes
\* (client.py:83-95, 829-866).
SubscriptionsRenewed ==
    (/\ connected /\ sock = "up" /\ ~swept /\ ~destroyed
     /\ \A u \in Ups : pc[u] \in {"idle", "done"})
    => \A topic \in subs : topic \in asked \/ InHand(topic)

\* A disconnect() or destroy() that returned, and that no lost connection and no
\* connect() came in the way of, leaves no socket and no network thread behind,
\* and none comes back by itself whatever threads of earlier connections are
\* still about (client.py:568-624).
QuietAfterDisconnect ==
    (closer # NoThread /\ pc[closer] \in {"idle", "release"})
    => sock = "none" /\ loop = "off"

\* Who is blocked on which lock.
WantsConnLock(t) == \/ pc[t] \in {"subCheck", "unsubCheck"}
                    \/ At(t, "sweep") /\ ~Resized(t) /\ todo[t] # {}
WantsAckLock(t) == pc[t] \in {"subSend", "unsubSend", "subAck", "unsubAck", "upRenew"}

\* _on_connect_run holds _connected_lock and waits for one of the two locks that
\* subscribe() and _disconnect() hold while they read the property connected.
LockCycle ==
    connLock # NoThread /\
    \/ /\ At(connLock, "upSubs") /\ subsLock # NoThread
       /\ \/ WantsConnLock(subsLock)
          \/ WantsAckLock(subsLock) /\ ackLock # NoThread /\ WantsConnLock(ackLock)
    \/ /\ WantsAckLock(connLock) /\ ackLock # NoThread
       /\ WantsConnLock(ackLock)

\* A connect thread cleared _thread_terminate, or paho's thread cleared its own
\* flag, after somebody had set it and begun to join.
TerminateForgotten == \E t \in Leavers : At(t, "threadJoin") /\ ~terminate
StopForgotten == \E t \in Leavers : At(t, "loopJoin") /\ ~loopStop
\* connect() joins a connect thread without an end of retries: its own, or that
\* of a reconnection.
JoinsEndless == \E a \in Apps : /\ At(a, "connectJoin") /\ thread # NoThread
                                /\ retries[thread] = Forever
\* It joins one that waits for brokers in the configuration.
JoinsBrokerless == \E a \in Apps : /\ At(a, "connectJoin") /\ thread # NoThread
                                   /\ At(thread, "brokerWait")
\* disconnect() or destroy() waits for the service manager or the thread pool.
WaitsForPool == \E a \in Apps : pc[a] \in {"poolWait", "release"}

=============================================================================
