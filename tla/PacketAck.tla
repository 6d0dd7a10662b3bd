------------------------------ MODULE PacketAck ------------------------------
(***************************************************************************)
(* Waiting for SUBACK and UNSUBACK packets: _wait_packet_acked,            *)
(* _on_packet_ack and _reset_packets_awaiting_ack of dxlclient/client.py.   *)
(*                                                                          *)
(* Lockers (subscribe, unsubscribe and the resubscription of a connect)     *)
(* hold _subscriptions_lock while they wait; a Leaver (_disconnect) does    *)
(* not, so that two threads can wait at once.  Each sends its packet and    *)
(* registers its identifier in one critical section of                      *)
(* _packets_awaiting_ack_condition.  The broker may lose an ack.            *)
(***************************************************************************)
EXTENDS Integers

CONSTANTS
    Lockers,   \* threads that wait under _subscriptions_lock
    Leavers,   \* threads that wait without it
    NoThread,  \* the holder of a free lock
    MaxWait,   \* _MAX_PACKET_ACK_WAIT, in ticks
    MaxMid     \* bound: packets ever sent

Threads == Lockers \cup Leavers

ASSUME AckAssumption ==
    /\ NoThread \notin Threads
    /\ MaxWait \in Nat \ {0}
    /\ MaxMid \in Nat

VARIABLES
    packets_awaiting_ack,
    pc,       \* where each thread is
    mid,      \* the packet it waits for, 0 before its first
    left,     \* ticks left of its condition.wait
    holder,   \* who holds _subscriptions_lock
    lastMid,  \* paho's packet identifiers go up from here
    acks,     \* acks on their way
    acked,    \* history: packets whose ack was handled
    dropped   \* history: packets that awaited an ack at a disconnect

vars == <<packets_awaiting_ack, pc, mid, left, holder, lastMid, acks, acked,
          dropped>>

Mids == 1 .. MaxMid

TypeOK ==
    /\ packets_awaiting_ack \subseteq Mids
    /\ pc \in [Threads -> {"idle", "waiting", "woken", "returned", "raised"}]
    /\ mid \in [Threads -> 0 .. MaxMid]
    /\ left \in [Threads -> 0 .. MaxWait]
    /\ holder \in Lockers \cup {NoThread}
    /\ lastMid \in 0 .. MaxMid
    /\ acks \subseteq Mids
    /\ acked \subseteq Mids
    /\ dropped \subseteq Mids

Init ==
    /\ packets_awaiting_ack = {}
    /\ pc = [t \in Threads |-> "idle"]
    /\ mid = [t \in Threads |-> 0]
    /\ left = [t \in Threads |-> 0]
    /\ holder = NoThread
    /\ lastMid = 0
    /\ acks = {}
    /\ acked = {}
    /\ dropped = {}

\* A locker takes _subscriptions_lock for the whole operation.
Lock(t) == IF t \in Lockers THEN holder = NoThread /\ holder' = t ELSE UNCHANGED holder

Unlock(t) == holder' = IF t \in Lockers THEN NoThread ELSE holder

\* The packet is sent with MQTT_ERR_SUCCESS, its identifier is registered and
\* the thread goes to sleep.  The ack comes later, or never.  (With another
\* result nothing was sent, nothing is registered and there is no wait.)
SendAndWait(t) ==
    /\ pc[t] = "idle"
    /\ Lock(t)
    /\ lastMid < MaxMid
    /\ lastMid' = lastMid + 1
    /\ mid' = [mid EXCEPT ![t] = lastMid']
    /\ packets_awaiting_ack' = packets_awaiting_ack \cup {lastMid'}
    /\ acks' \in {acks, acks \cup {lastMid'}}
    /\ pc' = [pc EXCEPT ![t] = "waiting"]
    /\ left' = [left EXCEPT ![t] = MaxWait]
    /\ UNCHANGED <<acked, dropped>>

\* Bug: wait without a timeout.
WaitExpires_Never(t) == FALSE /\ UNCHANGED vars

\* The condition's timeout expires.
WaitExpires(t) ==
    /\ pc[t] = "waiting"
    /\ left[t] = 0
    /\ pc' = [pc EXCEPT ![t] = "woken"]
    /\ UNCHANGED <<packets_awaiting_ack, mid, left, holder, lastMid, acks,
                   acked, dropped>>

\* Lock taken again, the identifier is gone: the loop ends.
Acknowledged(t) ==
    /\ pc[t] = "woken"
    /\ mid[t] \notin packets_awaiting_ack
    /\ pc' = [pc EXCEPT ![t] = "returned"]
    /\ UNCHANGED <<packets_awaiting_ack, mid, left, holder, lastMid, acks,
                   acked, dropped>>

\* Bug: the wait ends without an exception when the time is over.
GiveUp_Silently(t) ==
    /\ pc[t] = "woken"
    /\ mid[t] \in packets_awaiting_ack
    /\ packets_awaiting_ack' = packets_awaiting_ack \ {mid[t]}
    /\ pc' = [pc EXCEPT ![t] = "returned"]
    /\ UNCHANGED <<mid, left, holder, lastMid, acks, acked, dropped>>

\* Bug: no finally clause.
GiveUp_KeepsMid(t) ==
    /\ pc[t] = "woken"
    /\ mid[t] \in packets_awaiting_ack
    /\ pc' = [pc EXCEPT ![t] = "raised"]
    /\ UNCHANGED <<packets_awaiting_ack, mid, left, holder, lastMid, acks, acked,
                   dropped>>

\* Lock taken again with the identifier still there: WaitTimeoutException,
\* whatever woke the thread; the finally clause removes the identifier.
GiveUp(t) ==
    /\ pc[t] = "woken"
    /\ mid[t] \in packets_awaiting_ack
    /\ packets_awaiting_ack' = packets_awaiting_ack \ {mid[t]}
    /\ pc' = [pc EXCEPT ![t] = "raised"]
    /\ UNCHANGED <<mid, left, holder, lastMid, acks, acked, dropped>>

\* The operation ends; its caller may start another one.
Leave(t) ==
    /\ pc[t] \in {"returned", "raised"}
    /\ Unlock(t)
    /\ pc' = [pc EXCEPT ![t] = "idle"]
    /\ left' = [left EXCEPT ![t] = 0]
    /\ UNCHANGED <<packets_awaiting_ack, mid, lastMid, acks, acked, dropped>>

\* notify_all
NotifyAll ==
    pc' = [t \in Threads |-> IF pc[t] = "waiting" THEN "woken" ELSE pc[t]]

\* Bug: the ack is noted without waking anyone.
OnPacketAck_NoNotify(m) ==
    /\ m \in acks
    /\ acks' = acks \ {m}
    /\ acked' = acked \cup {m}
    /\ packets_awaiting_ack' = packets_awaiting_ack \ {m}
    /\ UNCHANGED <<pc, mid, left, holder, lastMid, dropped>>

\* _on_packet_ack, on the MQTT thread.
OnPacketAck(m) ==
    /\ m \in acks
    /\ acks' = acks \ {m}
    /\ acked' = acked \cup {m}
    /\ IF m \in packets_awaiting_ack
       THEN packets_awaiting_ack' = packets_awaiting_ack \ {m} /\ NotifyAll
       ELSE UNCHANGED <<packets_awaiting_ack, pc>>
    /\ UNCHANGED <<mid, left, holder, lastMid, dropped>>

\* The connection goes down: acks on their way are lost, and
\* _reset_packets_awaiting_ack lets every waiting thread go.
Reset ==
    /\ packets_awaiting_ack # {}
    /\ dropped' = dropped \cup packets_awaiting_ack
    /\ packets_awaiting_ack' = {}
    /\ acks' = {}
    /\ NotifyAll
    /\ UNCHANGED <<mid, left, holder, lastMid, acked>>

\* One unit of time passes for the sleeping threads.
Tick ==
    /\ \E t \in Threads : pc[t] = "waiting" /\ left[t] > 0
    /\ left' = [t \in Threads |->
                  IF pc[t] = "waiting" /\ left[t] > 0 THEN left[t] - 1 ELSE left[t]]
    /\ UNCHANGED <<packets_awaiting_ack, pc, mid, holder, lastMid, acks, acked,
                   dropped>>

ThreadStep(t) == WaitExpires(t) \/ Acknowledged(t) \/ GiveUp(t) \/ Leave(t)

Next ==
    \/ \E t \in Threads : SendAndWait(t) \/ ThreadStep(t)
    \/ \E m \in Mids : OnPacketAck(m)
    \/ Reset
    \/ Tick

Spec == Init /\ [][Next]_vars

\* Threads run and time passes; an ack need not come.
FairSpec == Spec /\ WF_vars(Tick) /\ \A t \in Threads : WF_vars(ThreadStep(t))

-----------------------------------------------------------------------------
(* Properties *)

Waits(t) == pc[t] \in {"waiting", "woken"}

\* No thread sleeps once its packet is acknowledged or its connection is down,
\* although all wait on one condition (_on_packet_ack, _reset...).
SleeperAwaits ==
    \A t \in Threads : pc[t] = "waiting" => mid[t] \in packets_awaiting_ack

\* An identifier in the set belongs to a thread that waits for it: a timeout, a
\* late ack or a disconnect leaves none behind.
AwaitedIsOwned ==
    \A m \in packets_awaiting_ack : \E t \in Threads : Waits(t) /\ mid[t] = m

\* _wait_packet_acked returns normally only if the packet was acknowledged or
\* the connection was dropped while it waited.
ReturnMeansAcked ==
    \A t \in Threads : pc[t] = "returned" => mid[t] \in acked \cup dropped

\* "raise WaitTimeoutException: if the ack packet is not received before a
\* timeout is reached" (docstring of _wait_packet_acked).
RaiseMeansTimeout ==
    \A t \in Threads : pc[t] = "raised" => left[t] = 0

\* Every wait comes to an end, also when the ack is lost.
WaitEnds == \A t \in Threads : Waits(t) ~> ~ Waits(t)
=============================================================================
