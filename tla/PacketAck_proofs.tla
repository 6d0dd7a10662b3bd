-------------------------- MODULE PacketAck_proofs --------------------------
(***************************************************************************)
(* Waiting for acks is exact for any number of threads, packets and ticks. *)
(* The properties rest on packet identifiers being private to a thread     *)
(* (MidsPrivate) and on a woken thread finding its identifier gone only     *)
(* after an ack or a disconnect (GoneIsSettled).                           *)
(***************************************************************************)
EXTENDS PacketAck, TLAPS

\* Identifiers are handed out once.
MidsPrivate ==
    /\ \A t \in Threads : mid[t] <= lastMid
    /\ \A t \in Threads : Waits(t) => mid[t] > 0
    /\ \A t, u \in Threads : mid[t] = mid[u] /\ mid[t] > 0 => t = u
    /\ \A m \in packets_awaiting_ack : m <= lastMid

\* An identifier that is no longer awaited was acknowledged or dropped.
GoneIsSettled ==
    \A t \in Threads :
        Waits(t) => mid[t] \in packets_awaiting_ack \cup acked \cup dropped

IInv ==
    /\ TypeOK
    /\ MidsPrivate
    /\ GoneIsSettled
    /\ SleeperAwaits
    /\ AwaitedIsOwned
    /\ ReturnMeansAcked

-----------------------------------------------------------------------------

\* Nothing is awaited at first.
LEMMA InitInv == Init => IInv
BY AckAssumption
   DEF Init, IInv, TypeOK, MidsPrivate, GoneIsSettled, SleeperAwaits,
       AwaitedIsOwned, ReturnMeansAcked, Waits, Threads

\* Every step keeps the invariant.
LEMMA NextStep == ASSUME IInv, [Next]_vars PROVE IInv'
<1> USE AckAssumption
    DEF IInv, TypeOK, MidsPrivate, GoneIsSettled, SleeperAwaits, AwaitedIsOwned,
        ReturnMeansAcked, Waits, Mids
<1>1. ASSUME NEW t \in Threads, SendAndWait(t)
      PROVE  IInv'
  BY <1>1 DEF SendAndWait, Lock
<1>2. ASSUME NEW t \in Threads, WaitExpires(t)
      PROVE  IInv'
  BY <1>2 DEF WaitExpires
<1>3. ASSUME NEW t \in Threads, Acknowledged(t)
      PROVE  IInv'
  BY <1>3 DEF Acknowledged
<1>4. ASSUME NEW t \in Threads, GiveUp(t)
      PROVE  IInv'
  BY <1>4 DEF GiveUp
<1>5. ASSUME NEW t \in Threads, Leave(t)
      PROVE  IInv'
  BY <1>5 DEF Leave, Unlock
<1>6. ASSUME NEW m \in Mids, OnPacketAck(m)
      PROVE  IInv'
  <2>1. CASE m \in packets_awaiting_ack
    <3>1. TypeOK'
      <4> HIDE DEF MidsPrivate, GoneIsSettled, SleeperAwaits, AwaitedIsOwned,
                   ReturnMeansAcked
      <4> QED
        BY <1>6, <2>1 DEF OnPacketAck, NotifyAll
    <3>2. MidsPrivate'
      <4>1. /\ UNCHANGED <<mid, lastMid>>
            /\ packets_awaiting_ack' \subseteq packets_awaiting_ack
            /\ \A t \in Threads : Waits(t)' => Waits(t)
        <5> HIDE DEF MidsPrivate, GoneIsSettled, SleeperAwaits, AwaitedIsOwned,
                     ReturnMeansAcked
        <5> QED
          BY <1>6, <2>1 DEF OnPacketAck, NotifyAll
      <4> HIDE DEF GoneIsSettled, SleeperAwaits, AwaitedIsOwned, ReturnMeansAcked,
                   Waits
      <4> QED
        BY <4>1
    <3>3. SleeperAwaits'
      BY <1>6, <2>1 DEF OnPacketAck, NotifyAll
    <3>4. AwaitedIsOwned'
      <4> SUFFICES ASSUME NEW n \in packets_awaiting_ack'
                   PROVE  \E t \in Threads : Waits(t)' /\ mid'[t] = n
        OBVIOUS
      <4>1. PICK t \in Threads : Waits(t) /\ mid[t] = n
        BY <1>6, <2>1 DEF OnPacketAck
      <4> QED
        BY <4>1, <1>6, <2>1 DEF OnPacketAck, NotifyAll
    <3>5. GoneIsSettled' /\ ReturnMeansAcked'
      BY <1>6, <2>1 DEF OnPacketAck, NotifyAll
    <3> QED
      BY <3>1, <3>2, <3>3, <3>4, <3>5
  <2>2. CASE m \notin packets_awaiting_ack
    BY <1>6, <2>2 DEF OnPacketAck
  <2> QED
    BY <2>1, <2>2
<1>7. CASE Reset
  BY <1>7 DEF Reset, NotifyAll
<1>8. CASE Tick
  BY <1>8 DEF Tick
<1>9. CASE UNCHANGED vars
  BY <1>9 DEF vars
<1> QED
  BY <1>1, <1>2, <1>3, <1>4, <1>5, <1>6, <1>7, <1>8, <1>9 DEF Next, ThreadStep

\* The invariant holds in every reachable state.
LEMMA Invariance == Spec => []IInv
<1>1. IInv /\ [Next]_vars => IInv'
  BY NextStep
<1> QED
  BY InitInv, <1>1, PTL DEF Spec

-----------------------------------------------------------------------------

\* Type correctness.
THEOREM TypeCorrect == Spec => []TypeOK
BY Invariance, PTL DEF IInv

\* No thread sleeps on after its ack or after the connection went down.
THEOREM NoAckLost == Spec => []SleeperAwaits
BY Invariance, PTL DEF IInv

\* No identifier stays behind in the set.
THEOREM NoMidLeft == Spec => []AwaitedIsOwned
BY Invariance, PTL DEF IInv

\* subscribe and unsubscribe return normally only after an ack or a disconnect.
THEOREM ReturnIsSettled == Spec => []ReturnMeansAcked
BY Invariance, PTL DEF IInv
=============================================================================
