----------------------------- MODULE BrokerChoice -----------------------------
(*
The connect thread of DxlClient (client.py, _connect_thread_main to
_loop_until_connected) with the choice of a broker (client_config.py,
_get_sorted_broker_list; broker.py, _connect_to_broker), beside an application
that replaces, writes and reads the list of brokers.

The brokers are checked once per connect thread; the attempts then go through
the sorted copy of the list, with a delay between them.  A broker that answered
an earlier check keeps that time when it misses a later one.

How a connect thread comes to be started and told to terminate is the business
of ClientConnection: here both happen at any time.
*)
EXTENDS BrokerConfig, Integers

CONSTANTS BrokerLists,    \* the lists that the application sets
          Sections,       \* the files there are at the beginning
          Addresses,      \* what there is to connect to, <<name, port>>
          MaxTime,        \* bound of response times
          Retries,        \* values of connect_retries, negative for no end
          Delay, DelayMax, Multiplier, RandomPercent, \* reconnect_* settings
          MaxChanges      \* bound of changes of the network and of the list

ASSUME BrokerChoiceAssumption ==
    /\ BrokerLists \subseteq Seq(Brokers) /\ Sections \subseteq Seq(Entries)
    /\ Retries \subseteq Int
    /\ MaxTime \in Nat /\ MaxChanges \in Nat
    /\ Delay \in Nat /\ DelayMax \in Nat /\ Multiplier \in Nat /\ RandomPercent \in Nat

VARIABLES
    brokers,    \* config.brokers: Broker objects
    section,    \* the Brokers section of the configuration and its file
    net,        \* what each address does: "down", "slow", "up"
    pc,         \* where the connect thread is
    terminate,  \* _thread_terminate
    unlimited,  \* connect_retries < 0
    retries,    \* retries
    delay,      \* retry_delay
    order,      \* the sorted list
    turn, place, \* what _connect tries next, see Address
    current,    \* _current_broker with the address it was reached at
    saved,      \* history: the list that was written last
    waited,     \* history: the last delay
    calm,       \* history: no change of the network since the check
    steady,     \* history: no change of the network since the attempt began
    changes     \* changes of the network and of the list so far

config == <<brokers, section, saved>>
loop == <<unlimited, retries, delay, waited>>
vars == <<config, loop, net, pc, terminate, order, turn, place, current, calm, steady, changes>>

NoBroker == <<>>

\* A Broker object; time 0 is a _response_time of None, via says
\* _response_from_ip_address, answered is history: it answered the last check.
Untested(b) == [broker |-> b, time |-> 0, via |-> FALSE, answered |-> FALSE]
Objects(list) == [i \in 1..Len(list) |-> Untested(list[i])]
Plain(objects) == [i \in 1..Len(objects) |-> objects[i].broker]

Host(o) == <<o.broker.host, o.broker.port>>
HasIp(o) == o.broker.ip # NoText
Ip(o) == <<o.broker.ip, o.broker.port>>

Does(address) == IF address \in Addresses THEN net[address] ELSE "down"
Answers(address) == Does(address) = "up"         \* within a second
Accepts(address) == Does(address) # "down"

Trying == pc \notin {"idle", "launched"}

Init ==
    /\ brokers = <<>>
    /\ section \in Sections
    /\ net \in [Addresses -> {"down", "up"}]
    /\ pc = "idle"
    /\ terminate = FALSE
    /\ unlimited = FALSE /\ retries = 0 /\ delay = 0 /\ waited = 0
    /\ order = <<>> /\ turn = "timed" /\ place = 1 /\ current = NoBroker
    /\ saved = <<>>
    /\ calm = FALSE /\ steady = FALSE
    /\ changes = 0
-----------------------------------------------------------------------------
(* The application and the network. *)

Change ==
    /\ changes < MaxChanges
    /\ changes' = changes + 1

\* config.brokers = ...
SetBrokers ==
    /\ Change
    /\ \E list \in BrokerLists : brokers' = Objects(list)
    /\ UNCHANGED <<section, saved, loop, net, pc, terminate, order, turn, place, current, calm, steady>>

\* DxlClientConfig.write.
Write ==
    /\ section' = UpdateModel(section, Plain(brokers))
    /\ saved' = Plain(brokers)
    /\ UNCHANGED <<brokers, loop, net, pc, terminate, order, turn, place, current, calm, steady, changes>>

\* create_dxl_config_from_file by a new program; a malformed section raises.
Load ==
    /\ pc = "idle"
    /\ Readable(section)
    /\ brokers' = Objects(ReadBrokers(section))
    /\ UNCHANGED <<section, saved, loop, net, pc, terminate, order, turn, place, current, calm, steady, changes>>

\* A broker stops, slows down or comes back.
NetChange ==
    /\ Change
    /\ \E a \in Addresses : \E s \in {"down", "slow", "up"} \ {net[a]} :
           net' = [net EXCEPT ![a] = s]
    /\ calm' = FALSE /\ steady' = FALSE
    /\ UNCHANGED <<config, loop, pc, terminate, order, turn, place, current>>
-----------------------------------------------------------------------------
(* The connect thread. *)

\* _connect_thread_main and the first lines of _loop_until_connected.
Begin(n) ==
    /\ terminate' = FALSE
    /\ unlimited' = (n < 0)
    /\ retries' = n
    /\ pc' = "list"

Connect(n) ==
    /\ \/ pc = "idle"
       \/ pc = "launched" /\ current = NoBroker
    /\ Begin(n)
    /\ UNCHANGED <<config, delay, waited, net, order, turn, place, current, calm, steady, changes>>

\* _on_disconnect_run with reconnect_when_disconnected.
Reconnect ==
    /\ pc = "launched" /\ current # NoBroker
    /\ current' = NoBroker
    /\ Begin(-1)
    /\ UNCHANGED <<config, delay, waited, net, order, turn, place, calm, steady, changes>>

\* _disconnect; from "launched" also _on_disconnect_run that does not reconnect.
Disconnect ==
    /\ pc # "idle" /\ ~terminate
    /\ IF Trying
       THEN terminate' = TRUE /\ UNCHANGED <<pc, current>>
       ELSE pc' = "idle" /\ current' = NoBroker /\ UNCHANGED terminate
    /\ UNCHANGED <<config, loop, net, order, turn, place, calm, steady, changes>>

\* The end of the thread and of what it knew.
EndThread(at) ==
    /\ pc' = at
    /\ unlimited' = FALSE /\ retries' = 0 /\ delay' = 0 /\ waited' = 0
    /\ order' = <<>> /\ turn' = "timed" /\ place' = 1
    /\ calm' = FALSE /\ steady' = FALSE
    /\ UNCHANGED <<config, net, terminate, current, changes>>

Quit ==
    /\ pc \in {"list", "begin", "try", "finish"}
    /\ terminate
    /\ EndThread("idle")

HaveBrokers ==
    /\ pc = "list"
    /\ ~terminate
    /\ brokers # <<>>
    /\ pc' = "check"
    /\ UNCHANGED <<config, loop, net, terminate, order, turn, place, current, calm, steady, changes>>

\* A broker that has answered a check, maybe at its IP address.
Reached(o, t, via) == [broker |-> o.broker, time |-> t, via |-> via, answered |-> TRUE]

\* _connect_to_broker that does not say that it was the host that answered.
Checked_StaleVia(o, t) ==
    IF Answers(Host(o)) THEN Reached(o, t, o.via)
    ELSE IF HasIp(o) /\ Answers(Ip(o))
         THEN Reached(o, t, TRUE)
         ELSE [o EXCEPT !.answered = FALSE]

\* _connect_to_broker: the host, else the IP address, else all is left as it was.
Checked(o, t) ==
    IF Answers(Host(o)) THEN Reached(o, t, FALSE)
    ELSE IF HasIp(o) /\ Answers(Ip(o))
         THEN Reached(o, t, TRUE)
         ELSE [o EXCEPT !.answered = FALSE]

\* _get_sorted_broker_list, up to the join of its threads.
Check ==
    /\ pc = "check"
    /\ \E t \in [1..Len(brokers) -> 1..MaxTime] :
           brokers' = [i \in 1..Len(brokers) |-> Checked(brokers[i], t[i])]
    /\ calm' = TRUE
    /\ pc' = "sort"
    /\ UNCHANGED <<section, saved, loop, net, terminate, order, turn, place, current, steady, changes>>

\* sorted with the key (time is None, time); equal keys keep their order.
Faster(o, p) == o.time # 0 /\ (p.time = 0 \/ o.time < p.time)
IsSorting(f, objects) ==
    \A j, k \in 1..Len(objects) :
        j < k => /\ f[j] # f[k]
                 /\ ~Faster(objects[f[k]], objects[f[j]])
                 /\ Faster(objects[f[j]], objects[f[k]]) \/ f[j] < f[k]

\* The list of the configuration is read again: it may be another one by now.
Sort ==
    /\ pc = "sort"
    /\ \E f \in [1..Len(brokers) -> 1..Len(brokers)] :
           /\ IsSorting(f, brokers)
           /\ order' = [k \in 1..Len(brokers) |-> brokers[f[k]]]
    /\ delay' = Delay
    /\ pc' = IF terminate THEN "finish" ELSE "begin"
    /\ UNCHANGED <<config, unlimited, retries, waited, net, terminate, turn, place, current,
                   calm, steady, changes>>

\* An attempt goes through the list twice: "timed" are the brokers with a time at
\* the address that gave it, then each one has its turn by "host" and by "ip".
Address(way, o) ==
    IF way = "ip" \/ (way = "timed" /\ o.via) THEN Ip(o) ELSE Host(o)

\* A second pass that forgets the IP addresses.
IsTried_HostsOnly(way, o) ==
    CASE way = "timed" -> o.time # 0
      [] way = "host"  -> TRUE
      [] way = "ip"    -> FALSE

IsTried(way, o) ==
    CASE way = "timed" -> o.time # 0
      [] way = "host"  -> TRUE
      [] way = "ip"    -> HasIp(o)

\* The next turn, past the end of the list after the last one.
Advance ==
    \/ /\ turn = "timed" /\ place < Len(order)
       /\ turn' = "timed" /\ place' = place + 1
    \/ /\ turn = "timed" /\ place = Len(order)
       /\ turn' = "host" /\ place' = 1
    \/ /\ turn = "host"
       /\ turn' = "ip" /\ place' = place
    \/ /\ turn = "ip"
       /\ turn' = "host" /\ place' = place + 1

\* An attempt that goes on where the last one ended.
BeginAttempt_GoesOn ==
    /\ pc = "begin" /\ ~terminate
    /\ current' = NoBroker /\ steady' = TRUE
    /\ pc' = "try"
    /\ UNCHANGED <<config, loop, net, terminate, order, turn, place, calm, changes>>

\* The first line of _connect.
BeginAttempt ==
    /\ pc = "begin"
    /\ ~terminate
    /\ current' = NoBroker
    /\ turn' = "timed" /\ place' = 1
    /\ steady' = TRUE
    /\ pc' = "try"
    /\ UNCHANGED <<config, loop, net, terminate, order, calm, changes>>

\* One turn: a call of self._client.connect, unless there is nothing to try.
Try ==
    /\ pc = "try"
    /\ ~terminate
    /\ place <= Len(order)
    /\ LET o == order[place] IN
       IF IsTried(turn, o) /\ Accepts(Address(turn, o))
       THEN /\ current' = [object |-> o, address |-> Address(turn, o)]
            /\ pc' = "finish"
            /\ UNCHANGED <<turn, place>>
       ELSE Advance /\ UNCHANGED <<current, pc>>
    /\ UNCHANGED <<config, loop, net, terminate, order, calm, steady, changes>>

\* All failed: the exception is counted and the loop tested.  With an empty list
\* nothing was tried and nothing raised.
Failed ==
    /\ pc = "try"
    /\ ~terminate
    /\ place > Len(order)
    /\ IF order = <<>>
       THEN pc' = "finish" /\ UNCHANGED retries
       ELSE /\ retries' = IF unlimited THEN retries ELSE retries - 1
            /\ pc' = IF unlimited \/ retries > 0 THEN "delay" ELSE "finish"
    /\ UNCHANGED <<config, unlimited, delay, waited, net, terminate, order, turn, place, current,
                   calm, steady, changes>>

\* A delay that is not capped.
Wait_Uncapped(extra) ==
    /\ waited' = delay + extra
    /\ delay' = Multiplier * waited'

\* Cap, random part, wait, back-off.
Wait(extra) ==
    /\ waited' = extra + (IF delay > DelayMax THEN DelayMax ELSE delay)
    /\ delay' = Multiplier * waited'

Back(extra) ==
    /\ pc = "delay"
    /\ extra <= (RandomPercent * (IF delay > DelayMax THEN DelayMax ELSE delay)) \div 100
    /\ Wait(extra)
    /\ pc' = "begin"
    /\ UNCHANGED <<config, unlimited, retries, net, terminate, order, turn, place, current,
                   calm, steady, changes>>

\* Whatever came of it, paho's loop is launched (and left alone here).
Launch ==
    /\ pc = "finish"
    /\ ~terminate
    /\ EndThread("launched")

Extras == 0..((RandomPercent * DelayMax) \div 100)

ThreadStep ==
    \/ Quit \/ HaveBrokers \/ Check \/ Sort \/ BeginAttempt \/ Try \/ Failed
    \/ (\E extra \in Extras : Back(extra)) \/ Launch

Next ==
    \/ SetBrokers \/ Write \/ Load \/ NetChange
    \/ (\E n \in Retries : Connect(n)) \/ Reconnect \/ Disconnect
    \/ ThreadStep

Spec == Init /\ [][Next]_vars

\* The connect thread is scheduled.
FairSpec == Spec /\ WF_vars(ThreadStep)
-----------------------------------------------------------------------------
ObjectSet == [broker : Brokers, time : 0..MaxTime, via : BOOLEAN, answered : BOOLEAN]

TypeOK ==
    /\ brokers \in Seq(ObjectSet) /\ order \in Seq(ObjectSet)
    /\ section \in Seq(Entries) /\ saved \in Seq(Brokers)
    /\ net \in [Addresses -> {"down", "slow", "up"}]
    /\ pc \in {"idle", "list", "check", "sort", "begin", "try", "delay", "finish", "launched"}
    /\ {terminate, unlimited, calm, steady} \subseteq BOOLEAN
    /\ retries \in Int
    /\ {delay, waited, changes} \subseteq Nat
    /\ turn \in {"timed", "host", "ip"} /\ place \in Nat \ {0}

\* The broker that is chosen is the fastest: no broker that answered the check is
\* passed over for one that took longer or gave no time, while the network stays
\* as it was (_get_sorted_broker_list, _connect).
FastestChosen ==
    (pc = "finish" /\ ~terminate /\ calm /\ current # NoBroker) =>
        \A i \in 1..Len(order) :
            order[i].answered =>
                current.object.time # 0 /\ current.object.time <= order[i].time

\* An attempt that fails has missed no address of a listed broker that would have
\* accepted the connection all along.
NoAddressMissed ==
    (pc = "delay" \/ (pc = "finish" /\ ~terminate /\ current = NoBroker)) /\ steady =>
        \A i \in 1..Len(order) :
            /\ ~Accepts(Host(order[i]))
            /\ HasIp(order[i]) => ~Accepts(Ip(order[i]))

\* Whatever stood in the file before, what was written is read back: the same
\* brokers with the same ports and addresses (client_config.py,
\* _update_broker_config_model and _get_brokers_from_list).
ConfigSurvives ==
    Storable(saved) /\ saved # <<>> =>
        LET read == ReadBrokers(section) IN
        /\ Readable(section)
        /\ {read[i] : i \in 1..Len(read)} = {saved[i] : i \in 1..Len(saved)}

\* However many attempts have failed, no delay is longer than the maximum and
\* its random part, and the next one does not outgrow them.
DelayBounded ==
    waited <= DelayMax + (RandomPercent * DelayMax) \div 100

\* A connect thread ends, unless it has been left without a broker that it knows
\* and can reach: it looks at its own copy of the list for as long as it tries.
ConnectEnds ==
    []<>(\/ ~Trying
         \/ \A i \in 1..Len(order) :
                /\ ~Accepts(Host(order[i]))
                /\ HasIp(order[i]) => ~Accepts(Ip(order[i]))
         \/ pc = "list" /\ brokers = <<>>)
=============================================================================
