--------------------------- MODULE CallbackManager ---------------------------
(***************************************************************************)
(* The registry of message callbacks, dxlclient/_callback_manager.py.        *)
(*                                                                          *)
(* add_callback and remove_callback work under the manager's lock on a copy   *)
(* of callbacks_by_channel and publish it by one assignment; fire_message     *)
(* takes no lock: it reads the map once, and wildcarding_enabled later.  A    *)
(* pool worker fires one message after another on Topic while Registrars add  *)
(* and remove callbacks.  A channel without callbacks is not a key of the     *)
(* dictionary; here it has the empty list.                                    *)
(***************************************************************************)
EXTENDS Wildcards, SequencesExt

CONSTANTS
    Registrars,  \* threads that add and remove callbacks
    NoThread,    \* the holder of the free lock
    Callbacks,
    Topic,       \* destination_topic of the messages
    Channels     \* channels callbacks are registered for

ASSUME RegistryAssumption ==
    /\ NoThread \notin Registrars
    /\ Topic \in Seq(Levels) \ {<<>>, <<"">>}
    /\ Channels \subseteq Seq(Levels) \ {<<>>}

EveryChannel == <<"">>  \* the channel "" of callbacks for all messages

VARIABLES
    callbacks_by_channel,
    wildcarding_enabled,
    lock,       \* the thread inside add_callback or remove_callback
    pc,         \* where each registrar is
    op,         \* its channel and callback
    copy,       \* its copy of the map
    stage,      \* how far fire_message is
    snapshot,   \* the map fire_message read
    todo,       \* channels it has yet to visit, the current one first
    pos,        \* position in the current channel's list
    delivered,  \* history: how often this message reached each registration
    steady,     \* history: registered when fire_message began, and no removal since
    wanted      \* history: the registrations that completed calls ask for

registry == <<callbacks_by_channel, wildcarding_enabled, lock, pc, op, copy, wanted>>
fire == <<stage, snapshot, todo, pos, delivered>>
vars == <<registry, fire, steady>>

Registrations == Channels \X Callbacks
Lists == [Channels -> Seq(Callbacks)]

\* The registrations a map holds.
Registered(map) == {p \in Registrations : Contains(map[p[1]], p[2])}

AnyWildcard(map) == \E c \in Channels : HasWildcard(c) /\ map[c] # <<>>

TypeOK ==
    /\ callbacks_by_channel \in Lists
    /\ wildcarding_enabled \in BOOLEAN
    /\ lock \in Registrars \cup {NoThread}
    /\ pc \in [Registrars -> {"idle", "adding", "rescanning", "removing"}]
    /\ op \in [Registrars -> Registrations \cup {<<>>}]
    /\ copy \in [Registrars -> Lists]
    /\ stage \in {"idle", "direct", "wildcards", "done"}
    /\ snapshot \in Lists
    /\ todo \in Seq(Seq(Levels))
    /\ pos \in Nat \ {0}
    /\ delivered \in [Registrations -> Nat]
    /\ steady \subseteq Registrations
    /\ wanted \subseteq Registrations

NoCallbacks == [c \in Channels |-> <<>>]

Init ==
    /\ callbacks_by_channel = NoCallbacks
    /\ wildcarding_enabled = FALSE
    /\ lock = NoThread
    /\ pc = [r \in Registrars |-> "idle"]
    /\ op = [r \in Registrars |-> <<>>]
    /\ copy = [r \in Registrars |-> NoCallbacks]
    /\ stage = "idle"
    /\ snapshot = NoCallbacks
    /\ todo = <<>>
    /\ pos = 1
    /\ delivered = [p \in Registrations |-> 0]
    /\ steady = {}
    /\ wanted = {}

-----------------------------------------------------------------------------
\* Bug: no lock.
Acquire_NoLock(r) == UNCHANGED lock

Acquire(r) == lock = NoThread /\ lock' = r

\* Bug: a callback is appended again when it is there already.
Added_Twice(map, c, k) == [map EXCEPT ![c] = Append(@, k)]

\* The copy with the callback in it, once.
Added(map, c, k) == [map EXCEPT ![c] = IF Contains(@, k) THEN @ ELSE Append(@, k)]

\* list.remove: the lists have no duplicates, there is one place to choose.
Without(list, k) == RemoveAt(list, CHOOSE j \in 1 .. Len(list) : list[j] = k)

Removed(map, c, k) == [map EXCEPT ![c] = IF Contains(@, k) THEN Without(@, k) ELSE @]

\* add_callback enters, sets the flag and changes its copy.
AddBegin(r, c, k) ==
    /\ pc[r] = "idle"
    /\ Acquire(r)
    /\ wildcarding_enabled' = (wildcarding_enabled \/ HasWildcard(c))
    /\ op' = [op EXCEPT ![r] = <<c, k>>]
    /\ copy' = [copy EXCEPT ![r] = Added(callbacks_by_channel, c, k)]
    /\ pc' = [pc EXCEPT ![r] = "adding"]
    /\ UNCHANGED <<callbacks_by_channel, wanted, fire, steady>>

\* remove_callback enters, changes its copy and, when wildcards are enabled,
\* clears the flag before it looks for one that is left.
RemoveBegin(r, c, k) ==
    /\ pc[r] = "idle"
    /\ Acquire(r)
    /\ op' = [op EXCEPT ![r] = <<c, k>>]
    /\ copy' = [copy EXCEPT ![r] = Removed(callbacks_by_channel, c, k)]
    /\ wildcarding_enabled' = FALSE
    /\ pc' = [pc EXCEPT ![r] = IF wildcarding_enabled THEN "rescanning" ELSE "removing"]
    /\ steady' = steady \ {<<c, k>>}
    /\ UNCHANGED <<callbacks_by_channel, wanted, fire>>

\* Bug: the flag is cleared and never set again.
Rescan_Never(r) ==
    /\ pc[r] = "rescanning"
    /\ pc' = [pc EXCEPT ![r] = "removing"]
    /\ UNCHANGED <<callbacks_by_channel, wildcarding_enabled, lock, op, copy, wanted, fire,
                   steady>>

\* The flag is set again when a wildcard channel is among the copy's keys.
Rescan(r) ==
    /\ pc[r] = "rescanning"
    /\ wildcarding_enabled' = AnyWildcard(copy[r])
    /\ pc' = [pc EXCEPT ![r] = "removing"]
    /\ UNCHANGED <<callbacks_by_channel, lock, op, copy, wanted, fire, steady>>

\* Bug: the map's lists are changed in place, under the reader's feet.
Publish_InPlace(r) ==
    /\ pc[r] \in {"adding", "removing"}
    /\ callbacks_by_channel' = copy[r]
    /\ snapshot' = IF snapshot = callbacks_by_channel THEN copy[r] ELSE snapshot
    /\ wanted' = IF pc[r] = "adding" THEN wanted \cup {op[r]} ELSE wanted \ {op[r]}
    /\ lock' = NoThread
    /\ pc' = [pc EXCEPT ![r] = "idle"]
    /\ op' = [op EXCEPT ![r] = <<>>]
    /\ copy' = [copy EXCEPT ![r] = NoCallbacks]
    /\ UNCHANGED <<wildcarding_enabled, stage, todo, pos, delivered, steady>>

\* The copy becomes the map, and the lock is released.
Publish(r) ==
    /\ pc[r] \in {"adding", "removing"}
    /\ callbacks_by_channel' = copy[r]
    /\ wanted' = IF pc[r] = "adding" THEN wanted \cup {op[r]} ELSE wanted \ {op[r]}
    /\ lock' = NoThread
    /\ pc' = [pc EXCEPT ![r] = "idle"]
    /\ op' = [op EXCEPT ![r] = <<>>]
    /\ copy' = [copy EXCEPT ![r] = NoCallbacks]
    /\ UNCHANGED <<wildcarding_enabled, fire, steady>>

-----------------------------------------------------------------------------
\* fire_message reads the map: first the callbacks of every channel (""), then
\* those of the topic.
FireBegin ==
    /\ stage = "idle"
    /\ stage' = "direct"
    /\ snapshot' = callbacks_by_channel
    /\ todo' = <<EveryChannel, Topic>>
    /\ pos' = 1
    /\ steady' = Registered(callbacks_by_channel)
                     \ {op[r] : r \in {q \in Registrars : pc[q] \in {"rescanning", "removing"}}}
    /\ UNCHANGED <<registry, delivered>>

Current == IF Head(todo) \in Channels THEN snapshot[Head(todo)] ELSE <<>>

\* handle_fire of one callback.
FireNext ==
    /\ todo # <<>>
    /\ pos <= Len(Current)
    /\ delivered' = [delivered EXCEPT ![<<Head(todo), Current[pos]>>] = @ + 1]
    /\ pos' = pos + 1
    /\ UNCHANGED <<registry, stage, snapshot, todo, steady>>

\* On to the next channel: "" and the topic, or the next wildcard up.
NextChannel ==
    /\ todo # <<>>
    /\ pos > Len(Current)
    /\ todo' = IF stage = "wildcards" THEN WildcardsAbove(Head(todo)) ELSE Tail(todo)
    /\ pos' = 1
    /\ UNCHANGED <<registry, stage, snapshot, delivered, steady>>

\* wildcarding_enabled is read now, not with the map.
ReadFlag ==
    /\ stage = "direct"
    /\ todo = <<>>
    /\ IF wildcarding_enabled
         THEN stage' = "wildcards" /\ todo' = WildcardsAbove(Topic)
         ELSE stage' = "done" /\ UNCHANGED todo
    /\ UNCHANGED <<registry, snapshot, pos, delivered, steady>>

WildcardsDone ==
    /\ stage = "wildcards"
    /\ todo = <<>>
    /\ stage' = "done"
    /\ UNCHANGED <<registry, snapshot, todo, pos, delivered, steady>>

FireReset ==
    /\ stage' = "idle"
    /\ snapshot' = NoCallbacks
    /\ todo' = <<>>
    /\ pos' = 1
    /\ delivered' = [p \in Registrations |-> 0]
    /\ steady' = {}
    /\ UNCHANGED registry

\* fire_message returns to the worker, which takes its next message.
FireEnd == stage = "done" /\ FireReset

\* A callback raises: the exception leaves fire_message at once and is logged.
FireRaises ==
    /\ todo # <<>>
    /\ pos <= Len(Current)
    /\ FireReset

Next ==
    \/ \E r \in Registrars, c \in Channels, k \in Callbacks :
           AddBegin(r, c, k) \/ RemoveBegin(r, c, k)
    \/ \E r \in Registrars : Rescan(r) \/ Publish(r)
    \/ FireBegin \/ FireNext \/ NextChannel \/ ReadFlag \/ WildcardsDone
    \/ FireEnd \/ FireRaises

Spec == Init /\ [][Next]_vars

-----------------------------------------------------------------------------
\* Whenever no call is changing the registry, wildcarding_enabled says exactly
\* whether some wildcard channel has a callback: add_callback only ever raises
\* it and remove_callback works it out anew.
FlagExact == lock = NoThread => (wildcarding_enabled <=> AnyWildcard(callbacks_by_channel))

\* Concurrent add_callback and remove_callback calls never undo one another,
\* although each publishes a whole new map: the map holds what the completed
\* calls ask for.
NoUpdateLost == Registered(callbacks_by_channel) = wanted

\* A callback of the topic or of all channels that is registered when
\* fire_message starts and that nobody removes receives the message, whatever
\* is added and removed around it (unless a callback before it raises).
SteadyDirectDelivered ==
    stage = "done" =>
        \A p \in steady : p[1] \in {EveryChannel, Topic} => delivered[p] > 0

\* No registration receives the same message twice, even one that is removed
\* and added again while fire_message runs.
DeliveredOnce == \A p \in Registrations : delivered[p] <= 1
=============================================================================
