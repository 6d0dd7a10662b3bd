--------------------------- MODULE RequestManager ---------------------------
(***************************************************************************)
(* Request/response correlation: dxlclient/_request_manager.py.            *)
(*                                                                         *)
(* Application threads (Callers) perform sync_request and async_request;   *)
(* threads of the incoming message pool (Workers) run on_response.  An     *)
(* action is one critical section of sync_wait_message_lock or of          *)
(* current_request_message_lock, or one operation on the unlocked          *)
(* callback_map.  A response is known by the identifier of its request,    *)
(* the key of every table here, so the tables are sets of requests.        *)
(*                                                                         *)
(* Use that is assumed: a Request object is used by one call at a time; it *)
(* may be used again (a retry, same message_id) once that call returned.   *)
(***************************************************************************)
EXTENDS Integers

CONSTANTS
    Callers,          \* application threads
    Workers,          \* threads of the incoming message pool
    Requests,         \* identifiers of Request objects
    NoRequest,        \* "no request", not a request
    Topic,            \* a destination topic, never equal to an identifier
    Wait,             \* the timeout of a synchronous request, in ticks
    MaxCopies,        \* bound: responses one published request gives rise to
    MaxInbox,         \* bound: undelivered responses, by identifier
    MaxRegistrations  \* bound: callbacks registered, by identifier

ASSUME RequestAssumption == NoRequest \notin Requests /\ Topic \notin Requests
ASSUME BoundAssumption ==
    /\ Wait \in Nat \ {0}
    /\ MaxCopies \in Nat
    /\ MaxInbox \in [Requests -> Nat]
    /\ MaxRegistrations \in [Requests -> Nat]

VARIABLES
    sync_wait_message_ids,        \* identifiers a synchronous call waits for
    sync_wait_message_responses,  \* identifiers whose response is stored
    callback_map,                 \* the callback registered for each identifier
    current_request_message_ids,  \* identifiers of requests "in process"
    pc,          \* where each caller is
    req,         \* the request of its call
    hasCallback, \* was response_callback given to its async_request?
    elapsed,     \* ticks since wait_start, counted up to MaxElapsed
    left,        \* ticks left of its condition.wait(wait_seconds)
    wpc,         \* where each worker is in on_response
    wreq,        \* the request_message_id it handles
    held,        \* the response_callback it has read, NoCallback when none
    inbox,       \* responses on their way to on_response, by identifier
    registered,  \* history: callbacks registered, by identifier
    invoked      \* history: how often each callback was invoked

tables  == <<sync_wait_message_ids, sync_wait_message_responses>>
callers == <<pc, req, hasCallback>>
timers  == <<elapsed, left>>
workers == <<wpc, wreq, held>>
history == <<registered, invoked>>
vars == <<tables, callback_map, current_request_message_ids, callers, timers,
          workers, inbox, history>>

\* Bound: a wait is not told from one that is longer.
MaxElapsed == 2 * Wait - 1

\* The callbacks of an identifier are numbered in the order of registration.
NoCallback == 0
Callbacks(r) == 1 .. MaxRegistrations[r]

SyncPC  == {"sync_add", "sync_send", "sync_enter", "waiting", "woken",
            "sync_remove", "sync_unregister"}
AsyncPC == {"async_add", "async_send", "async_unregister", "async_remove"}
WorkerPC == {"idle", "sync", "check", "get", "del", "callback", "finally"}

TypeOK ==
    /\ sync_wait_message_ids \subseteq Requests
    /\ sync_wait_message_responses \subseteq Requests
    /\ callback_map \in [Requests -> Nat]
    /\ current_request_message_ids \subseteq Requests
    /\ pc \in [Callers -> SyncPC \cup AsyncPC \cup {"idle"}]
    /\ req \in [Callers -> Requests \cup {NoRequest}]
    /\ hasCallback \in [Callers -> BOOLEAN]
    /\ elapsed \in [Callers -> 0 .. MaxElapsed]
    /\ left \in [Callers -> 0 .. Wait]
    /\ wpc \in [Workers -> WorkerPC]
    /\ wreq \in [Workers -> Requests \cup {NoRequest}]
    /\ held \in [Workers -> Nat]
    /\ inbox \in [Requests -> Nat]
    /\ registered \in [Requests -> Nat]
    /\ invoked = [r \in Requests |-> invoked[r]]
    /\ \A r \in Requests : /\ callback_map[r] \in {NoCallback} \cup Callbacks(r)
                           /\ inbox[r] <= MaxInbox[r]
                           /\ registered[r] <= MaxRegistrations[r]
                           /\ invoked[r] \in [Callbacks(r) -> Nat]

Init ==
    /\ sync_wait_message_ids = {}
    /\ sync_wait_message_responses = {}
    /\ callback_map = [r \in Requests |-> NoCallback]
    /\ current_request_message_ids = {}
    /\ pc = [c \in Callers |-> "idle"]
    /\ req = [c \in Callers |-> NoRequest]
    /\ hasCallback = [c \in Callers |-> FALSE]
    /\ elapsed = [c \in Callers |-> 0]
    /\ left = [c \in Callers |-> 0]
    /\ wpc = [w \in Workers |-> "idle"]
    /\ wreq = [w \in Workers |-> NoRequest]
    /\ held = [w \in Workers |-> NoCallback]
    /\ inbox = [r \in Requests |-> 0]
    /\ registered = [r \in Requests |-> 0]
    /\ invoked = [r \in Requests |-> [k \in Callbacks(r) |-> 0]]

-----------------------------------------------------------------------------
(* Steps shared by the calls *)

Goto(c, place) == pc' = [pc EXCEPT ![c] = place]

\* A call on request r starts: no other call uses that Request object.
Enter(c, r, place) ==
    /\ pc[c] = "idle"
    /\ \A d \in Callers : req[d] # r
    /\ Goto(c, place)
    /\ req' = [req EXCEPT ![c] = r]

\* The call returns or raises to the application.
Leave(c) ==
    /\ Goto(c, "idle")
    /\ req' = [req EXCEPT ![c] = NoRequest]
    /\ hasCallback' = [hasCallback EXCEPT ![c] = FALSE]

\* add_current_request
AddCurrent(c) ==
    current_request_message_ids' = current_request_message_ids \cup {req[c]}

\* remove_current_request
RemoveCurrent(r) ==
    current_request_message_ids' = current_request_message_ids \ {r}

\* DxlClient._send_request: publish ignores paho's result, so the request may
\* be lost in silence (0 responses); a responder may answer once or, with a
\* QoS above 0, several times.
Publish(r) ==
    \E n \in 0 .. MaxCopies :
        /\ inbox[r] + n <= MaxInbox[r]
        /\ inbox' = [inbox EXCEPT ![r] = @ + n]

-----------------------------------------------------------------------------
(* sync_request *)

\* register_wait_for_response
SyncRegister(c, r) ==
    /\ Enter(c, r, "sync_add")
    /\ sync_wait_message_ids' = sync_wait_message_ids \cup {r}
    /\ UNCHANGED <<sync_wait_message_responses, callback_map,
                   current_request_message_ids, hasCallback, timers, workers,
                   inbox, history>>

SyncAddCurrent(c) ==
    /\ pc[c] = "sync_add"
    /\ AddCurrent(c)
    /\ Goto(c, "sync_send")
    /\ UNCHANGED <<tables, callback_map, req, hasCallback, timers, workers,
                   inbox, history>>

SyncSend(c) ==
    /\ pc[c] = "sync_send"
    /\ Publish(req[c])
    /\ Goto(c, "sync_enter")
    /\ UNCHANGED <<tables, callback_map, current_request_message_ids, req,
                   hasCallback, timers, workers, history>>

\* _send_request raises: an invalid request, or the manager was destroyed.
SyncSendFails(c) ==
    /\ pc[c] = "sync_send"
    /\ Goto(c, "sync_remove")
    /\ UNCHANGED <<tables, callback_map, current_request_message_ids, req,
                   hasCallback, timers, workers, inbox, history>>

\* wait_for_response finds the response and takes it out of the table.
TakeResponse(c) ==
    /\ req[c] \in sync_wait_message_responses
    /\ sync_wait_message_responses' = sync_wait_message_responses \ {req[c]}
    /\ Goto(c, "sync_remove")
    /\ elapsed' = [elapsed EXCEPT ![c] = 0]
    /\ left' = [left EXCEPT ![c] = 0]

\* condition.wait(wait_seconds): the whole timeout each time round the loop.
Sleep(c) ==
    /\ req[c] \notin sync_wait_message_responses
    /\ Goto(c, "waiting")
    /\ left' = [left EXCEPT ![c] = Wait]
    /\ UNCHANGED <<sync_wait_message_responses, elapsed>>

\* wait_for_response up to the first wait; wait_start is now.
WaitEnter(c) ==
    /\ pc[c] = "sync_enter"
    /\ TakeResponse(c) \/ Sleep(c)
    /\ UNCHANGED <<sync_wait_message_ids, callback_map,
                   current_request_message_ids, req, hasCallback, workers,
                   inbox, history>>

\* The condition's timeout expires; the lock is still to be taken again.
WaitExpires(c) ==
    /\ pc[c] = "waiting"
    /\ left[c] = 0
    /\ Goto(c, "woken")
    /\ UNCHANGED <<tables, callback_map, current_request_message_ids, req,
                   hasCallback, timers, workers, inbox, history>>

\* Bug: a caller that was woken looks only for the response, not at the time.
WaitResume_NoTimeCheck(c) ==
    /\ pc[c] = "woken"
    /\ TakeResponse(c) \/ Sleep(c)
    /\ UNCHANGED <<sync_wait_message_ids, callback_map,
                   current_request_message_ids, req, hasCallback, workers,
                   inbox, history>>

\* Lock taken again in time: look for the response, sleep again without one.
WaitResume(c) ==
    /\ pc[c] = "woken"
    /\ elapsed[c] < Wait
    /\ TakeResponse(c) \/ Sleep(c)
    /\ UNCHANGED <<sync_wait_message_ids, callback_map,
                   current_request_message_ids, req, hasCallback, workers,
                   inbox, history>>

\* Lock taken again too late: WaitTimeoutException, even with a response there.
WaitTimeout(c) ==
    /\ pc[c] = "woken"
    /\ elapsed[c] >= Wait
    /\ Goto(c, "sync_remove")
    /\ elapsed' = [elapsed EXCEPT ![c] = 0]
    /\ left' = [left EXCEPT ![c] = 0]
    /\ UNCHANGED <<tables, callback_map, current_request_message_ids, req,
                   hasCallback, workers, inbox, history>>

\* The inner finally.
SyncRemoveCurrent(c) ==
    /\ pc[c] = "sync_remove"
    /\ RemoveCurrent(req[c])
    /\ Goto(c, "sync_unregister")
    /\ UNCHANGED <<tables, callback_map, req, hasCallback, timers, workers,
                   inbox, history>>

\* Bug: forgets the response that came too late to be taken.
SyncUnregister_KeepsResponse(c) ==
    /\ pc[c] = "sync_unregister"
    /\ sync_wait_message_ids' = sync_wait_message_ids \ {req[c]}
    /\ Leave(c)
    /\ UNCHANGED <<sync_wait_message_responses, callback_map,
                   current_request_message_ids, timers, workers, inbox, history>>

\* Bug: clears the tables instead of removing one entry.
SyncUnregister_ClearsAll(c) ==
    /\ pc[c] = "sync_unregister"
    /\ sync_wait_message_ids' = {}
    /\ sync_wait_message_responses' = {}
    /\ Leave(c)
    /\ UNCHANGED <<callback_map, current_request_message_ids, timers, workers,
                   inbox, history>>

\* The outer finally: unregister_wait_for_response.
SyncUnregister(c) ==
    /\ pc[c] = "sync_unregister"
    /\ sync_wait_message_ids' = sync_wait_message_ids \ {req[c]}
    /\ sync_wait_message_responses' = sync_wait_message_responses \ {req[c]}
    /\ Leave(c)
    /\ UNCHANGED <<callback_map, current_request_message_ids, timers, workers,
                   inbox, history>>

-----------------------------------------------------------------------------
(* async_request *)

\* register_async_callback, when a callback is given: what an earlier use of the
\* request registered and nobody took out is replaced.
AsyncRegister(c, r) ==
    /\ registered[r] < MaxRegistrations[r]
    /\ Enter(c, r, "async_add")
    /\ hasCallback' = [hasCallback EXCEPT ![c] = TRUE]
    /\ callback_map' = [callback_map EXCEPT ![r] = registered[r] + 1]
    /\ registered' = [registered EXCEPT ![r] = @ + 1]
    /\ UNCHANGED <<tables, current_request_message_ids, timers, workers, inbox,
                   invoked>>

\* Without a callback there is nothing to register.
AsyncNoCallback(c, r) ==
    /\ Enter(c, r, "async_add")
    /\ UNCHANGED <<tables, callback_map, current_request_message_ids,
                   hasCallback, timers, workers, inbox, history>>

AsyncAddCurrent(c) ==
    /\ pc[c] = "async_add"
    /\ AddCurrent(c)
    /\ Goto(c, "async_send")
    /\ UNCHANGED <<tables, callback_map, req, hasCallback, timers, workers,
                   inbox, history>>

AsyncSend(c) ==
    /\ pc[c] = "async_send"
    /\ Publish(req[c])
    /\ Leave(c)
    /\ UNCHANGED <<tables, callback_map, current_request_message_ids, timers,
                   workers, history>>

AsyncSendFails(c) ==
    /\ pc[c] = "async_send"
    /\ Goto(c, IF hasCallback[c] THEN "async_unregister" ELSE "async_remove")
    /\ UNCHANGED <<tables, callback_map, current_request_message_ids, req,
                   hasCallback, timers, workers, inbox, history>>

\* The argument of unregister_async_callback in the except clause.
UnregisterKey(r) == Topic

\* The key of the map is an identifier, so nothing is found.
AsyncUnregister(c) ==
    /\ pc[c] = "async_unregister"
    /\ callback_map' = [r \in Requests |-> IF r = UnregisterKey(req[c])
                                           THEN NoCallback ELSE callback_map[r]]
    /\ Goto(c, "async_remove")
    /\ UNCHANGED <<tables, current_request_message_ids, req, hasCallback,
                   timers, workers, inbox, history>>

AsyncRemoveCurrent(c) ==
    /\ pc[c] = "async_remove"
    /\ RemoveCurrent(req[c])
    /\ Leave(c)
    /\ UNCHANGED <<tables, callback_map, timers, workers, inbox, history>>

-----------------------------------------------------------------------------
(* on_response, in a thread of the pool *)

WGoto(w, place) == wpc' = [wpc EXCEPT ![w] = place]

\* The pool hands a response to this worker.
Deliver(w, r) ==
    /\ wpc[w] = "idle"
    /\ inbox[r] > 0
    /\ inbox' = [inbox EXCEPT ![r] = @ - 1]
    /\ wreq' = [wreq EXCEPT ![w] = r]
    /\ WGoto(w, "sync")
    /\ UNCHANGED <<tables, callback_map, current_request_message_ids, callers,
                   timers, held, history>>

\* Bug: notify instead of notifyAll wakes one caller, any of those asleep.
NotifyAll_One ==
    \/ \E c \in Callers : pc[c] = "waiting" /\ Goto(c, "woken")
    \/ (\A c \in Callers : pc[c] # "waiting") /\ UNCHANGED pc

\* notifyAll: every sleeping caller wakes.
NotifyAll ==
    pc' = [c \in Callers |-> IF pc[c] = "waiting" THEN "woken" ELSE pc[c]]

\* Bug: a response stored for a synchronous call is not shown to callbacks.
StoreResponse_Either(w) ==
    /\ wpc[w] = "sync"
    /\ wreq[w] \in sync_wait_message_ids
    /\ sync_wait_message_ids' = sync_wait_message_ids \ {wreq[w]}
    /\ sync_wait_message_responses' = sync_wait_message_responses \cup {wreq[w]}
    /\ NotifyAll
    /\ WGoto(w, "finally")
    /\ UNCHANGED <<callback_map, current_request_message_ids, req, hasCallback,
                   timers, wreq, held, inbox, history>>

\* The critical section: hand the response to a synchronous call.
StoreResponse(w) ==
    /\ wpc[w] = "sync"
    /\ wreq[w] \in sync_wait_message_ids
    /\ sync_wait_message_ids' = sync_wait_message_ids \ {wreq[w]}
    /\ sync_wait_message_responses' = sync_wait_message_responses \cup {wreq[w]}
    /\ NotifyAll
    /\ WGoto(w, "check")
    /\ UNCHANGED <<callback_map, current_request_message_ids, req, hasCallback,
                   timers, wreq, held, inbox, history>>

NobodyWaits(w) ==
    /\ wpc[w] = "sync"
    /\ wreq[w] \notin sync_wait_message_ids
    /\ WGoto(w, "check")
    /\ UNCHANGED <<tables, callback_map, current_request_message_ids, callers,
                   timers, wreq, held, inbox, history>>

\* unregister_async_callback, line by line: is the identifier in the map?
CheckCallback(w) ==
    /\ wpc[w] = "check"
    /\ WGoto(w, IF callback_map[wreq[w]] # NoCallback THEN "get" ELSE "finally")
    /\ UNCHANGED <<tables, callback_map, current_request_message_ids, callers,
                   timers, wreq, held, inbox, history>>

\* Read the callback; a KeyError goes to the finally clause.
GetCallback(w) ==
    /\ wpc[w] = "get"
    /\ held' = [held EXCEPT ![w] = callback_map[wreq[w]]]
    /\ WGoto(w, IF callback_map[wreq[w]] # NoCallback THEN "del" ELSE "finally")
    /\ UNCHANGED <<tables, callback_map, current_request_message_ids, callers,
                   timers, wreq, inbox, history>>

\* Bug: pop with a default, so that losing the race goes unnoticed.
DelCallback_Pop(w) ==
    /\ wpc[w] = "del"
    /\ callback_map' = [callback_map EXCEPT ![wreq[w]] = NoCallback]
    /\ invoked' = [invoked EXCEPT ![wreq[w]][held[w]] = @ + 1]
    /\ WGoto(w, "callback")
    /\ UNCHANGED <<tables, current_request_message_ids, callers, timers, wreq,
                   held, inbox, registered>>

\* Delete the entry, whichever callback it now has, and go on to on_response of
\* the callback that was read.
DelCallback(w) ==
    /\ wpc[w] = "del"
    /\ callback_map[wreq[w]] # NoCallback
    /\ callback_map' = [callback_map EXCEPT ![wreq[w]] = NoCallback]
    /\ invoked' = [invoked EXCEPT ![wreq[w]][held[w]] = @ + 1]
    /\ WGoto(w, "callback")
    /\ UNCHANGED <<tables, current_request_message_ids, callers, timers, wreq,
                   held, inbox, registered>>

\* Another worker deleted it first: KeyError, the callback is not invoked here.
DelCallbackFails(w) ==
    /\ wpc[w] = "del"
    /\ callback_map[wreq[w]] = NoCallback
    /\ WGoto(w, "finally")
    /\ UNCHANGED <<tables, callback_map, current_request_message_ids, callers,
                   timers, wreq, held, inbox, history>>

\* The callback returns or raises.
CallbackReturns(w) ==
    /\ wpc[w] = "callback"
    /\ WGoto(w, "finally")
    /\ UNCHANGED <<tables, callback_map, current_request_message_ids, callers,
                   timers, wreq, held, inbox, history>>

OnResponseFinally(w) ==
    /\ wpc[w] = "finally"
    /\ RemoveCurrent(wreq[w])
    /\ wreq' = [wreq EXCEPT ![w] = NoRequest]
    /\ held' = [held EXCEPT ![w] = NoCallback]
    /\ WGoto(w, "idle")
    /\ UNCHANGED <<tables, callback_map, callers, timers, inbox, history>>

-----------------------------------------------------------------------------

\* One unit of time passes for the callers inside wait_for_response.
Tick ==
    LET asleep == {c \in Callers : pc[c] \in {"waiting", "woken"}} IN
    /\ \E c \in asleep : elapsed[c] < MaxElapsed \/ left[c] > 0
    /\ elapsed' = [c \in Callers |->
                     IF c \in asleep /\ elapsed[c] < MaxElapsed
                     THEN elapsed[c] + 1 ELSE elapsed[c]]
    /\ left' = [c \in Callers |-> IF left[c] > 0 THEN left[c] - 1 ELSE 0]
    /\ UNCHANGED <<tables, callback_map, current_request_message_ids, callers,
                   workers, inbox, history>>

\* A step of a call that has begun: the thread does not stop inside it.
CallerStep(c) ==
    \/ SyncAddCurrent(c) \/ SyncSend(c) \/ SyncSendFails(c)
    \/ WaitEnter(c) \/ WaitExpires(c) \/ WaitResume(c) \/ WaitTimeout(c)
    \/ SyncRemoveCurrent(c) \/ SyncUnregister(c)
    \/ AsyncAddCurrent(c) \/ AsyncSend(c) \/ AsyncSendFails(c)
    \/ AsyncUnregister(c) \/ AsyncRemoveCurrent(c)

WorkerStep(w) ==
    \/ \E r \in Requests : Deliver(w, r)
    \/ StoreResponse(w) \/ NobodyWaits(w)
    \/ CheckCallback(w) \/ GetCallback(w)
    \/ DelCallback(w) \/ DelCallbackFails(w)
    \/ OnResponseFinally(w)

Next ==
    \/ \E c \in Callers, r \in Requests :
          SyncRegister(c, r) \/ AsyncRegister(c, r) \/ AsyncNoCallback(c, r)
    \/ \E c \in Callers : CallerStep(c)
    \/ \E w \in Workers : WorkerStep(w) \/ CallbackReturns(w)
    \/ Tick

Spec == Init /\ [][Next]_vars

\* Threads run and time passes; whether an application starts a call, and whether
\* its callback ever returns, is its own.
Fairness ==
    /\ \A c \in Callers : WF_vars(CallerStep(c))
    /\ \A w \in Workers : WF_vars(WorkerStep(w))
    /\ WF_vars(Tick)

FairSpec == Spec /\ Fairness

-----------------------------------------------------------------------------
(* Properties *)

InSyncCall(c) == pc[c] \in SyncPC

\* A synchronous call that has no response yet and has not given up.
AwaitsResponse(c) ==
    pc[c] \in {"sync_add", "sync_send", "sync_enter", "waiting", "woken"}

\* A call that still wants its response is known to on_response in exactly one
\* table: as waiting, or as answered.  Nobody else's registration, response,
\* timeout or retry takes it out (register/unregister_wait_for_response,
\* on_response).
AwaitedIsRegistered ==
    \A c \in Callers : AwaitsResponse(c) =>
        (req[c] \in sync_wait_message_ids) # (req[c] \in sync_wait_message_responses)

\* What is in the tables of synchronous requests belongs to a call in progress:
\* whatever the order of response, timeout, failed send and retry, sync_request
\* leaves nothing behind (the two finally clauses).
NoSyncResidue ==
    \A r \in sync_wait_message_ids \cup sync_wait_message_responses :
        \E c \in Callers : InSyncCall(c) /\ req[c] = r

\* No lost wakeup: a caller never sleeps on the condition with its response
\* already stored, although many callers share one condition.
NoLostWakeup ==
    \A c \in Callers : pc[c] = "waiting" =>
        req[c] \notin sync_wait_message_responses

\* Workers with responses to one request run unregister_async_callback without
\* a lock, so that the entry a worker deletes need not be the one it has read.
\* Still a callback runs at most once, unless the same request was registered
\* again after it; each later registration allows one more run, in its own place.
CallbackAtMostOnce ==
    \A r \in Requests : \A k \in Callbacks(r) :
        k <= registered[r] => invoked[r][k] <= 1 + (registered[r] - k)

\* The loop of wait_for_response passes the whole timeout to every wait, however
\* often the caller was woken before.  Still the sleep it is in ends less than
\* twice the timeout after wait_start.
WaitBelowTwiceTimeout ==
    \A c \in Callers : pc[c] = "waiting" /\ left[c] > 0 =>
        elapsed[c] + left[c] < 2 * Wait

\* _request_manager.py, unregister_async_callback: "Removes an asynchronous
\* callback for the specified request": the except clause of async_request that
\* calls it has taken the callback out before the request leaves the current set.
FailedSendUnregisters ==
    \A c \in Callers :
        pc[c] = "async_remove" /\ hasCallback[c] => callback_map[req[c]] = NoCallback

\* Every synchronous call comes back, with a response or an exception, whatever
\* is lost and whoever else is notified in between.
SyncRequestReturns ==
    \A c \in Callers : InSyncCall(c) ~> pc[c] = "idle"

\* A worker is about to delete the entry of callback k with an older one in hand.
Displaced(r, k) ==
    \E w \in Workers : wpc[w] = "del" /\ wreq[w] = r /\ held[w] < k

\* Once a response to its request is in on_response a callback is run, by this
\* worker or by the one that won the race for the entry, although other workers
\* handle copies of the response; unless the request is registered again or a
\* worker with an older callback of it takes the entry.
AnsweredCallbackRuns ==
    \A r \in Requests : \A k \in Callbacks(r) :
        ((\E w \in Workers : wpc[w] = "sync" /\ wreq[w] = r) /\ callback_map[r] = k)
            ~> \/ invoked[r][k] > 0
               \/ registered[r] > k
               \/ Displaced(r, k)

\* What one synchronous call sees of the shared tables.
CallState(c) ==
    IF ~ InSyncCall(c) THEN "idle"
    ELSE IF ~ AwaitsResponse(c) THEN "finished"
    ELSE IF req[c] \in sync_wait_message_ids THEN "open" ELSE "answered"

Asked(c) == IF InSyncCall(c) THEN req[c] ELSE NoRequest

Calls == INSTANCE RequestCalls WITH
    call <- [c \in Callers |-> CallState(c)],
    asked <- [c \in Callers |-> Asked(c)]

\* The shared tables, the shared condition and the pool implement calls that are
\* each on their own: answered once, by a response to their request, and never
\* moved by another call's registration, response, timeout or retry.
ImplementsCalls == Calls!Spec
=============================================================================
