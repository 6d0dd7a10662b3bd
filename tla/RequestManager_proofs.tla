------------------------ MODULE RequestManager_proofs ------------------------
(***************************************************************************)
(* The tables of RequestManager are exact for any number of callers,       *)
(* workers and requests, any timeout and any bounds.                       *)
(*                                                                         *)
(* The correctness conjuncts are not inductive alone: that a registration  *)
(* is nobody else's to remove rests on who owns a request (CallsOwn), that *)
(* a stored response is found on the two tables being disjoint             *)
(* (TablesDisjoint), and that callbacks do not run too often on what a     *)
(* worker can have read of an entry that is replaced meanwhile (Readers).  *)
(***************************************************************************)
EXTENDS RequestManager, TLAPS

\* A caller has a request exactly during a call, and no two have the same one.
CallsOwn ==
    /\ \A c \in Callers : pc[c] = "idle" <=> req[c] = NoRequest
    /\ \A c, d \in Callers : req[c] = req[d] /\ req[c] # NoRequest => c = d

\* A worker inside on_response handles some request.
WorkersHold == \A w \in Workers : wpc[w] # "idle" => wreq[w] \in Requests

\* An identifier is waited for or answered, never both.
TablesDisjoint ==
    \A r \in Requests :
        ~ (r \in sync_wait_message_ids /\ r \in sync_wait_message_responses)

\* The wait clock runs inside wait_for_response only.
ClocksStopped ==
    \A c \in Callers : pc[c] \notin {"waiting", "woken"} => elapsed[c] = 0

\* A worker that has read a callback has a registered one, and what has replaced
\* it in the map meanwhile is newer.
Readers ==
    /\ \A r \in Requests : callback_map[r] <= registered[r]
    /\ \A w \in Workers : wpc[w] = "del" =>
          /\ held[w] \in 1 .. registered[wreq[w]]
          /\ callback_map[wreq[w]] = NoCallback \/ held[w] <= callback_map[wreq[w]]

\* What the registrations so far allow callback k to run, and what its own entry
\* or a newer one still allows it.
Allowed(r, k) == IF k <= registered[r] THEN 1 + (registered[r] - k) ELSE 0
ToCome(r, k)  == IF callback_map[r] >= k THEN 1 ELSE 0

RunsAllowed ==
    \A r \in Requests : \A k \in Callbacks(r) :
        invoked[r][k] + ToCome(r, k) <= Allowed(r, k)

\* What every step relies on.
Typed == TypeOK /\ CallsOwn /\ WorkersHold /\ ClocksStopped

\* The tables of synchronous requests.
Tables ==
    /\ TablesDisjoint
    /\ AwaitedIsRegistered
    /\ NoSyncResidue
    /\ NoLostWakeup

\* The inductive invariant.
IInv == Typed /\ Tables /\ Readers /\ RunsAllowed /\ WaitBelowTwiceTimeout

-----------------------------------------------------------------------------

\* The initial state satisfies the invariant: nothing is registered.
LEMMA InitInv == Init => IInv
<1> SUFFICES ASSUME Init PROVE IInv
  OBVIOUS
<1> USE RequestAssumption, BoundAssumption DEF Init
<1>1. Typed
  BY DEF Typed, TypeOK, CallsOwn, WorkersHold, ClocksStopped, SyncPC, AsyncPC,
         WorkerPC, Callbacks, NoCallback, MaxElapsed
<1>2. Tables
  BY DEF Tables, TablesDisjoint, AwaitedIsRegistered, AwaitsResponse,
         NoSyncResidue, NoLostWakeup
<1>3. Readers /\ RunsAllowed
  BY DEF Readers, RunsAllowed, ToCome, Allowed, NoCallback, Callbacks
<1>4. WaitBelowTwiceTimeout
  BY DEF WaitBelowTwiceTimeout
<1> QED
  BY <1>1, <1>2, <1>3, <1>4 DEF IInv

\* Counting up one entry of a table of counts.
LEMMA CountUp ==
    ASSUME NEW S, NEW f \in [S -> Nat], NEW k
    PROVE  [f EXCEPT ![k] = f[k] + 1] \in [S -> Nat]
<1>1. CASE k \in S
  BY <1>1
<1>2. CASE k \notin S
  <2>1. [f EXCEPT ![k] = f[k] + 1] = f
    BY <1>2
  <2> QED
    BY <2>1
<1> QED
  BY <1>1, <1>2

\* Types, ownership of requests and the wait clocks are kept by every step.
LEMMA TypedStep == ASSUME Typed, [Next]_vars PROVE Typed'
<1> USE RequestAssumption, BoundAssumption
    DEF Typed, TypeOK, CallsOwn, WorkersHold, ClocksStopped, SyncPC, AsyncPC,
        WorkerPC, NoCallback, MaxElapsed, tables, callers, timers, workers, history
<1>1. ASSUME NEW c \in Callers, NEW r \in Requests, SyncRegister(c, r)
      PROVE  Typed'
  BY <1>1 DEF SyncRegister, Enter, Goto
<1>2. ASSUME NEW c \in Callers, NEW r \in Requests, AsyncRegister(c, r)
      PROVE  Typed'
  <2>1. registered[r] + 1 \in Callbacks(r)
    BY <1>2 DEF AsyncRegister, Callbacks
  <2> QED
    BY <1>2, <2>1 DEF AsyncRegister, Enter, Goto
<1>3. ASSUME NEW c \in Callers, NEW r \in Requests, AsyncNoCallback(c, r)
      PROVE  Typed'
  BY <1>3 DEF AsyncNoCallback, Enter, Goto
<1>4. ASSUME NEW c \in Callers, SyncAddCurrent(c)
      PROVE  Typed'
  BY <1>4 DEF SyncAddCurrent, AddCurrent, Goto
<1>5. ASSUME NEW c \in Callers, SyncSend(c)
      PROVE  Typed'
  BY <1>5 DEF SyncSend, Publish, Goto
<1>6. ASSUME NEW c \in Callers, SyncSendFails(c)
      PROVE  Typed'
  BY <1>6 DEF SyncSendFails, Goto
<1>7. ASSUME NEW c \in Callers, WaitEnter(c)
      PROVE  Typed'
  BY <1>7 DEF WaitEnter, TakeResponse, Sleep, Goto
<1>8. ASSUME NEW c \in Callers, WaitExpires(c)
      PROVE  Typed'
  BY <1>8 DEF WaitExpires, Goto
<1>9. ASSUME NEW c \in Callers, WaitResume(c)
      PROVE  Typed'
  <2>1. CASE TakeResponse(c)
    BY <1>9, <2>1 DEF WaitResume, TakeResponse, Goto
  <2>2. CASE Sleep(c)
    BY <1>9, <2>2 DEF WaitResume, Sleep, Goto
  <2> QED
    BY <1>9, <2>1, <2>2 DEF WaitResume
<1>10. ASSUME NEW c \in Callers, WaitTimeout(c)
      PROVE  Typed'
  BY <1>10 DEF WaitTimeout, Goto
<1>11. ASSUME NEW c \in Callers, SyncRemoveCurrent(c)
      PROVE  Typed'
  BY <1>11 DEF SyncRemoveCurrent, RemoveCurrent, Goto
<1>12. ASSUME NEW c \in Callers, SyncUnregister(c)
      PROVE  Typed'
  BY <1>12 DEF SyncUnregister, Leave, Goto
<1>13. ASSUME NEW c \in Callers, AsyncAddCurrent(c)
      PROVE  Typed'
  BY <1>13 DEF AsyncAddCurrent, AddCurrent, Goto
<1>14. ASSUME NEW c \in Callers, AsyncSend(c)
      PROVE  Typed'
  BY <1>14 DEF AsyncSend, Publish, Leave, Goto
<1>15. ASSUME NEW c \in Callers, AsyncSendFails(c)
      PROVE  Typed'
  BY <1>15 DEF AsyncSendFails, Goto
<1>16. ASSUME NEW c \in Callers, AsyncUnregister(c)
      PROVE  Typed'
  BY <1>16 DEF AsyncUnregister, UnregisterKey, Goto
<1>17. ASSUME NEW c \in Callers, AsyncRemoveCurrent(c)
      PROVE  Typed'
  BY <1>17 DEF AsyncRemoveCurrent, RemoveCurrent, Leave, Goto
<1>18. ASSUME NEW w \in Workers, NEW r \in Requests, Deliver(w, r)
      PROVE  Typed'
  BY <1>18 DEF Deliver, WGoto
<1>19. ASSUME NEW w \in Workers, StoreResponse(w)
      PROVE  Typed'
  BY <1>19 DEF StoreResponse, NotifyAll, WGoto
<1>20. ASSUME NEW w \in Workers, NobodyWaits(w)
      PROVE  Typed'
  BY <1>20 DEF NobodyWaits, WGoto
<1>21. ASSUME NEW w \in Workers, CheckCallback(w)
      PROVE  Typed'
  BY <1>21 DEF CheckCallback, WGoto
<1>22. ASSUME NEW w \in Workers, GetCallback(w)
      PROVE  Typed'
  BY <1>22 DEF GetCallback, WGoto
<1>23. ASSUME NEW w \in Workers, DelCallback(w)
      PROVE  Typed'
  <2>1. wreq[w] \in Requests /\ invoked[wreq[w]] \in [Callbacks(wreq[w]) -> Nat]
    BY <1>23 DEF DelCallback
  <2>2. [invoked[wreq[w]] EXCEPT ![held[w]] = invoked[wreq[w]][held[w]] + 1]
          \in [Callbacks(wreq[w]) -> Nat]
    BY <2>1, CountUp
  <2>3. /\ invoked' = [r \in Requests |-> invoked'[r]]
        /\ \A r \in Requests : invoked'[r] \in [Callbacks(r) -> Nat]
    <3> DEFINE more == [invoked[wreq[w]] EXCEPT ![held[w]] = invoked[wreq[w]][held[w]] + 1]
    <3>1. invoked' = [invoked EXCEPT ![wreq[w]] = more]
      BY <1>23, Zenon DEF DelCallback
    <3>2. more \in [Callbacks(wreq[w]) -> Nat]
      BY <2>2
    <3> HIDE DEF more
    <3>3. invoked' = [r \in Requests |-> IF r = wreq[w] THEN more ELSE invoked[r]]
      BY <2>1, <3>1
    <3>4. \A r \in Requests : invoked[r] \in [Callbacks(r) -> Nat]
      OBVIOUS
    <3> QED
      BY <3>2, <3>3, <3>4, Zenon
  <2>4. callback_map' \in [Requests -> Nat]
        /\ \A r \in Requests : callback_map'[r] \in {NoCallback} \cup Callbacks(r)
    BY <1>23, <2>1 DEF DelCallback
  <2>5. TypeOK'
    BY <1>23, <2>3, <2>4 DEF DelCallback, WGoto
  <2>6. (CallsOwn /\ WorkersHold /\ ClocksStopped)'
    BY <1>23 DEF DelCallback, WGoto
  <2> QED
    BY <2>5, <2>6
<1>24. ASSUME NEW w \in Workers, DelCallbackFails(w)
      PROVE  Typed'
  BY <1>24 DEF DelCallbackFails, WGoto
<1>25. ASSUME NEW w \in Workers, CallbackReturns(w)
      PROVE  Typed'
  BY <1>25 DEF CallbackReturns, WGoto
<1>26. ASSUME NEW w \in Workers, OnResponseFinally(w)
      PROVE  Typed'
  BY <1>26 DEF OnResponseFinally, RemoveCurrent, WGoto
<1>27. ASSUME Tick
      PROVE  Typed'
  BY <1>27 DEF Tick
<1>28. CASE UNCHANGED vars
  BY <1>28 DEF vars
<1> QED
  BY <1>1, <1>2, <1>3, <1>4, <1>5, <1>6, <1>7, <1>8, <1>9, <1>10, <1>11, <1>12,
     <1>13, <1>14, <1>15, <1>16, <1>17, <1>18, <1>19, <1>20, <1>21, <1>22, <1>23,
     <1>24, <1>25, <1>26, <1>27, <1>28
     DEF Next, CallerStep, WorkerStep

\* The critical sections of the two tables.  A registration (<1>1) finds neither
\* an entry nor a response of an earlier use of the request, because what is in
\* the tables belongs to a call in progress and this request is in none.
LEMMA TablesStep == ASSUME Typed, Tables, [Next]_vars PROVE Tables'
<1> USE RequestAssumption
    DEF Tables, TablesDisjoint, AwaitedIsRegistered, AwaitsResponse, NoSyncResidue,
        NoLostWakeup, InSyncCall, SyncPC, Typed, TypeOK, CallsOwn, WorkersHold,
        tables, callers, timers, workers, history
<1>1. ASSUME NEW c \in Callers, NEW r \in Requests, SyncRegister(c, r)
      PROVE  Tables'
  <2>1. r \notin sync_wait_message_ids /\ r \notin sync_wait_message_responses
    BY <1>1 DEF SyncRegister, Enter
  <2> QED
    BY <1>1, <2>1 DEF SyncRegister, Enter, Goto
<1>2. ASSUME NEW c \in Callers, NEW r \in Requests, AsyncRegister(c, r)
      PROVE  Tables'
  BY <1>2 DEF AsyncRegister, Enter, Goto
<1>3. ASSUME NEW c \in Callers, NEW r \in Requests, AsyncNoCallback(c, r)
      PROVE  Tables'
  BY <1>3 DEF AsyncNoCallback, Enter, Goto
<1>4. ASSUME NEW c \in Callers, SyncAddCurrent(c)
      PROVE  Tables'
  BY <1>4 DEF SyncAddCurrent, AddCurrent, Goto
<1>5. ASSUME NEW c \in Callers, SyncSend(c)
      PROVE  Tables'
  BY <1>5 DEF SyncSend, Publish, Goto
<1>6. ASSUME NEW c \in Callers, SyncSendFails(c)
      PROVE  Tables'
  BY <1>6 DEF SyncSendFails, Goto
<1>7. ASSUME NEW c \in Callers, WaitEnter(c)
      PROVE  Tables'
  BY <1>7 DEF WaitEnter, TakeResponse, Sleep, Goto
<1>8. ASSUME NEW c \in Callers, WaitExpires(c)
      PROVE  Tables'
  BY <1>8 DEF WaitExpires, Goto
<1>9. ASSUME NEW c \in Callers, WaitResume(c)
      PROVE  Tables'
  BY <1>9 DEF WaitResume, TakeResponse, Sleep, Goto
<1>10. ASSUME NEW c \in Callers, WaitTimeout(c)
      PROVE  Tables'
  BY <1>10 DEF WaitTimeout, Goto
<1>11. ASSUME NEW c \in Callers, SyncRemoveCurrent(c)
      PROVE  Tables'
  BY <1>11 DEF SyncRemoveCurrent, RemoveCurrent, Goto
<1>12. ASSUME NEW c \in Callers, SyncUnregister(c)
      PROVE  Tables'
  BY <1>12 DEF SyncUnregister, Leave, Goto
<1>13. ASSUME NEW c \in Callers, AsyncAddCurrent(c)
      PROVE  Tables'
  BY <1>13 DEF AsyncAddCurrent, AddCurrent, Goto
<1>14. ASSUME NEW c \in Callers, AsyncSend(c)
      PROVE  Tables'
  BY <1>14 DEF AsyncSend, Publish, Leave, Goto
<1>15. ASSUME NEW c \in Callers, AsyncSendFails(c)
      PROVE  Tables'
  BY <1>15 DEF AsyncSendFails, Goto
<1>16. ASSUME NEW c \in Callers, AsyncUnregister(c)
      PROVE  Tables'
  BY <1>16 DEF AsyncUnregister, UnregisterKey, Goto
<1>17. ASSUME NEW c \in Callers, AsyncRemoveCurrent(c)
      PROVE  Tables'
  BY <1>17 DEF AsyncRemoveCurrent, RemoveCurrent, Leave, Goto
<1>18. ASSUME NEW w \in Workers, NEW r \in Requests, Deliver(w, r)
      PROVE  Tables'
  BY <1>18 DEF Deliver, WGoto
<1>19. ASSUME NEW w \in Workers, StoreResponse(w)
      PROVE  Tables'
  BY <1>19 DEF StoreResponse, NotifyAll, WGoto
<1>20. ASSUME NEW w \in Workers, NobodyWaits(w)
      PROVE  Tables'
  BY <1>20 DEF NobodyWaits, WGoto
<1>21. ASSUME NEW w \in Workers, CheckCallback(w)
      PROVE  Tables'
  BY <1>21 DEF CheckCallback, WGoto
<1>22. ASSUME NEW w \in Workers, GetCallback(w)
      PROVE  Tables'
  BY <1>22 DEF GetCallback, WGoto
<1>23. ASSUME NEW w \in Workers, DelCallback(w)
      PROVE  Tables'
  BY <1>23 DEF DelCallback, WGoto
<1>24. ASSUME NEW w \in Workers, DelCallbackFails(w)
      PROVE  Tables'
  BY <1>24 DEF DelCallbackFails, WGoto
<1>25. ASSUME NEW w \in Workers, CallbackReturns(w)
      PROVE  Tables'
  BY <1>25 DEF CallbackReturns, WGoto
<1>26. ASSUME NEW w \in Workers, OnResponseFinally(w)
      PROVE  Tables'
  BY <1>26 DEF OnResponseFinally, RemoveCurrent, WGoto
<1>27. ASSUME Tick
      PROVE  Tables'
  BY <1>27 DEF Tick
<1>28. CASE UNCHANGED vars
  BY <1>28 DEF vars
<1> QED
  BY <1>1, <1>2, <1>3, <1>4, <1>5, <1>6, <1>7, <1>8, <1>9, <1>10, <1>11, <1>12,
     <1>13, <1>14, <1>15, <1>16, <1>17, <1>18, <1>19, <1>20, <1>21, <1>22, <1>23,
     <1>24, <1>25, <1>26, <1>27, <1>28
     DEF Next, CallerStep, WorkerStep

\* Only a registration and a deletion touch the callback map; the deletion by
\* the failed send finds nothing to delete.
LEMMA ReadersStep == ASSUME Typed, Readers, [Next]_vars PROVE Readers'
<1> USE DEF Typed, TypeOK, WorkersHold, Readers, NoCallback, Callbacks, workers, history
<1>1. ASSUME NEW c \in Callers, NEW r \in Requests, AsyncRegister(c, r)
      PROVE  Readers'
  BY <1>1 DEF AsyncRegister
<1>2. ASSUME NEW c \in Callers, AsyncUnregister(c)
      PROVE  Readers'
  BY <1>2, RequestAssumption DEF AsyncUnregister, UnregisterKey
<1>3. ASSUME NEW w \in Workers, NEW r \in Requests, Deliver(w, r)
      PROVE  Readers'
  BY <1>3 DEF Deliver, WGoto
<1>4. ASSUME NEW w \in Workers, GetCallback(w)
      PROVE  Readers'
  BY <1>4 DEF GetCallback, WGoto
<1>5. ASSUME NEW w \in Workers, DelCallback(w)
      PROVE  Readers'
  BY <1>5 DEF DelCallback, WGoto
<1>6. ASSUME NEW w \in Workers, OnResponseFinally(w)
      PROVE  Readers'
  BY <1>6 DEF OnResponseFinally, WGoto
<1>7. CASE /\ UNCHANGED <<callback_map, wreq, held, history>>
           /\ \A w \in Workers : wpc'[w] = "del" => wpc[w] = "del"
  BY <1>7
<1> QED
  BY <1>1, <1>2, <1>3, <1>4, <1>5, <1>6, <1>7
     DEF Next, CallerStep, WorkerStep, vars, WGoto, SyncRegister, AsyncNoCallback,
         SyncAddCurrent, SyncSend, SyncSendFails, WaitEnter, WaitExpires,
         WaitResume, WaitTimeout, SyncRemoveCurrent, SyncUnregister,
         AsyncAddCurrent, AsyncSend, AsyncSendFails, AsyncRemoveCurrent,
         StoreResponse, NobodyWaits, CheckCallback, DelCallbackFails,
         CallbackReturns, Tick

\* A worker runs the callback it has read at the expense of the entry it finds,
\* which is that callback's own or a newer one.
LEMMA RunsStep == ASSUME Typed, Readers, RunsAllowed, [Next]_vars PROVE RunsAllowed'
<1> USE DEF Typed, TypeOK, Readers, RunsAllowed, NoCallback, Callbacks, history
<1>1. ASSUME NEW c \in Callers, NEW r \in Requests, AsyncRegister(c, r)
      PROVE  RunsAllowed'
  <2> SUFFICES ASSUME NEW q \in Requests, NEW k \in Callbacks(q)
               PROVE  invoked'[q][k] + ToCome(q, k)' <= Allowed(q, k)'
    OBVIOUS
  <2>1. invoked[q][k] \in Nat /\ invoked' = invoked
    BY <1>1 DEF AsyncRegister
  <2>2. invoked[q][k] + ToCome(q, k) <= Allowed(q, k)
    BY DEF RunsAllowed
  <2>3. CASE q = r
    BY <1>1, <2>1, <2>2, <2>3 DEF AsyncRegister, ToCome, Allowed
  <2>4. CASE q # r
    BY <1>1, <2>1, <2>2, <2>4 DEF AsyncRegister, ToCome, Allowed
  <2> QED
    BY <2>3, <2>4
<1>2. ASSUME NEW c \in Callers, AsyncUnregister(c)
      PROVE  RunsAllowed'
  BY <1>2, RequestAssumption DEF AsyncUnregister, UnregisterKey, ToCome, Allowed
<1>3. ASSUME NEW w \in Workers, DelCallback(w)
      PROVE  RunsAllowed'
  <2> SUFFICES ASSUME NEW r \in Requests, NEW k \in Callbacks(r)
               PROVE  invoked'[r][k] + ToCome(r, k)' <= Allowed(r, k)'
    OBVIOUS
  <2>1. CASE r = wreq[w]
    <3>1. ToCome(r, held[w]) = 1 /\ ToCome(r, k)' = 0
      BY <1>3, <2>1 DEF DelCallback, ToCome
    <3>2. invoked[r][k] \in Nat /\ invoked[r][k] + ToCome(r, k) <= Allowed(r, k)
      OBVIOUS
    <3>3. Allowed(r, k)' = Allowed(r, k)
      BY <1>3 DEF DelCallback, Allowed
    <3>4. invoked'[r][k] = IF k = held[w] THEN invoked[r][k] + 1 ELSE invoked[r][k]
      BY <1>3, <2>1 DEF DelCallback
    <3>5. ToCome(r, k) \in {0, 1} /\ Allowed(r, k) \in Nat
      BY DEF ToCome, Allowed
    <3> QED
      BY <3>1, <3>2, <3>3, <3>4, <3>5
  <2>2. CASE r # wreq[w]
    BY <1>3, <2>2 DEF DelCallback, ToCome, Allowed
  <2> QED
    BY <2>1, <2>2
<1>4. CASE UNCHANGED <<callback_map, history>>
  BY <1>4 DEF ToCome, Allowed
<1> QED
  BY <1>1, <1>2, <1>3, <1>4
     DEF Next, CallerStep, WorkerStep, vars, SyncRegister, AsyncNoCallback,
         SyncAddCurrent, SyncSend, SyncSendFails, WaitEnter, WaitExpires,
         WaitResume, WaitTimeout, SyncRemoveCurrent, SyncUnregister,
         AsyncAddCurrent, AsyncSend, AsyncSendFails, AsyncRemoveCurrent, Deliver,
         StoreResponse, NobodyWaits, CheckCallback, GetCallback, DelCallbackFails,
         CallbackReturns, OnResponseFinally, Tick

\* A caller falls asleep in WaitEnter with a stopped clock and in WaitResume
\* before the timeout; elsewhere a wait only ends or gets shorter.
LEMMA WaitStep ==
    ASSUME Typed, WaitBelowTwiceTimeout, [Next]_vars PROVE WaitBelowTwiceTimeout'
<1> USE BoundAssumption
    DEF Typed, TypeOK, ClocksStopped, MaxElapsed, WaitBelowTwiceTimeout
<1>1. ASSUME NEW c \in Callers, WaitEnter(c)
      PROVE  WaitBelowTwiceTimeout'
  BY <1>1 DEF WaitEnter, TakeResponse, Sleep, Goto
<1>2. ASSUME NEW c \in Callers, WaitResume(c)
      PROVE  WaitBelowTwiceTimeout'
  BY <1>2 DEF WaitResume, TakeResponse, Sleep, Goto
<1>3. ASSUME NEW c \in Callers, WaitTimeout(c)
      PROVE  WaitBelowTwiceTimeout'
  BY <1>3 DEF WaitTimeout, Goto
<1>4. CASE Tick
  BY <1>4 DEF Tick, callers
<1>5. ASSUME UNCHANGED timers,
             \A c \in Callers : pc'[c] = "waiting" => pc[c] = "waiting"
      PROVE  WaitBelowTwiceTimeout'
  BY <1>5 DEF timers
<1>6. ASSUME \/ UNCHANGED vars
             \/ \E w \in Workers : WorkerStep(w) \/ CallbackReturns(w)
      PROVE  WaitBelowTwiceTimeout'
  BY <1>5, <1>6
     DEF WorkerStep, vars, callers, NotifyAll, Deliver, StoreResponse,
         NobodyWaits, CheckCallback, GetCallback, DelCallback, DelCallbackFails,
         CallbackReturns, OnResponseFinally
<1>7. ASSUME \E c \in Callers, r \in Requests :
                SyncRegister(c, r) \/ AsyncRegister(c, r) \/ AsyncNoCallback(c, r)
      PROVE  WaitBelowTwiceTimeout'
  BY <1>5, <1>7 DEF Goto, Enter, SyncRegister, AsyncRegister, AsyncNoCallback
<1>8. ASSUME NEW c \in Callers, CallerStep(c),
             ~ WaitEnter(c), ~ WaitResume(c), ~ WaitTimeout(c)
      PROVE  WaitBelowTwiceTimeout'
  BY <1>5, <1>8
     DEF CallerStep, Goto, Leave, SyncAddCurrent, SyncSend, SyncSendFails,
         WaitExpires, SyncRemoveCurrent, SyncUnregister, AsyncAddCurrent,
         AsyncSend, AsyncSendFails, AsyncUnregister, AsyncRemoveCurrent
<1> QED
  BY <1>1, <1>2, <1>3, <1>4, <1>6, <1>7, <1>8 DEF Next

\* The invariant holds in every reachable state.
LEMMA Invariance == Spec => []IInv
<1>1. IInv /\ [Next]_vars => IInv'
  BY TypedStep, TablesStep, ReadersStep, RunsStep, WaitStep DEF IInv
<1> QED
  BY InitInv, <1>1, PTL DEF Spec

-----------------------------------------------------------------------------

\* Type correctness, for every number of threads and requests.
THEOREM TypeCorrect == Spec => []TypeOK
BY Invariance, PTL DEF IInv, Typed

\* A synchronous call that still wants its response is in exactly one of the two
\* tables until it takes the response or gives up, whoever else uses them.
THEOREM AwaitedRegistration == Spec => []AwaitedIsRegistered
BY Invariance, PTL DEF IInv, Tables

\* sync_request leaves nothing in the tables, whatever the order of response,
\* timeout, failed send and retry.
THEOREM NoResidue == Spec => []NoSyncResidue
BY Invariance, PTL DEF IInv, Tables

\* No caller sleeps in wait_for_response with its response stored.
THEOREM NoWakeupLost == Spec => []NoLostWakeup
BY Invariance, PTL DEF IInv, Tables

\* Without a lock on callback_map, no callback runs more often than once for its
\* own registration and once for each later one of the same request.
THEOREM AtMostOnce == Spec => []CallbackAtMostOnce
<1>1. IInv => CallbackAtMostOnce
  <2> SUFFICES ASSUME IInv, NEW r \in Requests, NEW k \in Callbacks(r),
                      k <= registered[r]
               PROVE  invoked[r][k] <= 1 + (registered[r] - k)
    BY DEF CallbackAtMostOnce
  <2>1. invoked[r][k] \in Nat
    BY DEF IInv, Typed, TypeOK
  <2>2. invoked[r][k] + ToCome(r, k) <= Allowed(r, k)
    BY DEF IInv, RunsAllowed
  <2> QED
    BY <2>1, <2>2 DEF IInv, Typed, TypeOK, ToCome, Allowed, Callbacks
<1> QED
  BY Invariance, <1>1, PTL

\* However often wait_for_response is woken and sleeps again, it sleeps to less
\* than twice the timeout after it began.
THEOREM WaitBound == Spec => []WaitBelowTwiceTimeout
BY Invariance, PTL DEF IInv
-----------------------------------------------------------------------------
(* Refinement *)

\* What a step does to the calls, seen through the refinement mapping.
Same(d) == CallState(d)' = CallState(d) /\ Asked(d)' = Asked(d)
AllSame == \A d \in Callers : Same(d)
OthersSame(c) == \A d \in Callers : d # c => Same(d)

Begins(c, r) ==
    /\ CallState(c) = "idle" /\ CallState(c)' = "open" /\ Asked(c)' = r
    /\ \A d \in Callers : Asked(d) # r
    /\ OthersSame(c)

Answers(c) ==
    /\ CallState(c) = "open" /\ CallState(c)' = "answered"
    /\ Asked(c)' = Asked(c)
    /\ OthersSame(c)

Finishes(c) ==
    /\ CallState(c) \in {"open", "answered"} /\ CallState(c)' = "finished"
    /\ Asked(c)' = Asked(c)
    /\ OthersSame(c)

Returns(c) ==
    /\ CallState(c) = "finished" /\ CallState(c)' = "idle"
    /\ Asked(c)' = NoRequest
    /\ OthersSame(c)

\* Each of these is a step of RequestCalls, or none.
LEMMA MappedStep ==
    /\ AllSame => UNCHANGED Calls!calls
    /\ \A c \in Callers, r \in Requests : Begins(c, r) => Calls!Next
    /\ \A c \in Callers : Answers(c) \/ Finishes(c) \/ Returns(c) => Calls!Next
<1>1. AllSame => UNCHANGED Calls!calls
  BY DEF AllSame, Same, Calls!calls
<1>2. ASSUME NEW c \in Callers, NEW r \in Requests, Begins(c, r)
      PROVE  Calls!Begin(c, r)
  BY <1>2 DEF Begins, OthersSame, Same, Calls!Begin
<1>3. ASSUME NEW c \in Callers, Answers(c)
      PROVE  Calls!Answer(c)
  BY <1>3 DEF Answers, OthersSame, Same, Calls!Answer
<1>4. ASSUME NEW c \in Callers, Finishes(c)
      PROVE  Calls!Finish(c)
  BY <1>4 DEF Finishes, OthersSame, Same, Calls!Finish
<1>5. ASSUME NEW c \in Callers, Returns(c)
      PROVE  Calls!Return(c)
  BY <1>5 DEF Returns, OthersSame, Same, Calls!Return
<1> QED
  BY <1>1, <1>2, <1>3, <1>4, <1>5 DEF Calls!Next

\* Every step of the implementation moves one call the way RequestCalls lets it,
\* or none.
LEMMA StepSimulation ==
    ASSUME IInv, [Next]_vars PROVE [Calls!Next]_(Calls!calls)
<1> USE RequestAssumption
    DEF IInv, Typed, TypeOK, CallsOwn, Tables, TablesDisjoint,
        AwaitedIsRegistered, NoSyncResidue, AllSame, OthersSame, Same, CallState,
        Asked, AwaitsResponse, InSyncCall, SyncPC, AsyncPC, tables, callers,
        timers, workers, history
<1>1. ASSUME NEW c \in Callers, NEW r \in Requests, SyncRegister(c, r)
      PROVE  Begins(c, r)
  BY <1>1 DEF Begins, SyncRegister, Enter, Goto
<1>2. ASSUME NEW c \in Callers, NEW r \in Requests, AsyncRegister(c, r)
      PROVE  AllSame
  BY <1>2 DEF AsyncRegister, Enter, Goto
<1>3. ASSUME NEW c \in Callers, NEW r \in Requests, AsyncNoCallback(c, r)
      PROVE  AllSame
  BY <1>3 DEF AsyncNoCallback, Enter, Goto
<1>4. ASSUME NEW c \in Callers, SyncAddCurrent(c)
      PROVE  AllSame
  BY <1>4 DEF SyncAddCurrent, AddCurrent, Goto
<1>5. ASSUME NEW c \in Callers, SyncSend(c)
      PROVE  AllSame
  BY <1>5 DEF SyncSend, Publish, Goto
<1>6. ASSUME NEW c \in Callers, SyncSendFails(c)
      PROVE  Finishes(c)
  BY <1>6 DEF Finishes, SyncSendFails, Goto
<1>7. ASSUME NEW c \in Callers, WaitEnter(c)
      PROVE  AllSame \/ Finishes(c)
  <2>1. CASE TakeResponse(c)
    BY <1>7, <2>1 DEF Finishes, WaitEnter, TakeResponse, Goto
  <2>2. CASE Sleep(c)
    BY <1>7, <2>2 DEF WaitEnter, Sleep, Goto
  <2> QED
    BY <1>7, <2>1, <2>2 DEF WaitEnter
<1>8. ASSUME NEW c \in Callers, WaitExpires(c)
      PROVE  AllSame
  BY <1>8 DEF WaitExpires, Goto
<1>9. ASSUME NEW c \in Callers, WaitResume(c)
      PROVE  AllSame \/ Finishes(c)
  <2>1. CASE TakeResponse(c)
    BY <1>9, <2>1 DEF Finishes, WaitResume, TakeResponse, Goto
  <2>2. CASE Sleep(c)
    BY <1>9, <2>2 DEF WaitResume, Sleep, Goto
  <2> QED
    BY <1>9, <2>1, <2>2 DEF WaitResume
<1>10. ASSUME NEW c \in Callers, WaitTimeout(c)
      PROVE  Finishes(c)
  BY <1>10 DEF Finishes, WaitTimeout, Goto
<1>11. ASSUME NEW c \in Callers, SyncRemoveCurrent(c)
      PROVE  AllSame
  BY <1>11 DEF SyncRemoveCurrent, RemoveCurrent, Goto
<1>12. ASSUME NEW c \in Callers, SyncUnregister(c)
      PROVE  Returns(c)
  BY <1>12 DEF Returns, SyncUnregister, Leave, Goto
<1>13. ASSUME NEW c \in Callers, AsyncAddCurrent(c)
      PROVE  AllSame
  BY <1>13 DEF AsyncAddCurrent, AddCurrent, Goto
<1>14. ASSUME NEW c \in Callers, AsyncSend(c)
      PROVE  AllSame
  BY <1>14 DEF AsyncSend, Publish, Leave, Goto
<1>15. ASSUME NEW c \in Callers, AsyncSendFails(c)
      PROVE  AllSame
  BY <1>15 DEF AsyncSendFails, Goto
<1>16. ASSUME NEW c \in Callers, AsyncUnregister(c)
      PROVE  AllSame
  BY <1>16 DEF AsyncUnregister, UnregisterKey, Goto
<1>17. ASSUME NEW c \in Callers, AsyncRemoveCurrent(c)
      PROVE  AllSame
  BY <1>17 DEF AsyncRemoveCurrent, RemoveCurrent, Leave, Goto
<1>18. ASSUME NEW w \in Workers, NEW r \in Requests, Deliver(w, r)
      PROVE  AllSame
  BY <1>18 DEF Deliver, WGoto
<1>19. ASSUME NEW w \in Workers, StoreResponse(w)
      PROVE  AllSame \/ \E c \in Callers : Answers(c)
  <2>1. PICK c \in Callers : InSyncCall(c) /\ req[c] = wreq[w]
    BY <1>19 DEF StoreResponse
  <2>2. OthersSame(c)
    BY <1>19, <2>1 DEF StoreResponse, NotifyAll, WGoto
  <2>3. CASE AwaitsResponse(c)
    BY <1>19, <2>1, <2>2, <2>3 DEF Answers, StoreResponse, NotifyAll, WGoto
  <2>4. CASE ~ AwaitsResponse(c)
    BY <1>19, <2>1, <2>2, <2>4 DEF StoreResponse, NotifyAll, WGoto
  <2> QED
    BY <2>3, <2>4
<1>20. ASSUME NEW w \in Workers, NobodyWaits(w)
      PROVE  AllSame
  BY <1>20 DEF NobodyWaits, WGoto
<1>21. ASSUME NEW w \in Workers, CheckCallback(w)
      PROVE  AllSame
  BY <1>21 DEF CheckCallback, WGoto
<1>22. ASSUME NEW w \in Workers, GetCallback(w)
      PROVE  AllSame
  BY <1>22 DEF GetCallback, WGoto
<1>23. ASSUME NEW w \in Workers, DelCallback(w)
      PROVE  AllSame
  BY <1>23 DEF DelCallback, WGoto
<1>24. ASSUME NEW w \in Workers, DelCallbackFails(w)
      PROVE  AllSame
  BY <1>24 DEF DelCallbackFails, WGoto
<1>25. ASSUME NEW w \in Workers, CallbackReturns(w)
      PROVE  AllSame
  BY <1>25 DEF CallbackReturns, WGoto
<1>26. ASSUME NEW w \in Workers, OnResponseFinally(w)
      PROVE  AllSame
  BY <1>26 DEF OnResponseFinally, RemoveCurrent, WGoto
<1>27. ASSUME Tick
      PROVE  AllSame
  BY <1>27 DEF Tick
<1>28. ASSUME UNCHANGED vars
      PROVE  AllSame
  BY <1>28 DEF vars
<1>29. AllSame \/ Calls!Next
  BY MappedStep, <1>1, <1>2, <1>3, <1>4, <1>5, <1>6, <1>7, <1>8, <1>9, <1>10, <1>11,
     <1>12, <1>13, <1>14, <1>15, <1>16, <1>17, <1>18, <1>19, <1>20, <1>21, <1>22, <1>23,
     <1>24, <1>25, <1>26, <1>27, <1>28
     DEF Next, CallerStep, WorkerStep
<1> QED
  BY <1>29, MappedStep

\* The shared tables, condition and pool implement independent calls.
THEOREM Refinement == Spec => ImplementsCalls
<1>1. Init => Calls!Init
  BY DEF Init, Calls!Init, CallState, Asked, InSyncCall, SyncPC
<1>2. IInv /\ [Next]_vars => [Calls!Next]_(Calls!calls)
  BY StepSimulation
<1> QED
  BY Invariance, <1>1, <1>2, PTL DEF Spec, ImplementsCalls, Calls!Spec
=============================================================================
