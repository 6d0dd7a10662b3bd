-------------------------- MODULE ThreadPool_proofs --------------------------
(***************************************************************************)
(* wait_completion is exact for any number of workers, producers, waiters  *)
(* and tasks and any queue size.  The count unfinished_tasks is tied to     *)
(* the tasks themselves in two parts: it is the number of items queued or   *)
(* in a worker's hands (TasksCounted), and an accepted task is completed,   *)
(* queued or in a worker's hands (TasksLocated).                            *)
(***************************************************************************)
EXTENDS ThreadPool, FiniteSetTheorems, TLAPS

\* Where an accepted task can be.
TasksLocated ==
    \A t \in accepted :
        \/ t \in completed
        \/ \E i \in 1 .. Len(queue) : queue[i] = t
        \/ \E w \in Busy : task[w] = t

\* A worker with a task to run has one.
WorkersHold ==
    \A w \in Workers :
        wpc[w] \in {"running", "joining", "dead"} => task[w] \in Tasks

IInv == TypeOK /\ WorkersHold /\ TasksCounted /\ TasksLocated

\* The step of JoinIsQuiet.
QuietStep ==
    \A j \in Waiters :
        waiter[j] = "joining" /\ waiter'[j] # "joining" => accepted \subseteq completed

-----------------------------------------------------------------------------

\* The workers that hold an item are finitely many.
LEMMA BusyFinite == IsFiniteSet(Busy) /\ Cardinality(Busy) \in Nat
<1>1. Busy \subseteq Workers /\ IsFiniteSet(Workers)
  BY PoolAssumption DEF Busy
<1> QED
  BY <1>1, FS_Subset, FS_CardinalityType

\* The number of workers that hold an item when one takes or gives up an item.
LEMMA BusyGrows ==
    ASSUME NEW w \in Workers, w \notin Busy, Busy' = Busy \cup {w}
    PROVE  Cardinality(Busy') = Cardinality(Busy) + 1
BY BusyFinite, FS_AddElement

\* One fewer when a worker gives its item up.
LEMMA BusyShrinks ==
    ASSUME NEW w \in Workers, w \in Busy, Busy' = Busy \ {w}
    PROVE  Cardinality(Busy') = Cardinality(Busy) - 1
BY BusyFinite, FS_RemoveElement

\* Nothing is busy when nothing is counted.
LEMMA NothingBusy == ASSUME Cardinality(Busy) = 0 PROVE Busy = {}
BY BusyFinite, FS_EmptySet

\* An empty pool satisfies the invariant.
LEMMA InitInv == Init => IInv
<1> SUFFICES ASSUME Init PROVE IInv
  OBVIOUS
<1>1. Busy = {}
  BY DEF Init, Busy
<1>2. Cardinality(Busy) = 0 /\ Cardinality(Workers) \in Nat
  BY <1>1, FS_EmptySet, PoolAssumption, FS_CardinalityType
<1> QED
  BY <1>2, PoolAssumption DEF Init, IInv, TypeOK, WorkersHold, TasksCounted, TasksLocated

\* A step that neither moves an item nor a worker.
LEMMA Unmoved ==
    ASSUME IInv, UNCHANGED <<queue, unfinished, wpc, task, accepted, completed>>,
           TypeOK'
    PROVE  IInv'
BY DEF IInv, WorkersHold, TasksCounted, TasksLocated, Busy

\* Appending an item.
LEMMA PutStep ==
    ASSUME IInv, NEW item \in Tasks \cup {Exit}, Put(item), UNCHANGED <<wpc, task, completed>>,
           accepted' \subseteq accepted \cup {item}, TypeOK'
    PROVE  IInv'
<1>1. /\ Len(queue') = Len(queue) + 1
      /\ \A i \in 1 .. Len(queue) : queue'[i] = queue[i]
      /\ queue'[Len(queue')] = item
  BY DEF IInv, TypeOK, Put
<1>2. Busy' = Busy
  BY DEF Busy
<1>3. TasksCounted'
  BY <1>1, <1>2, BusyFinite DEF IInv, TypeOK, TasksCounted, Put
<1>4. TasksLocated'
  <2> SUFFICES ASSUME NEW t \in accepted', t \notin completed
               PROVE  \/ \E i \in 1 .. Len(queue') : queue'[i] = t
                      \/ \E w \in Busy' : task'[w] = t
    BY DEF TasksLocated
  <2>1. Len(queue) \in Nat /\ Len(queue') \in 1 .. Len(queue')
    BY <1>1 DEF IInv, TypeOK
  <2>2. CASE t = item
    BY <2>1, <2>2, <1>1
  <2>3. CASE t # item
    <3>1. t \in accepted
      BY <2>3
    <3>2. CASE \E i \in 1 .. Len(queue) : queue[i] = t
      <4>1. PICK i \in 1 .. Len(queue) : queue[i] = t
        BY <3>2
      <4> QED
        BY <4>1, <2>1, <1>1
    <3>3. CASE \E w \in Busy : task[w] = t
      BY <3>3, <1>2
    <3> QED
      BY <3>1, <3>2, <3>3 DEF IInv, TasksLocated
  <2> QED
    BY <2>2, <2>3
<1> QED
  BY <1>3, <1>4 DEF IInv, WorkersHold

\* A worker takes the first item.
LEMMA TakeStep ==
    ASSUME IInv, NEW w \in Workers, Get(w) \/ GetExit(w)
    PROVE  IInv'
<1>1. /\ queue # <<>>
      /\ queue' = Tail(queue)
      /\ task' = [task EXCEPT ![w] = Head(queue)]
      /\ w \notin Busy /\ Busy' = Busy \cup {w}
      /\ UNCHANGED <<unfinished, accepted, completed>>
  BY DEF IInv, TypeOK, Get, GetExit, Busy
<1>2. /\ Len(queue') = Len(queue) - 1
      /\ \A i \in 2 .. Len(queue) : queue'[i - 1] = queue[i]
      /\ Head(queue) = queue[1]
  BY <1>1 DEF IInv, TypeOK
<1>3. TypeOK' /\ WorkersHold'
  <2>1. Head(queue) \in Tasks \cup {Exit} /\ queue' \in Seq(Tasks \cup {Exit})
    BY <1>1 DEF IInv, TypeOK
  <2> QED
    BY <2>1 DEF IInv, TypeOK, WorkersHold, Get, GetExit
<1>4. TasksCounted'
  <2>1. Cardinality(Busy') = Cardinality(Busy) + 1
    BY <1>1, BusyGrows
  <2> QED
    BY <2>1, <1>1, <1>2, BusyFinite DEF IInv, TypeOK, TasksCounted
<1>5. TasksLocated'
  <2> SUFFICES ASSUME NEW t \in accepted, t \notin completed
               PROVE  \/ \E i \in 1 .. Len(queue') : queue'[i] = t
                      \/ \E v \in Busy' : task'[v] = t
    BY <1>1 DEF TasksLocated
  <2>1. CASE \E v \in Busy : task[v] = t
    BY <2>1, <1>1 DEF IInv, TypeOK, Busy
  <2>2. CASE \E i \in 1 .. Len(queue) : queue[i] = t
    <3>1. PICK i \in 1 .. Len(queue) : queue[i] = t
      BY <2>2
    <3>2. CASE i = 1
      BY <3>1, <3>2, <1>1, <1>2 DEF IInv, TypeOK
    <3>3. CASE i # 1
      <4>1. Len(queue) \in Nat
        BY DEF IInv, TypeOK
      <4>2. i \in 2 .. Len(queue) /\ i - 1 \in 1 .. Len(queue) - 1
        BY <4>1, <3>1, <3>3
      <4>3. queue'[i - 1] = t /\ i - 1 \in 1 .. Len(queue')
        BY <4>2, <3>1, <1>2
      <4> QED
        BY <4>3
    <3> QED
      BY <3>2, <3>3
  <2> QED
    BY <2>1, <2>2 DEF IInv, TasksLocated
<1> QED
  BY <1>3, <1>4, <1>5 DEF IInv

\* A worker ends its task and calls task_done.
LEMMA FinishStep ==
    ASSUME IInv, NEW w \in Workers, Finish(w)
    PROVE  IInv'
<1>1. /\ w \in Busy /\ Busy' = Busy \ {w}
      /\ completed' = completed \cup {task[w]}
      /\ task' = [task EXCEPT ![w] = NoTask]
      /\ UNCHANGED <<queue, accepted>>
  BY DEF IInv, TypeOK, Finish, Busy
<1>2. Cardinality(Busy') = Cardinality(Busy) - 1 /\ Cardinality(Busy') \in Nat
  <2>1. IsFiniteSet(Busy')
    BY <1>1, BusyFinite, FS_Subset
  <2> QED
    BY <2>1, <1>1, BusyShrinks, FS_CardinalityType
<1>3. TasksCounted' /\ unfinished' \in Nat
  BY <1>1, <1>2, BusyFinite DEF IInv, TypeOK, TasksCounted, Finish, TaskDone
<1>4. TasksLocated'
  BY <1>1 DEF IInv, TypeOK, TasksLocated, Busy
<1>5. TypeOK' /\ WorkersHold'
  BY <1>3 DEF IInv, TypeOK, WorkersHold, Finish
<1> QED
  BY <1>3, <1>4, <1>5 DEF IInv

\* Every step keeps the invariant.
LEMMA NextStep == ASSUME IInv, [Next]_vars PROVE IInv'
<1>0. /\ TypeOK
      /\ Cardinality(Workers) \in Nat
  BY PoolAssumption, FS_CardinalityType DEF IInv
<1>1. ASSUME NEW p \in Producers, NEW t \in Tasks, Offer(p, t)
      PROVE  IInv'
  <2>1. TypeOK'
    BY <1>0, <1>1 DEF TypeOK, Offer
  <2> QED
    BY <2>1, <1>1, Unmoved DEF Offer
<1>2. ASSUME NEW p \in Producers, AddTask(p)
      PROVE  IInv'
  <2>1. offered[p] \in Tasks /\ TypeOK'
    BY <1>0, <1>2 DEF TypeOK, AddTask, Put
  <2>2. /\ Put(offered[p])
        /\ UNCHANGED <<wpc, task, completed>>
        /\ accepted' \subseteq accepted \cup {offered[p]}
    BY <1>2 DEF AddTask
  <2> QED
    BY <2>1, <2>2, PutStep
<1>3. ASSUME NEW w \in Workers, Get(w) \/ GetExit(w)
      PROVE  IInv'
  BY <1>3, TakeStep
<1>4. ASSUME NEW w \in Workers, Finish(w)
      PROVE  IInv'
  BY <1>4, FinishStep
<1>5. ASSUME NEW w \in Workers, Escape(w) \/ JoinInside(w)
      PROVE  IInv'
  <2>1. TypeOK' /\ WorkersHold'
    BY <1>0, <1>5 DEF IInv, TypeOK, WorkersHold, Escape, JoinInside
  <2>2. Busy' = Busy /\ UNCHANGED <<queue, unfinished, task, accepted, completed>>
    BY <1>0, <1>5 DEF TypeOK, Busy, Escape, JoinInside
  <2> QED
    BY <2>1, <2>2 DEF IInv, TasksCounted, TasksLocated
<1>6. ASSUME NEW j \in Waiters, WaitCompletion(j) \/ JoinReturns(j)
      PROVE  IInv'
  <2>1. TypeOK'
    BY <1>0, <1>6 DEF TypeOK, WaitCompletion, JoinReturns
  <2> QED
    BY <2>1, <1>6, Unmoved DEF WaitCompletion, JoinReturns
<1>7. CASE PutPill
  <2>1. TypeOK'
    BY <1>0, <1>7 DEF TypeOK, PutPill, Put
  <2>2. Put(Exit) /\ UNCHANGED <<wpc, task, completed, accepted>>
    BY <1>7 DEF PutPill
  <2> QED
    BY <2>1, <2>2, PutStep
<1>8. CASE PillsPut \/ ThreadsJoined
  <2>1. TypeOK'
    BY <1>0, <1>8, PoolAssumption DEF TypeOK, PillsPut, ThreadsJoined
  <2> QED
    BY <2>1, <1>8, Unmoved DEF PillsPut, ThreadsJoined
<1>9. CASE UNCHANGED vars
  <2>1. TypeOK'
    BY <1>0, <1>9 DEF TypeOK, vars
  <2> QED
    BY <2>1, <1>9, Unmoved DEF vars
<1> QED
  BY <1>1, <1>2, <1>3, <1>4, <1>5, <1>6, <1>7, <1>8, <1>9 DEF Next, WorkerStep

\* The invariant holds in every reachable state.
LEMMA Invariance == Spec => []IInv
<1>1. IInv /\ [Next]_vars => IInv'
  BY NextStep
<1> QED
  BY InitInv, <1>1, PTL DEF Spec

\* A join that returns saw nothing unfinished: no item is queued and no worker
\* has one, so an accepted task can only be completed.
LEMMA QuietJoin == ASSUME IInv, [Next]_vars PROVE QuietStep
<1>1. ASSUME NEW j \in Waiters, waiter[j] = "joining", waiter'[j] # "joining"
      PROVE  unfinished = 0
  BY <1>1, PoolAssumption
     DEF IInv, TypeOK, Next, WorkerStep, vars, Offer, AddTask, Put, Get, GetExit,
         Finish, Escape, JoinInside, WaitCompletion, JoinReturns, PutPill, PillsPut,
         ThreadsJoined
<1>2. ASSUME unfinished = 0
      PROVE  accepted \subseteq completed
  <2>1. Len(queue) = 0 /\ Cardinality(Busy) = 0
    BY <1>2, BusyFinite DEF IInv, TypeOK, TasksCounted
  <2>2. Busy = {}
    BY <2>1, NothingBusy
  <2> QED
    BY <2>1, <2>2 DEF IInv, TasksLocated
<1> QED
  BY <1>1, <1>2 DEF QuietStep

-----------------------------------------------------------------------------

\* Type correctness; in particular the count never goes below zero.
THEOREM TypeCorrect == Spec => []TypeOK
BY Invariance, PTL DEF IInv

\* unfinished_tasks is the number of items queued or held by a worker.
THEOREM Counted == Spec => []TasksCounted
BY Invariance, PTL DEF IInv

\* wait_completion returns only when every accepted task has run to its end, for
\* any number of threads, also with workers that died or disconnect the client.
THEOREM QuietAfterJoin == Spec => JoinIsQuiet
<1>1. IInv /\ [Next]_vars => [QuietStep]_vars
  BY QuietJoin
<1> QED
  BY Invariance, <1>1, PTL DEF Spec, JoinIsQuiet, QuietStep
=============================================================================
