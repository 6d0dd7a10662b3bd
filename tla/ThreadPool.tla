----------------------------- MODULE ThreadPool -----------------------------
(***************************************************************************)
(* The incoming message pool: dxlclient/_thread_pool.py over Python's       *)
(* Queue.Queue (external: a bounded FIFO with a count of unfinished items   *)
(* that join waits on).                                                     *)
(*                                                                          *)
(* Producers add tasks (client.py, _on_message, on the MQTT thread);        *)
(* Workers are the ThreadPoolWorkers; Waiters call wait_completion          *)
(* (DxlClient._disconnect) and one of them, the Closer, calls shutdown      *)
(* (DxlClient.destroy, once: _destroy_lock and _destroyed).  A task is one  *)
(* incoming message.  It may call wait_completion itself (a callback that   *)
(* disconnects the client), and it may end in something that is not a       *)
(* Python Exception (a Java exception of a listener), which the worker's    *)
(* "except Exception" does not catch.                                       *)
(***************************************************************************)
EXTENDS Integers, Sequences, FiniteSets

CONSTANTS
    Producers, Workers, Waiters,
    Closer,     \* the waiter that shuts the pool down
    Tasks,      \* bound: the messages that ever arrive
    NoTask,     \* no task
    Exit,       \* the None that ends a worker
    QueueSize   \* queue_size; 0 or less for no bound

ASSUME PoolAssumption ==
    /\ IsFiniteSet(Workers)
    /\ Closer \in Waiters
    /\ NoTask \notin Tasks /\ Exit \notin Tasks /\ Exit # NoTask
    /\ QueueSize \in Int

VARIABLES
    queue,       \* the items of the Queue
    unfinished,  \* its unfinished_tasks
    offered,     \* the task a producer is in put with, or NoTask
    wpc,         \* where each worker is
    task,        \* the item it took, NoTask when it has none
    waiter,      \* where each waiter is
    pills,       \* how many None the closer has put
    accepted,    \* history: tasks that add_task returned for
    completed    \* history: tasks that ran to their end

vars == <<queue, unfinished, offered, wpc, task, waiter, pills, accepted,
          completed>>

TypeOK ==
    /\ queue \in Seq(Tasks \cup {Exit})
    /\ unfinished \in Nat
    /\ offered \in [Producers -> Tasks \cup {NoTask}]
    /\ wpc \in [Workers -> {"idle", "running", "joining", "dead", "exited"}]
    /\ task \in [Workers -> Tasks \cup {NoTask, Exit}]
    /\ waiter \in [Waiters -> {"out", "joining", "pills", "threads", "closed"}]
    /\ pills \in 0 .. Cardinality(Workers)
    /\ accepted \subseteq Tasks
    /\ completed \subseteq Tasks

Init ==
    /\ queue = <<>>
    /\ unfinished = 0
    /\ offered = [p \in Producers |-> NoTask]
    /\ wpc = [w \in Workers |-> "idle"]
    /\ task = [w \in Workers |-> NoTask]
    /\ waiter = [j \in Waiters |-> "out"]
    /\ pills = 0
    /\ accepted = {}
    /\ completed = {}

-----------------------------------------------------------------------------
(* Queue.Queue *)

NotFull == QueueSize <= 0 \/ Len(queue) < QueueSize

Put(item) ==
    /\ NotFull
    /\ queue' = Append(queue, item)
    /\ unfinished' = unfinished + 1

\* task_done: the count of unfinished items goes down.
TaskDone == unfinished' = unfinished - 1

-----------------------------------------------------------------------------
(* add_task *)

\* A message arrives: its handler enters put.
Offer(p, t) ==
    /\ offered[p] = NoTask
    /\ t \notin accepted
    /\ \A q \in Producers : offered[q] # t
    /\ offered' = [offered EXCEPT ![p] = t]
    /\ UNCHANGED <<queue, unfinished, wpc, task, waiter, pills, accepted,
                   completed>>

\* put returns as soon as there is room; until then its thread is blocked.
AddTask(p) ==
    /\ offered[p] # NoTask
    /\ Put(offered[p])
    /\ accepted' = accepted \cup {offered[p]}
    /\ offered' = [offered EXCEPT ![p] = NoTask]
    /\ UNCHANGED <<wpc, task, waiter, pills, completed>>

-----------------------------------------------------------------------------
(* ThreadPoolWorker.run *)

\* Bug: the item is marked done when it is taken.
Get_DoneEarly(w) ==
    /\ wpc[w] = "idle"
    /\ queue # <<>>
    /\ Head(queue) # Exit
    /\ task' = [task EXCEPT ![w] = Head(queue)]
    /\ queue' = Tail(queue)
    /\ wpc' = [wpc EXCEPT ![w] = "running"]
    /\ TaskDone
    /\ UNCHANGED <<offered, waiter, pills, accepted, completed>>

\* get returns a task, which starts.
Get(w) ==
    /\ wpc[w] = "idle"
    /\ queue # <<>>
    /\ Head(queue) # Exit
    /\ task' = [task EXCEPT ![w] = Head(queue)]
    /\ queue' = Tail(queue)
    /\ wpc' = [wpc EXCEPT ![w] = "running"]
    /\ UNCHANGED <<unfinished, offered, waiter, pills, accepted, completed>>

\* get returns None: the thread ends, without task_done.
GetExit(w) ==
    /\ wpc[w] = "idle"
    /\ queue # <<>>
    /\ Head(queue) = Exit
    /\ task' = [task EXCEPT ![w] = Exit]
    /\ queue' = Tail(queue)
    /\ wpc' = [wpc EXCEPT ![w] = "exited"]
    /\ UNCHANGED <<unfinished, offered, waiter, pills, accepted, completed>>

\* Bug: the handler of the exception skips task_done.
Finish_ErrorNotDone(w) ==
    /\ wpc[w] = "running"
    /\ completed' = completed \cup {task[w]}
    /\ wpc' = [wpc EXCEPT ![w] = "idle"]
    /\ task' = [task EXCEPT ![w] = NoTask]
    /\ unfinished' \in {unfinished, unfinished - 1}
    /\ UNCHANGED <<queue, offered, waiter, pills, accepted>>

\* Bug: an exception of the task ends the worker.
Finish_ErrorEndsThread(w) ==
    /\ wpc[w] = "running"
    /\ completed' = completed \cup {task[w]}
    /\ wpc' \in {[wpc EXCEPT ![w] = "idle"], [wpc EXCEPT ![w] = "exited"]}
    /\ task' = [task EXCEPT ![w] = NoTask]
    /\ TaskDone
    /\ UNCHANGED <<queue, offered, waiter, pills, accepted>>

\* The task returns, or raises an Exception that is logged.
Finish(w) ==
    /\ wpc[w] = "running"
    /\ completed' = completed \cup {task[w]}
    /\ wpc' = [wpc EXCEPT ![w] = "idle"]
    /\ task' = [task EXCEPT ![w] = NoTask]
    /\ TaskDone
    /\ UNCHANGED <<queue, offered, waiter, pills, accepted>>

\* What the task ends in passes "except Exception": the thread dies with it.
Escape(w) ==
    /\ wpc[w] = "running"
    /\ wpc' = [wpc EXCEPT ![w] = "dead"]
    /\ UNCHANGED <<queue, unfinished, offered, task, waiter, pills, accepted,
                   completed>>

\* The task disconnects the client, which calls wait_completion.
JoinInside(w) ==
    /\ wpc[w] = "running"
    /\ wpc' = [wpc EXCEPT ![w] = "joining"]
    /\ UNCHANGED <<queue, unfinished, offered, task, waiter, pills, accepted,
                   completed>>

-----------------------------------------------------------------------------
(* wait_completion and shutdown *)

\* Queue.join is entered, by shutdown when the waiter is the closer.
WaitCompletion(j) ==
    /\ waiter[j] = "out"
    /\ waiter' = [waiter EXCEPT ![j] = "joining"]
    /\ UNCHANGED <<queue, unfinished, offered, wpc, task, pills, accepted,
                   completed>>

\* Queue.join returns.
JoinReturns(j) ==
    /\ waiter[j] = "joining"
    /\ unfinished = 0
    /\ waiter' = [waiter EXCEPT ![j] = IF j = Closer THEN "pills" ELSE "out"]
    /\ UNCHANGED <<queue, unfinished, offered, wpc, task, pills, accepted,
                   completed>>

\* Bug: one None too few.
PutPill_OneShort ==
    /\ waiter[Closer] = "pills"
    /\ pills < Cardinality(Workers) - 1
    /\ Put(Exit)
    /\ pills' = pills + 1
    /\ UNCHANGED <<offered, wpc, task, waiter, accepted, completed>>

\* shutdown adds one None for each thread.
PutPill ==
    /\ waiter[Closer] = "pills"
    /\ pills < Cardinality(Workers)
    /\ Put(Exit)
    /\ pills' = pills + 1
    /\ UNCHANGED <<offered, wpc, task, waiter, accepted, completed>>

PillsPut ==
    /\ waiter[Closer] = "pills"
    /\ pills = Cardinality(Workers)
    /\ waiter' = [waiter EXCEPT ![Closer] = "threads"]
    /\ UNCHANGED <<queue, unfinished, offered, wpc, task, pills, accepted,
                   completed>>

\* t.join() has returned for every thread.
ThreadsJoined ==
    /\ waiter[Closer] = "threads"
    /\ \A w \in Workers : wpc[w] \in {"exited", "dead"}
    /\ waiter' = [waiter EXCEPT ![Closer] = "closed"]
    /\ UNCHANGED <<queue, unfinished, offered, wpc, task, pills, accepted,
                   completed>>

-----------------------------------------------------------------------------

WorkerStep(w) == Get(w) \/ GetExit(w) \/ Finish(w) \/ Escape(w) \/ JoinInside(w)

CloserStep == JoinReturns(Closer) \/ PutPill \/ PillsPut \/ ThreadsJoined

Next ==
    \/ \E p \in Producers : AddTask(p) \/ \E t \in Tasks : Offer(p, t)
    \/ \E w \in Workers : WorkerStep(w)
    \/ \E j \in Waiters : WaitCompletion(j) \/ JoinReturns(j)
    \/ PutPill \/ PillsPut \/ ThreadsJoined

Spec == Init /\ [][Next]_vars

\* Threads run: a task ends, a put with room and a join with nothing unfinished
\* return.  Messages need not arrive and nobody has to close the pool.
FairSpec ==
    /\ Spec
    /\ \A p \in Producers : WF_vars(AddTask(p))
    /\ \A w \in Workers : WF_vars(WorkerStep(w))
    /\ \A j \in Waiters : WF_vars(JoinReturns(j))
    /\ WF_vars(CloserStep)

-----------------------------------------------------------------------------
(* Properties *)

\* Workers that took an item which task_done was not called for.
Busy == {w \in Workers : wpc[w] # "idle"}

\* unfinished_tasks counts what is queued and what is in a worker's hands, also
\* the None of a worker that ended and the task of a worker that died.
TasksCounted == unfinished = Len(queue) + Cardinality(Busy)

\* When wait_completion returns, every task that was accepted until then has run
\* to its end: DxlClient._disconnect relies on it before it stops the MQTT loop.
JoinIsQuiet ==
    [][\A j \in Waiters :
          waiter[j] = "joining" /\ waiter'[j] # "joining" => accepted \subseteq completed]_vars

\* The workers that a task killed or blocked for good.
Lost == {w \in Workers : wpc[w] \in {"dead", "joining"}}

\* Every None is queued or taken, and the task is behind the last of them.
BehindPills(t) ==
    /\ pills = Cardinality(Workers)
    /\ \E i \in DOMAIN queue :
          queue[i] = t /\ \A j \in DOMAIN queue : queue[j] = Exit => j < i

\* The pool has begun to put None on the queue.
Closing == waiter[Closer] \in {"pills", "threads", "closed"}

\* A queued task is started as long as one worker is left, whatever other tasks
\* raise and also while the pool is shut down, unless it came behind the None of
\* the last worker; a pool that is shut down after it lost a worker has one None
\* too many and may leave more behind.
AcceptedTaskRuns ==
    \A t \in Tasks :
        (\E i \in DOMAIN queue : queue[i] = t) ~>
            \/ \A i \in DOMAIN queue : queue[i] # t
            \/ BehindPills(t)
            \/ Closing /\ Lost # {}
            \/ Lost = Workers

\* shutdown returns, even against producers that fill the queue, unless a task
\* killed or blocked its worker.
ShutdownReturns ==
    waiter[Closer] = "joining" ~> waiter[Closer] = "closed" \/ Lost # {}
=============================================================================
