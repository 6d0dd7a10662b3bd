--------------------------- MODULE Extensions_proofs ---------------------------
(*
Theorems about Extensions for any Java threads, objects, clients and bounds:
types, new objects from the factory, the mark of a started runner, and what can
become of a publisher's connection.
*)
EXTENDS Extensions, TLAPS

USE ExtensionsAssumption

\* The Boolean part of TypeOK, which the provers take better by itself.
Flags == /\ instance \in BOOLEAN /\ interpreter \in BOOLEAN
         /\ started \in [Objects -> BOOLEAN] /\ loop \in [Objects -> BOOLEAN]
         /\ handling \in [Clients -> BOOLEAN]
         /\ stopped \in [Objects -> BOOLEAN] /\ broken \in [Objects -> BOOLEAN]
         /\ crossed \in [Objects -> BOOLEAN] /\ givenUp \in [Clients -> BOOLEAN]

LEMMA NewObjectIsNew ==
    ASSUME Made # Objects
    PROVE  NewObject \in Objects /\ kind[NewObject] = NoKind
  BY DEF Made, NewObject

LEMMA NewClientIsUnused ==
    ASSUME CanMakeClient
    PROVE  NewClient \in Clients /\ conn[NewClient] = "unused"
  BY DEF CanMakeClient, NewClient

LEMMA TypeInit == Init => TypeOK
  <1> SUFFICES ASSUME Init PROVE TypeOK
    OBVIOUS
  <1>1. Flags
    BY Zenon DEF Init, Flags
  <1>2. "idle" \in Labels /\ calls \in 0..MaxCalls /\ losses \in 0..MaxLosses
    BY DEF Init, Labels
  <1> QED
    BY <1>1, <1>2 DEF Init, Flags, TypeOK

LEMMA TypeFactory ==
    ASSUME TypeOK, NEW t \in Threads,
           \/ \E k \in Kinds : CallFactory(t, k)
           \/ ExecName(t) \/ GetName(t) \/ CloseFactory(t) \/ InitFactory(t)
    PROVE  TypeOK'
  <1> USE DEF At, Goto, factoryVars, runnerVars, historyVars, threadVars
  <1>0. {"idle", "execName", "getName"} \subseteq Labels
    BY DEF Labels
  <1>1. ASSUME NEW k \in Kinds, CallFactory(t, k)
        PROVE  TypeOK'
    <2>1. Made \subseteq Objects
      BY DEF Made
    <2>2. /\ instance' \in BOOLEAN /\ interpreter' \in BOOLEAN
      BY <1>1, Zenon DEF CallFactory, TypeOK
    <2> QED
      BY <1>0, <1>1, <2>1, <2>2, SMTT(30) DEF CallFactory, TypeOK
  <1>2. CASE ExecName(t)
    BY <1>0, <1>2, NewObjectIsNew, SMTT(30) DEF ExecName, TypeOK, Kinds
  <1>3. CASE GetName(t)
    BY <1>0, <1>3, SMTT(30) DEF GetName, TypeOK
  <1>4. CASE CloseFactory(t)
    <2>1. Flags'
      BY <1>4, Zenon DEF CloseFactory, Flags, TypeOK
    <2> QED
      BY <1>0, <1>4, <2>1, SMTT(30) DEF CloseFactory, Flags, TypeOK
  <1>5. CASE InitFactory(t)
    <2>1. Flags'
      BY <1>5, Zenon DEF InitFactory, Flags, TypeOK
    <2> QED
      BY <1>0, <1>5, <2>1, SMTT(30) DEF InitFactory, Flags, TypeOK
  <1> QED
    BY <1>1, <1>2, <1>3, <1>4, <1>5

LEMMA TypeRunner ==
    ASSUME TypeOK, NEW t \in Threads,
           \/ \E o \in Objects : CallStart(t, o) \/ CallStop(t, o)
           \/ StartConfig(t) \/ StartConnect(t) \/ Register(t) \/ Mark(t)
           \/ LeaveLoop(t) \/ Interrupt(t) \/ Exit(t) \/ ExitRaises(t)
           \/ StopLoop(t)
    PROVE  TypeOK'
  <1> USE DEF At, Goto, End, factoryVars, runnerVars, historyVars, threadVars
  <1>0. {"idle", "stopLoop"} \cup StartLabels \subseteq Labels
    BY DEF Labels
  <1>1. ASSUME NEW o \in Objects, CallStart(t, o)
        PROVE  TypeOK'
    BY <1>0, <1>1, SMTT(30) DEF CallStart, TypeOK, StartLabels
  <1>2. ASSUME NEW o \in Objects, CallStop(t, o)
        PROVE  TypeOK'
    <2>1. Flags'
      BY <1>2, Zenon DEF CallStop, Flags, TypeOK
    <2> QED
      BY <1>0, <1>2, <2>1, SMTT(30) DEF CallStop, Flags, TypeOK
  <1>3. CASE StartConfig(t)
    BY <1>0, <1>3, NewClientIsUnused, SMTT(30) DEF StartConfig, TypeOK, StartLabels
  <1>4. CASE StartConnect(t)
    BY <1>0, <1>4, SMTT(30) DEF StartConnect, TypeOK, StartLabels
  <1>5. CASE Register(t)
    BY <1>0, <1>5, SMTT(30) DEF Register, TypeOK, StartLabels
  <1>6. CASE Mark(t)
    <2>1. Flags'
      BY <1>6, Zenon DEF Mark, Flags, TypeOK
    <2> QED
      BY <1>0, <1>6, <2>1, SMTT(30) DEF Mark, Flags, TypeOK, StartLabels
  <1>7. CASE LeaveLoop(t)
    BY <1>0, <1>7, SMTT(30) DEF LeaveLoop, TypeOK, StartLabels
  <1>8. CASE Interrupt(t)
    <2>1. Flags'
      BY <1>8, Zenon DEF Interrupt, Flags, TypeOK
    <2> QED
      BY <1>0, <1>8, <2>1, SMTT(30) DEF Interrupt, Flags, TypeOK, StartLabels
  <1>9. CASE Exit(t)
    <2> DEFINE left == Destroyed(own[t])
    <2>1. left \in {"stray", "gone"}
      BY DEF Destroyed
    <2>2. conn' = [conn EXCEPT ![own[t]] = left]
      BY <1>9 DEF Exit
    <2> HIDE DEF left
    <2>3. conn' \in [Clients -> {"unused", "new", "up", "down", "off", "gone", "stray"}]
      BY <2>1, <2>2 DEF TypeOK
    <2>4. /\ own' \in [Threads -> Clients \cup {NoClient}]
          /\ obj' \in [Threads -> Objects \cup {NoObject}]
          /\ pc' \in [Threads -> Labels]
      BY <1>0, <1>9 DEF Exit, TypeOK
    <2> QED
      BY <1>0, <1>9, <2>3, <2>4, SMTT(30) DEF Exit, TypeOK
  <1>10. CASE StopLoop(t)
    <2>1. Flags'
      BY <1>10, Zenon DEF StopLoop, Flags, TypeOK
    <2> QED
      BY <1>0, <1>10, <2>1, SMTT(30) DEF StopLoop, Flags, TypeOK
  <1>11. CASE ExitRaises(t)
    BY <1>0, <1>11, SMTT(30) DEF ExitRaises, TypeOK
  <1> QED
    BY <1>1, <1>2, <1>3, <1>4, <1>5, <1>6, <1>7, <1>8, <1>9, <1>10, <1>11

LEMMA TypeSender ==
    ASSUME TypeOK, NEW t \in Threads,
           \/ \E o \in Objects : \/ CallConnect(t, o) \/ CallSend(t, o)
                                 \/ CallDisconnect(t, o)
           \/ ConnectConfig(t) \/ ConnectRun(t) \/ Publish(t)
           \/ AwaitResponse(t) \/ DisconnectRun(t)
    PROVE  TypeOK'
  <1> USE DEF At, Goto, End, factoryVars, runnerVars, historyVars, threadVars
  <1>0. {"idle"} \cup SenderLabels \subseteq Labels
    BY DEF Labels
  <1>1. ASSUME NEW o \in Objects, CallConnect(t, o)
        PROVE  TypeOK'
    <2> DEFINE met == crossed[o] \/ \E u \in Threads : Connecting(u, o)
    <2>1. met \in BOOLEAN
      OBVIOUS
    <2>2. crossed' = crossed \/ crossed' = [crossed EXCEPT ![o] = met]
      BY <1>1 DEF CallConnect, NoteConnect
    <2> HIDE DEF met
    <2>3. crossed' \in [Objects -> BOOLEAN]
      <3>1. crossed \in [Objects -> BOOLEAN]
        BY DEF TypeOK
      <3> QED
        BY <2>1, <2>2, <3>1
    <2> DEFINE down(c) == givenUp[c] \/ (c = client[o] /\ conn[c] = "down")
    <2>4. givenUp' \in [Clients -> BOOLEAN]
      <3>1. \A c \in Clients : down(c) \in BOOLEAN
        OBVIOUS
      <3>2. givenUp' = givenUp \/ givenUp' = [c \in Clients |-> down(c)]
        BY <1>1 DEF CallConnect, NoteConnect
      <3>3. givenUp \in [Clients -> BOOLEAN]
        BY DEF TypeOK
      <3> HIDE DEF down
      <3> QED
        BY <3>1, <3>2, <3>3
    <2> QED
      BY <1>0, <1>1, <2>3, <2>4, SMTT(30) DEF CallConnect, TypeOK, SenderLabels
  <1>2. ASSUME NEW o \in Objects, CallSend(t, o) \/ CallDisconnect(t, o)
        PROVE  TypeOK'
    BY <1>0, <1>2, SMTT(30) DEF CallSend, CallDisconnect, TypeOK, SenderLabels
  <1>3. CASE ConnectConfig(t)
    BY <1>0, <1>3, NewClientIsUnused, SMTT(30) DEF ConnectConfig, TypeOK, SenderLabels
  <1>4. CASE ConnectRun(t)
    BY <1>0, <1>4, SMTT(30) DEF ConnectRun, TypeOK
  <1>5. CASE Publish(t) \/ AwaitResponse(t)
    BY <1>0, <1>5, SMTT(30) DEF Publish, AwaitResponse, TypeOK, SenderLabels
  <1>6. CASE DisconnectRun(t)
    BY <1>0, <1>6, SMTT(30) DEF DisconnectRun, TypeOK
  <1> QED
    BY <1>1, <1>2, <1>3, <1>4, <1>5, <1>6

LEMMA TypeClient ==
    ASSUME TypeOK, NEW c \in Clients,
           Handle(c) \/ Handled(c) \/ LoseConnection(c) \/ Reconnect(c)
    PROVE  TypeOK'
  <1> USE DEF factoryVars, runnerVars, historyVars, threadVars
  <1>1. CASE Handle(c) \/ Handled(c)
    <2>1. Flags'
      BY <1>1, Zenon DEF Handle, Handled, Flags, TypeOK
    <2> QED
      BY <1>1, <2>1, SMTT(30) DEF Handle, Handled, Flags, TypeOK
  <1>2. CASE LoseConnection(c) \/ Reconnect(c)
    BY <1>2, SMTT(30) DEF LoseConnection, Reconnect, TypeOK
  <1> QED
    BY <1>1, <1>2

LEMMA TypeNext == TypeOK /\ [Next]_vars => TypeOK'
  <1> SUFFICES ASSUME TypeOK, [Next]_vars PROVE TypeOK'
    OBVIOUS
  <1>1. CASE UNCHANGED vars
    BY <1>1 DEF vars, factoryVars, runnerVars, historyVars, threadVars, TypeOK
  <1>2. CASE Next
    BY <1>2, TypeFactory, TypeRunner, TypeSender, TypeClient
       DEF Next, Call, OwnStep, ClientStep
  <1> QED
    BY <1>1, <1>2

\* The factory, the objects and the clients keep their types, for any threads
\* and bounds.
THEOREM TypeCorrect == Spec => []TypeOK
  BY TypeInit, TypeNext, PTL DEF Spec
-----------------------------------------------------------------------------
(* What factory calls know, and which runners are marked. *)

Known == \A t \in Threads : known[t] \subseteq Made

Running == /\ StartedTells
           /\ \A o \in Objects : ~loop[o] => stopped[o]
           /\ \A t \in Threads : pc[t] = "stopLoop" => obj[t] \in Objects /\ stopped[obj[t]]

FactoryInv == Known /\ FreshObject

LEMMA FactoryInvNext ==
    ASSUME TypeOK, FactoryInv, [Next]_vars
    PROVE  FactoryInv'
  <1> USE DEF At, Goto, End, factoryVars, runnerVars, historyVars, threadVars
  <1>1. ASSUME NEW t \in Threads, NEW k \in Kinds, CallFactory(t, k)
        PROVE  FactoryInv'
    BY <1>1, SMTT(30) DEF CallFactory, FactoryInv, Known, FreshObject, Made, TypeOK
  <1>2. ASSUME NEW t \in Threads, ExecName(t)
        PROVE  FactoryInv'
    <2>1. CASE interpreter
      <3>1. /\ NewObject \in Objects /\ kind[NewObject] = NoKind
            /\ want[t] \in Kinds
            /\ kind' = [kind EXCEPT ![NewObject] = want[t]]
            /\ bound' = [bound EXCEPT ![want[t]] = NewObject]
            /\ known' = known /\ want' = want
            /\ \A u \in Threads : u # t => pc'[u] = pc[u]
        BY <1>2, <2>1, NewObjectIsNew DEF ExecName, TypeOK
      <3>2. Known'
        BY <3>1 DEF FactoryInv, Known, Made, TypeOK, Kinds
      <3>3. \A u \in Threads : NewObject \notin known[u]
        BY <3>1 DEF FactoryInv, Known, Made
      <3>4. \A u \in Threads : want[u] \in Kinds =>
                bound'[want[u]] = IF want[u] = want[t] THEN NewObject ELSE bound[want[u]]
        BY <3>1 DEF TypeOK
      <3>5. FreshObject'
        BY <3>1, <3>3, <3>4 DEF FactoryInv, FreshObject, TypeOK
      <3> QED
        BY <3>2, <3>5 DEF FactoryInv
    <2>2. CASE ~interpreter
      BY <1>2, <2>2 DEF ExecName, FactoryInv, Known, FreshObject, Made, TypeOK
    <2> QED
      BY <2>1, <2>2
  <1>3. ASSUME NEW t \in Threads, GetName(t)
        PROVE  FactoryInv'
    BY <1>3, SMTT(30) DEF GetName, FactoryInv, Known, FreshObject, Made, TypeOK
  <1>4. ASSUME NEW t \in Threads, CloseFactory(t)
        PROVE  FactoryInv'
    BY <1>4 DEF CloseFactory, FactoryInv, Known, FreshObject, Made
  <1>5. ASSUME NEW t \in Threads, InitFactory(t)
        PROVE  FactoryInv'
    <2>1. /\ UNCHANGED <<known, want, pc, kind>>
          /\ \A k \in Kinds : bound'[k] = NoObject
      BY <1>5 DEF InitFactory
    <2>2. \A u \in Threads : NoObject \notin known[u]
      BY DEF TypeOK
    <2> QED
      BY <2>1, <2>2 DEF FactoryInv, Known, FreshObject, Made, TypeOK
  <1>6. ASSUME UNCHANGED <<bound, kind, want, known>>,
               \A t \in Threads : pc'[t] = "getName" => pc[t] = "getName"
        PROVE  FactoryInv'
    BY <1>6 DEF FactoryInv, Known, FreshObject, Made
  <1>7. ASSUME NEW t \in Threads, NEW o \in Objects,
               CallStart(t, o) \/ CallStop(t, o) \/ CallConnect(t, o)
               \/ CallSend(t, o) \/ CallDisconnect(t, o)
        PROVE  FactoryInv'
    BY <1>6, <1>7 DEF CallStart, CallStop, CallConnect, CallSend, CallDisconnect, TypeOK
  <1>8. ASSUME NEW t \in Threads,
               \/ StartConfig(t) \/ StartConnect(t) \/ Register(t) \/ Mark(t)
               \/ LeaveLoop(t) \/ Interrupt(t) \/ Exit(t) \/ ExitRaises(t)
               \/ StopLoop(t)
        PROVE  FactoryInv'
    BY <1>6, <1>8 DEF StartConfig, StartConnect, Register, Mark, LeaveLoop,
       Interrupt, Exit, ExitRaises, StopLoop, TypeOK
  <1>9. ASSUME NEW t \in Threads,
               \/ ConnectConfig(t) \/ ConnectRun(t) \/ Publish(t)
               \/ AwaitResponse(t) \/ DisconnectRun(t)
        PROVE  FactoryInv'
    BY <1>6, <1>9 DEF ConnectConfig, ConnectRun, Publish, AwaitResponse,
       DisconnectRun, TypeOK
  <1>10. ASSUME NEW c \in Clients,
                Handle(c) \/ Handled(c) \/ LoseConnection(c) \/ Reconnect(c)
         PROVE  FactoryInv'
    BY <1>6, <1>10 DEF Handle, Handled, LoseConnection, Reconnect
  <1>11. CASE UNCHANGED vars
    BY <1>6, <1>11 DEF vars
  <1> QED
    BY <1>1, <1>2, <1>3, <1>4, <1>5, <1>7, <1>8, <1>9, <1>10, <1>11
       DEF Next, Call, OwnStep, ClientStep

\* Whatever other threads ask of the factory, and even if it is closed and
\* initialized again, a factory call returns an object that was made during it
\* (JythonFactory.java:205-230).
THEOREM Fresh == Spec => []FreshObject
  <1>1. Init => TypeOK /\ FactoryInv
    BY TypeInit DEF Init, FactoryInv, Known, FreshObject, Made, At
  <1>2. TypeOK /\ FactoryInv /\ [Next]_vars => (TypeOK /\ FactoryInv)'
    BY TypeNext, FactoryInvNext
  <1>3. FactoryInv => FreshObject
    BY DEF FactoryInv
  <1> QED
    BY <1>1, <1>2, <1>3, PTL DEF Spec

LEMMA RunningKept ==
    ASSUME Running, UNCHANGED <<started, loop>>,
           \A o \in Objects : (stopped[o] => stopped'[o]) /\ (broken[o] => broken'[o]),
           \A t \in Threads :
               /\ pc'[t] = "loop" <=> pc[t] = "loop"
               /\ pc'[t] = "stopLoop" => pc[t] = "stopLoop"
               /\ pc[t] \in {"loop", "stopLoop"} => obj'[t] = obj[t]
    PROVE  Running'
  <1>1. ASSUME NEW o \in Objects, ~stopped'[o], ~broken'[o]
        PROVE  started'[o] <=> \E t \in Threads : obj'[t] = o /\ pc'[t] = "loop"
    <2>1. started[o] <=> \E t \in Threads : obj[t] = o /\ pc[t] = "loop"
      BY <1>1 DEF Running, StartedTells, At
    <2>2. \A t \in Threads : obj'[t] = o /\ pc'[t] = "loop" <=> obj[t] = o /\ pc[t] = "loop"
      OBVIOUS
    <2> QED
      BY <2>1, <2>2
  <1>2. \A o \in Objects : ~loop'[o] => stopped'[o]
    BY DEF Running
  <1>3. \A t \in Threads : pc'[t] = "stopLoop" => obj'[t] \in Objects /\ stopped'[obj'[t]]
    BY DEF Running
  <1> QED
    BY <1>1, <1>2, <1>3 DEF Running, StartedTells, At

LEMMA RunningNext ==
    ASSUME TypeOK, Running, [Next]_vars
    PROVE  Running'
  <1> USE DEF At, Goto, End, factoryVars, runnerVars, historyVars, threadVars
  <1>1. ASSUME NEW t \in Threads, Mark(t)
        PROVE  Running'
    <2>1. /\ loop' = loop /\ stopped' = stopped /\ broken' = broken /\ obj' = obj
          /\ started' = [started EXCEPT ![obj[t]] = TRUE]
          /\ pc' = [pc EXCEPT ![t] = "loop"]
      BY <1>1 DEF Mark
    <2> QED
      BY <2>1, SMTT(30) DEF Running, StartedTells, TypeOK
  <1>2. ASSUME NEW t \in Threads, LeaveLoop(t)
        PROVE  Running'
    <2>1. /\ UNCHANGED <<started, loop, stopped, broken, obj>>
          /\ pc' = [pc EXCEPT ![t] = "exit"]
          /\ ~loop[obj[t]]
      BY <1>2 DEF LeaveLoop
    <2>2. \A o \in Objects : ~stopped'[o] => o # obj[t]
      BY <2>1 DEF Running
    <2> QED
      BY <2>1, <2>2, SMTT(30) DEF Running, StartedTells, TypeOK
  <1>3. ASSUME NEW t \in Threads, Interrupt(t)
        PROVE  Running'
    <2>1. /\ UNCHANGED <<started, loop, stopped, obj>>
          /\ pc' = [pc EXCEPT ![t] = "exit"]
          /\ broken' = [broken EXCEPT ![obj[t]] = TRUE]
      BY <1>3 DEF Interrupt
    <2>2. \A o \in Objects : ~broken'[o] => o # obj[t] /\ ~broken[o]
      BY <2>1 DEF TypeOK
    <2>3. \A u \in Threads : /\ pc'[u] = "loop" <=> pc[u] = "loop" /\ u # t
                             /\ pc'[u] = "stopLoop" => pc[u] = "stopLoop"
      BY <2>1 DEF TypeOK
    <2>4. StartedTells'
      BY <2>1, <2>2, <2>3 DEF Running, StartedTells
    <2> QED
      BY <2>1, <2>3, <2>4 DEF Running
  <1>4. ASSUME NEW t \in Threads, NEW o \in Objects, CallStop(t, o)
        PROVE  Running'
    <2>1. /\ loop' = loop /\ broken' = broken
          /\ started' = [started EXCEPT ![o] = FALSE]
          /\ stopped' = [stopped EXCEPT ![o] = TRUE]
          /\ pc[t] = "idle"
          /\ pc' = [pc EXCEPT ![t] = "stopLoop"]
          /\ obj' = [obj EXCEPT ![t] = o]
      BY <1>4 DEF CallStop
    <2>2. \A p \in Objects : ~stopped'[p] =>
              p # o /\ ~stopped[p] /\ started'[p] = started[p]
      BY <2>1 DEF TypeOK
    <2>3. \A u \in Threads : /\ pc'[u] = "loop" <=> pc[u] = "loop"
                             /\ pc[u] = "loop" => obj'[u] = obj[u]
      BY <2>1 DEF TypeOK
    <2>4. StartedTells'
      <3>1. ASSUME NEW p \in Objects, ~stopped'[p], ~broken'[p]
            PROVE  started'[p] <=> \E u \in Threads : obj'[u] = p /\ pc'[u] = "loop"
        <4>1. started[p] <=> \E u \in Threads : obj[u] = p /\ pc[u] = "loop"
          BY <2>1, <2>2, <3>1 DEF Running, StartedTells
        <4>2. \A u \in Threads : obj'[u] = p /\ pc'[u] = "loop"
                                  <=> obj[u] = p /\ pc[u] = "loop"
          BY <2>3
        <4>3. started'[p] = started[p]
          BY <2>2, <3>1
        <4> QED
          BY <4>1, <4>2, <4>3
      <3> QED
        BY <3>1 DEF StartedTells
    <2>5. \A p \in Objects : stopped[p] => stopped'[p]
      BY <2>1 DEF TypeOK
    <2>6. \A p \in Objects : ~loop'[p] => stopped'[p]
      BY <2>1, <2>5 DEF Running
    <2>7. \A u \in Threads : pc'[u] = "stopLoop" =>
              obj'[u] \in Objects /\ stopped'[obj'[u]]
      <3>1. ASSUME NEW u \in Threads, pc'[u] = "stopLoop", u # t
            PROVE  obj'[u] = obj[u] /\ pc[u] = "stopLoop"
        BY <2>1, <3>1 DEF TypeOK
      <3>2. obj'[t] = o /\ stopped'[o]
        BY <2>1 DEF TypeOK
      <3> QED
        BY <2>5, <3>1, <3>2 DEF Running
    <2> QED
      BY <2>4, <2>6, <2>7 DEF Running
  <1>5. ASSUME NEW t \in Threads, StopLoop(t)
        PROVE  Running'
    <2>1. /\ UNCHANGED <<started, stopped, broken>>
          /\ loop' = [loop EXCEPT ![obj[t]] = FALSE]
          /\ pc[t] = "stopLoop"
          /\ pc' = [pc EXCEPT ![t] = "idle"]
          /\ obj' = [obj EXCEPT ![t] = NoObject]
      BY <1>5 DEF StopLoop
    <2>2. \A u \in Threads : /\ pc'[u] = "loop" <=> pc[u] = "loop"
                             /\ pc'[u] = "stopLoop" => pc[u] = "stopLoop"
                             /\ pc'[u] \in {"loop", "stopLoop"} => obj'[u] = obj[u]
      BY <2>1 DEF TypeOK
    <2>3. StartedTells'
      BY <2>1, <2>2 DEF Running, StartedTells
    <2>4. \A o \in Objects : ~loop'[o] => o = obj[t] \/ ~loop[o]
      BY <2>1 DEF TypeOK
    <2>5. obj[t] \in Objects /\ stopped[obj[t]]
      BY <2>1 DEF Running
    <2> QED
      BY <2>1, <2>2, <2>3, <2>4, <2>5 DEF Running
  <1>6. ASSUME NEW t \in Threads,
               \/ \E k \in Kinds : CallFactory(t, k)
               \/ ExecName(t) \/ GetName(t) \/ CloseFactory(t) \/ InitFactory(t)
        PROVE  Running'
    BY <1>6, RunningKept DEF CallFactory, ExecName, GetName, CloseFactory,
       InitFactory, TypeOK
  <1>7. ASSUME NEW t \in Threads, NEW o \in Objects,
               CallStart(t, o) \/ CallSend(t, o) \/ CallDisconnect(t, o)
        PROVE  Running'
    BY <1>7, RunningKept DEF CallStart, CallSend, CallDisconnect, TypeOK
  <1>8. ASSUME NEW t \in Threads, NEW o \in Objects, CallConnect(t, o)
        PROVE  Running'
    BY <1>8, RunningKept DEF CallConnect, NoteConnect, TypeOK
  <1>9. ASSUME NEW t \in Threads,
               \/ StartConfig(t) \/ StartConnect(t) \/ Register(t) \/ Exit(t)
               \/ ExitRaises(t)
        PROVE  Running'
    BY <1>9, RunningKept DEF StartConfig, StartConnect, Register, Exit, ExitRaises,
       TypeOK
  <1>10. ASSUME NEW t \in Threads,
                \/ ConnectConfig(t) \/ ConnectRun(t) \/ Publish(t)
                \/ AwaitResponse(t) \/ DisconnectRun(t)
         PROVE  Running'
    BY <1>10, RunningKept DEF ConnectConfig, ConnectRun, Publish, AwaitResponse,
       DisconnectRun, TypeOK
  <1>11. ASSUME NEW c \in Clients,
                Handle(c) \/ Handled(c) \/ LoseConnection(c) \/ Reconnect(c)
         PROVE  Running'
    BY <1>11, RunningKept DEF Handle, Handled, LoseConnection, Reconnect
  <1>12. CASE UNCHANGED vars
    BY <1>12, RunningKept DEF vars
  <1> QED
    BY <1>1, <1>2, <1>3, <1>4, <1>5, <1>6, <1>7, <1>8, <1>9, <1>10, <1>11, <1>12
       DEF Next, Call, OwnStep, ClientStep

\* Until somebody stops or interrupts it, a listener or provider is marked as
\* started exactly while a start() is in its loop, for any number of threads
\* that start and stop it (EventListener.py:64-118).
THEOREM Tells == Spec => []StartedTells
  <1>1. Init => TypeOK /\ Running
    BY TypeInit DEF Init, Running, StartedTells, At
  <1>2. TypeOK /\ Running /\ [Next]_vars => (TypeOK /\ Running)'
    BY TypeNext, RunningNext
  <1>3. Running => StartedTells
    BY DEF Running
  <1> QED
    BY <1>1, <1>2, <1>3, PTL DEF Spec
-----------------------------------------------------------------------------
(* Whose the clients are. *)

\* A client belongs to the start() that made it, from there to the end of its
\* with statement, or to the publisher or requester whose connect() made it.
Owned ==
    /\ \A t \in Threads : own[t] # NoClient =>
           /\ pc[t] \in StartLabels \ {"startConfig"}
           /\ owner[own[t]] = NoObject /\ conn[own[t]] # "unused"
    /\ \A o \in Objects : client[o] # NoClient => owner[client[o]] = o
    /\ \A t \in Threads : pc[t] \in {"connectConfig", "connectRun"} => obj[t] \in Objects
    /\ \A t \in Threads : pc[t] = "connectRun" => client[obj[t]] # NoClient
    /\ \A c \in Clients : conn[c] = "unused" => owner[c] = NoObject

\* A disconnect() changes the state of no client but from up to off.
LEMMA DisconnectRunConn ==
    ASSUME TypeOK, NEW t \in Threads, DisconnectRun(t), NEW c \in Clients
    PROVE  conn'[c] = conn[c] \/ (conn[c] = "up" /\ conn'[c] = "off")
  <1> DEFINE d == client[obj[t]]
  <1>1. CASE UNCHANGED conn
    BY <1>1
  <1>2. CASE conn[d] = "up" /\ conn' = [conn EXCEPT ![d] = "off"]
    <2> HIDE DEF d
    <2>1. CASE c = d
      BY <1>2, <2>1 DEF TypeOK
    <2>2. CASE c # d
      BY <1>2, <2>2 DEF TypeOK
    <2> QED
      BY <2>1, <2>2
  <1> QED
    BY <1>1, <1>2 DEF DisconnectRun

\* A step that makes no client and moves no thread into connect().
LEMMA OwnedKept ==
    ASSUME TypeOK, Owned, UNCHANGED <<own, owner, client>>,
           \A c \in Clients : conn'[c] = "unused" <=> conn[c] = "unused",
           \A t \in Threads :
               /\ own[t] # NoClient => pc'[t] \in StartLabels \ {"startConfig"}
               /\ pc'[t] \in {"connectConfig", "connectRun"} =>
                      pc'[t] = pc[t] /\ obj'[t] = obj[t]
    PROVE  Owned'
  <1>1. \A t \in Threads : own[t] # NoClient =>
            own[t] \in Clients /\ owner[own[t]] = NoObject /\ conn[own[t]] # "unused"
    BY DEF Owned, TypeOK
  <1> QED
    BY <1>1 DEF Owned

LEMMA OwnedNext ==
    ASSUME TypeOK, Owned, [Next]_vars
    PROVE  Owned'
  <1> USE DEF At, Goto, End, factoryVars, runnerVars, historyVars, threadVars
  <1>1. ASSUME NEW t \in Threads, StartConfig(t)
        PROVE  Owned'
    <2>1. own[t] = NoClient
      BY <1>1 DEF StartConfig, Owned
    <2>2. CASE UNCHANGED <<own, conn>>
      BY <1>1, <2>1, <2>2, OwnedKept DEF StartConfig, Owned, TypeOK
    <2>3. CASE CanMakeClient /\ conn' = [conn EXCEPT ![NewClient] = "new"]
               /\ own' = [own EXCEPT ![t] = NewClient] /\ Goto(t, "startConnect")
      <3>1. NewClient \in Clients /\ conn[NewClient] = "unused" /\ owner[NewClient] = NoObject
        BY <2>3, NewClientIsUnused DEF Owned
      <3>2. UNCHANGED <<owner, client, obj>>
        BY <1>1, <2>1, <2>3, <3>1 DEF StartConfig, TypeOK
      <3>3. \A u \in Threads : own'[u] # NoClient =>
                /\ pc'[u] \in StartLabels \ {"startConfig"}
                /\ owner'[own'[u]] = NoObject /\ conn'[own'[u]] # "unused"
        BY <2>3, <3>1, <3>2 DEF Owned, TypeOK, StartLabels
      <3>4. \A u \in Threads : pc'[u] \in {"connectConfig", "connectRun"} => pc'[u] = pc[u]
        BY <2>3 DEF TypeOK
      <3>5. \A c \in Clients : conn'[c] = "unused" => owner'[c] = NoObject
        BY <2>3, <3>1, <3>2 DEF Owned, TypeOK
      <3> QED
        BY <3>2, <3>3, <3>4, <3>5 DEF Owned
    <2> QED
      BY <1>1, <2>2, <2>3 DEF StartConfig
  <1>2. ASSUME NEW t \in Threads, Exit(t)
        PROVE  Owned'
    <2> DEFINE left == Destroyed(own[t])
    <2>1. left \in {"stray", "gone"}
      BY DEF Destroyed
    <2>2. /\ conn' = [conn EXCEPT ![own[t]] = left]
          /\ own' = [own EXCEPT ![t] = NoClient]
          /\ pc' = [pc EXCEPT ![t] = "idle"]
          /\ obj' = [obj EXCEPT ![t] = NoObject]
          /\ UNCHANGED <<owner, client>>
      BY <1>2 DEF Exit
    <2> HIDE DEF left
    <2>3. \A c \in Clients : conn'[c] = "unused" => conn[c] = "unused"
      BY <2>1, <2>2 DEF TypeOK
    <2>4. \A u \in Threads : own'[u] # NoClient => own'[u] = own[u] /\ pc'[u] = pc[u]
      BY <2>2 DEF TypeOK
    <2>5. \A u \in Threads : pc'[u] \in {"connectConfig", "connectRun"} =>
              pc'[u] = pc[u] /\ obj'[u] = obj[u]
      BY <2>2 DEF TypeOK
    <2>6. \A u \in Threads : own[u] # NoClient => own[u] \in Clients
      BY DEF TypeOK
    <2>7. \A u \in Threads : own'[u] # NoClient =>
              /\ pc'[u] \in StartLabels \ {"startConfig"}
              /\ owner'[own'[u]] = NoObject /\ conn'[own'[u]] # "unused"
      BY <2>2, <2>3, <2>4, <2>6 DEF Owned
    <2> QED
      BY <2>2, <2>3, <2>5, <2>7 DEF Owned
  <1>3. ASSUME NEW t \in Threads, NEW o \in Objects, CallConnect(t, o)
        PROVE  Owned'
    <2>1. /\ UNCHANGED <<own, owner, client, conn>>
          /\ pc[t] = "idle"
          /\ \/ UNCHANGED <<pc, obj>>
             \/ /\ pc' = [pc EXCEPT ![t] = "connectConfig"]
                /\ obj' = [obj EXCEPT ![t] = o]
      BY <1>3 DEF CallConnect
    <2>2. own[t] = NoClient
      BY <2>1 DEF Owned, StartLabels
    <2>3. \A u \in Threads : own'[u] # NoClient => pc'[u] = pc[u]
      BY <2>1, <2>2 DEF TypeOK
    <2>4. \A u \in Threads : pc'[u] \in {"connectConfig", "connectRun"} => obj'[u] \in Objects
      BY <2>1 DEF Owned, TypeOK
    <2>5. \A u \in Threads : pc'[u] = "connectRun" => pc[u] = "connectRun" /\ obj'[u] = obj[u]
      BY <2>1 DEF TypeOK
    <2> QED
      BY <2>1, <2>3, <2>4, <2>5 DEF Owned
  <1>4. ASSUME NEW t \in Threads, ConnectConfig(t)
        PROVE  Owned'
    <2>1. own[t] = NoClient /\ own' = own /\ obj[t] \in Objects
      BY <1>4 DEF ConnectConfig, Owned, StartLabels
    <2>2. CASE UNCHANGED <<client, conn, owner>> /\ End(t)
      BY <2>1, <2>2, OwnedKept DEF Owned, TypeOK
    <2>3. CASE /\ CanMakeClient
               /\ conn' = [conn EXCEPT ![NewClient] = "new"]
               /\ owner' = [owner EXCEPT ![NewClient] = obj[t]]
               /\ client' = [client EXCEPT ![obj[t]] = NewClient]
               /\ Goto(t, "connectRun")
               /\ UNCHANGED obj
      <3>1. NewClient \in Clients /\ conn[NewClient] = "unused" /\ owner[NewClient] = NoObject
        BY <2>3, NewClientIsUnused DEF Owned
      <3>2. \A u \in Threads : own[u] # NoClient => own[u] \in Clients /\ own[u] # NewClient
        BY <3>1 DEF Owned, TypeOK
      <3>3. \A u \in Threads : own'[u] # NoClient =>
                /\ pc'[u] \in StartLabels \ {"startConfig"}
                /\ owner'[own'[u]] = NoObject /\ conn'[own'[u]] # "unused"
        BY <2>1, <2>3, <3>1, <3>2 DEF Owned, TypeOK
      <3>4. ASSUME NEW o \in Objects, client'[o] # NoClient
            PROVE  owner'[client'[o]] = o
        <4>1. CASE o = obj[t]
          BY <2>3, <3>1, <4>1 DEF TypeOK
        <4>2. CASE o # obj[t]
          <5>1. client'[o] = client[o] /\ client[o] \in Clients /\ owner[client[o]] = o
            BY <2>3, <3>4, <4>2 DEF Owned, TypeOK
          <5>2. client[o] # NewClient
            BY <3>1, <5>1
          <5> QED
            BY <2>3, <5>1, <5>2 DEF TypeOK
        <4> QED
          BY <4>1, <4>2
      <3>5. \A u \in Threads : pc'[u] \in {"connectConfig", "connectRun"} => obj'[u] \in Objects
        BY <2>1, <2>3 DEF Owned, TypeOK
      <3>6. \A u \in Threads : pc'[u] = "connectRun" => client'[obj'[u]] # NoClient
        BY <2>1, <2>3, <3>1, <3>5 DEF Owned, TypeOK
      <3>7. \A c \in Clients : conn'[c] = "unused" => owner'[c] = NoObject
        BY <2>3, <3>1 DEF Owned, TypeOK
      <3> QED
        BY <3>3, <3>4, <3>5, <3>6, <3>7 DEF Owned
    <2> QED
      BY <1>4, <2>2, <2>3 DEF ConnectConfig
  <1>5. ASSUME NEW t \in Threads, ConnectRun(t)
        PROVE  Owned'
    <2>1. /\ obj[t] \in Objects /\ client[obj[t]] \in Clients
          /\ owner[client[obj[t]]] = obj[t] /\ own[t] = NoClient
      BY <1>5 DEF ConnectRun, Owned, StartLabels, TypeOK
    <2>2. conn[client[obj[t]]] # "unused"
      BY <2>1 DEF Owned, TypeOK
    <2>3. /\ UNCHANGED <<own, owner, client>>
          /\ pc' = [pc EXCEPT ![t] = "idle"] /\ obj' = [obj EXCEPT ![t] = NoObject]
          /\ \/ conn' = conn
             \/ \E s \in {"up", "down"} : conn' = [conn EXCEPT ![client[obj[t]]] = s]
      BY <1>5 DEF ConnectRun
    <2>4. \A c \in Clients : conn'[c] = "unused" <=> conn[c] = "unused"
      BY <2>1, <2>2, <2>3 DEF TypeOK
    <2>5. \A u \in Threads : u # t => pc'[u] = pc[u] /\ obj'[u] = obj[u]
      BY <2>3 DEF TypeOK
    <2>6. pc'[t] = "idle"
      BY <2>3 DEF TypeOK
    <2> QED
      BY <2>1, <2>3, <2>4, <2>5, <2>6, OwnedKept DEF Owned
  <1>6. ASSUME NEW t \in Threads,
               \/ StartConnect(t) \/ Register(t) \/ Mark(t) \/ LeaveLoop(t)
               \/ Interrupt(t)
        PROVE  Owned'
    <2>1. UNCHANGED <<own, owner, client, obj>>
      BY <1>6 DEF StartConnect, Register, Mark, LeaveLoop, Interrupt
    <2>2. \E l \in {"register", "exit", "mark", "loop"} : pc' = [pc EXCEPT ![t] = l]
      BY <1>6 DEF StartConnect, Register, Mark, LeaveLoop, Interrupt
    <2>3. ASSUME NEW c \in Clients
          PROVE  conn'[c] = "unused" <=> conn[c] = "unused"
      <3>1. CASE conn' = conn
        BY <3>1
      <3>2. CASE StartConnect(t)
        BY <3>2 DEF StartConnect, Owned, TypeOK
      <3> QED
        BY <1>6, <3>1, <3>2 DEF Register, Mark, LeaveLoop, Interrupt
    <2>4. \A u \in Threads :
              /\ own[u] # NoClient => pc'[u] \in StartLabels \ {"startConfig"}
              /\ pc'[u] \in {"connectConfig", "connectRun"} => pc'[u] = pc[u]
      BY <2>2 DEF Owned, TypeOK, StartLabels
    <2> QED
      BY <2>1, <2>3, <2>4, OwnedKept
  <1>7. ASSUME NEW t \in Threads,
               \/ \E k \in Kinds : CallFactory(t, k)
               \/ CloseFactory(t) \/ InitFactory(t)
               \/ \E o \in Objects : \/ CallStart(t, o) \/ CallStop(t, o)
                                     \/ CallSend(t, o) \/ CallDisconnect(t, o)
               \/ ExecName(t) \/ GetName(t) \/ StopLoop(t)
               \/ Publish(t) \/ AwaitResponse(t) \/ DisconnectRun(t)
        PROVE  Owned'
    <2>1. UNCHANGED <<own, owner, client>>
      BY <1>7 DEF CallFactory, CloseFactory, InitFactory, CallStart, CallStop,
         CallSend, CallDisconnect, ExecName, GetName, StopLoop, Publish,
         AwaitResponse, DisconnectRun
    <2>2. \A c \in Clients : conn'[c] = "unused" <=> conn[c] = "unused"
      BY <1>7, DisconnectRunConn DEF CallFactory, CloseFactory, InitFactory, CallStart, CallStop,
         CallSend, CallDisconnect, ExecName, GetName, StopLoop, Publish,
         AwaitResponse
    <2>3. own[t] = NoClient
      BY <1>7 DEF Owned, StartLabels, CallFactory, CloseFactory, InitFactory,
         CallStart, CallStop, CallSend, CallDisconnect, ExecName, GetName,
         StopLoop, Publish, AwaitResponse, DisconnectRun
    <2>4. \A u \in Threads : u # t => pc'[u] = pc[u] /\ obj'[u] = obj[u]
      BY <1>7 DEF TypeOK, CallFactory, CloseFactory, InitFactory, CallStart,
         CallStop, CallSend, CallDisconnect, ExecName, GetName, StopLoop,
         Publish, AwaitResponse, DisconnectRun
    <2>5. pc'[t] \notin {"connectConfig", "connectRun"}
      BY <1>7 DEF TypeOK, CallFactory, CloseFactory, InitFactory, CallStart,
         CallStop, CallSend, CallDisconnect, ExecName, GetName, StopLoop,
         Publish, AwaitResponse, DisconnectRun
    <2> QED
      BY <2>1, <2>2, <2>3, <2>4, <2>5, OwnedKept DEF Owned
  <1>8. ASSUME NEW c \in Clients,
               Handle(c) \/ Handled(c) \/ LoseConnection(c) \/ Reconnect(c)
        PROVE  Owned'
    <2>1. UNCHANGED <<own, owner, client, pc, obj>>
      BY <1>8 DEF Handle, Handled, LoseConnection, Reconnect
    <2>2. \A d \in Clients : conn'[d] = "unused" <=> conn[d] = "unused"
      BY <1>8 DEF Handle, Handled, LoseConnection, Reconnect, TypeOK
    <2> QED
      BY <2>1, <2>2, OwnedKept DEF Owned
  <1>9. ASSUME NEW t \in Threads, ExitRaises(t)
        PROVE  Owned'
    <2>1. /\ own' = [own EXCEPT ![t] = NoClient]
          /\ pc' = [pc EXCEPT ![t] = "idle"]
          /\ obj' = [obj EXCEPT ![t] = NoObject]
          /\ UNCHANGED <<owner, client, conn>>
      BY <1>9 DEF ExitRaises
    <2>2. \A u \in Threads : own'[u] # NoClient => own'[u] = own[u] /\ pc'[u] = pc[u]
      BY <2>1 DEF TypeOK
    <2>3. \A u \in Threads : pc'[u] \in {"connectConfig", "connectRun"} =>
              pc'[u] = pc[u] /\ obj'[u] = obj[u]
      BY <2>1 DEF TypeOK
    <2> QED
      BY <2>1, <2>2, <2>3 DEF Owned
  <1>10. CASE UNCHANGED vars
    BY <1>10, OwnedKept DEF vars, Owned
  <1> QED
    BY <1>1, <1>2, <1>3, <1>4, <1>5, <1>6, <1>7, <1>8, <1>9, <1>10
       DEF Next, Call, OwnStep, ClientStep

LEMMA OwnedInit == Init => TypeOK /\ Owned
  BY TypeInit DEF Init, Owned
-----------------------------------------------------------------------------
(* What becomes of the connections of publishers and requesters. *)

Quiet(c) == givenUp[c] \/ conn[c] \notin {"up", "down"}

Orphans ==
    /\ \A c \in Clients : owner[c] # NoObject /\ client[owner[c]] # c =>
           Quiet(c) \/ crossed[owner[c]]
    /\ \A o \in Objects : ~crossed[o] =>
           \A t, u \in Threads : Connecting(t, o) /\ Connecting(u, o) => t = u
    /\ \A t \in Threads : pc[t] = "connectConfig" =>
           crossed[obj[t]] \/ client[obj[t]] = NoClient \/ Quiet(client[obj[t]])

\* A step that connects no client of a publisher or requester anew and begins no
\* connect().
LEMMA OrphansKept ==
    ASSUME TypeOK, Owned, Orphans, UNCHANGED <<owner, client, crossed, givenUp>>,
           \A c \in Clients : conn'[c] \in {"up", "down"} /\ owner[c] # NoObject =>
               conn[c] \in {"up", "down"},
           \A t \in Threads : pc'[t] \in {"connectConfig", "connectRun"} =>
               pc'[t] = pc[t] /\ obj'[t] = obj[t]
    PROVE  Orphans'
  <1>1. \A c \in Clients : owner[c] # NoObject /\ Quiet(c) => Quiet(c)'
    BY DEF Quiet
  <1>2. \A c \in Clients : owner'[c] # NoObject /\ client'[owner'[c]] # c =>
            Quiet(c)' \/ crossed'[owner'[c]]
    BY <1>1 DEF Orphans
  <1>3. \A t \in Threads, o \in Objects : Connecting(t, o)' => Connecting(t, o)
    BY DEF Connecting
  <1>4. \A o \in Objects : ~crossed'[o] =>
            \A t, u \in Threads : Connecting(t, o)' /\ Connecting(u, o)' => t = u
    BY <1>3 DEF Orphans
  <1>5. ASSUME NEW t \in Threads, pc'[t] = "connectConfig",
               ~crossed'[obj'[t]], client'[obj'[t]] # NoClient
        PROVE  Quiet(client[obj[t]])'
    <2>1. pc[t] = "connectConfig" /\ obj'[t] = obj[t]
      BY <1>5
    <2>2. obj[t] \in Objects /\ client[obj[t]] \in Clients
          /\ owner[client[obj[t]]] = obj[t]
      BY <1>5, <2>1 DEF Owned, TypeOK
    <2>3. Quiet(client[obj[t]])
      BY <1>5, <2>1 DEF Orphans
    <2> QED
      BY <1>1, <2>1, <2>2, <2>3 DEF Quiet
  <1>6. \A t \in Threads : pc'[t] = "connectConfig" =>
            crossed'[obj'[t]] \/ client'[obj'[t]] = NoClient \/ Quiet(client[obj[t]])'
    BY <1>5
  <1> QED
    BY <1>2, <1>4, <1>6 DEF Orphans

LEMMA OrphansCallConnect ==
    ASSUME TypeOK, Owned, Orphans, NEW t \in Threads, NEW o \in Objects, CallConnect(t, o)
    PROVE  Orphans'
  <1> USE DEF At, Goto
  <1>1. UNCHANGED <<owner, client, conn>> /\ pc[t] = "idle"
    BY DEF CallConnect
  <1>2. CASE UNCHANGED <<pc, obj, crossed, givenUp>>
    BY <1>1, <1>2 DEF Orphans, Quiet, Connecting
  <1>3. CASE /\ ~Connected(o) /\ NoteConnect(o)
             /\ pc' = [pc EXCEPT ![t] = "connectConfig"]
             /\ obj' = [obj EXCEPT ![t] = o]
    <2>1. \A p \in Objects : crossed[p] => crossed'[p]
      BY <1>3 DEF NoteConnect, TypeOK
    <2>2. (\E u \in Threads : Connecting(u, o)) => crossed'[o]
      BY <1>3 DEF NoteConnect, TypeOK
    <2>3. \A c \in Clients : givenUp[c] => givenUp'[c]
      BY <1>3 DEF NoteConnect
    <2>4. client[o] = NoClient \/ Quiet(client[o])'
      <3>1. CASE client[o] \in Clients /\ conn[client[o]] = "down"
        <4>1. givenUp'[client[o]]
          BY <1>3, <3>1 DEF NoteConnect
        <4> QED
          BY <1>1, <4>1 DEF Quiet
      <3>2. CASE client[o] \in Clients /\ conn[client[o]] # "down"
        BY <1>1, <1>3, <3>2 DEF Connected, Quiet
      <3> QED
        BY <3>1, <3>2 DEF TypeOK
    <2>5. \A u \in Threads : u # t => pc'[u] = pc[u] /\ obj'[u] = obj[u]
      BY <1>3 DEF TypeOK
    <2>6. pc'[t] = "connectConfig" /\ obj'[t] = o
      BY <1>3 DEF TypeOK
    <2>7. \A c \in Clients : Quiet(c) => Quiet(c)'
      BY <1>1, <2>3 DEF Quiet
    <2>8. \A c \in Clients : owner'[c] # NoObject /\ client'[owner'[c]] # c =>
              Quiet(c)' \/ crossed'[owner'[c]]
      <3>1. \A c \in Clients : owner[c] # NoObject => owner[c] \in Objects
        BY DEF TypeOK
      <3> QED
        BY <1>1, <2>1, <2>7, <3>1 DEF Orphans
    <2>9. ASSUME NEW p \in Objects, ~crossed'[p], NEW u \in Threads, NEW v \in Threads,
                 Connecting(u, p)', Connecting(v, p)'
          PROVE  u = v
      <3>1. CASE p = o
        <4>1. u = t /\ v = t
          BY <2>2, <2>5, <2>9, <3>1 DEF Connecting
        <4> QED
          BY <4>1
      <3>2. CASE p # o
        <4>1. Connecting(u, p) /\ Connecting(v, p)
          BY <2>5, <2>6, <2>9, <3>2 DEF Connecting
        <4> QED
          BY <2>1, <2>9, <4>1 DEF Orphans
      <3> QED
        BY <3>1, <3>2
    <2>10. ASSUME NEW u \in Threads, pc'[u] = "connectConfig"
           PROVE  \/ crossed'[obj'[u]] \/ client'[obj'[u]] = NoClient
                  \/ Quiet(client[obj[u]])'
      <3>1. CASE u = t
        BY <1>1, <2>4, <2>6, <3>1 DEF Quiet
      <3>2. CASE u # t
        <4>1. pc[u] = "connectConfig" /\ obj'[u] = obj[u]
          BY <2>5, <2>10, <3>2
        <4>2. obj[u] \in Objects /\ client[obj[u]] \in Clients \cup {NoClient}
          BY <4>1 DEF Owned, TypeOK
        <4>3. crossed[obj[u]] \/ client[obj[u]] = NoClient \/ Quiet(client[obj[u]])
          BY <4>1 DEF Orphans
        <4> QED
          BY <1>1, <2>1, <2>7, <4>1, <4>2, <4>3 DEF Quiet
      <3> QED
        BY <3>1, <3>2
    <2> QED
      BY <2>8, <2>9, <2>10 DEF Orphans
  <1> QED
    BY <1>2, <1>3 DEF CallConnect

LEMMA OrphansConnectConfig ==
    ASSUME TypeOK, Owned, Orphans, NEW t \in Threads, ConnectConfig(t)
    PROVE  Orphans'
  <1> USE DEF At, Goto, End
  <1> DEFINE o == obj[t]
  <1>1. /\ o \in Objects /\ pc[t] = "connectConfig"
        /\ UNCHANGED <<crossed, givenUp>>
    BY DEF ConnectConfig, Owned
  <1>2. CASE UNCHANGED <<client, conn, owner>> /\ End(t)
    <2>1. pc'[t] = "idle" /\ \A u \in Threads : u # t => pc'[u] = pc[u] /\ obj'[u] = obj[u]
      BY <1>2 DEF TypeOK
    <2> QED
      BY <1>1, <1>2, <2>1, OrphansKept
  <1>3. CASE /\ CanMakeClient
             /\ conn' = [conn EXCEPT ![NewClient] = "new"]
             /\ owner' = [owner EXCEPT ![NewClient] = o]
             /\ client' = [client EXCEPT ![o] = NewClient]
             /\ pc' = [pc EXCEPT ![t] = "connectRun"]
             /\ UNCHANGED obj
    <2>1. NewClient \in Clients /\ owner[NewClient] = NoObject
      BY <1>3, NewClientIsUnused DEF Owned
    <2>2. \A c \in Clients : c # NewClient => conn'[c] = conn[c] /\ owner'[c] = owner[c]
      BY <1>3, <2>1 DEF TypeOK
    <2>3. /\ owner'[NewClient] = o /\ client'[o] = NewClient
          /\ \A p \in Objects : p # o => client'[p] = client[p]
      BY <1>1, <1>3, <2>1 DEF TypeOK
    <2>4. pc'[t] = "connectRun" /\ \A u \in Threads : u # t => pc'[u] = pc[u]
      BY <1>3 DEF TypeOK
    <2>5. crossed[o] \/ client[o] = NoClient \/ Quiet(client[o])
      BY <1>1 DEF Orphans
    <2>6. ASSUME NEW c \in Clients, owner'[c] # NoObject, client'[owner'[c]] # c
          PROVE  Quiet(c)' \/ crossed'[owner'[c]]
      <3>1. c # NewClient
        BY <2>3, <2>6
      <3>2. owner[c] \in Objects /\ owner'[c] = owner[c] /\ conn'[c] = conn[c]
        BY <2>2, <2>6, <3>1 DEF TypeOK
      <3>3. CASE client[owner[c]] # c
        BY <1>1, <2>6, <3>2, <3>3 DEF Orphans, Quiet
      <3>4. CASE client[owner[c]] = c
        <4>1. owner[c] = o /\ client[o] # NoClient
          BY <2>3, <2>6, <3>2, <3>4
        <4> QED
          BY <1>1, <2>5, <3>2, <3>4, <4>1 DEF Quiet
      <3> QED
        BY <3>3, <3>4
    <2>7. \A p \in Objects, u \in Threads : Connecting(u, p)' => Connecting(u, p)
      BY <1>1, <1>3, <2>4 DEF Connecting
    <2>8. \A p \in Objects : ~crossed'[p] =>
              \A u, v \in Threads : Connecting(u, p)' /\ Connecting(v, p)' => u = v
      BY <1>1, <2>7 DEF Orphans
    <2>9. ASSUME NEW u \in Threads, pc'[u] = "connectConfig"
          PROVE  (crossed[obj[u]] \/ client[obj[u]] = NoClient \/ Quiet(client[obj[u]]))'
      <3>1. /\ u # t /\ pc[u] = "connectConfig" /\ obj'[u] = obj[u]
            /\ obj[u] \in Objects
        BY <1>3, <2>4, <2>9 DEF Owned
      <3>2. CASE obj[u] = o
        <4>1. Connecting(u, o) /\ Connecting(t, o)
          BY <1>1, <3>1, <3>2 DEF Connecting
        <4>2. crossed[o]
          BY <1>1, <3>1, <4>1 DEF Orphans
        <4> QED
          BY <1>1, <3>1, <3>2, <4>2
      <3>3. CASE obj[u] # o
        <4>1. client'[obj[u]] = client[obj[u]]
          BY <2>3, <3>1, <3>3
        <4>2. client[obj[u]] = NoClient
              \/ (client[obj[u]] \in Clients /\ client[obj[u]] # NewClient)
          BY <2>1, <3>1 DEF Owned, TypeOK
        <4>3. crossed[obj[u]] \/ client[obj[u]] = NoClient \/ Quiet(client[obj[u]])
          BY <3>1 DEF Orphans
        <4> QED
          BY <1>1, <2>2, <3>1, <4>1, <4>2, <4>3 DEF Quiet
      <3> QED
        BY <3>2, <3>3
    <2> QED
      BY <2>6, <2>8, <2>9 DEF Orphans
  <1> QED
    BY <1>2, <1>3 DEF ConnectConfig

LEMMA OrphansConnectRun ==
    ASSUME TypeOK, Owned, Orphans, NEW t \in Threads, ConnectRun(t)
    PROVE  Orphans'
  <1> USE DEF At, Goto, End
  <1> DEFINE o == obj[t]  c == client[o]
  <1>1. /\ UNCHANGED <<client, owner, crossed, givenUp>> /\ pc[t] = "connectRun"
        /\ pc' = [pc EXCEPT ![t] = "idle"] /\ obj' = [obj EXCEPT ![t] = NoObject]
    BY DEF ConnectRun, historyVars
  <1>2. o \in Objects /\ c \in Clients /\ owner[c] = o
    BY <1>1 DEF Owned, TypeOK
  <1>3. \A d \in Clients : d # c => conn'[d] = conn[d]
    BY DEF ConnectRun, TypeOK
  <1>4. pc'[t] = "idle" /\ \A u \in Threads : u # t => pc'[u] = pc[u] /\ obj'[u] = obj[u]
    BY <1>1 DEF TypeOK
  <1>5. \A d \in Clients : owner'[d] # NoObject /\ client'[owner'[d]] # d =>
            Quiet(d)' \/ crossed'[owner'[d]]
    BY <1>1, <1>2, <1>3 DEF Orphans, Quiet
  <1>6. \A p \in Objects, u \in Threads : Connecting(u, p)' => Connecting(u, p)
    BY <1>4 DEF Connecting
  <1>7. \A p \in Objects : ~crossed'[p] =>
            \A u, v \in Threads : Connecting(u, p)' /\ Connecting(v, p)' => u = v
    BY <1>1, <1>6 DEF Orphans
  <1>8. ASSUME NEW u \in Threads, pc'[u] = "connectConfig"
        PROVE  (crossed[obj[u]] \/ client[obj[u]] = NoClient \/ Quiet(client[obj[u]]))'
    <2>1. /\ u # t /\ pc[u] = "connectConfig" /\ obj'[u] = obj[u]
          /\ obj[u] \in Objects
      BY <1>4, <1>8 DEF Owned
    <2>2. CASE obj[u] = o
      <3>1. Connecting(u, o) /\ Connecting(t, o)
        BY <1>1, <2>1, <2>2 DEF Connecting
      <3>2. crossed[o]
        BY <1>2, <2>1, <3>1 DEF Orphans
      <3> QED
        BY <1>1, <2>1, <2>2, <3>2
    <2>3. CASE obj[u] # o
      <3>1. client[obj[u]] = NoClient \/ (client[obj[u]] \in Clients /\ client[obj[u]] # c)
        BY <1>2, <2>1, <2>3 DEF Owned, TypeOK
      <3>2. crossed[obj[u]] \/ client[obj[u]] = NoClient \/ Quiet(client[obj[u]])
        BY <2>1 DEF Orphans
      <3> QED
        BY <1>1, <1>3, <2>1, <3>1, <3>2 DEF Quiet
    <2> QED
      BY <2>2, <2>3
  <1> QED
    BY <1>5, <1>7, <1>8 DEF Orphans

LEMMA OrphansNext ==
    ASSUME TypeOK, Owned, Orphans, [Next]_vars
    PROVE  Orphans'
  <1> USE DEF At, Goto, End, factoryVars, runnerVars, historyVars, threadVars
  <1>1. ASSUME NEW t \in Threads,
               \/ \E k \in Kinds : CallFactory(t, k)
               \/ CloseFactory(t) \/ InitFactory(t)
               \/ \E o \in Objects : \/ CallStart(t, o) \/ CallStop(t, o)
                                     \/ CallSend(t, o) \/ CallDisconnect(t, o)
               \/ ExecName(t) \/ GetName(t) \/ StopLoop(t)
               \/ Publish(t) \/ AwaitResponse(t) \/ DisconnectRun(t)
        PROVE  Orphans'
    <2>1. UNCHANGED <<owner, client, crossed, givenUp>>
      BY <1>1 DEF CallFactory, CloseFactory, InitFactory, CallStart, CallStop,
         CallSend, CallDisconnect, ExecName, GetName, StopLoop, Publish,
         AwaitResponse, DisconnectRun
    <2>2. \A c \in Clients : conn'[c] \in {"up", "down"} => conn[c] \in {"up", "down"}
      BY <1>1, DisconnectRunConn DEF CallFactory, CloseFactory, InitFactory,
         CallStart, CallStop, CallSend, CallDisconnect, ExecName, GetName,
         StopLoop, Publish, AwaitResponse
    <2>3. \A u \in Threads : u # t => pc'[u] = pc[u] /\ obj'[u] = obj[u]
      BY <1>1 DEF TypeOK, CallFactory, CloseFactory, InitFactory, CallStart,
         CallStop, CallSend, CallDisconnect, ExecName, GetName, StopLoop,
         Publish, AwaitResponse, DisconnectRun
    <2>4. pc'[t] \notin {"connectConfig", "connectRun"}
      BY <1>1 DEF TypeOK, CallFactory, CloseFactory, InitFactory, CallStart,
         CallStop, CallSend, CallDisconnect, ExecName, GetName, StopLoop,
         Publish, AwaitResponse, DisconnectRun
    <2> QED
      BY <2>1, <2>2, <2>3, <2>4, OrphansKept
  <1>2. ASSUME NEW t \in Threads,
               \/ StartConfig(t) \/ StartConnect(t) \/ Register(t) \/ Mark(t)
               \/ LeaveLoop(t) \/ Interrupt(t) \/ Exit(t) \/ ExitRaises(t)
        PROVE  Orphans'
    <2>1. UNCHANGED <<owner, client, crossed, givenUp>>
      BY <1>2 DEF StartConfig, StartConnect, Register, Mark, LeaveLoop,
         Interrupt, Exit, ExitRaises
    <2>2. ASSUME NEW c \in Clients, conn'[c] \in {"up", "down"}, owner[c] # NoObject
          PROVE  conn[c] \in {"up", "down"}
      <3>1. CASE conn' = conn
        BY <2>2, <3>1
      <3>2. CASE StartConfig(t)
        <4>1. conn' = conn \/ (CanMakeClient /\ conn' = [conn EXCEPT ![NewClient] = "new"])
          BY <3>2 DEF StartConfig
        <4> QED
          BY <2>2, <4>1 DEF TypeOK
      <3>3. CASE StartConnect(t)
        <4>1. own[t] # c
          BY <2>2 DEF Owned
        <4> QED
          BY <2>2, <3>3, <4>1 DEF StartConnect, TypeOK
      <3>4. CASE Exit(t)
        <4>1. \E l \in {"stray", "gone"} : conn' = [conn EXCEPT ![own[t]] = l]
          BY <3>4 DEF Exit, Destroyed
        <4> QED
          BY <2>2, <4>1 DEF TypeOK
      <3> QED
        BY <1>2, <3>1, <3>2, <3>3, <3>4
           DEF Register, Mark, LeaveLoop, Interrupt, ExitRaises
    <2>3. \A u \in Threads : u # t => pc'[u] = pc[u] /\ obj'[u] = obj[u]
      BY <1>2 DEF TypeOK, StartConfig, StartConnect, Register, Mark, LeaveLoop,
         Interrupt, Exit, ExitRaises
    <2>4. pc'[t] \notin {"connectConfig", "connectRun"}
      BY <1>2 DEF TypeOK, StartConfig, StartConnect, Register, Mark, LeaveLoop,
         Interrupt, Exit, ExitRaises
    <2> QED
      BY <2>1, <2>2, <2>3, <2>4, OrphansKept
  <1>3. ASSUME NEW c \in Clients,
               Handle(c) \/ Handled(c) \/ LoseConnection(c) \/ Reconnect(c)
        PROVE  Orphans'
    <2>1. UNCHANGED <<owner, client, crossed, givenUp, pc, obj>>
      BY <1>3 DEF Handle, Handled, LoseConnection, Reconnect
    <2>2. \A d \in Clients : conn'[d] \in {"up", "down"} => conn[d] \in {"up", "down"}
      BY <1>3 DEF Handle, Handled, LoseConnection, Reconnect, TypeOK
    <2> QED
      BY <2>1, <2>2, OrphansKept
  <1>4. CASE UNCHANGED vars
    BY <1>4, OrphansKept DEF vars
  <1> QED
    BY <1>1, <1>2, <1>3, <1>4, OrphansCallConnect, OrphansConnectConfig,
       OrphansConnectRun DEF Next, Call, OwnStep, ClientStep

\* A connected client that its publisher or requester refers to no more was
\* trying to reconnect when connect() made its test, or two connects of the
\* object met: there is no third way, for any number of threads that call
\* connect, sendMessage and disconnect (EventPublisher.py:68-88).
THEOREM Orphaned == Spec => []OrphansExplained
  <1>1. Init => TypeOK /\ Owned /\ Orphans
    BY OwnedInit DEF Init, Orphans, Connecting
  <1>2. TypeOK /\ Owned /\ Orphans /\ [Next]_vars => (TypeOK /\ Owned /\ Orphans)'
    BY TypeNext, OwnedNext, OrphansNext
  <1>3. Orphans => OrphansExplained
    BY DEF Orphans, OrphansExplained, Quiet
  <1> QED
    BY <1>1, <1>2, <1>3, PTL DEF Spec
=============================================================================
