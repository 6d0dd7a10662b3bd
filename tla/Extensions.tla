------------------------------ MODULE Extensions ------------------------------
(*
The Jython extensions and the factory that makes them for Java
(src/main/java/com/att/cso/opendxl/jython/client: JythonFactory.java and
extensions/*.py).

Java threads obtain extension objects from the factory, whose one interpreter
they share, and call them; an object may be called by any thread.  Listeners
and providers are runners: start() creates a DxlClient, connects it, registers
the callback and does not return before stop().  Publishers and requesters are
senders: connect() creates a client that later calls use.

The DxlClient is what ClientConnection shows it to be: new, up (connected), down
(not connected, but its threads may bring it up again), off (disconnected),
gone (destroyed), or stray (destroyed while it was down, which stops nothing:
client.py:528-574).  Its operations need not return: connect() tries without
end, for no setting of the configuration file changes connect_retries from -1
(client_config.py:123, 228), and the others wait as ClientConnection and
ServiceManager say.  Arguments, texts and logging are left out.
*)
EXTENDS Naturals, FiniteSets

CONSTANTS Threads,      \* Java threads
          Objects,      \* identities of extension objects
          Clients,      \* identities of DxlClients
          NoObject, NoClient,
          Runners,      \* the kinds of object with start() and stop()
          Providers,    \* those runners that register a service
          Senders,      \* the kinds of object with connect() and sendMessage()
          Requesters,   \* those senders that wait for a response
          NoKind,
          MaxCalls,     \* calls made in a behaviour
          MaxLosses     \* connections lost in a behaviour

ASSUME ExtensionsAssumption ==
    /\ NoObject \notin Objects /\ NoClient \notin Clients
    /\ Providers \subseteq Runners /\ Requesters \subseteq Senders
    /\ Runners \cap Senders = {} /\ NoKind \notin Runners \cup Senders
    /\ MaxCalls \in Nat /\ MaxLosses \in Nat

Kinds == Runners \cup Senders

VARIABLES instance,     \* JythonFactory.instance is set
          interpreter,  \* the factory's interpreter is not null
          bound,        \* the interpreter's variable for each kind of object
          kind,         \* the class of each object, NoKind before it is made
          started,      \* self.started of the runners
          loop,         \* self.loop of the runners
          client,       \* self.client of the senders
          conn,         \* the state of each DxlClient
          handling,     \* the client's pool is running the Java callback
          pc,           \* where each thread is
          obj,          \* the object its call is about
          want,         \* the kind of object its factory call is to return
          own,          \* the client of its start()
          known,        \* the objects that existed when its factory call began
          got,          \* the object its last factory call returned
          stopped,      \* history: stop() has been called on the object
          broken,       \* history: a start() of the object was interrupted
          crossed,      \* history: two connect() calls of the object overlapped
          owner,        \* history: the object whose connect() made the client
          givenUp,      \* history: connect() found the client down and went on
          calls, losses

factoryVars == <<instance, interpreter, bound>>
runnerVars == <<started, loop>>
historyVars == <<stopped, broken, crossed, owner, givenUp>>
threadVars == <<pc, obj, want, own, known, got>>
vars == <<factoryVars, kind, runnerVars, client, conn, handling, threadVars,
          historyVars, calls, losses>>

StartLabels == {"startConfig", "startConnect", "register", "mark", "loop", "exit"}
SenderLabels == {"connectConfig", "connectRun", "publish", "awaitResponse",
                 "disconnectRun"}
Labels == StartLabels \cup SenderLabels
          \cup {"idle", "execName", "getName", "stopLoop"}

TypeOK ==
    /\ instance \in BOOLEAN /\ interpreter \in BOOLEAN
    /\ bound \in [Kinds -> Objects \cup {NoObject}]
    /\ kind \in [Objects -> Kinds \cup {NoKind}]
    /\ started \in [Objects -> BOOLEAN] /\ loop \in [Objects -> BOOLEAN]
    /\ client \in [Objects -> Clients \cup {NoClient}]
    /\ conn \in [Clients -> {"unused", "new", "up", "down", "off", "gone", "stray"}]
    /\ handling \in [Clients -> BOOLEAN]
    /\ pc \in [Threads -> Labels]
    /\ obj \in [Threads -> Objects \cup {NoObject}]
    /\ want \in [Threads -> Kinds \cup {NoKind}]
    /\ \A t \in Threads : pc[t] \in {"execName", "getName"} => want[t] \in Kinds
    /\ own \in [Threads -> Clients \cup {NoClient}]
    /\ known \in [Threads -> SUBSET Objects]
    /\ got \in [Threads -> Objects \cup {NoObject}]
    /\ stopped \in [Objects -> BOOLEAN] /\ broken \in [Objects -> BOOLEAN]
    /\ crossed \in [Objects -> BOOLEAN]
    /\ owner \in [Clients -> Objects \cup {NoObject}]
    /\ givenUp \in [Clients -> BOOLEAN]
    /\ calls \in 0..MaxCalls /\ losses \in 0..MaxLosses

Init ==
    /\ instance = FALSE /\ interpreter = FALSE
    /\ bound = [k \in Kinds |-> NoObject]
    /\ kind = [o \in Objects |-> NoKind]
    /\ started = [o \in Objects |-> FALSE]
    /\ loop = [o \in Objects |-> TRUE]
    /\ client = [o \in Objects |-> NoClient]
    /\ conn = [c \in Clients |-> "unused"]
    /\ handling = [c \in Clients |-> FALSE]
    /\ pc = [t \in Threads |-> "idle"]
    /\ obj = [t \in Threads |-> NoObject]
    /\ want = [t \in Threads |-> NoKind]
    /\ own = [t \in Threads |-> NoClient]
    /\ known = [t \in Threads |-> {}]
    /\ got = [t \in Threads |-> NoObject]
    /\ stopped = [o \in Objects |-> FALSE]
    /\ broken = [o \in Objects |-> FALSE]
    /\ crossed = [o \in Objects |-> FALSE]
    /\ owner = [c \in Clients |-> NoObject]
    /\ givenUp = [c \in Clients |-> FALSE]
    /\ calls = 0 /\ losses = 0

At(t, label) == pc[t] = label
Goto(t, label) == pc' = [pc EXCEPT ![t] = label]
\* The call of t is over, by return or by exception.
End(t) == /\ Goto(t, "idle")
          /\ obj' = [obj EXCEPT ![t] = NoObject]
\* Objects that some Java code holds a reference to.
Shared == {got[t] : t \in Threads} \ {NoObject}
Made == {o \in Objects : kind[o] # NoKind}
NewObject == CHOOSE o \in Objects : o \notin Made
\* A DxlClient is made; there is one left unless the bound on Clients is reached.
NewClient == CHOOSE c \in Clients : conn[c] = "unused"
CanMakeClient == \E c \in Clients : conn[c] = "unused"
-----------------------------------------------------------------------------
(* The factory *)

\* JythonFactory.getInstance().getDxl...Interface(): getInstance is
\* synchronized; an interpreter that cannot be initialized leaves the instance
\* behind without one.
CallFactory(t, k) ==
    /\ At(t, "idle") /\ calls < MaxCalls
    /\ calls' = calls + 1
    /\ instance' = TRUE
    /\ \/ /\ ~instance
          /\ interpreter' \in BOOLEAN
       \/ /\ instance
          /\ UNCHANGED interpreter
    /\ IF interpreter'
       THEN /\ Goto(t, "execName")
            /\ want' = [want EXCEPT ![t] = k]
            /\ known' = [known EXCEPT ![t] = Made]
       ELSE UNCHANGED <<pc, want, known>>       \* an exception
    /\ UNCHANGED <<bound, kind, runnerVars, client, conn, handling, obj, own, got,
                   historyVars, losses>>

\* A factory that makes one object of each class and hands it out again.
ExecName_Reuses(t) ==
    /\ At(t, "execName")
    /\ \/ /\ interpreter /\ bound[want[t]] = NoObject
          /\ Made # Objects
          /\ kind' = [kind EXCEPT ![NewObject] = want[t]]
          /\ bound' = [bound EXCEPT ![want[t]] = NewObject]
          /\ Goto(t, "getName")
       \/ /\ interpreter /\ bound[want[t]] # NoObject
          /\ Goto(t, "getName")
          /\ UNCHANGED <<kind, bound>>
    /\ UNCHANGED <<instance, interpreter, runnerVars, client, conn, handling, obj,
                   want, own, known, got, historyVars, calls, losses>>

\* interpreter.execfile and interpreter.exec("name=Class()"): an object is made
\* and bound to the name of its class, one name for all threads.
ExecName(t) ==
    /\ At(t, "execName")
    /\ IF interpreter
       THEN /\ Made # Objects
            /\ kind' = [kind EXCEPT ![NewObject] = want[t]]
            /\ bound' = [bound EXCEPT ![want[t]] = NewObject]
            /\ Goto(t, "getName")
       ELSE /\ Goto(t, "idle")
            /\ UNCHANGED <<kind, bound>>
    /\ UNCHANGED <<instance, interpreter, runnerVars, client, conn, handling, obj,
                   want, own, known, got, historyVars, calls, losses>>

\* interpreter.get(name).__tojava__: what the name is bound to by now.  A closed
\* interpreter or an unbound name is a NullPointerException.
GetName(t) ==
    /\ At(t, "getName")
    /\ Goto(t, "idle")
    /\ got' = [got EXCEPT ![t] = IF interpreter THEN bound[want[t]] ELSE NoObject]
    /\ want' = [want EXCEPT ![t] = NoKind]
    /\ known' = [known EXCEPT ![t] = {}]
    /\ UNCHANGED <<factoryVars, kind, runnerVars, client, conn, handling, obj,
                   own, historyVars, calls, losses>>

\* closeFactory: the instance stays, its interpreter does not.
CloseFactory(t) ==
    /\ At(t, "idle") /\ calls < MaxCalls /\ interpreter
    /\ calls' = calls + 1
    /\ interpreter' = FALSE
    /\ UNCHANGED <<instance, bound, kind, runnerVars, client, conn, handling,
                   threadVars, historyVars, losses>>

\* initJythonObject, called by the application on an instance without an
\* interpreter: a new one with nothing bound.
InitFactory(t) ==
    /\ At(t, "idle") /\ calls < MaxCalls /\ instance /\ ~interpreter
    /\ calls' = calls + 1
    /\ interpreter' = TRUE
    /\ bound' = [k \in Kinds |-> NoObject]
    /\ UNCHANGED <<instance, kind, runnerVars, client, conn, handling, threadVars,
                   historyVars, losses>>
-----------------------------------------------------------------------------
(* EventListener and ServiceProvider *)

\* A start that marks the object at once, before it knows whether it succeeds.
CallStart_Eager(t, o) ==
    /\ At(t, "idle") /\ calls < MaxCalls /\ o \in Shared /\ kind[o] \in Runners
    /\ calls' = calls + 1
    /\ started' = [started EXCEPT ![o] = TRUE]
    /\ IF started[o]
       THEN UNCHANGED <<pc, obj>>
       ELSE /\ Goto(t, "startConfig")
            /\ obj' = [obj EXCEPT ![t] = o]
    /\ UNCHANGED <<factoryVars, kind, loop, client, conn, handling, want, own,
                   known, got, historyVars, losses>>

\* start: refused if the object has been started.
CallStart(t, o) ==
    /\ At(t, "idle") /\ calls < MaxCalls /\ o \in Shared /\ kind[o] \in Runners
    /\ calls' = calls + 1
    /\ IF started[o]
       THEN UNCHANGED <<pc, obj>>
       ELSE /\ Goto(t, "startConfig")
            /\ obj' = [obj EXCEPT ![t] = o]
    /\ UNCHANGED <<factoryVars, kind, runnerVars, client, conn, handling, want, own,
                   known, got, historyVars, losses>>

\* The configuration is read, which may raise, and the client made.
StartConfig(t) ==
    /\ At(t, "startConfig")
    /\ \/ /\ End(t)
          /\ UNCHANGED <<own, conn>>
       \/ /\ CanMakeClient
          /\ conn' = [conn EXCEPT ![NewClient] = "new"]
          /\ own' = [own EXCEPT ![t] = NewClient]
          /\ Goto(t, "startConnect")
          /\ UNCHANGED obj
    /\ UNCHANGED <<factoryVars, kind, runnerVars, client, handling, want, known, got,
                   historyVars, calls, losses>>

\* client.connect() in the with statement: in time, when a broker answers, it has
\* connected, or raises because the connection is not up 10 seconds later.
StartConnect(t) ==
    /\ At(t, "startConnect")
    /\ \/ /\ conn' = [conn EXCEPT ![own[t]] = "up"]
          /\ Goto(t, "register")
       \/ /\ conn' = [conn EXCEPT ![own[t]] = "down"]
          /\ Goto(t, "exit")
    /\ UNCHANGED <<factoryVars, kind, runnerVars, client, handling, obj, want, own,
                   known, got, historyVars, calls, losses>>

\* add_event_callback with its subscription, or register_service_sync, which
\* needs the connection.  Either may raise for want of an answer.
Register(t) ==
    /\ At(t, "register")
    /\ \/ /\ kind[obj[t]] \in Providers => conn[own[t]] = "up"
          /\ Goto(t, "mark")
       \/ Goto(t, "exit")
    /\ UNCHANGED <<factoryVars, kind, runnerVars, client, conn, handling, obj, want,
                   own, known, got, historyVars, calls, losses>>

\* A start that makes a stopped object fit to run again.
Mark_Rearms(t) ==
    /\ At(t, "mark")
    /\ started' = [started EXCEPT ![obj[t]] = TRUE]
    /\ loop' = [loop EXCEPT ![obj[t]] = TRUE]
    /\ Goto(t, "loop")
    /\ UNCHANGED <<factoryVars, kind, client, conn, handling, obj, want, own,
                   known, got, historyVars, calls, losses>>

\* self.started = True, whatever happened to it since the test.
Mark(t) ==
    /\ At(t, "mark")
    /\ started' = [started EXCEPT ![obj[t]] = TRUE]
    /\ Goto(t, "loop")
    /\ UNCHANGED <<factoryVars, kind, loop, client, conn, handling, obj, want, own,
                   known, got, historyVars, calls, losses>>

\* while self.loop: time.sleep(1), ended by stop().
LeaveLoop(t) ==
    /\ At(t, "loop")
    /\ ~loop[obj[t]]
    /\ Goto(t, "exit")
    /\ UNCHANGED <<factoryVars, kind, runnerVars, client, conn, handling, obj, want,
                   own, known, got, historyVars, calls, losses>>

\* An interrupt of the Java thread ends the sleep, and leaves self.started alone.
Interrupt(t) ==
    /\ At(t, "loop")
    /\ broken' = [broken EXCEPT ![obj[t]] = TRUE]
    /\ Goto(t, "exit")
    /\ UNCHANGED <<factoryVars, kind, runnerVars, client, conn, handling, obj, want,
                   own, known, got, stopped, crossed, owner, givenUp, calls, losses>>

\* What is left of a client that is destroyed.
Destroyed(c) == IF conn[c] = "down" THEN "stray" ELSE "gone"

\* The end of the with statement: destroy() waits for the pool's tasks and
\* disconnects, unless the client is down.  An exception of the body goes on.
Exit(t) ==
    /\ At(t, "exit")
    /\ ~handling[own[t]]
    /\ conn' = [conn EXCEPT ![own[t]] = Destroyed(own[t])]
    /\ own' = [own EXCEPT ![t] = NoClient]
    /\ End(t)
    /\ UNCHANGED <<factoryVars, kind, runnerVars, client, handling, want, known, got,
                   historyVars, calls, losses>>

\* destroy() raises: a topic cannot be unsubscribed (service.py:634), or the client
\* is connected still after disconnecting (client.py:624).  What comes after is
\* skipped; nobody holds the client any more, and it is as it was.
ExitRaises(t) ==
    /\ At(t, "exit")
    /\ conn[own[t]] = "up"
    /\ own' = [own EXCEPT ![t] = NoClient]
    /\ End(t)
    /\ UNCHANGED <<factoryVars, kind, runnerVars, client, conn, handling, want, known,
                   got, historyVars, calls, losses>>

\* The client's pool runs the Java callback on a message, until the client is
\* destroyed.
Handle(c) ==
    /\ conn[c] = "up" /\ owner[c] = NoObject /\ ~handling[c]
    /\ \A t \in Threads : own[t] = c => ~At(t, "startConnect")
    /\ handling' = [handling EXCEPT ![c] = TRUE]
    /\ UNCHANGED <<factoryVars, kind, runnerVars, client, conn, threadVars,
                   historyVars, calls, losses>>

\* The callback returns; a provider's answer is sent.
Handled(c) ==
    /\ handling[c]
    /\ handling' = [handling EXCEPT ![c] = FALSE]
    /\ UNCHANGED <<factoryVars, kind, runnerVars, client, conn, threadVars,
                   historyVars, calls, losses>>

\* stop: self.started = False ...
CallStop(t, o) ==
    /\ At(t, "idle") /\ calls < MaxCalls /\ o \in Shared /\ kind[o] \in Runners
    /\ calls' = calls + 1
    /\ started' = [started EXCEPT ![o] = FALSE]
    /\ stopped' = [stopped EXCEPT ![o] = TRUE]
    /\ obj' = [obj EXCEPT ![t] = o]
    /\ Goto(t, "stopLoop")
    /\ UNCHANGED <<factoryVars, kind, loop, client, conn, handling, want, own,
                   known, got, broken, crossed, owner, givenUp, losses>>

\* ... and self.loop = False, which nothing sets to True again.
StopLoop(t) ==
    /\ At(t, "stopLoop")
    /\ loop' = [loop EXCEPT ![obj[t]] = FALSE]
    /\ End(t)
    /\ UNCHANGED <<factoryVars, kind, started, client, conn, handling, want, own,
                   known, got, historyVars, calls, losses>>
-----------------------------------------------------------------------------
(* EventPublisher and ServiceRequester *)

Connected(o) == client[o] # NoClient /\ conn[client[o]] = "up"

\* connect() is past its test and before its end.
Connecting(t, o) == obj[t] = o /\ pc[t] \in {"connectConfig", "connectRun"}

\* What the history says of a connect() that begins.
NoteConnect(o) ==
    /\ crossed' = [crossed EXCEPT ![o] = @ \/ \E u \in Threads : Connecting(u, o)]
    /\ givenUp' = [c \in Clients |->
                       givenUp[c] \/ (c = client[o] /\ conn[c] = "down")]

\* A connect that does not ask for the state of the connection.
CallConnect_Blind(t, o) ==
    /\ At(t, "idle") /\ calls < MaxCalls /\ o \in Shared /\ kind[o] \in Senders
    /\ calls' = calls + 1
    /\ Goto(t, "connectConfig")
    /\ obj' = [obj EXCEPT ![t] = o]
    /\ NoteConnect(o)
    /\ UNCHANGED <<factoryVars, kind, runnerVars, client, conn, handling, want, own,
                   known, got, stopped, broken, owner, losses>>

\* connect: refused if connected, a client that is down does not count.
CallConnect(t, o) ==
    /\ At(t, "idle") /\ calls < MaxCalls /\ o \in Shared /\ kind[o] \in Senders
    /\ calls' = calls + 1
    /\ IF Connected(o)
       THEN UNCHANGED <<pc, obj, crossed, givenUp>>
       ELSE /\ Goto(t, "connectConfig")
            /\ obj' = [obj EXCEPT ![t] = o]
            /\ NoteConnect(o)
    /\ UNCHANGED <<factoryVars, kind, runnerVars, client, conn, handling, want, own,
                   known, got, stopped, broken, owner, losses>>

\* The configuration is read, which may raise; a new client takes the place of
\* the old one, which is neither disconnected nor destroyed.
ConnectConfig(t) ==
    /\ At(t, "connectConfig")
    /\ \/ /\ End(t)
          /\ UNCHANGED <<client, conn, owner>>
       \/ /\ CanMakeClient
          /\ conn' = [conn EXCEPT ![NewClient] = "new"]
          /\ owner' = [owner EXCEPT ![NewClient] = obj[t]]
          /\ client' = [client EXCEPT ![obj[t]] = NewClient]
          /\ Goto(t, "connectRun")
          /\ UNCHANGED obj
    /\ UNCHANGED <<factoryVars, kind, runnerVars, handling, want, own, known, got,
                   stopped, broken, crossed, givenUp, calls, losses>>

\* self.client.connect() on the client that is there by now; a connected one
\* refuses, another connects or fails and goes on trying.
ConnectRun(t) ==
    /\ At(t, "connectRun")
    /\ LET c == client[obj[t]] IN
       \/ /\ conn[c] = "up"
          /\ UNCHANGED conn
       \/ /\ conn[c] # "up"
          /\ \E s \in {"up", "down"} : conn' = [conn EXCEPT ![c] = s]
    /\ End(t)
    /\ UNCHANGED <<factoryVars, kind, runnerVars, client, handling, want, own, known,
                   got, historyVars, calls, losses>>

\* sendMessage: refused if not connected.
CallSend(t, o) ==
    /\ At(t, "idle") /\ calls < MaxCalls /\ o \in Shared /\ kind[o] \in Senders
    /\ calls' = calls + 1
    /\ IF Connected(o)
       THEN /\ Goto(t, "publish")
            /\ obj' = [obj EXCEPT ![t] = o]
       ELSE UNCHANGED <<pc, obj>>
    /\ UNCHANGED <<factoryVars, kind, runnerVars, client, conn, handling, want, own,
                   known, got, historyVars, losses>>

\* send_event returns whether or not anything was sent (client.py:992 ignores
\* the result); sync_request waits for its response.
Publish(t) ==
    /\ At(t, "publish")
    /\ IF kind[obj[t]] \in Requesters
       THEN Goto(t, "awaitResponse") /\ UNCHANGED obj
       ELSE End(t)
    /\ UNCHANGED <<factoryVars, kind, runnerVars, client, conn, handling, want, own,
                   known, got, historyVars, calls, losses>>

\* The response comes, or the wait ends after its timeout.
AwaitResponse(t) ==
    /\ At(t, "awaitResponse")
    /\ End(t)
    /\ UNCHANGED <<factoryVars, kind, runnerVars, client, conn, handling, want, own,
                   known, got, historyVars, calls, losses>>

\* disconnect: does nothing if not connected.
CallDisconnect(t, o) ==
    /\ At(t, "idle") /\ calls < MaxCalls /\ o \in Shared /\ kind[o] \in Senders
    /\ calls' = calls + 1
    /\ IF Connected(o)
       THEN /\ Goto(t, "disconnectRun")
            /\ obj' = [obj EXCEPT ![t] = o]
       ELSE UNCHANGED <<pc, obj>>
    /\ UNCHANGED <<factoryVars, kind, runnerVars, client, conn, handling, want, own,
                   known, got, historyVars, losses>>

\* self.client.disconnect(), which does nothing to a client that is not up, and
\* may raise with the client connected still (client.py:624).
DisconnectRun(t) ==
    /\ At(t, "disconnectRun")
    /\ \/ UNCHANGED conn
       \/ /\ conn[client[obj[t]]] = "up"
          /\ conn' = [conn EXCEPT ![client[obj[t]]] = "off"]
    /\ End(t)
    /\ UNCHANGED <<factoryVars, kind, runnerVars, client, handling, want, own, known,
                   got, historyVars, calls, losses>>
-----------------------------------------------------------------------------
(* The clients' connections *)

LoseConnection(c) ==
    /\ conn[c] = "up" /\ losses < MaxLosses
    /\ losses' = losses + 1
    /\ conn' = [conn EXCEPT ![c] = "down"]
    /\ UNCHANGED <<factoryVars, kind, runnerVars, client, handling, threadVars,
                   historyVars, calls>>

\* The client's own threads connect again.
Reconnect(c) ==
    /\ conn[c] = "down"
    /\ conn' = [conn EXCEPT ![c] = "up"]
    /\ UNCHANGED <<factoryVars, kind, runnerVars, client, handling, threadVars,
                   historyVars, calls, losses>>
-----------------------------------------------------------------------------
Call(t) == \/ \E k \in Kinds : CallFactory(t, k)
           \/ CloseFactory(t) \/ InitFactory(t)
           \/ \E o \in Objects : \/ CallStart(t, o) \/ CallStop(t, o)
                                 \/ CallConnect(t, o) \/ CallSend(t, o)
                                 \/ CallDisconnect(t, o)

\* The steps of the factory and of the extensions' own code ...
OwnStep(t) == \/ ExecName(t) \/ GetName(t)
              \/ StartConfig(t) \/ Mark(t) \/ LeaveLoop(t) \/ StopLoop(t)
              \/ ConnectConfig(t)

\* ... and those that are calls of a DxlClient.
ClientStep(t) == \/ StartConnect(t) \/ Register(t) \/ Exit(t) \/ ExitRaises(t)
                 \/ ConnectRun(t) \/ Publish(t) \/ AwaitResponse(t)
                 \/ DisconnectRun(t)

Next == \/ \E t \in Threads : Call(t) \/ OwnStep(t) \/ ClientStep(t) \/ Interrupt(t)
        \/ \E c \in Clients : \/ Handle(c) \/ Handled(c)
                             \/ LoseConnection(c) \/ Reconnect(c)

Spec == Init /\ [][Next]_vars

\* Threads go on with the extensions' own code.  Nothing makes a call of a
\* DxlClient return, nor a Java callback.
Fairness == \A t \in Threads : WF_vars(OwnStep(t))
FairSpec == Spec /\ Fairness
-----------------------------------------------------------------------------
(* Properties *)

\* The object a factory call is about to return was made during that call,
\* although all threads share one name for it; it may be the one that another
\* thread gets, but never one that was handed out before
\* (JythonFactory.java:210-227).
FreshObject ==
    \A t \in Threads : At(t, "getName") => bound[want[t]] \notin known[t]

\* Until somebody stops or interrupts it, a runner is marked as started exactly
\* while a start() is in its loop: a failed start leaves it startable, and a
\* running one refuses a second start (EventListener.py:64-110).
StartedTells ==
    \A o \in Objects : ~stopped[o] /\ ~broken[o] =>
        (started[o] <=> \E t \in Threads : obj[t] = o /\ At(t, "loop"))

\* A connected client that its publisher or requester no longer refers to, and
\* can therefore not disconnect, was trying to reconnect when connect() made its
\* test, or two connects met (EventPublisher.py:68-88).
OrphansExplained ==
    \A c \in Clients :
        conn[c] = "up" /\ owner[c] # NoObject /\ client[owner[c]] # c
        => givenUp[c] \/ crossed[owner[c]]

\* The start() of t is inside a call of its client.
InClient(t) == pc[t] \in {"startConnect", "register", "exit"}

\* The flags lose no stop(): whenever it comes, even before start() has marked the
\* object as started, every start() of the object ends, or is kept by a call of
\* its client (connect() without a broker, the registration, destroy()) that does
\* not return; it does not stay in its loop (EventListener.py:104-118).
StopHeeded ==
    \A t \in Threads :
        []<>(own[t] # NoClient /\ stopped[obj[t]] => InClient(t))
=============================================================================
