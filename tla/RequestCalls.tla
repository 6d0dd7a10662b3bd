---------------------------- MODULE RequestCalls ----------------------------
(***************************************************************************)
(* What the synchronous half of dxlclient/_request_manager.py promises.    *)
(* Every call is on its own: it is open until its response arrives or it   *)
(* gives up, it is answered at most once, its answer stays until the call  *)
(* itself collects it or gives up, and no step of another call or of a     *)
(* response to another request moves it.  RequestManager shares two        *)
(* tables, one condition and a pool of threads among all calls; it is      *)
(* shown to implement this module (RequestManager!ImplementsCalls).        *)
(***************************************************************************)
CONSTANTS Callers, Requests, NoRequest

VARIABLES
    call,   \* the state of each caller's synchronous call
    asked   \* the request it is about

calls == <<call, asked>>

Init ==
    /\ call = [c \in Callers |-> "idle"]
    /\ asked = [c \in Callers |-> NoRequest]

Begin(c, r) ==
    /\ call[c] = "idle"
    /\ \A d \in Callers : asked[d] # r
    /\ call' = [call EXCEPT ![c] = "open"]
    /\ asked' = [asked EXCEPT ![c] = r]

\* A response to the call's request arrives, in time to be of use.
Answer(c) ==
    /\ call[c] = "open"
    /\ call' = [call EXCEPT ![c] = "answered"]
    /\ UNCHANGED asked

\* The call collects its answer, or gives up with or without one.
Finish(c) ==
    /\ call[c] \in {"open", "answered"}
    /\ call' = [call EXCEPT ![c] = "finished"]
    /\ UNCHANGED asked

Return(c) ==
    /\ call[c] = "finished"
    /\ call' = [call EXCEPT ![c] = "idle"]
    /\ asked' = [asked EXCEPT ![c] = NoRequest]

Next ==
    \E c \in Callers :
        \/ \E r \in Requests : Begin(c, r)
        \/ Answer(c)
        \/ Finish(c)
        \/ Return(c)

Spec == Init /\ [][Next]_calls
=============================================================================
