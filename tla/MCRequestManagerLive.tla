------------------------ MODULE MCRequestManagerLive ------------------------
(* Two small instances of RequestManager in one run.  Which of them a behaviour
   belongs to restricts only what the applications choose: which calls they
   make, and whether a callback returns.

   "calls"    any calls about two requests; the second worker never returns from
              a callback, which leaves the default pool of one thread.
   "copies"   a third request is sent again and again, twice with a callback, and
              answered up to twice each time, to two workers. *)
EXTENDS RequestManager

VARIABLE part   \* which of the two

First(S) == CHOOSE x \in S : TRUE
Copied   == First(Requests)
Second   == CHOOSE w \in Workers : w # First(Workers)
OfCopied(n, others) == [r \in Requests |-> IF r = Copied THEN n ELSE others]
AnsweredTwice   == OfCopied(2, 1)
RegisteredTwice == OfCopied(2, 0)

PartInit ==
    \/ part = "copies" /\ Init
    \/ /\ part = "calls"
       /\ sync_wait_message_ids = {} /\ sync_wait_message_responses = {}
       /\ callback_map = [r \in Requests |-> NoCallback]
       /\ current_request_message_ids = {}
       /\ pc = [c \in Callers |-> "idle"]
       /\ req = [c \in Callers |-> NoRequest]
       /\ hasCallback = [c \in Callers |-> FALSE]
       /\ elapsed = [c \in Callers |-> 0] /\ left = [c \in Callers |-> 0]
       /\ wpc = [w \in Workers |-> IF w = Second THEN "callback" ELSE "idle"]
       /\ wreq = [w \in Workers |-> IF w = Second THEN Copied ELSE NoRequest]
       /\ held = [w \in Workers |-> IF w = Second THEN 1 ELSE NoCallback]
       /\ inbox = [r \in Requests |-> 0]
       /\ registered = OfCopied(1, 0)
       /\ invoked = [r \in Requests |-> [k \in Callbacks(r) |->
                       IF r = Copied /\ k = 1 THEN 1 ELSE 0]]

Chosen ==
    \/ /\ part = "calls"
       /\ wpc'[Second] = "callback"
       /\ \A c \in Callers : req'[c] # Copied
    \/ /\ part = "copies"
       /\ \A c \in Callers :
             req'[c] = IF pc'[c] # "idle" /\ c = First(Callers) THEN Copied ELSE NoRequest

PartSpec ==
    /\ PartInit
    /\ [][Next /\ Chosen /\ UNCHANGED part]_<<vars, part>>
    /\ Fairness
=============================================================================
