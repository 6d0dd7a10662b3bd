-------------------------- MODULE MCRequestManager --------------------------
(* RequestManager with the constants of its .cfg files. *)
EXTENDS RequestManager, TLC

\* Sound for the safety run only: callers, workers and requests are alike.
Symmetry ==
    Permutations(Callers) \cup Permutations(Workers) \cup Permutations(Requests)

OnePerRequest == [r \in Requests |-> 1]
=============================================================================
