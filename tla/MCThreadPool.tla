---------------------------- MODULE MCThreadPool ----------------------------
(* ThreadPool with the constants of its .cfg file. *)
EXTENDS ThreadPool
=============================================================================
