------------------------------ MODULE MCThreads ------------------------------
(* An instance of Threads for TLC: the values are those of Threads.cfg. *)
EXTENDS Threads
==============================================================================
