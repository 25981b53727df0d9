---------------------------- MODULE MCMpiRequests ----------------------------
(* Small instances of MpiRequests for TLC. *)
EXTENDS MpiRequests, TLC

\* The handles are interchangeable.
Symmetry == Permutations(Handles)

\* The state without "leaked", on which no step and no property depends.
Seen == <<tab, mpi, saved, recording, orphans, missed, phase>>
==============================================================================
