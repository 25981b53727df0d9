----------------------------- MODULE MCMpiComms -----------------------------
(* Small instances of MpiComms for TLC. *)
EXTENDS MpiComms, TLC

\* Group and window handles are interchangeable, and so are the communicators
\* other than the predefined ones.
Symmetry ==
  Permutations(Groups) \cup Permutations(Windows) \cup Permutations(Comms \ {World, Self})
=============================================================================
