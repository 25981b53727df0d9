------------------------------ MODULE MCIoTrace ------------------------------
(* A small instance of IoTrace for TLC. *)
EXTENDS IoTrace

CONSTANTS t1, t2

MCThreads == {t1, t2}
MCFds == 0 .. 2

\* One thread that uses MPI-IO, too; one whose calls are interrupted; and two.
MCPrograms ==
  {[team |-> {t1}, mpi |-> TRUE, calls |-> 4, suspensions |-> 0, switches |-> 1],
   [team |-> {t1}, mpi |-> FALSE, calls |-> 3, suspensions |-> 2, switches |-> 0],
   [team |-> {t1, t2}, mpi |-> FALSE, calls |-> 3, suspensions |-> 0, switches |-> 0]}
=============================================================================
