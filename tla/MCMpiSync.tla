----------------------------- MODULE MCMpiSync -----------------------------
(* Small instances of MpiSync for TLC. *)
EXTENDS MpiSync

W(op) == [op |-> op, root |-> NoRoot, comm |-> "world"]
R(op, root) == [op |-> op, root |-> root, comm |-> "world"]
Other(op) == [op |-> op, root |-> NoRoot, comm |-> "other"]

\* The number of bytes differs from rank to rank.
MCBytes == [r \in Ranks |-> [s \in Ranks |-> 2 * r + 3 * s + 1]]

Setup(flush, etime, unique, disabled, program) ==
  [SyncFlush |-> flush, ETimeSync |-> etime, FileUnique |-> unique, Disabled |-> disabled,
   Program |-> program]

\* Two or three calls, of which one may be on another communicator; both
\* synchronisations or one of them, or none, and a rank is switched off.
MCSettings ==
  {Setup(TRUE, TRUE, TRUE, {}, <<R("MPI_Bcast", 1), Other("MPI_Barrier"), R("MPI_Gatherv", 2)>>),
   Setup(TRUE, TRUE, FALSE, {}, <<W("MPI_Scan"), W("MPI_Allreduce")>>),
   Setup(TRUE, FALSE, FALSE, {}, <<R("MPI_Reduce", 0), W("MPI_Alltoallv")>>),
   Setup(TRUE, FALSE, FALSE, {}, <<R("MPI_Scatterv", 0), W("MPI_Exscan")>>),
   Setup(FALSE, TRUE, TRUE, {}, <<W("MPI_Allgatherv"), W("MPI_Barrier")>>),
   Setup(FALSE, TRUE, FALSE, {}, <<R("MPI_Scatter", 2), W("MPI_Alltoallw")>>),
   Setup(FALSE, FALSE, TRUE, {0}, <<W("MPI_Barrier"), R("MPI_Gather", 1)>>),
   Setup(FALSE, FALSE, FALSE, {}, <<W("MPI_Alltoall"), W("MPI_Reduce_scatter"), W("MPI_Allgather")>>)}
============================================================================
