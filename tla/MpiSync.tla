------------------------------- MODULE MpiSync -------------------------------
(***************************************************************************)
(* The collective operations VampirTrace issues on its own: the clock      *)
(* synchronisations at MPI_Init and MPI_Finalize (vt_mpi_init and          *)
(* vt_mpi_finalize of vtlib/vt_trc.c) and, after every recorded collective *)
(* call on MPI_COMM_WORLD, the synchronised buffer flush and the enhanced  *)
(* timer synchronisation (vt_mpi_sync). Also what each wrapper of a         *)
(* collective records of its root and of the bytes sent and received.      *)
(*                                                                         *)
(* MPI matches the k-th collective operation of every rank on a            *)
(* communicator, so the ranks must issue the same sequence. Each rank's    *)
(* sequence is kept in "posted"; an operation completes once every rank    *)
(* has posted its k-th one, one of the program's as soon as the ranks whose *)
(* data it needs have (MPI itself is external).                            *)
(*                                                                         *)
(* A rank's trace buffer is abstracted to its fill level, its flushes      *)
(* left and whether it still records (module TraceThread has the details); *)
(* the records a wrapper writes between two MPI operations count as one.   *)
(***************************************************************************)
EXTENDS Integers, Sequences, FiniteSets, FiniteSetsExt

CONSTANTS
  Ranks,       \* MPI processes, by their ranks
  Count,       \* bytes a rank passes to a call whose counts are the same for all
  Bytes,       \* bytes of one rank for another one, where counts may differ; for
               \* itself: the block it contributes or gets
  Capacity,    \* events that fit in the buffer
  FlushLevel,  \* VT_SYNC_FLUSH_LEVEL, as a number of events
  MaxFlushes,  \* VT_MAX_FLUSHES, 0 for no limit
  Settings     \* programs and the other settings: the collective calls Program (op,
               \* root, comm: "world" or "other"), SyncFlush (VT_SYNC_FLUSH), ETimeSync
               \* (VT_ETIMESYNC), FileUnique (VT_FILE_UNIQUE = "yes"), Disabled (the
               \* ranks the filter file switches off)

Rooted == {"MPI_Bcast", "MPI_Gather", "MPI_Gatherv", "MPI_Reduce", "MPI_Scatter", "MPI_Scatterv"}
Rootless ==
  {"MPI_Allgather", "MPI_Allgatherv", "MPI_Allreduce", "MPI_Alltoall", "MPI_Alltoallv",
   "MPI_Alltoallw", "MPI_Barrier", "MPI_Exscan", "MPI_Reduce_scatter", "MPI_Scan"}

NoRoot == -1
Calls == [op : Rooted, root : Ranks, comm : {"world", "other"}]
         \cup [op : Rootless, root : {NoRoot}, comm : {"world", "other"}]

ASSUME RanksAssumption ==
  /\ IsFiniteSet(Ranks) /\ Cardinality(Ranks) > 1 /\ Ranks \subseteq Nat
  /\ Count \in Nat /\ Bytes \in [Ranks -> [Ranks -> Nat]]
ASSUME SyncAssumption ==
  /\ Capacity \in Nat \ {0}
  /\ FlushLevel \in 0 .. Capacity
  /\ MaxFlushes \in Nat
  /\ \A e \in Settings :
       /\ e.Program \in Seq(Calls) /\ e.SyncFlush \in BOOLEAN /\ e.ETimeSync \in BOOLEAN
       /\ e.FileUnique \in BOOLEAN /\ e.Disabled \subseteq Ranks

VARIABLES
  env,      \* the settings of this run, read by vt_env at the start
  pc,       \* where each rank is
  calls,    \* number of collective calls the program has completed
  buf,      \* [fill, left, on] of each rank's buffer
  recorded, \* was_recorded of the current call
  todo,     \* operations on MPI_COMM_WORLD the rank is about to issue
  posted,   \* operations it has issued, with what vt_mpi_collbegin recorded of them (begun)
  synced,   \* history: the calls after which the rank synchronised
  flushed   \* history: the calls after which the rank flushed synchronously

vars == <<env, pc, calls, buf, recorded, todo, posted, synced, flushed>>

------------------------------------------------------------------------------
(* The buffer. *)

\* VTGen_flush; the last flush allowed switches tracing off for good.
Flush(b) ==
  IF b.left = 0 /\ MaxFlushes # 0 THEN b
  ELSE LET left == IF MaxFlushes = 0 THEN 0 ELSE b.left - 1
       IN [fill |-> 0, left |-> left, on |-> b.on /\ (MaxFlushes = 0 \/ left > 0)]

\* Mutant: an event is written into a full buffer.
RecordUnchecked(b) == IF b.on THEN [b EXCEPT !.fill = @ + 1] ELSE b

\* Event records.
Record(b) ==
  LET f == IF b.fill = Capacity THEN Flush(b) ELSE b
  IN IF b.on /\ f.on THEN [f EXCEPT !.fill = @ + 1] ELSE f

------------------------------------------------------------------------------
(* What the wrappers tell vt_mpi_collbegin: root, bytes sent and received. *)

Begin(root, sent, recvd) == [root |-> root, sent |-> sent, recvd |-> recvd]

SumOver(f) == MapThenSumSet(LAMBDA r : f[r], Ranks)
Block(r) == Bytes[r][r]
Blocks == SumOver([r \in Ranks |-> Block(r)])
N == Cardinality(Ranks)

MPI_Allreduce(r) == Begin(NoRoot, Count, Count)
MPI_Barrier(r) == Begin(NoRoot, 0, 0)
MPI_Bcast(r, root) == Begin(root, IF r = root THEN Count ELSE 0, Count)
MPI_Gather(r, root) == Begin(root, Count, IF r = root THEN N * Count ELSE 0)
MPI_Reduce(r, root) == Begin(root, Count, IF r = root THEN Count ELSE 0)
MPI_Gatherv(r, root) == Begin(root, Block(r), IF r = root THEN Blocks ELSE 0)
MPI_Allgather(r) == Begin(NoRoot, Count, N * Count)
MPI_Allgatherv(r) == Begin(NoRoot, Block(r), Blocks)
MPI_Alltoall(r) == Begin(NoRoot, Count * N, Count * N)
MPI_Alltoallv(r) ==
  Begin(NoRoot, SumOver([s \in Ranks |-> Bytes[r][s]]), SumOver([s \in Ranks |-> Bytes[s][r]]))
MPI_Scan(r) == Begin(NoRoot, Count, Count)
MPI_Scatter(r, root) == Begin(root, IF r = root THEN N * Count ELSE 0, Count)
MPI_Scatterv(r, root) == Begin(root, IF r = root THEN Blocks ELSE 0, Block(r))
MPI_Reduce_scatter(r) == Begin(NoRoot, Blocks, Block(r))
\* The types may differ as well.
MPI_Alltoallw(r) == MPI_Alltoallv(r)
MPI_Exscan(r) == Begin(NoRoot, Count, Count)

vt_mpi_collbegin(r, call) ==
  CASE call.op = "MPI_Allreduce" -> MPI_Allreduce(r)
    [] call.op = "MPI_Barrier" -> MPI_Barrier(r)
    [] call.op = "MPI_Bcast" -> MPI_Bcast(r, call.root)
    [] call.op = "MPI_Gather" -> MPI_Gather(r, call.root)
    [] call.op = "MPI_Reduce" -> MPI_Reduce(r, call.root)
    [] call.op = "MPI_Gatherv" -> MPI_Gatherv(r, call.root)
    [] call.op = "MPI_Allgather" -> MPI_Allgather(r)
    [] call.op = "MPI_Allgatherv" -> MPI_Allgatherv(r)
    [] call.op = "MPI_Alltoall" -> MPI_Alltoall(r)
    [] call.op = "MPI_Alltoallv" -> MPI_Alltoallv(r)
    [] call.op = "MPI_Scan" -> MPI_Scan(r)
    [] call.op = "MPI_Scatter" -> MPI_Scatter(r, call.root)
    [] call.op = "MPI_Scatterv" -> MPI_Scatterv(r, call.root)
    [] call.op = "MPI_Reduce_scatter" -> MPI_Reduce_scatter(r)
    [] call.op = "MPI_Alltoallw" -> MPI_Alltoallw(r)
    [] call.op = "MPI_Exscan" -> MPI_Exscan(r)

\* The ranks whose data a rank needs before MPI can let it go on.
Sources(r, call) ==
  CASE call.op \in {"MPI_Bcast", "MPI_Scatter", "MPI_Scatterv"} -> {call.root}
    [] call.op \in {"MPI_Gather", "MPI_Gatherv", "MPI_Reduce"} -> IF r = call.root THEN Ranks ELSE {}
    [] call.op \in {"MPI_Scan", "MPI_Exscan"} -> {s \in Ranks : s < r}
    [] OTHER -> Ranks

------------------------------------------------------------------------------
(* The operations of one synchronisation. *)

\* vt_esync: the barriers at entry and at exit
Esync == <<"barrier", "barrier">>

\* vt_sync: barrier at entry, the communicators of a node and of the nodes'
\* first ranks, barrier at exit
Sync == <<"barrier", "split", "split", "barrier">>

TimeSync == IF env.ETimeSync THEN Esync ELSE Sync

Init ==
  /\ env \in Settings
  /\ pc = [r \in Ranks |-> "init"]
  /\ calls = [r \in Ranks |-> 0]
  /\ buf = [r \in Ranks |-> [fill |-> 0, left |-> MaxFlushes, on |-> TRUE]]
  /\ recorded = [r \in Ranks |-> FALSE]
  /\ todo = [r \in Ranks |-> << >>]
  /\ posted = [r \in Ranks |-> << >>]
  /\ synced = [r \in Ranks |-> {}]
  /\ flushed = [r \in Ranks |-> {}]

Goto(r, l) == pc' = [pc EXCEPT ![r] = l]
WillDo(r, ops) == todo' = [todo EXCEPT ![r] = ops]

\* r issues a collective operation on MPI_COMM_WORLD.
PostCall(r, op, mask, begun) ==
  posted' = [posted EXCEPT ![r] = Append(@, [op |-> op, mask |-> mask, begun |-> begun])]
Post(r, op, mask) == PostCall(r, op, mask, << >>)

\* r's last operation is complete: every rank has issued its counterpart.
Matched(r) == \A s \in Ranks : Len(posted[s]) >= Len(posted[r])

\* Its last operation, a call of the program's, has the data it needs.
Delivered(r, call) == \A s \in Sources(r, call) : Len(posted[s]) >= Len(posted[r])

\* r is through with the operations it had to do.
Through(r) == todo[r] = << >> /\ Matched(r)

\* The result of the MPI_Allreduce with MPI_BOR.
Reduced(r) == UNION {posted[s][Len(posted[r])].mask : s \in Ranks}

Call(r) == calls[r] + 1
Here(r) == env.Program[Call(r)]
Active(r) == pc[r] = "app" /\ calls[r] < Len(env.Program)

\* The next operation of the sequence under way.
Operation(r) ==
  /\ todo[r] # << >> /\ Matched(r)
  /\ Post(r, Head(todo[r]), {})
  /\ WillDo(r, Tail(todo[r]))
  /\ UNCHANGED <<env, pc, calls, buf, recorded, synced, flushed>>

\* vt_mpi_init: a disabled rank is switched off and takes part all the same.
vt_mpi_init(r) ==
  /\ pc[r] = "init"
  /\ buf' = [buf EXCEPT ![r] = Record([@ EXCEPT !.on = r \notin env.Disabled])]
  /\ WillDo(r, (IF env.FileUnique THEN <<"bcast">> ELSE << >>) \o <<"split">> \o TimeSync)
  /\ Goto(r, "initsync")
  /\ UNCHANGED <<env, calls, recorded, posted, synced, flushed>>

Started(r) ==
  /\ pc[r] = "initsync" /\ Through(r)
  /\ Goto(r, "app")
  /\ UNCHANGED <<env, calls, buf, recorded, todo, posted, synced, flushed>>

\* The program records events between its collective calls.
Compute(r) ==
  /\ Active(r)
  /\ buf' = [buf EXCEPT ![r] = Record(@)]
  /\ UNCHANGED <<env, pc, calls, recorded, todo, posted, synced, flushed>>

\* The wrapper of a collective enters its region, records the begin of the
\* operation and calls PMPI. It records if tracing is on; filtered functions and
\* stacks that are too deep, which it does not record either, are left out. A call
\* on another communicator needs no other rank here.
CallCollective(r) ==
  LET call == Here(r)
      b == Record(buf[r]) IN
  /\ Active(r)
  /\ recorded' = [recorded EXCEPT ![r] = buf[r].on]
  /\ buf' = [buf EXCEPT ![r] = b]
  /\ IF call.comm = "other" THEN UNCHANGED posted
     ELSE PostCall(r, call.op, {},
                   IF buf[r].on /\ b.on THEN <<vt_mpi_collbegin(r, call)>> ELSE << >>)
  /\ Goto(r, "coll")
  /\ UNCHANGED <<env, calls, todo, synced, flushed>>

Return(r) ==
  /\ Goto(r, "app")
  /\ calls' = [calls EXCEPT ![r] = @ + 1]

\* lsync_mask: a full enough buffer asks for both, an elapsed interval ("due")
\* for the time synchronisation.
LocalMask(b, due) ==
  (IF env.SyncFlush /\ b.fill >= FlushLevel
   THEN {"flush"} \cup (IF env.ETimeSync THEN {"time"} ELSE {}) ELSE {})
  \cup (IF env.ETimeSync /\ due THEN {"time"} ELSE {})

\* Mutant: a rank that needs neither leaves before the MPI_Allreduce.
CollendIfNeeded(r, due) ==
  LET b == Record(buf[r]) IN
  /\ pc[r] = "coll" /\ (Here(r).comm = "world" => Delivered(r, Here(r)))
  /\ buf' = [buf EXCEPT ![r] = b]
  /\ IF recorded[r] /\ Here(r).comm = "world" /\ LocalMask(b, due) # {}
     THEN /\ Post(r, "allreduce", LocalMask(b, due))
          /\ synced' = [synced EXCEPT ![r] = @ \cup {Call(r)}]
          /\ Goto(r, "reduce") /\ UNCHANGED calls
     ELSE Return(r) /\ UNCHANGED <<posted, synced>>
  /\ UNCHANGED <<env, recorded, todo, flushed>>

\* PMPI returns. vt_mpi_collend is called only if the call was recorded; it
\* calls vt_mpi_sync, which runs up to the MPI_Allreduce unless both
\* synchronisations are off or the communicator is a smaller one.
Collend(r, due) ==
  LET b == Record(buf[r]) IN
  /\ pc[r] = "coll" /\ (Here(r).comm = "world" => Delivered(r, Here(r)))
  /\ buf' = [buf EXCEPT ![r] = b]
  /\ IF recorded[r] /\ (env.SyncFlush \/ env.ETimeSync) /\ Here(r).comm = "world"
     THEN /\ Post(r, "allreduce", LocalMask(b, due))
          /\ synced' = [synced EXCEPT ![r] = @ \cup {Call(r)}]
          /\ Goto(r, "reduce") /\ UNCHANGED calls
     ELSE Return(r) /\ UNCHANGED <<posted, synced>>
  /\ UNCHANGED <<env, recorded, todo, flushed>>

\* What vt_mpi_sync does with the mask all ranks have agreed on: flush if some
\* rank wants to; then vt_esync, or a barrier after a flush alone.
Obey(r, mask) ==
  /\ pc[r] = "reduce" /\ Matched(r)
  /\ buf' = [buf EXCEPT ![r] = IF "flush" \in mask THEN Flush(@) ELSE @]
  /\ flushed' = IF "flush" \in mask THEN [flushed EXCEPT ![r] = @ \cup {Call(r)}]
                                    ELSE flushed
  /\ WillDo(r, IF "time" \in mask THEN Esync
               ELSE IF "flush" \in mask THEN <<"barrier">> ELSE << >>)
  /\ Goto(r, "sync")
  /\ UNCHANGED <<env, calls, recorded, posted, synced>>

\* Mutant: the rank acts on its own mask.
FinishReduceOwn(r) == Obey(r, posted[r][Len(posted[r])].mask)

FinishReduce(r) == Obey(r, Reduced(r))

\* The ends of vt_mpi_sync and of the wrapper.
Exit(r) ==
  /\ pc[r] = "sync" /\ Through(r)
  /\ buf' = [buf EXCEPT ![r] = Record(@)]
  /\ Return(r)
  /\ UNCHANGED <<env, recorded, todo, posted, synced, flushed>>

\* Mutant: the clocks are synchronised by ranks that record only.
vt_mpi_finalizeIfOn(r) ==
  /\ pc[r] = "app" /\ calls[r] = Len(env.Program)
  /\ buf' = [buf EXCEPT ![r] = Record(@)]
  /\ WillDo(r, IF buf[r].on THEN TimeSync \o <<"barrier">> ELSE <<"barrier">>)
  /\ Goto(r, "finalize")
  /\ UNCHANGED <<env, calls, recorded, posted, synced, flushed>>

\* vt_mpi_finalize: the last clock synchronisation and a barrier, whether the
\* rank records or not
vt_mpi_finalize(r) ==
  /\ pc[r] = "app" /\ calls[r] = Len(env.Program)
  /\ buf' = [buf EXCEPT ![r] = Record(@)]
  /\ WillDo(r, TimeSync \o <<"barrier">>)
  /\ Goto(r, "finalize")
  /\ UNCHANGED <<env, calls, recorded, posted, synced, flushed>>

\* MPI_Finalize returns.
Finalized(r) ==
  /\ pc[r] = "finalize" /\ Through(r)
  /\ Goto(r, "done")
  /\ UNCHANGED <<env, calls, buf, recorded, todo, posted, synced, flushed>>

Step(r) ==
  \/ vt_mpi_init(r)
  \/ Operation(r)
  \/ Started(r)
  \/ CallCollective(r)
  \/ \E due \in BOOLEAN : Collend(r, due)
  \/ FinishReduce(r)
  \/ Exit(r)
  \/ vt_mpi_finalize(r)
  \/ Finalized(r)

Next == \E r \in Ranks : Compute(r) \/ Step(r)

\* A process runs on unless it waits in MPI for another one.
Fairness == \A r \in Ranks : WF_vars(Step(r))

Spec == Init /\ [][Next]_vars /\ Fairness

------------------------------------------------------------------------------
(* Properties. *)

Ops == Rooted \cup Rootless \cup {"allreduce", "barrier", "bcast", "split"}

\* Type invariant of the ranks and of their operations.
TypeOK ==
  /\ env \in Settings
  /\ pc \in [Ranks -> {"init", "initsync", "app", "coll", "reduce", "sync",
                       "finalize", "done"}]
  /\ calls \in [Ranks -> 0 .. Len(env.Program)]
  /\ buf \in [Ranks -> [fill : 0 .. Capacity, left : 0 .. MaxFlushes, on : BOOLEAN]]
  /\ recorded \in [Ranks -> BOOLEAN]
  /\ todo \in [Ranks -> Seq(Ops)]
  /\ posted \in [Ranks -> Seq([op : Ops, mask : SUBSET {"flush", "time"},
                            begun : Seq([root : Ranks \cup {NoRoot}, sent : Nat, recvd : Nat])])]
  /\ synced \in [Ranks -> SUBSET (1 .. Len(env.Program))]
  /\ flushed \in [Ranks -> SUBSET (1 .. Len(env.Program))]

\* What all ranks have recorded of one operation fits together: they name the
\* same root; what is spread or collected unchanged is received as it was sent;
\* what is given to all is received by each; what is combined for all is sent by
\* each.
BeginsAgree(k) ==
  (\A r \in Ranks : k <= Len(posted[r]) /\ posted[r][k].begun # << >>) =>
    LET b == [r \in Ranks |-> posted[r][k].begun[1]]
        op == posted[CHOOSE r \in Ranks : TRUE][k].op
        sent == SumOver([r \in Ranks |-> b[r].sent])
        recvd == SumOver([r \in Ranks |-> b[r].recvd]) IN
    /\ \A r, s \in Ranks : b[r].root = b[s].root
    /\ CASE op \in {"MPI_Bcast", "MPI_Allgather", "MPI_Allgatherv"} ->
              \A r \in Ranks : b[r].recvd = sent
         [] op \in {"MPI_Reduce", "MPI_Reduce_scatter"} -> \A r \in Ranks : b[r].sent = recvd
         [] OTHER -> sent = recvd

\* All ranks issue the same sequence of collective operations on
\* MPI_COMM_WORLD, the tool's and the program's ones interleaved: no rank's
\* MPI_Allreduce is ever matched with another rank's barrier or next call; and
\* what the ranks record of an operation fits together.
CollectivesMatch ==
  /\ \A r, s \in Ranks :
       \A k \in 1 .. Len(posted[r]) :
         k <= Len(posted[s]) => posted[r][k].op = posted[s][k].op
  /\ \A k \in DOMAIN posted[CHOOSE r \in Ranks : TRUE] : BeginsAgree(k)

\* If one rank flushes at a synchronisation, every rank that is through that
\* call has flushed there, too ("all buffers will be flushed"); and as long as
\* the number of flushes is not limited, whoever synchronises does so with all
\* ranks. (A rank that has used up its flushes records no collective operation
\* any more, and then leaves the others alone with their synchronisation.)
FlushTogether ==
  \A r, s \in Ranks :
    /\ \A n \in flushed[r] : calls[s] >= n => n \in flushed[s]
    /\ MaxFlushes = 0 => \A n \in synced[r] : calls[s] >= n => n \in synced[s]

\* Every rank gets through all its calls and through MPI_Finalize: no
\* synchronisation makes the ranks wait for each other for ever.
AllFinish == <>(\A r \in Ranks : pc[r] = "done")
==============================================================================
