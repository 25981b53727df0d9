------------------------------- MODULE IoTrace -------------------------------
(***************************************************************************)
(* I/O tracing of one process: its threads call the C library's I/O        *)
(* functions, its main thread MPI-IO as well. Both kinds of wrappers draw  *)
(* on the same counters and write to the same streams.                     *)
(***************************************************************************)
EXTENDS IoWrap, MpiFile

vars == <<recVars, wrapVars, mpiVars>>

Init == InitRecords(FirstHandle) /\ vt_iowrap_init /\ vt_mpifile_init

\* The main thread calls MPI-IO outside of other calls; MPI's own calls of the
\* C library are left out.
MpiCall == call[Main].at = "idle" /\ thr[Main].suspended = 0 /\ MpiNext /\ UNCHANGED wrapVars

\* A thread switches recording between two calls.
SwitchRecording(t) ==
  call[t].at = "idle" /\ Switch(t) /\ UNCHANGED <<wrapVars, mpiVars>>

Next ==
  /\ ~aborted
  /\ \/ MpiCall
     \/ \E t \in team :
          \/ WrapNext(t) /\ UNCHANGED mpiVars
          \/ (Suspend(t) \/ Resume(t)) /\ UNCHANGED <<wrapVars, mpiVars>>
          \/ SwitchRecording(t)

Spec == Init /\ [][Next]_vars

------------------------------------------------------------------------------
(* Properties. *)

\* Type invariant of the tables, the threads and their records.
TypeOK ==
  /\ program \in Programs
  /\ thr \in [team -> [on : BOOLEAN, enabled : BOOLEAN, state : BOOLEAN,
                          suspended : 0 .. program.suspensions, nextMid : 1 .. program.calls + 1,
                          nextHandle : 1 .. program.calls + FirstHandle]]
  /\ os \in [Fds -> AnyFile] /\ mpi \in [Handles -> Files \cup {"none"}]
  /\ table \in [Fds -> [file : AnyFile, handle : 0 .. program.calls + FirstHandle]]
  /\ \A t \in team : call[t].at \in {"idle", "entered", "returned"}
  /\ blind \subseteq Fds
  /\ begun \in [Handles -> {"no", "yes", "recorded"}]
  /\ \A i \in DOMAIN fmap : fmap[i].fh \in Handles \cup {Null} /\ fmap[i].file \in Files
  /\ Len(fmap) <= MaxMpiFiles

\* Every recorded end of an I/O operation is the end of one that was begun on
\* the same thread and had not ended: no wrapper's matching id is used twice or
\* out of thin air, however operations of files, requests and split collectives
\* overlap. It takes a program that does not switch recording on within a split
\* collective (the id kept with the file is then a stale one); and lockf, which
\* passes its arguments in the wrong order, is left out.
MatchingRight ==
  ~careless => \A t \in team : io[t].last.fn = "lockf" \/ io[t].last.matched

\* What one thread has opened has distinct handles, descriptors and MPI files
\* alike (several threads count on their own).
HandlesDistinct ==
  LET known == {fd \in Fds : os[fd] \notin {"none", "trace"} /\ fd \notin blind
                             /\ \A t \in team : call[t].result # fd} IN
  /\ \A f, g \in known : f # g => table[f].handle # table[g].handle
  /\ \A f \in known : \A i \in DOMAIN fmap : table[f].handle # fmap[i].handle
  /\ \A i, j \in DOMAIN fmap : i # j => fmap[i].handle # fmap[j].handle

\* Every end names the file the operation worked on, and distinct handles tell
\* two openings apart: the tables follow opens, duplicates, closes and the reuse
\* of descriptors and handles, recorded or not. Left out are descriptors of
\* functions that have no wrapper, which keep the file the descriptor had before
\* (closing does not take it out of the table); fgets at the end of a file, which
\* counts as an operation on the standard input; and closes while another thread
\* may already have got the descriptor.
FilesRight ==
  /\ \A t \in team :
       LET r == io[t].last IN
       \/ r.file = r.real \/ r.real = "foreign"
       \/ r.fn = "fgets" /\ r.file = "stdin"
       \/ r.fn = "close" /\ Cardinality(team) > 1
  /\ Cardinality(team) = 1 => HandlesDistinct

\* VampirTrace's own I/O never shows, and I/O tracing is enabled again after the
\* last of nested suspensions.
OwnIoHidden ==
  \A t \in team :
    /\ thr[t].enabled <=> thr[t].suspended = 0
    /\ io[t].last.real # "trace"
==============================================================================
