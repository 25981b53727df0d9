------------------------------- MODULE MpiFile -------------------------------
(***************************************************************************)
(* The wrappers of the MPI-IO functions (vtlib/vt_mpiwrap.c) and the table *)
(* of open MPI files they keep (vtlib/vt_mpifile.c). MPI-IO itself is      *)
(* external: the files its handles refer to, and which of its operations   *)
(* fail. A rank calls it from one thread, so that a call is one step; it   *)
(* is correct in that it uses open files only, completes what it has begun *)
(* before it closes a file, and begins one split collective at a time.     *)
(***************************************************************************)
EXTENDS IoRecords

CONSTANTS
  Handles,      \* values of MPI_File
  MaxMpiFiles   \* nmaxfiles, the size of mpifh_fid_map

Null == "MPI_FILE_NULL"

ASSUME HandlesAssumption == Null \notin Handles /\ MaxMpiFiles \in Nat

VARIABLES
  mpi,       \* external: the file each handle refers to
  fmap,      \* mpifh_fid_map[0 .. nfiles-1]
  begun,     \* external: the split collective under way on each handle
  requests,  \* the requests of vt_iorequest_create
  careless,  \* history: a split collective was begun and ended with
             \* different settings of recording
  aborted    \* vt_error_msg has ended the program

mpiVars == <<mpi, fmap, begun, requests, careless, aborted>>

vt_mpifile_init ==
  /\ mpi = [h \in Handles |-> "none"]
  /\ fmap = << >>
  /\ begun = [h \in Handles |-> "no"]
  /\ requests = {}
  /\ careless = FALSE /\ aborted = FALSE

------------------------------------------------------------------------------
(* The table. *)

Entries(h) == {i \in DOMAIN fmap : fmap[i].fh = h}
Position(h) == CHOOSE i \in Entries(h) : \A j \in Entries(h) : i <= j

\* vt_mpifile_get_data: the first entry of the handle
vt_mpifile_get_data(h) == fmap[Position(h)]

\* Mutant: the size of the table is not checked.
CreateUnchecked(h, file) ==
  /\ fmap' = Append(fmap, [fh |-> h, file |-> file, split |-> 0,
                           handle |-> thr[Main].nextHandle])
  /\ UNCHANGED aborted

\* vt_mpifile_create and store_id; the table may be full.
vt_mpifile_create(h, file) ==
  IF Len(fmap) >= MaxMpiFiles
  THEN aborted' = TRUE /\ UNCHANGED fmap
  ELSE /\ fmap' = Append(fmap, [fh |-> h, file |-> file, split |-> 0,
                                handle |-> thr[Main].nextHandle])
       /\ UNCHANGED aborted

\* vt_mpifile_free: the last entry takes the place of the one removed.
vt_mpifile_free(h) ==
  LET n == Len(fmap)
  IN [i \in 1 .. n - 1 |-> IF i = Position(h) THEN fmap[n] ELSE fmap[i]]

------------------------------------------------------------------------------
(* The wrappers. *)

OpenFiles == {h \in Handles : mpi[h] # "none"}

\* The begin and end records of a call that is complete when it returns.
Records(s, th, mid, file, handle, fn, real) ==
  vt_ioend(vt_iobegin(s, th, mid), th, file, mid, handle, fn, real)

CallMpi ==
  /\ program.mpi /\ ~aborted
  /\ made < program.calls /\ made' = made + 1
  /\ UNCHANGED <<program, switches>>
Recorded == Outcomes(thr[Main])

\* MPIIO_ENTER_IO_W_MATCHINGID and MPIIO_LEAVE_IO_W_MATCHINGID (or the one that
\* needs the status): an operation on an open file that returns when it is done.
Complete(h, fn, recorded) ==
  LET th == thr[Main]
      d == vt_mpifile_get_data(h) IN
  IF recorded
  THEN /\ io' = [io EXCEPT ![Main] =
                   Records(@, th, th.nextMid, d.file, d.handle, fn, mpi[h])]
       /\ thr' = [thr EXCEPT ![Main] = NextMid(@)]
  ELSE UNCHANGED <<io, thr>>

\* A failed open leaves the null handle behind. The entry is made whether or
\* not the call is recorded, and for a failed open, too.
MPI_File_open ==
  LET th == thr[Main] IN
  /\ CallMpi
  /\ \E file \in Files, recorded \in Recorded,
        h \in {Null} \cup {x \in Handles : mpi[x] = "none"} :
       /\ vt_mpifile_create(h, file)
       /\ mpi' = IF h = Null THEN mpi ELSE [mpi EXCEPT ![h] = file]
       /\ io' = IF recorded /\ ~aborted'
                THEN [io EXCEPT ![Main] =
                        Records(@, th, th.nextMid, file, th.nextHandle, "mpi_open", file)]
                ELSE io
       /\ thr' = [thr EXCEPT ![Main] =
                    IF recorded THEN NextMid(NextHandle(@)) ELSE NextHandle(@)]
  /\ UNCHANGED <<begun, requests, careless>>

\* The data is looked up under a copy of the handle, and the entry freed.
MPI_File_close ==
  /\ CallMpi
  /\ \E h \in OpenFiles, recorded \in Recorded :
       /\ begun[h] = "no" /\ \A q \in requests : q.on # h
       /\ Complete(h, "mpi_close", recorded)
       /\ mpi' = [mpi EXCEPT ![h] = "none"]
       /\ fmap' = vt_mpifile_free(h)
  /\ UNCHANGED <<begun, requests, careless, aborted>>

\* The file is known by its name only.
MPI_File_delete ==
  LET th == thr[Main] IN
  /\ CallMpi
  /\ \E file \in Files, recorded \in Recorded :
       IF recorded
       THEN /\ io' = [io EXCEPT ![Main] =
                        Records(@, th, th.nextMid, file, 0, "mpi_delete", file)]
            /\ thr' = [thr EXCEPT ![Main] = NextMid(@)]
       ELSE UNCHANGED <<io, thr>>
  /\ UNCHANGED mpiVars

Blocking ==
  /\ CallMpi
  /\ \E h \in OpenFiles, recorded \in Recorded : Complete(h, "mpi_read", recorded)
  /\ UNCHANGED mpiVars

\* MPI_File_sync and _preallocate
MPI_File_sync == Blocking

\* MPI_File_read, _read_all, _seek, _write and _write_all
MPI_File_read == Blocking

\* MPI_File_read_at, _read_at_all, _write_at and _write_at_all
MPI_File_read_at == Blocking

\* MPI_File_read_ordered, _read_shared, _seek_shared, _write_ordered, _write_shared
MPI_File_read_shared == Blocking

\* The functions that return a request: MPIIO_LEAVE_IO_W_REQ. A call that fails
\* ends its operation itself; one that does not is what vt_iorequest_create keeps.
Nonblocking ==
  LET th == thr[Main] IN
  /\ CallMpi
  /\ \E h \in OpenFiles, recorded \in Recorded, ok \in BOOLEAN :
       LET d == vt_mpifile_get_data(h) IN
       IF ~recorded THEN UNCHANGED <<io, thr, requests>>
       ELSE /\ thr' = [thr EXCEPT ![Main] = NextMid(@)]
            /\ IF ok
               THEN /\ io' = [io EXCEPT ![Main] = vt_iobegin(@, th, th.nextMid)]
                    /\ requests' = requests \cup
                         {[on |-> h, mid |-> th.nextMid, file |-> d.file,
                           handle |-> d.handle, real |-> mpi[h]]}
               ELSE /\ io' = [io EXCEPT ![Main] =
                                Records(@, th, th.nextMid, d.file, d.handle, "mpi_iread", mpi[h])]
                    /\ UNCHANGED requests
  /\ UNCHANGED <<mpi, fmap, begun, careless, aborted>>

\* MPI_File_iread and _iwrite, _iread_at and _iwrite_at, _iread_shared and
\* _iwrite_shared
MPI_File_iread == Nonblocking
MPI_File_iread_at == Nonblocking
MPI_File_iread_shared == Nonblocking

\* A request completes in MPI_Wait or one of its kind: vt_check_request ends
\* the operation with what the request knows, and forgets it.
MPI_Wait ==
  LET th == thr[Main] IN
  /\ CallMpi
  /\ \E q \in requests, recorded \in Recorded :
       /\ io' = IF recorded
                THEN [io EXCEPT ![Main] =
                        vt_ioend(@, th, q.file, q.mid, q.handle, "mpi_wait", q.real)]
                ELSE io
       /\ requests' = requests \ {q}
  /\ UNCHANGED <<mpi, fmap, begun, careless, aborted, thr>>

\* MPIIO_ENTER_IO_SPLITCOLL: the matching id is kept with the file until the
\* split collective ends. One that fails has no end.
SplitBegin ==
  LET th == thr[Main] IN
  /\ CallMpi
  /\ \E h \in OpenFiles, recorded \in Recorded, ok \in BOOLEAN :
       /\ begun[h] = "no"
       /\ IF recorded
          THEN /\ io' = [io EXCEPT ![Main] = vt_iobegin(@, th, th.nextMid)]
               /\ thr' = [thr EXCEPT ![Main] = NextMid(@)]
               /\ fmap' = [fmap EXCEPT ![Position(h)].split = th.nextMid]
          ELSE UNCHANGED <<io, thr, fmap>>
       /\ begun' = [begun EXCEPT ![h] =
                      IF ~ok THEN "no" ELSE IF recorded THEN "recorded" ELSE "yes"]
  /\ UNCHANGED <<mpi, requests, careless, aborted>>

\* MPIIO_LEAVE_IO_SPLITCOLL
SplitEnd ==
  LET th == thr[Main] IN
  /\ CallMpi
  /\ \E h \in OpenFiles, recorded \in Recorded :
       LET d == vt_mpifile_get_data(h) IN
       /\ begun[h] # "no"
       /\ io' = IF recorded
                THEN [io EXCEPT ![Main] =
                        vt_ioend(@, th, d.file, d.split, d.handle, "mpi_end", mpi[h])]
                ELSE io
       /\ careless' = (careless \/ (recorded /\ begun[h] = "yes"))
       /\ begun' = [begun EXCEPT ![h] = "no"]
  /\ UNCHANGED <<mpi, fmap, requests, aborted, thr>>

\* MPI_File_read_all_begin, _read_at_all_begin, _read_ordered_begin and their
\* ends; and those of _write_all_begin, ...
ReadSplit == SplitBegin \/ SplitEnd
WriteSplit == SplitBegin \/ SplitEnd

MpiNext ==
  \/ MPI_File_open
  \/ MPI_File_close
  \/ MPI_File_delete
  \/ MPI_File_sync
  \/ MPI_File_read
  \/ MPI_File_read_at
  \/ MPI_File_read_shared
  \/ MPI_File_iread
  \/ MPI_File_iread_at
  \/ MPI_File_iread_shared
  \/ MPI_Wait
  \/ ReadSplit
  \/ WriteSplit
==============================================================================
