----------------------------- MODULE MpiRequests -----------------------------
(***************************************************************************)
(* The table of MPI requests of vtlib/vt_mpireq.c (a list of blocks that   *)
(* are never given back; the table ends at "lastreq", and an entry is      *)
(* deleted by copying the last one over it) together with the wrappers of  *)
(* vtlib/vt_mpiwrap.c that use it, and the MPI library below them.         *)
(*                                                                         *)
(* A completion call (MPI_Wait, MPI_Waitall, MPI_Test, ...) saves the      *)
(* request handles, lets MPI overwrite the caller's array, and then looks  *)
(* the saved handles up one by one. MPI calls are made by one thread only: *)
(* MPI_Init_thread rejects MPI_THREAD_SERIALIZED and MPI_THREAD_MULTIPLE.  *)
(* A handle that MPI has released may be the value of a later request.     *)
(***************************************************************************)
EXTENDS Integers, Sequences, FiniteSets

CONSTANTS
  Handles,      \* values of MPI_Request
  BlkSize,      \* VT_REQBLK_SIZE
  MaxEntries,   \* bound on the number of entries
  MaxArray,     \* bound on the requests of one completion call
  MaxOrphans    \* bound on the requests freed while they are active

ASSUME SizesAssumption ==
  /\ BlkSize \in Nat \ {0}
  /\ MaxEntries \in Nat \ {0}
  /\ MaxArray \in Nat
  /\ MaxOrphans \in Nat

Kinds == {"send", "recv", "io"}
NULL  == <<0, 0>>          \* the null pointer to an entry
Index == 0 .. BlkSize - 1
MaxBlocks == (MaxEntries + BlkSize - 1) \div BlkSize

\* A slot holds an entry; slots behind the last entry are Empty (request = 0)
\* or were never written.
Empty == [request |-> 0, kind |-> "send", persistent |-> FALSE, active |-> FALSE,
          deallocate |-> FALSE]

NoBlocks == [b \in 1 .. MaxBlocks |-> [i \in Index |-> Empty]]

VARIABLES
  tab,      \* the table: req, nblk, last_block (0: null), lastidx, lastreq
  mpi,      \* the MPI library: Handles -> None or a request
  saved,    \* orig_req_arr: saved handles that are still to be looked up; "due"
            \* (history) tells whether MPI has completed a tracked transfer
  recording,\* was_recorded of the completion call that is under way, else TRUE
  orphans,  \* history: handles of tracked requests that were freed while they
            \* were active
  missed,   \* history: the record of a message or of a file operation is missing,
            \* or there is one too many
  leaked,   \* history: MPI_Sendrecv_replace recorded a receive although the entry
            \* of the call was not recorded
  phase     \* "running" or "finalized" (vt_request_finalize)

vars == <<tab, mpi, saved, recording, orphans, missed, leaked, phase>>

None == [kind |-> "none", persistent |-> FALSE, active |-> FALSE, tracked |-> FALSE]

------------------------------------------------------------------------------
(* vt_mpireq.c *)

Before(p, q) == p[1] < q[1] \/ (p[1] = q[1] /\ p[2] <= q[2])

\* The entries of the table: every slot up to lastreq.
Used(s) ==
  {p \in (1 .. s.nblk) \X Index : s.lastreq # NULL /\ Before(p, s.lastreq)}

At(s, p) == s.req[p[1]][p[2]]

\* Mutant: the block is full only behind its last slot.
AdvanceLate(s) ==
  LET idx == s.lastidx + 1
      blk == IF s.nblk = 0 \/ s.last_block = 0 THEN 1 ELSE s.last_block + 1
  IN IF idx > BlkSize
     THEN [s EXCEPT !.nblk = IF blk > @ THEN blk ELSE @,
                    !.last_block = blk, !.lastidx = 0, !.lastreq = <<blk, 0>>]
     ELSE [s EXCEPT !.lastidx = idx, !.lastreq = <<@[1], @[2] + 1>>]

\* Makes room behind the last entry: the next slot of the block, the first
\* block, the first block again, a new block, or the next one.
Advance(s) ==
  LET idx == s.lastidx + 1
      blk == IF s.nblk = 0 \/ s.last_block = 0 THEN 1 ELSE s.last_block + 1
  IN IF idx >= BlkSize
     THEN [s EXCEPT !.nblk = IF blk > @ THEN blk ELSE @,
                    !.last_block = blk, !.lastidx = 0, !.lastreq = <<blk, 0>>]
     ELSE [s EXCEPT !.lastidx = idx, !.lastreq = <<@[1], @[2] + 1>>]

Store(s, p, e) == [s EXCEPT !.req[p[1]][p[2]] = e]

\* Mutant: every request is entered as active.
CreateActive(s, h, kind, persistent) ==
  LET a == Advance(s)
  IN Store(a, a.lastreq, [Empty EXCEPT !.request = h, !.kind = kind,
                                       !.persistent = persistent,
                                       !.active = ~persistent])

\* vt_request_create and, for I/O, vt_iorequest_create
vt_request_create(s, h, kind, persistent) ==
  LET a == Advance(s)
  IN Store(a, a.lastreq, [Empty EXCEPT !.request = h, !.kind = kind,
                                       !.persistent = persistent])

\* The first entry with this handle, searched from the head block on.
vt_request_get(s, h) ==
  LET found == {p \in Used(s) : At(s, p).request = h}
  IN IF found = {} THEN NULL
     ELSE CHOOSE p \in found : \A q \in found : Before(p, q)

\* Mutant: the deleted entry is cleared instead of overwritten.
FreeWithoutCopy(s, p) ==
  LET cleared == Store(s, p, Empty)
      prev    == s.last_block - 1
  IN IF s.lastidx - 1 >= 0
     THEN [cleared EXCEPT !.lastidx = @ - 1, !.lastreq = <<@[1], @[2] - 1>>]
     ELSE [cleared EXCEPT !.lastidx = IF prev > 0 THEN BlkSize - 1 ELSE BlkSize,
                          !.lastreq = IF prev > 0 THEN <<prev, BlkSize - 1>> ELSE NULL,
                          !.last_block = prev]

\* Copies the last entry over the deleted one and steps lastreq back.
vt_request_free(s, p) ==
  LET moved == Store(Store(s, p, At(s, s.lastreq)), s.lastreq, Empty)
      prev  == s.last_block - 1
  IN IF s.lastidx - 1 >= 0
     THEN [moved EXCEPT !.lastidx = @ - 1, !.lastreq = <<@[1], @[2] - 1>>]
     ELSE [moved EXCEPT !.lastidx = IF prev > 0 THEN BlkSize - 1 ELSE BlkSize,
                        !.lastreq = IF prev > 0 THEN <<prev, BlkSize - 1>> ELSE NULL,
                        !.last_block = prev]

\* vt_check_request after the lookup: an inactive persistent request is left
\* alone, an active one becomes inactive, any other entry is deleted.
vt_check_request(s, p) ==
  IF p = NULL \/ (At(s, p).persistent /\ ~At(s, p).active) THEN s
  ELSE LET e == At(s, p)
           d == Store(s, p, [e EXCEPT !.active = FALSE])
       IN IF ~e.persistent THEN vt_request_free(s, p)
          ELSE IF e.deallocate THEN vt_request_free(d, p) ELSE d

\* Mutant: the completion of an inactive persistent request is recorded.
WritesInactive(s, p, record_event) ==
  record_event /\ p # NULL /\ At(s, p).kind \in {"recv", "io"}

\* It writes the receive or the I/O end record of the entry.
Writes(s, p, record_event) ==
  /\ record_event
  /\ p # NULL
  /\ At(s, p).persistent => At(s, p).active
  /\ At(s, p).kind \in {"recv", "io"}

------------------------------------------------------------------------------
(* The wrappers. *)

Init ==
  /\ tab = [req |-> NoBlocks,
            nblk |-> 0, last_block |-> 0, lastidx |-> BlkSize, lastreq |-> NULL]
  /\ mpi = [h \in Handles |-> None]
  /\ saved = << >>
  /\ recording = TRUE
  /\ orphans = {}
  /\ missed = FALSE
  /\ leaked = FALSE
  /\ phase = "running"

Idle == phase = "running" /\ saved = << >>

Room == Cardinality(Used(tab)) < MaxEntries

Partners == {"rank", "MPI_PROC_NULL"}
Peer(partner) == partner # "MPI_PROC_NULL"

\* A call writes a record, or not, and one is due, or not; one is too many if
\* the entry into the call was not recorded.
Checked(written, due, was_recorded) ==
  missed' = (missed \/ written # (due /\ was_recorded))

\* Blocking calls: the record of a send is written before the call.
MPI_Send(dest, was_recorded) ==
  /\ Idle
  /\ Checked(Peer(dest) /\ was_recorded, Peer(dest), was_recorded)
  /\ UNCHANGED <<tab, mpi, saved, recording, orphans, leaked, phase>>

MPI_Bsend(dest, was_recorded) == MPI_Send(dest, was_recorded)
MPI_Rsend(dest, was_recorded) == MPI_Send(dest, was_recorded)
MPI_Ssend(dest, was_recorded) == MPI_Send(dest, was_recorded)

MPI_Recv(source, success, was_recorded) ==
  /\ Idle
  /\ Checked(Peer(source) /\ success /\ was_recorded, Peer(source) /\ success, was_recorded)
  /\ UNCHANGED <<tab, mpi, saved, recording, orphans, leaked, phase>>

MPI_Sendrecv(dest, source, success, was_recorded) ==
  \/ MPI_Send(dest, was_recorded)
  \/ MPI_Recv(source, success, was_recorded)

\* The receive is recorded whether the entry was or not. (An entry that is not
\* recorded may have been filtered; or tracing is off, and vt_mpi_recv writes
\* nothing.)
MPI_Sendrecv_replace(dest, source, success, was_recorded) ==
  \/ MPI_Send(dest, was_recorded)
  \/ /\ Idle
     /\ \E is_on \in {TRUE, was_recorded} :
          LET written == Peer(source) /\ success /\ is_on
          IN /\ missed' = (missed \/ (was_recorded /\ written # (Peer(source) /\ success)))
             /\ leaked' = (leaked \/ (written /\ ~was_recorded))
     /\ UNCHANGED <<tab, mpi, saved, recording, orphans, phase>>

\* MPI returns a request. Nothing is tracked of one without a partner, whose
\* kind then does not matter.
Issue(h, kind, persistent, tracked) ==
  /\ Idle /\ mpi[h] = None /\ (tracked => Room)
  /\ mpi' = [mpi EXCEPT ![h] = [kind |-> IF tracked THEN kind ELSE "send",
                                persistent |-> persistent,
                                active |-> ~persistent, tracked |-> tracked]]
  /\ tab' = IF tracked THEN vt_request_create(tab, h, kind, persistent) ELSE tab
  /\ UNCHANGED <<saved, recording, orphans, leaked, phase>>

\* The send is recorded at once, and its request is not tracked.
MPI_Isend(h, dest, was_recorded) ==
  /\ Issue(h, "send", FALSE, FALSE)
  /\ Checked(Peer(dest) /\ was_recorded, Peer(dest), was_recorded)

MPI_Ibsend(h, dest, was_recorded) == MPI_Isend(h, dest, was_recorded)
MPI_Issend(h, dest, was_recorded) == MPI_Isend(h, dest, was_recorded)
MPI_Irsend(h, dest, was_recorded) == MPI_Isend(h, dest, was_recorded)

\* A call that fails leaves everything as it is.
MPI_Irecv(h, source) == Issue(h, "recv", FALSE, Peer(source)) /\ UNCHANGED missed

MPI_Recv_init(h, source) == Issue(h, "recv", TRUE, Peer(source)) /\ UNCHANGED missed
MPI_Send_init(h, dest)   == Issue(h, "send", TRUE, Peer(dest)) /\ UNCHANGED missed
MPI_Bsend_init(h, dest)  == MPI_Send_init(h, dest)
MPI_Ssend_init(h, dest)  == MPI_Send_init(h, dest)
MPI_Rsend_init(h, dest)  == MPI_Send_init(h, dest)

\* MPI_File_iread, MPI_File_iwrite, ...: tracked only if the call is recorded.
FileOp(h, was_recorded) == Issue(h, "io", FALSE, was_recorded) /\ UNCHANGED missed

\* The requests of an array.
CalledWith(hs) == {hs[i] : i \in DOMAIN hs}

\* The entries of persistent requests become active. (No entry changes its
\* handle, so that the order of the array does not matter.)
Activated(s, hs) ==
  LET started == {vt_request_get(s, h) : h \in CalledWith(hs)}
  IN [s EXCEPT !.req = [b \in DOMAIN @ |-> [i \in Index |->
        [s.req[b][i] EXCEPT !.active = @ \/ (<<b, i>> \in started /\ s.req[b][i].persistent)]]]]

\* The send of a persistent request is recorded from its entry.
StartWrites(h, was_recorded) ==
  LET p == vt_request_get(tab, h)
  IN p # NULL /\ At(tab, p).persistent /\ At(tab, p).kind = "send" /\ was_recorded

MPI_Startall(hs, was_recorded) ==
  LET DueSend(h) == mpi[h].kind = "send" /\ mpi[h].tracked /\ was_recorded
  IN /\ Idle
     /\ \A i \in DOMAIN hs : mpi[hs[i]].persistent /\ ~mpi[hs[i]].active
     /\ mpi' = [h \in Handles |->
                  IF h \in CalledWith(hs) THEN [mpi[h] EXCEPT !.active = TRUE] ELSE mpi[h]]
     /\ tab' = Activated(tab, hs)
     /\ missed' = (missed \/ \E i \in DOMAIN hs :
                               /\ hs[i] \notin orphans
                               /\ StartWrites(hs[i], was_recorded) # DueSend(hs[i]))
     /\ UNCHANGED <<saved, recording, orphans, leaked, phase>>

MPI_Start(h, was_recorded) == MPI_Startall(<<h>>, was_recorded)

\* A transfer VampirTrace records at its completion.
Due(r) == r.active /\ r.tracked /\ r.kind \in {"recv", "io"}

\* PMPI completes requests: it releases them, or makes persistent ones inactive.
Completed(hs) ==
  [h \in Handles |-> IF h \notin CalledWith(hs) THEN mpi[h]
                     ELSE IF mpi[h].persistent THEN [mpi[h] EXCEPT !.active = FALSE]
                     ELSE None]

\* The call leaves everything as it is.
Nothing == UNCHANGED <<tab, mpi, saved, recording, orphans, missed, leaked, phase>>

\* A single request is looked up before the call.
MPI_Wait(h, was_recorded) ==
  /\ Idle /\ mpi[h] # None
  /\ mpi' = Completed(<<h>>)
  /\ LET p == vt_request_get(tab, h)
     IN /\ tab' = vt_check_request(tab, p)
        /\ h \notin orphans => Checked(Writes(tab, p, was_recorded), Due(mpi[h]), was_recorded)
        /\ h \in orphans => UNCHANGED missed
  /\ UNCHANGED <<saved, recording, orphans, leaked, phase>>

MPI_Test(h, was_recorded) == mpi[h].active /\ MPI_Wait(h, was_recorded)

\* The handles of an array are saved, and those that have completed are looked
\* up afterwards.
Complete(hs, was_recorded) ==
  /\ hs # << >>
  /\ saved' = [i \in DOMAIN hs |-> [request |-> hs[i], due |-> Due(mpi[hs[i]])]]
  /\ recording' = was_recorded
  /\ mpi' = Completed(hs)
  /\ UNCHANGED <<tab, orphans, missed, leaked, phase>>

\* Requests MPI knows (those that are inactive complete at once), and active ones.
Known(hs)  == Idle /\ \A i \in DOMAIN hs : mpi[hs[i]] # None
Active(hs) == Idle /\ \A i \in DOMAIN hs : mpi[hs[i]].active

MPI_Waitall(hs, was_recorded) == Known(hs) /\ Complete(hs, was_recorded)
MPI_Testall(hs, was_recorded) == Known(hs) /\ Complete(hs, was_recorded)

\* One request of an array completes. (Without an active request the index is
\* MPI_UNDEFINED, and MPI_Waitany reads outside of the array; such a call is left
\* out.)
MPI_Waitany(h, was_recorded) == Active(<<h>>) /\ Complete(<<h>>, was_recorded)
MPI_Testany(h, was_recorded) == Active(<<h>>) /\ Complete(<<h>>, was_recorded)

\* Some requests of an array complete, which MPI lists in any order.
MPI_Waitsome(hs, was_recorded) == Active(hs) /\ Complete(hs, was_recorded)
MPI_Testsome(hs, was_recorded) == Active(hs) /\ Complete(hs, was_recorded)

\* MPI_Test, MPI_Testany, MPI_Testall and MPI_Testsome find nothing complete.
NotYet(h) == Active(<<h>>) /\ Nothing

\* One iteration of the loop over the completed requests.
CheckNext ==
  /\ phase = "running" /\ saved # << >>
  /\ LET s == Head(saved)
         p == vt_request_get(tab, s.request)
     IN /\ tab' = vt_check_request(tab, p)
        /\ s.request \notin orphans => Checked(Writes(tab, p, recording), s.due, recording)
        /\ s.request \in orphans => UNCHANGED missed
  /\ saved' = Tail(saved)
  /\ recording' = (recording \/ Tail(saved) = << >>)
  /\ UNCHANGED <<mpi, orphans, leaked, phase>>

\* Whether MPI manages to cancel is left out: the completion counts as any other.
MPI_Cancel(h) == Active(<<h>>) /\ Nothing

\* The entry of an inactive persistent request is deleted, that of an active
\* one is marked. MPI permits to free an active request, and advises against it.
MPI_Request_free(h) ==
  /\ Idle /\ mpi[h] # None
  /\ mpi' = [mpi EXCEPT ![h] = None]
  /\ IF mpi[h].active /\ mpi[h].tracked
     THEN /\ h \notin orphans /\ Cardinality(orphans) < MaxOrphans
          /\ orphans' = orphans \cup {h}
     ELSE UNCHANGED orphans
  /\ LET p == vt_request_get(tab, h)
         e == At(tab, p)
     IN tab' = IF p = NULL \/ ~e.persistent THEN tab
               ELSE IF e.active THEN Store(tab, p, [e EXCEPT !.deallocate = TRUE])
               ELSE vt_request_free(tab, p)
  /\ UNCHANGED <<saved, recording, missed, leaked, phase>>

\* MPI_Finalize: vt_request_finalize gives the blocks back, and no more.
Finalize ==
  /\ Idle
  /\ phase' = "finalized"
  /\ tab' = [tab EXCEPT !.nblk = 0, !.req = NoBlocks]
  /\ mpi' = [h \in Handles |-> None]
  /\ UNCHANGED <<saved, recording, orphans, missed, leaked>>

\* The requests of one call, in the order of the array (waiting for inactive
\* persistent requests is allowed and returns at once).
Arrays ==
  {hs \in UNION {[1 .. n -> Handles] : n \in 1 .. MaxArray} :
     \A i, j \in DOMAIN hs : hs[i] = hs[j] => i = j}

Blocking(was_recorded) ==
  \/ \E dest \in Partners :
       \/ MPI_Send(dest, was_recorded) \/ MPI_Bsend(dest, was_recorded)
       \/ MPI_Rsend(dest, was_recorded) \/ MPI_Ssend(dest, was_recorded)
  \/ \E source \in Partners, success \in BOOLEAN : MPI_Recv(source, success, was_recorded)
  \/ \E dest, source \in Partners, success \in BOOLEAN :
       \/ MPI_Sendrecv(dest, source, success, was_recorded)
       \/ MPI_Sendrecv_replace(dest, source, success, was_recorded)

Issuing(h, was_recorded) ==
  \/ \E dest \in Partners :
       \/ MPI_Isend(h, dest, was_recorded) \/ MPI_Ibsend(h, dest, was_recorded)
       \/ MPI_Issend(h, dest, was_recorded) \/ MPI_Irsend(h, dest, was_recorded)
  \/ FileOp(h, was_recorded)

\* The calls that need no record themselves.
Preparing(h, partner) ==
  \/ MPI_Irecv(h, partner) \/ MPI_Recv_init(h, partner) \/ MPI_Send_init(h, partner)
  \/ MPI_Bsend_init(h, partner) \/ MPI_Ssend_init(h, partner) \/ MPI_Rsend_init(h, partner)

Completing(hs, was_recorded) ==
  \/ MPI_Waitall(hs, was_recorded) \/ MPI_Testall(hs, was_recorded)
  \/ MPI_Waitsome(hs, was_recorded) \/ MPI_Testsome(hs, was_recorded)

CompletingOne(h, was_recorded) ==
  \/ MPI_Wait(h, was_recorded) \/ MPI_Test(h, was_recorded)
  \/ MPI_Waitany(h, was_recorded) \/ MPI_Testany(h, was_recorded)

\* Bound: blocking calls are made while no request is open; they neither read
\* nor change the table.
Next ==
  \/ \E was_recorded \in BOOLEAN :
       \/ (\A h \in Handles : mpi[h] = None) /\ Blocking(was_recorded)
       \/ \E h \in Handles :
            \/ Issuing(h, was_recorded)
            \/ MPI_Start(h, was_recorded)
            \/ CompletingOne(h, was_recorded)
       \/ \E hs \in Arrays : MPI_Startall(hs, was_recorded) \/ Completing(hs, was_recorded)
  \/ \E h \in Handles :
       \/ \E partner \in Partners : Preparing(h, partner)
       \/ MPI_Request_free(h) \/ MPI_Cancel(h) \/ NotYet(h)
  \/ CheckNext
  \/ Finalize

Spec == Init /\ [][Next]_vars

------------------------------------------------------------------------------
(* Properties. *)

EntryType ==
  [request : Handles \cup {0}, kind : Kinds, persistent : BOOLEAN,
   active : BOOLEAN, deallocate : BOOLEAN]

\* Type invariant of the table and of the MPI library.
TypeOK ==
  /\ tab \in [req : [1 .. MaxBlocks -> [Index -> EntryType]],
              nblk : 0 .. MaxBlocks, last_block : 0 .. MaxBlocks,
              lastidx : 0 .. BlkSize,
              lastreq : ((1 .. MaxBlocks) \X Index) \cup {NULL}]
  /\ mpi \in [Handles -> [kind : Kinds \cup {"none"}, persistent : BOOLEAN,
                          active : BOOLEAN, tracked : BOOLEAN]]
  /\ saved \in Seq([request : Handles, due : BOOLEAN])
  /\ recording \in BOOLEAN
  /\ orphans \subseteq Handles
  /\ missed \in BOOLEAN
  /\ leaked \in BOOLEAN
  /\ phase \in {"running", "finalized"}

\* The three pieces of state that say where the table ends agree, whatever
\* sequence of creations and deletions went before: lastreq is null exactly
\* when there is no last block, and otherwise points at index lastidx of the
\* last block, which is allocated. (The code keeps them in step by hand, in
\* vt_request_create and in vt_request_free.)
EndAgrees ==
  phase = "running" =>
    IF tab.last_block = 0
    THEN tab.lastreq = NULL /\ tab.lastidx = BlkSize
    ELSE /\ tab.last_block <= tab.nblk
         /\ tab.lastidx < BlkSize
         /\ tab.lastreq = <<tab.last_block, tab.lastidx>>

\* The end markers agree, and for every handle whose request was never freed
\* while it was active, the table holds exactly one entry if MPI still knows the
\* request and it is
\* tracked (or a completion call has still to look it up), with the state MPI
\* has it in. Requests that are freed too early, which keep their entries, do no
\* harm to the entries of the others, although deletions move entries around.
TableMatchesMpi ==
  LET Waiting(h) == \E i \in DOMAIN saved : saved[i].request = h
      Of(h)      == {p \in Used(tab) : At(tab, p).request = h}
  IN /\ EndAgrees
     /\ phase = "running" =>
       /\ \A p \in Used(tab) : At(tab, p).request \in Handles
       /\ \A h \in Handles \ orphans :
            /\ ~Waiting(h) /\ ~mpi[h].tracked => Of(h) = {}
            /\ mpi[h].tracked =>
                 \E p \in Used(tab) :
                   /\ Of(h) = {p}
                   /\ At(tab, p).kind = mpi[h].kind
                   /\ At(tab, p).persistent = mpi[h].persistent
                   /\ ~Waiting(h) /\ mpi[h].persistent =>
                        At(tab, p).active = mpi[h].active

\* Exactly one record is written for every message the program sends or
\* receives and for every non-blocking file operation, in the call that has to
\* write it: a receive in the call that completes it, which the wrapper finds
\* out from saved handles and its own flags after MPI has overwritten the
\* requests; a persistent send in the call that starts it, from the entry it
\* finds; and none for a partner MPI_PROC_NULL, although its handle may be the
\* one of an earlier request, nor in a call whose entry was not recorded. The
\* receive of MPI_Sendrecv_replace is recorded in such a call too (vt_mpiwrap.c:1516);
\* this one exception is kept apart ("leaked").
CompletionsRecorded == ~missed

Contents ==
  LET Of(p) == At(tab, p) IN
  {[request |-> Of(p).request, kind |-> Of(p).kind, persistent |-> Of(p).persistent,
    active |-> Of(p).active] : p \in {q \in Used(tab) : Of(q).request \notin orphans}}

Table == INSTANCE RequestTable WITH tracked <- Contents, open <- phase = "running",
                                    lost <- orphans

\* The list of blocks implements the plain table: the refinement mapping
\* collects the entries up to lastreq, but for those of handles that were freed
\* too early, and every wrapper call changes them by one step of the table or
\* not at all.
ImplementsTable == Table!Spec
==============================================================================
