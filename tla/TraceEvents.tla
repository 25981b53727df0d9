----------------------------- MODULE TraceEvents -----------------------------
(***************************************************************************)
(* Everything besides function entries and exits that a thread records:    *)
(* the handlers of vtlib/vt_trc.c for files, counters, comments, markers,  *)
(* messages, collective and one-sided operations and definitions, with the *)
(* records vtlib/vt_otf_gen.c writes for them, and the three places that   *)
(* enter and leave a region of their own within a handler: the dump of the *)
(* statistics (vt_otf_sum.c), the synchronised flush after a collective    *)
(* operation and the memory hooks (vt_memhook.c). The call stack, the      *)
(* buffer and the control calls are those of TraceThread.                  *)
(*                                                                         *)
(* Left out: vt_ioexit and vt_mpi_collexit, which nothing calls, and the   *)
(* dump with statistics of functions (VT_STAT_PROPS=FUNC with an interval): *)
(* there VTSum_dump enters a region, which is due for a dump itself, and   *)
(* never returns.                                                          *)
(***************************************************************************)
EXTENDS TraceThread

CONSTANTS
  RecordLen,      \* length of the records of each kind
  MaxStatistics   \* bound on the statistics one dump writes

\* The entries of the buffer besides ENTER, LEAVE and those of TraceThread.
DefKinds ==
  {"DefinitionComment", "DefSclFile", "DefScl", "DefFileGroup", "DefFile",
   "DefFunctionGroup", "DefFunction", "DefCollectiveOperation", "DefCounterGroup",
   "DefCounter", "DefProcessGroup", "DefMarker"}
MessageKinds == {"SendMsg", "RecvMsg"}
FileKinds == {"BeginFileOperation", "EndFileOperation"}
RMAKinds == {"RMAPut", "RMAPutRE", "RMAGet", "RMAEnd"}
TextKinds == {"Counter", "Comment", "Marker"}
EventKinds == MessageKinds \cup FileKinds \cup RMAKinds \cup TextKinds \cup
              {"BeginCollectiveOperation", "EndCollectiveOperation"}
SummaryKinds == {"MessageSummary", "CollectiveOperationSummary"}

Kinds == DefKinds \cup EventKinds \cup SummaryKinds

ASSUME RecordAssumption ==
  /\ RecordLen \in [Kinds -> Nat]
  /\ \A kind \in Kinds : RecordLen[kind] \in 1 .. Size
  /\ \A kind \in DefKinds : RecordLen[kind] = DefLen
  /\ MaxStatistics \in Nat

\* To the buffer, records of the same length are the same.
Lengths(kinds) == {RecordLen[kind] : kind \in kinds}

\* Each handler is a sequence of steps, the calls it makes in their order:
\*   "time"     a time stamp is taken          "record"   a record of this length
\*   "def"      a definition record            "ifOn"     a record, if tracing is on
\*   "enter", "exit"          vt_enter, vt_exit
\*   "enterStat", "exitStat"  vt_enter_stat, vt_exit_stat
\*   "flush"    vt_buffer_flush
Time == [op |-> "time"]
Def == [op |-> "def"]
Record(len) == [op |-> "record", len |-> len]
RecordIfOn(kind) == [op |-> "ifOn", len |-> RecordLen[kind]]

VARIABLE user     \* vt_enter_user_called: MPI_Init came before any other event

allVars == <<vars, user>>

------------------------------------------------------------------------------
(* What a step does. *)

\* Any of the VTGen_write_* of events and summaries.
WriteRecord(s, len, k) ==
  LET f == IF Full(s, len) THEN Flush(s, TRUE, k) ELSE s
  IN IF Full(s, len) /\ f.flushcntr = 0 THEN f ELSE AppendEvent(f, len)

vt_enter_stat(s, k) == IF s.status = "ON" THEN UpdateCounter(WriteEnter(s, STAT, k), k) ELSE s
vt_exit_stat(s, k) == IF s.status = "ON" THEN WriteLeave(UpdateCounter(s, k), k) ELSE s

Step(s, step, k) ==
  CASE step.op = "time" -> WithTime(s)
    [] step.op = "def" -> WriteDef(s, k)
    [] step.op = "record" \/ (step.op = "ifOn" /\ s.status = "ON") -> WriteRecord(s, step.len, k)
    [] step.op = "enter" -> vt_enter(s, step.rid, k)
    [] step.op = "exit" -> vt_exit(s, k)
    [] step.op = "enterStat" -> vt_enter_stat(s, k)
    [] step.op = "exitStat" -> vt_exit_stat(s, k)
    [] step.op = "flush" -> Flush(s, FALSE, k)
    [] OTHER -> s

RunSteps(s, steps, k) ==
  LET F[i \in 0 .. Len(steps)] == IF i = 0 THEN s ELSE Step(F[i - 1], steps[i], k)
  IN F[Len(steps)]

------------------------------------------------------------------------------
(* The handlers, as the sets of step sequences they may take when tracing is
   on. The lengths of its records are all that the buffer sees of a kind. *)

\* The statistics, if any are written, whatever the tracing status is by then.
VTGen_write_SUMMARY(kind, n) == [i \in 1 .. n |-> Record(RecordLen[kind])]

\* The dump works on times of its own.
VTSum_dump(kind, n) ==
  <<Time, [op |-> "enterStat"]>> \o VTGen_write_SUMMARY(kind, n) \o <<Time, [op |-> "exitStat"]>>

\* VT_CHECK_DUMP: nothing until the interval is over.
CheckDump(kind) == {<< >>} \cup {VTSum_dump(kind, n) : n \in 0 .. MaxStatistics}

\* vt_iobegin, vt_ioend
VTGen_write_FILE_OPERATION == {<<Time, Record(len)>> : len \in Lengths(FileKinds)}

\* vt_marker_error, vt_marker_warning: the first thread to use the marker
\* defines it.
StandardMarker ==
  {<<Time>> \o first \o <<Record(RecordLen["Marker"])>> : first \in {<< >>, <<Def>>}}

\* vt_mpi_send, vt_mpi_recv
Message ==
  UNION {{<<Time, Record(len)>> \o dump : dump \in CheckDump("MessageSummary")} :
            len \in Lengths(MessageKinds)}

CollBegin ==
  {<<Time, Record(RecordLen["BeginCollectiveOperation"])>> \o dump :
      dump \in CheckDump("CollectiveOperationSummary")}

VTGen_write_END_COLLECTIVE_OPERATION == <<Record(RecordLen["EndCollectiveOperation"])>>

\* vt_mpi_rma_put, vt_mpi_rma_putre, vt_mpi_rma_get, vt_mpi_rma_end
VTGen_write_RMA == {<<Time, Record(len)>> : len \in Lengths(RMAKinds)}

\* The user's counters, comments and markers
VT_User_count == <<Time, Record(RecordLen["Counter"])>>
VT_User_comment == <<Time, Record(RecordLen["Comment"])>>
VT_User_marker == <<Time, Record(RecordLen["Marker"])>>

OnHandlers ==
  VTGen_write_FILE_OPERATION \cup StandardMarker \cup Message \cup CollBegin \cup
  VTGen_write_RMA \cup {VT_User_count, VT_User_comment, VT_User_marker}

(* These do something whatever the tracing status is. *)

\* The synchronisation after a collective operation: none (not asked for, or not
\* all ranks take part), or one in which some rank's buffer is filled to
\* VT_SYNC_FLUSH_LEVEL, or in which none is. The region that vt_esync enters
\* within it, and its comments, are left out.
vt_mpi_sync ==
  {<< >>} \cup
  {<<[op |-> "enter", rid |-> SYNC]>> \o flush \o <<Time, [op |-> "exit"]>> :
      flush \in {<< >>, <<[op |-> "flush"]>>}}

\* vt_mpi_collend
CollEnd ==
  {<<Time>> \o (IF t.status = "ON" THEN VTGen_write_END_COLLECTIVE_OPERATION ELSE << >>) \o sync :
      sync \in vt_mpi_sync}

\* The malloc, realloc and free hooks. The size of the allocated memory changes
\* or not; VT_MEMTRACE_MARKER is set or not.
MemoryHook ==
  LET recorded == t.status = "ON" /\ Len(t.stack) + 1 <= MaxStackDepth
      amount   == {<<RecordIfOn("Counter")>>, <<RecordIfOn("Marker"), RecordIfOn("Counter")>>}
  IN {<<Time, [op |-> "enter", rid |-> MALLOC], Time>> \o count \o <<[op |-> "exit"]>> :
         count \in {<< >>} \cup (IF recorded THEN amount ELSE {})}

\* Definitions are written in any status: those of the source files and lines,
\* of counters, markers and communicators, and the user's own. A name that is
\* known already is not written again, a counter may bring its group along.
SourceDefinition == {<< >>, <<Def>>}
ObjectDefinition == {<<Def>>}
VT_User_count_def == {<<Def>>, <<Def, Def>>}
VT_User_marker_def == <<Def>>
VT_User_comment_def == <<Def>>

\* Once no flush is allowed any more definitions grow without limit: the bound
\* of the exploration.
Definition ==
  IF t.pos <= BufferSize
  THEN SourceDefinition \cup ObjectDefinition \cup VT_User_count_def
       \cup {VT_User_marker_def, VT_User_comment_def}
  ELSE {}

AnyHandlers ==
  CollEnd \cup Definition \cup (IF BelowMaxLevel THEN MemoryHook ELSE {})

Handlers == AnyHandlers \cup (IF t.status = "ON" THEN OnHandlers ELSE {})

Handler(steps, k) ==
  /\ phase = "alive"
  /\ t' = RunSteps(t, steps, k)
  /\ UNCHANGED <<frames, offAt, markAt, defined, phase, safe, user>>

\* MPI_Init as the first event of the process enters the function 'user'
\* around the rest of the program, MPI_Finalize leaves it.
EnterUser(k) ==
  /\ phase = "alive"
  /\ ~user /\ frames = 0 /\ defined = {}
  /\ t.stack = << >> /\ t.pos = 0 /\ ~HasMark(t) /\ t.flushcntr = FlushLimit
  /\ user' = TRUE
  /\ t' = vt_enter(WithTime(t), USER, k)
  /\ frames' = 1
  /\ UNCHANGED <<offAt, markAt, defined, phase, safe>>

\* Unless tracing is on, vt_exit_user leaves the region on the call stack.
ExitUser(k) ==
  /\ phase = "alive"
  /\ user /\ t.status = "ON"
  /\ frames > 0
  /\ safe => frames = 1
  /\ user' = FALSE
  /\ t' = vt_exit(WithTime(t), k)
  /\ frames' = frames - 1
  /\ markAt' = IF markAt = frames THEN -1 ELSE markAt
  /\ UNCHANGED <<offAt, defined, phase, safe>>

------------------------------------------------------------------------------
(* The specification. *)

InitEvents == Init /\ user = FALSE

\* The functions of the program are entered and left within 'user'.
Program ==
  /\ Next
  /\ user => frames' >= 1
  /\ UNCHANGED user

NextEvents ==
  \/ Program
  \/ \E k \in 0 .. NumCounters :
        \/ \E steps \in Handlers : Handler(steps, k)
        \/ EnterUser(k)
        \/ ExitUser(k)

SpecEvents == InitEvents /\ [][NextEvents]_allVars
==============================================================================
