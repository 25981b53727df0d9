------------------------------ MODULE IoRecords ------------------------------
(***************************************************************************)
(* What the wrappers of the I/O functions (module IoWrap) and those of the *)
(* MPI-IO functions (module MpiFile) share: per thread the counters of     *)
(* matching ids and handles, whether I/O tracing is enabled or suspended,  *)
(* and the records of the beginnings and ends of I/O operations.           *)
(***************************************************************************)
EXTENDS Integers, Sequences, FiniteSets

CONSTANTS
  Threads,  \* threads that may do I/O
  Main,     \* the one that does MPI-IO
  Files,    \* paths the program opens
  Programs  \* programs to look at: the threads (team) they have, and bounds on
            \* their calls of I/O functions (calls), whether they use
            \* MPI-IO (mpi), bounds on the nesting of suspensions
            \* (suspensions) and on how often they switch recording (switches)

\* The files that are no path: the standard input, the dummy files of
\* vt_iowrap_init, the files of VampirTrace itself, what the program opened with
\* a function that has no wrapper, and no file at all.
Special == {"stdin", "unknown", "invalid", "all", "trace", "foreign", "none"}
AnyFile == Files \cup Special

ASSUME IoAssumption ==
  /\ IsFiniteSet(Threads) /\ IsFiniteSet(Files) /\ Files \cap Special = {}
  /\ \A p \in Programs :
       /\ p.team \subseteq Threads /\ Main \in p.team
       /\ p.calls \in Nat /\ p.mpi \in BOOLEAN /\ p.suspensions \in Nat /\ p.switches \in Nat

VARIABLES
  program,  \* the one that runs
  thr,      \* per thread: [on, enabled, state, suspended, nextMid, nextHandle]
  io,       \* per thread's stream: the operations begun and not ended (open),
            \* and the last record, if it is an end (last)
  made,     \* calls made so far
  switches  \* how often recording was switched so far

recVars == <<program, thr, io, made, switches>>

team == program.team

\* VTThrd_open: the first matching id and handle are 1.
VTThrd_open(handle) ==
  [on |-> TRUE, enabled |-> TRUE, state |-> FALSE, suspended |-> 0,
   nextMid |-> 1, nextHandle |-> handle]

NoEnd == [mid |-> 0, file |-> "none", handle |-> 0, fn |-> "none", real |-> "none",
          matched |-> TRUE]

InitRecords(handle) ==
  /\ program \in Programs
  /\ thr = [t \in team |-> VTThrd_open(IF t = Main THEN handle ELSE 1)]
  /\ io = [t \in team |-> [open |-> {}, last |-> NoEnd]]
  /\ made = 0 /\ switches = 0

\* vt_enter's result: nothing is recorded while recording is off or the region
\* is filtered.
Outcomes(th) == {FALSE, th.on}

\* vt_iobegin and vt_ioend write nothing while recording is off. "fn", "real"
\* (the file truly worked on) and "matched" (the operation was under way) are
\* history. The id lockf passes may be another operation's (see LeaveLockf): its
\* end is not counted as that one's.
vt_iobegin(s, th, mid) ==
  IF th.on THEN [open |-> s.open \cup {mid}, last |-> NoEnd] ELSE s

vt_ioend(s, th, file, mid, handle, fn, real) ==
  IF th.on
  THEN [open |-> IF fn = "lockf" THEN s.open ELSE s.open \ {mid},
        last |-> [mid |-> mid, file |-> file, handle |-> handle, fn |-> fn,
                  real |-> real, matched |-> mid \in s.open]]
  ELSE s

\* Mutant: the counter is not advanced.
NextMidStuck(th) == th

NextMid(th) == [th EXCEPT !.nextMid = @ + 1]
NextHandle(th) == [th EXCEPT !.nextHandle = @ + 1]

\* The enter record and, if it is written, the begin of the operation.
Enter(t, recorded) ==
  /\ made < program.calls /\ made' = made + 1
  /\ IF recorded
     THEN /\ io' = [io EXCEPT ![t] = vt_iobegin(@, thr[t], thr[t].nextMid)]
          /\ thr' = [thr EXCEPT ![t] = NextMid(@)]
     ELSE UNCHANGED <<io, thr>>

\* Mutant: every suspension saves the state, nested ones included.
SuspendNested(th) ==
  [th EXCEPT !.state = th.enabled, !.suspended = @ + 1, !.enabled = FALSE]

\* VT_SUSPEND_IO_TRACING: the outermost suspension saves the state.
Suspended(th) ==
  [th EXCEPT !.state = IF th.enabled THEN TRUE ELSE @,
             !.suspended = @ + 1, !.enabled = FALSE]

\* VT_RESUME_IO_TRACING
Resumed(th) ==
  [th EXCEPT !.suspended = @ - 1,
             !.enabled = IF th.suspended = 1 THEN th.state ELSE @]

\* VampirTrace begins and ends work of its own (a flush, a synchronisation, a
\* fork), at any time and nested.
Suspend(t) ==
  /\ thr[t].suspended < program.suspensions
  /\ thr' = [thr EXCEPT ![t] = Suspended(@)]
  /\ UNCHANGED <<program, io, made, switches>>

Resume(t) ==
  /\ thr[t].suspended > 0
  /\ thr' = [thr EXCEPT ![t] = Resumed(@)]
  /\ UNCHANGED <<program, io, made, switches>>

\* VT_OFF and VT_ON of the program, or the last flush that is allowed.
Switch(t) ==
  /\ switches < program.switches /\ switches' = switches + 1
  /\ thr' = [thr EXCEPT ![t].on = ~@]
  /\ UNCHANGED <<program, io, made>>
==============================================================================
