----------------------------- MODULE TraceThread -----------------------------
(***************************************************************************)
(* How one thread records its events: the call stack and the tracing       *)
(* status kept by vtlib/vt_trc.c, the call limits of rfg/rfg_regions.c and *)
(* the trace buffer of vtlib/vt_otf_gen.c, driven by the instrumented      *)
(* program (function entries and exits, and the user's VT_ON, VT_OFF,      *)
(* VT_BUFFER_FLUSH, VT_SET_REWIND_MARK and VT_REWIND calls).               *)
(*                                                                         *)
(* The calls nest: writing an ENTER may flush the buffer, the flush may be *)
(* the last one allowed, and then switches tracing off, which itself       *)
(* enters a region and writes records. Each function is therefore an       *)
(* operator from a thread record to a thread record, and an action applies *)
(* the whole chain at once: a thread runs its own handlers sequentially.   *)
(*                                                                         *)
(* A record in the buffer is abstracted to its length and to its effect on *)
(* the stack of regions that are open in the recorded stream ("open"); its *)
(* time stamp to whether it is older than the record before it.            *)
(*                                                                         *)
(* The model records events (VT_MODE=TRACE; the summaries of VT_MODE=STAT  *)
(* are another component) on a rank that is not disabled: a disabled rank  *)
(* never records, and its flush only empties the buffer.                   *)
(***************************************************************************)
EXTENDS Integers, Sequences

CONSTANTS
  Regions,        \* region ids of the program's functions
  CallLimit,      \* [Regions -> Int], RFG_RegionInfo.callLimit: -1 means
                  \* unlimited, 0 never record, n > 0 record n - 1 calls
  MaxStackDepth,  \* VT_MAX_STACK_DEPTH
  BufferSize,     \* bytes given to VTGen_open
  EnterLeaveLen,  \* length of an ENTER or a LEAVE record
  EventLen,       \* length of a COUNTER or MARKER record
  DefLen,         \* length of a definition record
  FlushLimit,     \* initial flush counter: VT_MAX_FLUSHES, or 2^32 - 1 for 0
  NumCounters,    \* largest number of metric, rusage and cpu id counters
  NumPlugin,      \* number of synchronous plugin counters
  MaxFrames,      \* bound on the program's nesting of instrumented functions
  MaxLevel        \* bound on the call stack and on the open regions, which
                  \* repeated VT_OFF calls would let grow for ever

OFF    == "TRC_OFF"       \* vt_trc_regid[VT__TRC_OFF]
FLUSH  == "TRC_FLUSH"     \* vt_trc_regid[VT__TRC_FLUSH]
REWIND == "TRC_REWIND"    \* vt_trc_regid[VT__TRC_REWIND]
SYNC   == "TRC_SYNC"      \* vt_trc_regid[VT__TRC_SYNC]
STAT   == "TRC_STAT"      \* vt_trc_regid[VT__TRC_STAT]
USER   == "TRC_USER"      \* vt_trc_regid[VT__TRC_USER]
MALLOC == "MALLOC"        \* memhook_regid[]

\* Usable bytes: the rest is kept for the two records of the flush itself.
Size == BufferSize - 2 * EnterLeaveLen

ASSUME RegionsAssumption ==
  /\ {OFF, FLUSH, REWIND, SYNC, STAT, USER, MALLOC} \cap Regions = {}
  /\ CallLimit \in [Regions -> Nat \cup {-1}]
ASSUME LengthsAssumption ==
  /\ BufferSize \in Nat
  /\ {EnterLeaveLen, EventLen, DefLen} \subseteq 1 .. Size
ASSUME LimitsAssumption ==
  /\ MaxStackDepth \in Nat
  /\ FlushLimit \in Nat \ {0}
  /\ NumCounters \in 0 .. 2
  /\ NumPlugin \in 0 .. 2
  /\ MaxFrames \in Nat
  /\ MaxLevel \in Nat

VARIABLES
  t,        \* the thread's record (VTThrd, VTGen and RFG_Regions)
  frames,   \* how many instrumented functions the program is in
  offAt,    \* frames when recording was last stopped by VT_OFF
  markAt,   \* frames when the rewind mark was set, -1 once that frame is left
  defined,  \* regions registered with vt_def_region
  phase,    \* "alive", "closed" (vt_close) or "aborted" (vt_error_msg)
  safe      \* the program calls VT_OFF and VT_ON (and a rewind mark and
            \* VT_REWIND) in the same function and switches off only what is
            \* on, the usage the manual calls safe; chosen once

vars == <<t, frames, offAt, markAt, defined, phase, safe>>

\* The bound on the exploration.
BelowMaxLevel == Len(t.stack) < MaxLevel /\ Len(t.open) < MaxLevel

RegionIds == Regions \cup {OFF, FLUSH, REWIND, SYNC, STAT, USER, MALLOC}

------------------------------------------------------------------------------
(* Appending a record to the buffer. *)

HasMark(s) == s.markPos # -1

\* Mutant: the space reserved for the flush is not subtracted.
FullWithoutReserve(s, len) == s.pos > BufferSize - len

\* VTGEN_ALLOC_*: too little space is left for another record of this length.
Full(s, len) == s.pos > Size - len

\* A definition record; the rewind keeps it.
AppendDef(s) ==
  [s EXCEPT !.pos = @ + DefLen,
            !.markDefs = IF HasMark(s) THEN @ + DefLen ELSE @]

\* An event record with the time stamp of the caller's variable.
AppendEvent(s, len) ==
  [s EXCEPT !.pos = @ + len,
            !.overflow = @ \/ s.pos + len > BufferSize,
            !.backwards = @ \/ s.stale]

AppendEnter(s, rid) ==
  [AppendEvent(s, EnterLeaveLen) EXCEPT !.open = Append(@, rid)]

\* A LEAVE closes whatever region is open last; it carries no region id.
AppendLeave(s) ==
  LET n == Len(s.open) IN
  [AppendEvent(s, EnterLeaveLen) EXCEPT
      !.open = IF n = 0 THEN @ ELSE SubSeq(@, 1, n - 1),
      !.orphan = @ \/ n = 0]

------------------------------------------------------------------------------
(* Entering the "tracing off" region and switching tracing off for good, as
   the flush does when it was the last one allowed. The flush counter is 0:
   a record that finds no space is dropped, nothing flushes again. *)

StackPush(s, rid, decr) ==
  LET limit == IF rid \in Regions
               THEN IF decr /\ s.cd[rid] > 0 THEN s.cd[rid] - 1 ELSE s.cd[rid]
               ELSE -1
  IN [s EXCEPT !.stack = Append(@, [rid |-> rid, climit |-> limit]),
               !.cd = IF rid \in Regions THEN [@ EXCEPT ![rid] = limit] ELSE @]

CountIfRoom(written, s) ==
  IF written /\ ~Full(s, EventLen) THEN AppendEvent(s, EventLen) ELSE s

LastCounters(s, k) ==
  CountIfRoom(NumPlugin >= 2, CountIfRoom(NumPlugin >= 1,
    CountIfRoom(k >= 2, CountIfRoom(k >= 1, s))))

\* vt_trace_off(tid, 1, 1) and the comment on the incomplete trace, called
\* with an empty buffer. Its records carry a fresh time: the caller's is stale
\* afterwards.
SwitchOffForGood(s, k) ==
  LET fresh   == [s EXCEPT !.stale = FALSE]
      pushed  == StackPush(fresh, OFF, TRUE)
      record  == s.status = "ON" /\ Len(pushed.stack) <= MaxStackDepth
      entered == IF record
                 THEN [LastCounters(AppendEnter(pushed, OFF), k) EXCEPT !.stale = TRUE]
                 ELSE [pushed EXCEPT !.stale = s.stale]
  IN AppendDef([entered EXCEPT !.status = "PERMANENT"])

\* Mutant: the flush forgets the rewind mark.
KeepMark(s) == s

ResetMark(s) == [s EXCEPT !.markPos = -1, !.markDefs = 0, !.openMark = << >>]

(* VTGen_flush(gen, 0, ...). "own" says that the flush gets the address of the
   caller's time stamp (VTGEN_ALLOC_EVENT): the ENTER of the flush takes its
   value and the end of the flush is stored to it. Otherwise both are fresh. *)
Flush(s, own, k) ==
  IF s.flushcntr = 0 THEN s
  ELSE LET on       == s.status = "ON"
           more     == s.flushcntr > 1
           begun    == IF on
                       THEN AppendEnter([s EXCEPT !.stale = own /\ @], FLUSH)
                       ELSE s
           marked   == IF on /\ more
                       THEN AppendLeave([begun EXCEPT !.stale = FALSE])
                       ELSE begun
           \* is the caller's time older than the last record now?
           stale    == IF on THEN IF own THEN ~more /\ s.stale ELSE TRUE
                             ELSE s.stale
           \* the mark is reset last in the code; nothing reads it before that
           written  == ResetMark([marked EXCEPT !.pos = 0, !.flushcntr = @ - 1,
                                                !.stale = stale])
       IN IF more THEN written ELSE SwitchOffForGood(written, k)

------------------------------------------------------------------------------
(* Writing a record: flush first if the buffer is full. An event is dropped
   when that flush was the last one allowed, a definition never is. *)

WriteDef(s, k) == AppendDef(IF Full(s, DefLen) THEN Flush(s, FALSE, k) ELSE s)

WriteEnter(s, rid, k) ==
  LET f == IF Full(s, EnterLeaveLen) THEN Flush(s, TRUE, k) ELSE s
  IN IF Full(s, EnterLeaveLen) /\ f.flushcntr = 0 THEN f ELSE AppendEnter(f, rid)

WriteLeave(s, k) ==
  LET f == IF Full(s, EnterLeaveLen) THEN Flush(s, TRUE, k) ELSE s
  IN IF Full(s, EnterLeaveLen) /\ f.flushcntr = 0 THEN f ELSE AppendLeave(f)

WriteEvent(s, k) ==
  LET f == IF Full(s, EventLen) THEN Flush(s, TRUE, k) ELSE s
  IN IF Full(s, EventLen) /\ f.flushcntr = 0 THEN f ELSE AppendEvent(f, EventLen)

\* The metric, rusage and cpu id loops test the status before every counter,
\* the plugin loop tests it once.
WriteIf(written, s, k) == IF written THEN WriteEvent(s, k) ELSE s

WriteCounterIfOn(n, s, k) == IF n <= k /\ s.status = "ON" THEN WriteEvent(s, k) ELSE s

WritePluginCounters(s, k) ==
  IF s.status = "ON"
  THEN WriteIf(NumPlugin >= 2, WriteIf(NumPlugin >= 1, s, k), k)
  ELSE s

\* vt_update_counter; k counters have a new value to report.
UpdateCounter(s, k) ==
  WritePluginCounters(WriteCounterIfOn(2, WriteCounterIfOn(1, s, k), k), k)

------------------------------------------------------------------------------
(* Entering and leaving regions. *)

\* vt_marker_hint: the marker definition is written with the first hint.
MarkerHint(s, k) ==
  LET d == IF s.hinted THEN s ELSE [WriteDef(s, k) EXCEPT !.hinted = TRUE]
  IN WriteEvent(d, k)

vt_enter(s, rid, k) ==
  IF s.status = "PERMANENT" THEN s
  ELSE LET do_trace == s.status = "ON" /\ Len(s.stack) + 1 <= MaxStackDepth
           p        == StackPush(s, rid, do_trace)
           limit    == p.stack[Len(p.stack)].climit
           h        == IF do_trace /\ limit = 1 THEN MarkerHint(p, k) ELSE p
       IN IF do_trace /\ limit # 0
          THEN UpdateCounter(WriteEnter(h, rid, k), k)
          ELSE h

\* Mutant: a region whose ENTER the call limit suppressed is left all the same.
vt_exitIgnoresLimit(s, k) ==
  IF s.status = "PERMANENT" THEN s
  ELSE LET level == Len(s.stack)
           p     == [s EXCEPT !.stack = SubSeq(@, 1, level - 1)]
       IN IF s.status = "ON" /\ level <= MaxStackDepth
          THEN WriteLeave(UpdateCounter(p, k), k)
          ELSE p

vt_exit(s, k) ==
  IF s.status = "PERMANENT" THEN s
  ELSE LET level    == Len(s.stack)
           p        == [s EXCEPT !.stack = SubSeq(@, 1, level - 1)]
           do_trace == /\ s.status = "ON"
                       /\ level <= MaxStackDepth
                       /\ s.stack[level].climit # 0
       IN IF do_trace THEN WriteLeave(UpdateCounter(p, k), k) ELSE p

\* vt_def_region writes a source location, a group name if it is new, and the
\* function: one to three records.
vt_def_region(s, n, k) ==
  LET d1 == WriteDef(s, k)
      d2 == IF n >= 2 THEN WriteDef(d1, k) ELSE d1
  IN IF n >= 3 THEN WriteDef(d2, k) ELSE d2

\* The handler takes its time stamp first.
WithTime(s) == [s EXCEPT !.stale = FALSE]

\* Mutant: the "tracing off" region is not entered.
vt_trace_offNoEnter(s, k) ==
  IF s.status = "ON" THEN [s EXCEPT !.status = "OFF", !.offLevel = Len(s.stack)]
                     ELSE s

vt_trace_off(s, k) ==
  IF s.status = "PERMANENT" THEN s
  ELSE LET e == vt_enter(s, OFF, k)
       IN IF e.status = "ON"
          THEN [e EXCEPT !.status = "OFF", !.offLevel = Len(e.stack)]
          ELSE e

vt_set_rewind_mark(s, k) ==
  LET c == UpdateCounter([s EXCEPT !.markLevel = Len(s.stack)], k)
  IN [c EXCEPT !.markPos = c.pos, !.markDefs = 0, !.openMark = c.open]

\* VTGen_rewind moves the definitions down to the mark, and the mark behind
\* them; the other records are dropped.
VTGen_rewind(s) ==
  [s EXCEPT !.pos = s.markPos + s.markDefs,
            !.markPos = s.markPos + s.markDefs,
            !.markDefs = 0,
            !.open = s.openMark]

\* The rewind interval: ENTER at the mark's time, LEAVE at the caller's. A
\* flush by the ENTER moves the mark's time only.
vt_rewind(s, k) ==
  LET e == WriteEnter(VTGen_rewind(s), REWIND, k)
      x == [e EXCEPT !.stale = Full(VTGen_rewind(s), EnterLeaveLen)]
  IN IF x.status = "ON" THEN WriteLeave(UpdateCounter(x, k), k) ELSE x

------------------------------------------------------------------------------
(* The specification. *)

Init ==
  /\ t = [status |-> "ON", stack |-> << >>, cd |-> CallLimit, pos |-> 0,
          flushcntr |-> FlushLimit, markPos |-> -1, markDefs |-> 0,
          markLevel |-> 0, offLevel |-> 0, hinted |-> FALSE,
          open |-> << >>, openMark |-> << >>, stale |-> FALSE,
          orphan |-> FALSE, overflow |-> FALSE,
          backwards |-> FALSE]
  /\ frames = 0
  /\ offAt = 0
  /\ markAt = -1
  /\ defined = {}
  /\ phase = "alive"
  /\ safe \in BOOLEAN

\* The compiler adapter's entry hook (or VT_USER_START): take the time,
\* register the region if it is new, enter it.
Enter(r, n, k) ==
  /\ phase = "alive"
  /\ frames < MaxFrames
  /\ BelowMaxLevel
  /\ t' = vt_enter(IF r \in defined THEN WithTime(t)
                                    ELSE vt_def_region(WithTime(t), n, k), r, k)
  /\ defined' = defined \cup {r}
  /\ frames' = frames + 1
  /\ UNCHANGED <<offAt, markAt, phase, safe>>

\* The exit hook. An empty RFG stack would be an assertion failure.
Exit(k) ==
  /\ phase = "alive"
  /\ frames > 0
  /\ safe /\ t.status = "OFF" => frames > offAt
  /\ IF t.status # "PERMANENT" /\ t.stack = << >>
       THEN phase' = "aborted" /\ UNCHANGED t
       ELSE t' = vt_exit(WithTime(t), k) /\ UNCHANGED phase
  /\ frames' = frames - 1
  /\ markAt' = IF markAt = frames THEN -1 ELSE markAt
  /\ UNCHANGED <<offAt, defined, safe>>

\* Mutant: the status test only looks for a temporary VT_OFF.
EventUnlessOff(k) ==
  /\ phase = "alive"
  /\ t.status # "OFF"
  /\ t' = WriteEvent(WithTime(t), k)
  /\ UNCHANGED <<frames, offAt, markAt, defined, phase, safe>>

\* Any other event: vt_count, vt_comment, vt_marker, vt_mpi_send, ...
Event(k) ==
  /\ phase = "alive"
  /\ t.status = "ON"
  /\ t' = WriteEvent(WithTime(t), k)
  /\ UNCHANGED <<frames, offAt, markAt, defined, phase, safe>>

\* VT_OFF
TraceOff(k) ==
  /\ phase = "alive"
  /\ BelowMaxLevel
  /\ safe => t.status # "OFF"
  /\ t' = vt_trace_off(WithTime(t), k)
  /\ offAt' = IF t.status = "ON" THEN frames ELSE offAt
  /\ UNCHANGED <<frames, markAt, defined, phase, safe>>

\* Mutant: the level is compared with the one before the off region.
TraceOnOneLess(k) ==
  /\ phase = "alive"
  /\ t.status = "OFF"
  /\ safe => frames = offAt
  /\ IF Len(t.stack) - 1 = t.offLevel
       THEN /\ t' = vt_exit(WithTime([t EXCEPT !.status = "ON"]), k)
            /\ UNCHANGED phase
       ELSE phase' = "aborted" /\ UNCHANGED t
  /\ UNCHANGED <<frames, offAt, markAt, defined, safe>>

\* VT_ON; at another stack level than the stored one it aborts.
TraceOn(k) ==
  /\ phase = "alive"
  /\ t.status = "OFF"
  /\ safe => frames = offAt
  /\ IF Len(t.stack) = t.offLevel
       THEN /\ t' = vt_exit(WithTime([t EXCEPT !.status = "ON"]), k)
            /\ UNCHANGED phase
       ELSE phase' = "aborted" /\ UNCHANGED t
  /\ UNCHANGED <<frames, offAt, markAt, defined, safe>>

\* VT_BUFFER_FLUSH, and the flush of the synchronised buffer flush
BufferFlush(k) ==
  /\ phase = "alive"
  /\ t' = Flush(WithTime(t), FALSE, k)
  /\ UNCHANGED <<frames, offAt, markAt, defined, phase, safe>>

\* VT_SET_REWIND_MARK
SetRewindMark(k) ==
  /\ phase = "alive"
  /\ t.status = "ON"
  /\ t' = vt_set_rewind_mark(WithTime(t), k)
  /\ markAt' = frames
  /\ UNCHANGED <<frames, offAt, defined, phase, safe>>

\* VT_REWIND; without a mark it only warns, at another level it aborts.
Rewind(k) ==
  /\ phase = "alive"
  /\ t.status = "ON"
  /\ HasMark(t)
  /\ safe => markAt = frames
  /\ IF Len(t.stack) = t.markLevel
       THEN t' = vt_rewind(WithTime(t), k) /\ UNCHANGED phase
       ELSE phase' = "aborted" /\ UNCHANGED t
  /\ UNCHANGED <<frames, offAt, markAt, defined, safe>>

\* Mutant: the flush counter is decremented below zero.
CloseUnchecked ==
  /\ phase = "alive"
  /\ t' = ResetMark([t EXCEPT !.pos = 0, !.flushcntr = @ - 1])
  /\ phase' = "closed"
  /\ UNCHANGED <<frames, offAt, markAt, defined, safe>>

\* VTGen_close: the last, unmarked flush.
Close ==
  /\ phase = "alive"
  /\ t' = ResetMark([t EXCEPT !.pos = 0, !.flushcntr = IF @ > 0 THEN @ - 1 ELSE @])
  /\ phase' = "closed"
  /\ UNCHANGED <<frames, offAt, markAt, defined, safe>>

Next ==
  \/ Close
  \/ \E k \in 0 .. NumCounters :
        \/ \E r \in Regions, n \in 1 .. 3 : Enter(r, n, k)
        \/ Exit(k)
        \/ Event(k)
        \/ TraceOff(k)
        \/ TraceOn(k)
        \/ BufferFlush(k)
        \/ SetRewindMark(k)
        \/ Rewind(k)

Spec == Init /\ [][Next]_vars

------------------------------------------------------------------------------
(* Properties. *)

Frame == [rid : RegionIds, climit : Nat \cup {-1}]

ThreadType ==
  [status : {"ON", "OFF", "PERMANENT"}, stack : Seq(Frame),
   cd : [Regions -> Nat \cup {-1}], pos : Nat, flushcntr : Nat,
   markPos : Nat \cup {-1}, markDefs : Nat, markLevel : Nat, offLevel : Nat,
   hinted : BOOLEAN, open : Seq(RegionIds), openMark : Seq(RegionIds),
   stale : BOOLEAN, orphan : BOOLEAN, overflow : BOOLEAN,
   backwards : BOOLEAN]

\* Type invariant of the recording state of a thread and of its program.
TypeOK ==
  /\ t \in ThreadType
  /\ frames \in Nat
  /\ offAt \in Nat
  /\ markAt \in Nat \cup {-1}
  /\ defined \subseteq Regions
  /\ phase \in {"alive", "closed", "aborted"}
  /\ safe \in BOOLEAN

\* No event record, and neither of the two records that a flush writes without
\* checking for space, ever reaches beyond the memory VTGen_open allocated
\* ("space reserved at buffer creation", vt_otf_gen.c:2454 and 2479).
EventsFit == ~t.overflow

\* As long as another flush is allowed, the space reserved for the flush's own
\* records is free after every handler: VTGEN_ALLOC_DEF and VTGEN_ALLOC_EVENT
\* flush early enough, whatever mixture of records, marks and rewinds went
\* before.
ReserveKept == t.flushcntr > 0 => t.pos <= Size

\* A rewind mark that is present lies inside the current contents of the
\* buffer, with the definitions written since behind it: a flush or a rewind
\* never leaves a mark that points at bytes that are gone, so that VTGen_rewind
\* only ever moves the write position back.
MarkInBuffer == HasMark(t) => t.markPos >= 0 /\ t.markPos + t.markDefs <= t.pos

\* The RFG call stack holds at least one frame for every function the program
\* is still in, so the vt_assert(0) of vt_exit is unreachable for a program
\* with balanced entry and exit hooks, however it mixes VT_ON and VT_OFF in.
NoUnderflow ==
  t.status # "PERMANENT" =>
     Len(t.stack) >= frames + (IF t.status = "OFF" THEN 1 ELSE 0)

\* The trace buffer stays intact: events and the flush's own records fit, the
\* reserve is there while a flush is allowed, a mark is inside the contents;
\* and vt_exit finds a frame for every function it leaves.
BufferIntact == EventsFit /\ ReserveKept /\ MarkInBuffer /\ NoUnderflow

\* The frames of a call stack whose ENTER was recorded.
Recorded(stack) ==
  LET Keep(i) == i <= MaxStackDepth /\ stack[i].climit # 0
      F[i \in 0 .. Len(stack)] ==
        IF i = 0 THEN << >>
        ELSE IF Keep(i) THEN Append(F[i - 1], stack[i].rid) ELSE F[i - 1]
  IN F[Len(stack)]

\* With the safe usage of VT_ON/VT_OFF and of the rewind, the regions that are
\* open in the recorded stream are exactly those frames of the call stack that
\* call limits and the stack depth limit let through: every LEAVE closes the
\* region it was written for, across flushes, off sections and rewinds; and
\* neither VT_ON nor VT_REWIND aborts the program ("A safe method is to call
\* VT_OFF and VT_ON in the same function").
OpenMatchesStack ==
  safe =>
    /\ phase # "aborted"
    /\ phase = "alive" =>
         /\ ~t.orphan
         /\ t.status = "ON" => t.open = Recorded(t.stack)
         /\ t.status = "OFF" => t.open = Recorded(SubSeq(t.stack, 1, t.offLevel))

\* Once tracing is off for good, no later handler records an event or moves
\* the call stack, and tracing never comes back: only definition records are
\* still added to the buffer.
PermanentIsSilent ==
  [][t.status = "PERMANENT" =>
       /\ t'.status = "PERMANENT"
       /\ t'.open = t.open
       /\ t'.stack = t.stack
       /\ phase' = "alive" => \E n \in 0 .. 3 : t'.pos = t.pos + n * DefLen]_vars
==============================================================================
