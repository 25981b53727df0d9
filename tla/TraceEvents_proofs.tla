-------------------------- MODULE TraceEvents_proofs --------------------------
(***************************************************************************)
(* Proofs about TraceThread and TraceEvents.  The first part shows for     *)
(* function entries, exits and control calls the type invariant and the    *)
(* safety of the buffer, of the rewind mark and of the call stack, for     *)
(* every buffer size, record length, flush limit, filter and program.  The *)
(* second part shows that it holds as well when every other handler        *)
(* records between them, for dumps of any length.  The third part proves   *)
(* that the recorded stream nests like the call stack (OpenMatchesStack):  *)
(* "Steady" and "Leads" say what a piece of a handler does to the open     *)
(* regions and the call stack, NestInv is the invariant made of them.      *)
(***************************************************************************)
EXTENDS TraceEvents, TLAPS, SequenceTheorems, WellFoundedInduction

------------------------------------------------------------------------------
(* What every operator on a thread record preserves. *)

\* The part that also holds in the middle of a flush.
Sane(s) ==
  /\ s \in ThreadType
  /\ ~s.overflow
  /\ HasMark(s) => s.markPos + s.markDefs <= s.pos
  /\ s.status = "PERMANENT" => s.flushcntr = 0

Good(s) == Sane(s) /\ (s.flushcntr > 0 => s.pos <= Size)

\* The call stack and the status stay as they are, or tracing is off for good.
Keeps(s, u) ==
  \/ u.status = "PERMANENT"
  \/ u.status = s.status /\ u.stack = s.stack

LEMMA SizeFacts ==
  /\ Size \in Nat /\ BufferSize \in Nat
  /\ EnterLeaveLen \in Nat /\ EventLen \in Nat /\ DefLen \in Nat
  /\ 1 <= EnterLeaveLen /\ 1 <= EventLen /\ 1 <= DefLen
  /\ EnterLeaveLen <= Size /\ EventLen <= Size /\ DefLen <= Size
  /\ BufferSize = Size + EnterLeaveLen + EnterLeaveLen
<1>1. EnterLeaveLen \in 1 .. Size /\ EventLen \in 1 .. Size /\ DefLen \in 1 .. Size
      /\ BufferSize \in Nat
  BY LengthsAssumption
<1>2. EnterLeaveLen \in Int
  BY <1>1
<1>3. Size \in Int
  BY <1>1, <1>2 DEF Size
<1> QED
  BY <1>1, <1>2, <1>3 DEF Size

LEMMA AppendDefSane ==
  ASSUME NEW s, Sane(s)
  PROVE  LET u == AppendDef(s) IN
         /\ Sane(u)
         /\ u.pos = s.pos + DefLen
         /\ u.flushcntr = s.flushcntr
         /\ u.status = s.status
         /\ u.stack = s.stack
         /\ u.open = s.open
<1> DEFINE p == s.pos + DefLen
           d == IF HasMark(s) THEN s.markDefs + DefLen ELSE s.markDefs
<1>1. s.pos \in Nat /\ s.markDefs \in Nat /\ s.markPos \in Nat \cup {-1}
  BY DEF Sane, ThreadType
<1>2. p \in Nat /\ d \in Nat /\ (HasMark(s) => s.markPos + d <= p)
  BY <1>1, SizeFacts DEF Sane, HasMark
<1>3. AppendDef(s) = [s EXCEPT !.pos = p, !.markDefs = d]
  BY DEF AppendDef
<1> HIDE DEF p, d
<1>4. AppendDef(s) \in ThreadType
  BY <1>2, <1>3 DEF Sane, ThreadType
<1>5. p = s.pos + DefLen
  BY DEF p
<1> QED
  BY <1>2, <1>3, <1>4, <1>5 DEF Sane, ThreadType, HasMark

LEMMA AppendEventSane ==
  ASSUME NEW s, Sane(s), NEW len \in Nat, s.pos + len <= BufferSize
  PROVE  LET u == AppendEvent(s, len) IN
         /\ Sane(u)
         /\ u.pos = s.pos + len
         /\ u.flushcntr = s.flushcntr
         /\ u.status = s.status
         /\ u.stack = s.stack
         /\ u.open = s.open
<1> DEFINE p == s.pos + len
           v == s.overflow \/ s.pos + len > BufferSize
           b == s.backwards \/ s.stale
<1>1. s.pos \in Nat /\ s.markDefs \in Nat /\ s.markPos \in Nat \cup {-1}
  BY DEF Sane, ThreadType
<1>2. p \in Nat /\ (HasMark(s) => s.markPos + s.markDefs <= p)
  BY <1>1 DEF Sane, HasMark
<1>3. ~(s.pos + len > BufferSize)
  BY <1>1, SizeFacts
<1>4. v = FALSE /\ b \in BOOLEAN
  BY <1>3 DEF Sane
<1>5. AppendEvent(s, len) =
        [s EXCEPT !.pos = p, !.overflow = v, !.backwards = b]
  BY DEF AppendEvent
<1>6. p = s.pos + len
  OBVIOUS
<1> HIDE DEF p, v, b
<1>7. AppendEvent(s, len) \in ThreadType
  BY <1>2, <1>4, <1>5 DEF Sane, ThreadType
<1> QED
  BY <1>2, <1>4, <1>5, <1>6, <1>7 DEF Sane, ThreadType, HasMark

LEMMA AppendEnterSane ==
  ASSUME NEW s, Sane(s), NEW rid \in RegionIds, s.pos + EnterLeaveLen <= BufferSize
  PROVE  LET u == AppendEnter(s, rid) IN
         /\ Sane(u)
         /\ u.pos = s.pos + EnterLeaveLen
         /\ u.flushcntr = s.flushcntr
         /\ u.status = s.status
         /\ u.stack = s.stack
<1> DEFINE e == AppendEvent(s, EnterLeaveLen)
<1>1. Sane(e) /\ e.pos = s.pos + EnterLeaveLen /\ e.flushcntr = s.flushcntr
      /\ e.status = s.status /\ e.stack = s.stack
  BY AppendEventSane, SizeFacts
<1>2. Append(e.open, rid) \in Seq(RegionIds)
  BY <1>1 DEF Sane, ThreadType
<1> HIDE DEF e
<1>3. AppendEnter(s, rid) = [e EXCEPT !.open = Append(e.open, rid)]
  BY DEF AppendEnter, e
<1> QED
  BY <1>1, <1>2, <1>3 DEF Sane, ThreadType, HasMark

LEMMA AppendLeaveSane ==
  ASSUME NEW s, Sane(s), s.pos + EnterLeaveLen <= BufferSize
  PROVE  LET u == AppendLeave(s) IN
         /\ Sane(u)
         /\ u.pos = s.pos + EnterLeaveLen
         /\ u.flushcntr = s.flushcntr
         /\ u.status = s.status
         /\ u.stack = s.stack
<1> DEFINE e == AppendEvent(s, EnterLeaveLen)
           o == IF Len(s.open) = 0 THEN e.open ELSE SubSeq(e.open, 1, Len(s.open) - 1)
<1>1. Sane(e) /\ e.pos = s.pos + EnterLeaveLen /\ e.flushcntr = s.flushcntr
      /\ e.status = s.status /\ e.stack = s.stack /\ e.open = s.open
  BY AppendEventSane, SizeFacts
<1>2. o \in Seq(RegionIds)
  BY <1>1 DEF Sane, ThreadType
<1>3. (e.orphan \/ Len(s.open) = 0) \in BOOLEAN
  OBVIOUS
<1> HIDE DEF e
<1>4. AppendLeave(s) = [e EXCEPT !.open = o, !.orphan = e.orphan \/ Len(s.open) = 0]
  BY DEF AppendLeave, e
<1> HIDE DEF o
<1> QED
  BY <1>1, <1>2, <1>3, <1>4 DEF Sane, ThreadType, HasMark

\* Changing only the caller's time stamp, or only the status to PERMANENT.
LEMMA StaleSane ==
  ASSUME NEW s, Sane(s), NEW b \in BOOLEAN
  PROVE  LET u == [s EXCEPT !.stale = b] IN
         /\ Sane(u)
         /\ u.pos = s.pos
         /\ u.flushcntr = s.flushcntr
         /\ u.status = s.status
         /\ u.stack = s.stack
         /\ u.open = s.open
BY DEF Sane, ThreadType, HasMark

LEMMA StackPushSane ==
  ASSUME NEW s, Sane(s), NEW rid \in RegionIds, NEW decr \in BOOLEAN
  PROVE  LET u == StackPush(s, rid, decr) IN
         /\ Sane(u)
         /\ u.pos = s.pos
         /\ u.flushcntr = s.flushcntr
         /\ u.status = s.status
         /\ u.stack \in Seq(Frame)
         /\ Len(u.stack) = Len(s.stack) + 1
<1> DEFINE limit == IF rid \in Regions
                    THEN IF decr /\ s.cd[rid] > 0 THEN s.cd[rid] - 1 ELSE s.cd[rid]
                    ELSE -1
           f == [rid |-> rid, climit |-> limit]
           st == Append(s.stack, f)
           c == IF rid \in Regions THEN [s.cd EXCEPT ![rid] = limit] ELSE s.cd
<1>1. s.cd \in [Regions -> Nat \cup {-1}] /\ s.stack \in Seq(Frame)
  BY DEF Sane, ThreadType
<1>2. limit \in Nat \cup {-1}
  <2>1. CASE rid \in Regions
    <3>1. s.cd[rid] \in Nat \cup {-1}
      BY <1>1, <2>1
    <3> QED
      BY <2>1, <3>1
  <2>2. CASE rid \notin Regions
    BY <2>2
  <2> QED
    BY <2>1, <2>2
<1>3. StackPush(s, rid, decr) = [s EXCEPT !.stack = st, !.cd = c]
  BY DEF StackPush
<1> HIDE DEF limit
<1>4. f \in Frame
  BY <1>2 DEF Frame
<1>5. c \in [Regions -> Nat \cup {-1}]
  BY <1>1, <1>2
<1> HIDE DEF f, c
<1>6. st \in Seq(Frame) /\ Len(st) = Len(s.stack) + 1
  BY <1>1, <1>4
<1> HIDE DEF st
<1>7. StackPush(s, rid, decr) \in ThreadType
  BY <1>3, <1>5, <1>6 DEF Sane, ThreadType
<1> QED
  BY <1>3, <1>6, <1>7 DEF Sane, ThreadType, HasMark

\* Appending nothing, or a record that leaves the flush's reserve alone.
Grows(s, u) ==
  /\ Sane(u)
  /\ u.pos <= Size
  /\ u.flushcntr = s.flushcntr
  /\ u.status = s.status
  /\ u.stack = s.stack

LEMMA CountIfRoomGrows ==
  ASSUME NEW s, Sane(s), s.pos <= Size, NEW written
  PROVE  Grows(s, CountIfRoom(written, s))
<1>1. s.pos \in Nat
  BY DEF Sane, ThreadType
<1>2. CASE ~(written /\ ~Full(s, EventLen))
  BY <1>2 DEF CountIfRoom, Grows
<1>3. CASE written /\ ~Full(s, EventLen)
  <2>1. s.pos + EventLen <= Size
    BY <1>1, <1>3, SizeFacts DEF Full
  <2>2. s.pos + EventLen <= BufferSize
    BY <1>1, <2>1, SizeFacts
  <2> QED
    BY <1>3, <2>1, <2>2, AppendEventSane, SizeFacts DEF CountIfRoom, Grows
<1> QED
  BY <1>2, <1>3

LEMMA LastCountersGrows ==
  ASSUME NEW s, Sane(s), s.pos <= Size, NEW k
  PROVE  Grows(s, LastCounters(s, k))
<1> DEFINE c1 == CountIfRoom(k >= 1, s)
           c2 == CountIfRoom(k >= 2, c1)
           p1 == CountIfRoom(NumPlugin >= 1, c2)
           p2 == CountIfRoom(NumPlugin >= 2, p1)
<1>1. Grows(s, c1)
  BY CountIfRoomGrows
<1>2. Grows(s, c2)
  <2> HIDE DEF c1
  <2> QED BY <1>1, CountIfRoomGrows DEF Grows
<1>3. Grows(s, p1)
  <2> HIDE DEF c2
  <2> QED BY <1>2, CountIfRoomGrows DEF Grows
<1>4. Grows(s, p2)
  <2> HIDE DEF p1
  <2> QED BY <1>3, CountIfRoomGrows DEF Grows
<1> QED
  BY <1>4 DEF LastCounters

LEMMA SwitchOffForGoodSane ==
  ASSUME NEW s, Sane(s), s.pos = 0, s.flushcntr = 0, NEW k
  PROVE  LET u == SwitchOffForGood(s, k) IN
         /\ Sane(u)
         /\ u.flushcntr = 0
         /\ u.status = "PERMANENT"
<1> DEFINE fresh   == [s EXCEPT !.stale = FALSE]
           pushed  == StackPush(fresh, OFF, TRUE)
           record  == s.status = "ON" /\ Len(pushed.stack) <= MaxStackDepth
           enter   == AppendEnter(pushed, OFF)
           counted == LastCounters(enter, k)
           entered == IF record
                      THEN [counted EXCEPT !.stale = TRUE]
                      ELSE [pushed EXCEPT !.stale = s.stale]
           off     == [entered EXCEPT !.status = "PERMANENT"]
<1>1. Sane(fresh) /\ fresh.pos = 0 /\ fresh.flushcntr = 0
  BY StaleSane
<1>2. Sane(pushed) /\ pushed.pos = 0 /\ pushed.flushcntr = 0
  <2> HIDE DEF fresh
  <2> QED BY <1>1, StackPushSane DEF RegionIds
<1>3. ASSUME record PROVE Sane(entered) /\ entered.flushcntr = 0
  <2> HIDE DEF pushed
  <2>1. pushed.pos + EnterLeaveLen <= BufferSize /\ pushed.pos + EnterLeaveLen <= Size
    BY <1>2, SizeFacts
  <2>2. Sane(enter) /\ enter.pos <= Size /\ enter.flushcntr = 0
    BY <1>2, <2>1, AppendEnterSane DEF RegionIds
  <2> HIDE DEF enter
  <2>3. Sane(counted) /\ counted.flushcntr = 0
    BY <2>2, LastCountersGrows DEF Grows
  <2> HIDE DEF counted
  <2> QED
    BY <1>3, <2>3, StaleSane
<1>4. ASSUME ~record PROVE Sane(entered) /\ entered.flushcntr = 0
  <2> HIDE DEF pushed
  <2>1. s.stale \in BOOLEAN
    BY DEF Sane, ThreadType
  <2> QED
    BY <1>2, <1>4, <2>1, StaleSane
<1>5. Sane(off) /\ off.flushcntr = 0 /\ off.status = "PERMANENT"
  <2> HIDE DEF entered
  <2> QED BY <1>3, <1>4 DEF Sane, ThreadType, HasMark
<1>6. SwitchOffForGood(s, k) = AppendDef(off)
  BY DEF SwitchOffForGood
<1> HIDE DEF off
<1> QED
  BY <1>5, <1>6, AppendDefSane

\* After a flush that did not reach the limit, the buffer is empty; after the
\* one that did, or when none was allowed any more, the flush counter is 0.
LEMMA FlushGood ==
  ASSUME NEW s, Good(s), NEW own \in BOOLEAN, NEW k
  PROVE  LET u == Flush(s, own, k) IN
         /\ Good(u)
         /\ Keeps(s, u)
         /\ u.flushcntr = 0 \/ u.pos = 0
<1>1. CASE s.flushcntr = 0
  BY <1>1 DEF Flush, Keeps
<1>2. CASE s.flushcntr # 0
  <2> DEFINE on      == s.status = "ON"
             more    == s.flushcntr > 1
             mine    == own /\ s.stale
             timed   == [s EXCEPT !.stale = mine]
             begun   == IF on THEN AppendEnter(timed, FLUSH) ELSE s
             ended   == [begun EXCEPT !.stale = FALSE]
             marked  == IF on /\ more THEN AppendLeave(ended) ELSE begun
             stale   == IF on THEN IF own THEN ~more /\ s.stale ELSE TRUE
                              ELSE s.stale
             written == [marked EXCEPT !.pos = 0, !.flushcntr = @ - 1, !.stale = stale,
                                       !.markPos = -1, !.markDefs = 0, !.openMark = << >>]
  <2>1. s.flushcntr \in Nat /\ s.pos \in Nat /\ s.pos <= Size /\ s.stale \in BOOLEAN
        /\ s.status # "PERMANENT" /\ s.status \in {"ON", "OFF", "PERMANENT"}
    BY <1>2 DEF Good, Sane, ThreadType
  <2>2. mine \in BOOLEAN /\ stale \in BOOLEAN
    BY <2>1
  <2>3. Sane(timed) /\ timed.pos = s.pos /\ timed.flushcntr = s.flushcntr
        /\ timed.status = s.status /\ timed.stack = s.stack
    <3> HIDE DEF mine
    <3> QED BY <2>2, StaleSane DEF Good
  <2> HIDE DEF stale
  <2>4. /\ Sane(begun)
        /\ begun.pos = s.pos \/ begun.pos = s.pos + EnterLeaveLen
        /\ begun.flushcntr = s.flushcntr
        /\ begun.status = s.status
        /\ begun.stack = s.stack
    <3> HIDE DEF timed
    <3>1. timed.pos + EnterLeaveLen <= BufferSize
      BY <2>1, <2>3, SizeFacts
    <3>2. FLUSH \in RegionIds
      BY DEF RegionIds
    <3>3. CASE on
      BY <2>3, <3>1, <3>2, <3>3, AppendEnterSane
    <3>4. CASE ~on
      BY <3>4 DEF Good
    <3> QED
      BY <3>3, <3>4
  <2> HIDE DEF begun
  <2>5. Sane(ended) /\ ended.pos = begun.pos /\ ended.flushcntr = s.flushcntr
        /\ ended.status = s.status /\ ended.stack = s.stack
    BY <2>4, StaleSane
  <2> HIDE DEF ended
  <2>6. /\ Sane(marked)
        /\ marked.flushcntr = s.flushcntr
        /\ marked.status = s.status
        /\ marked.stack = s.stack
    <3>1. ended.pos + EnterLeaveLen <= BufferSize
      BY <2>1, <2>4, <2>5, SizeFacts
    <3>2. CASE on /\ more
      BY <2>5, <3>1, <3>2, AppendLeaveSane
    <3>3. CASE ~(on /\ more)
      BY <2>4, <3>3
    <3> QED
      BY <3>2, <3>3
  <2> HIDE DEF marked
  <2>7. /\ Sane(written)
        /\ written.pos = 0
        /\ written.flushcntr = s.flushcntr - 1
        /\ written.status = s.status
        /\ written.stack = s.stack
    <3>1. << >> \in Seq(RegionIds) /\ s.flushcntr - 1 \in Nat
      BY <1>2, <2>1
    <3>2. written \in ThreadType
      BY <2>2, <2>6, <3>1 DEF Sane, ThreadType
    <3> QED
      BY <2>1, <2>6, <3>1, <3>2 DEF Sane, ThreadType, HasMark
  <2>8. Flush(s, own, k) = IF more THEN written ELSE SwitchOffForGood(written, k)
    BY <1>2 DEF Flush, ResetMark, written, stale, marked, ended, begun
  <2> HIDE DEF written
  <2>9. CASE more
    BY <2>7, <2>8, <2>9, SizeFacts DEF Good, Keeps
  <2>10. CASE ~more
    <3>1. s.flushcntr = 1
      BY <1>2, <2>1, <2>10
    <3>2. written.flushcntr = 0
      BY <2>7, <3>1
    <3> QED
      BY <2>7, <2>8, <2>10, <3>2, SwitchOffForGoodSane DEF Good, Keeps
  <2> QED
    BY <2>9, <2>10
<1> QED
  BY <1>1, <1>2

------------------------------------------------------------------------------
(* Writing a record keeps the reserve, the stack and the status. *)

LEMMA WriteDefGood ==
  ASSUME NEW s, Good(s), NEW k
  PROVE  Good(WriteDef(s, k)) /\ Keeps(s, WriteDef(s, k))
<1> DEFINE f == IF Full(s, DefLen) THEN Flush(s, FALSE, k) ELSE s
<1>1. Good(f) /\ Keeps(s, f) /\ (f.flushcntr = 0 \/ f.pos + DefLen <= Size)
  <2>1. CASE Full(s, DefLen)
    <3> DEFINE g == Flush(s, FALSE, k)
    <3>1. Good(g) /\ Keeps(s, g) /\ (g.flushcntr = 0 \/ g.pos = 0)
      BY FlushGood
    <3>2. f = g
      BY <2>1
    <3> HIDE DEF g, f
    <3> QED
      BY <2>1, <3>1, <3>2, SizeFacts
  <2>2. CASE ~Full(s, DefLen)
    BY <2>2, SizeFacts DEF Full, Good, Sane, ThreadType, Keeps
  <2> QED
    BY <2>1, <2>2
<1>2. WriteDef(s, k) = AppendDef(f)
  BY DEF WriteDef
<1> HIDE DEF f
<1>3. f.flushcntr \in Nat
  BY <1>1 DEF Good, Sane, ThreadType
<1> QED
  BY <1>1, <1>2, <1>3, AppendDefSane DEF Good, Keeps

LEMMA WriteEnterGood ==
  ASSUME NEW s, Good(s), NEW rid \in RegionIds, NEW k
  PROVE  Good(WriteEnter(s, rid, k)) /\ Keeps(s, WriteEnter(s, rid, k))
<1> DEFINE f == IF Full(s, EnterLeaveLen) THEN Flush(s, TRUE, k) ELSE s
           drop == Full(s, EnterLeaveLen) /\ f.flushcntr = 0
<1>1. Good(f) /\ Keeps(s, f)
      /\ (~drop => f.pos + EnterLeaveLen <= Size)
  <2>1. CASE Full(s, EnterLeaveLen)
    <3> DEFINE g == Flush(s, TRUE, k)
    <3>1. Good(g) /\ Keeps(s, g) /\ (g.flushcntr = 0 \/ g.pos = 0)
      BY FlushGood
    <3>2. f = g
      BY <2>1
    <3> HIDE DEF g, f
    <3> QED
      BY <2>1, <3>1, <3>2, SizeFacts
  <2>2. CASE ~Full(s, EnterLeaveLen)
    BY <2>2, SizeFacts DEF Full, Good, Sane, ThreadType, Keeps
  <2> QED
    BY <2>1, <2>2
<1>2. WriteEnter(s, rid, k) = IF drop THEN f ELSE AppendEnter(f, rid)
  BY DEF WriteEnter
<1> HIDE DEF f, drop
<1>3. ~drop => f.pos + EnterLeaveLen <= BufferSize
  <2>1. f.pos \in Nat
    BY <1>1 DEF Good, Sane, ThreadType
  <2> QED
    BY <1>1, <2>1, SizeFacts
<1>4. CASE drop
  BY <1>1, <1>2, <1>4
<1>5. CASE ~drop
  <2> DEFINE u == AppendEnter(f, rid)
  <2>1. Sane(u) /\ u.pos = f.pos + EnterLeaveLen /\ u.status = f.status /\ u.stack = f.stack
    BY <1>1, <1>3, <1>5, AppendEnterSane DEF Good
  <2>2. WriteEnter(s, rid, k) = u
    BY <1>2, <1>5
  <2> HIDE DEF u
  <2> QED
    BY <1>1, <1>5, <2>1, <2>2 DEF Good, Keeps
<1> QED
  BY <1>4, <1>5

LEMMA WriteLeaveGood ==
  ASSUME NEW s, Good(s), NEW k
  PROVE  Good(WriteLeave(s, k)) /\ Keeps(s, WriteLeave(s, k))
<1> DEFINE f == IF Full(s, EnterLeaveLen) THEN Flush(s, TRUE, k) ELSE s
           drop == Full(s, EnterLeaveLen) /\ f.flushcntr = 0
<1>1. Good(f) /\ Keeps(s, f)
      /\ (~drop => f.pos + EnterLeaveLen <= Size)
  <2>1. CASE Full(s, EnterLeaveLen)
    <3> DEFINE g == Flush(s, TRUE, k)
    <3>1. Good(g) /\ Keeps(s, g) /\ (g.flushcntr = 0 \/ g.pos = 0)
      BY FlushGood
    <3>2. f = g
      BY <2>1
    <3> HIDE DEF g, f
    <3> QED
      BY <2>1, <3>1, <3>2, SizeFacts
  <2>2. CASE ~Full(s, EnterLeaveLen)
    BY <2>2, SizeFacts DEF Full, Good, Sane, ThreadType, Keeps
  <2> QED
    BY <2>1, <2>2
<1>2. WriteLeave(s, k) = IF drop THEN f ELSE AppendLeave(f)
  BY DEF WriteLeave
<1> HIDE DEF f, drop
<1>3. ~drop => f.pos + EnterLeaveLen <= BufferSize
  <2>1. f.pos \in Nat
    BY <1>1 DEF Good, Sane, ThreadType
  <2> QED
    BY <1>1, <2>1, SizeFacts
<1>4. CASE drop
  BY <1>1, <1>2, <1>4
<1>5. CASE ~drop
  <2> DEFINE u == AppendLeave(f)
  <2>1. Sane(u) /\ u.pos = f.pos + EnterLeaveLen /\ u.status = f.status /\ u.stack = f.stack
    BY <1>1, <1>3, <1>5, AppendLeaveSane DEF Good
  <2>2. WriteLeave(s, k) = u
    BY <1>2, <1>5
  <2> HIDE DEF u
  <2> QED
    BY <1>1, <1>5, <2>1, <2>2 DEF Good, Keeps
<1> QED
  BY <1>4, <1>5

LEMMA WriteEventGood ==
  ASSUME NEW s, Good(s), NEW k
  PROVE  Good(WriteEvent(s, k)) /\ Keeps(s, WriteEvent(s, k))
<1> DEFINE f == IF Full(s, EventLen) THEN Flush(s, TRUE, k) ELSE s
           drop == Full(s, EventLen) /\ f.flushcntr = 0
<1>1. Good(f) /\ Keeps(s, f) /\ (~drop => f.pos + EventLen <= Size)
  <2>1. CASE Full(s, EventLen)
    <3> DEFINE g == Flush(s, TRUE, k)
    <3>1. Good(g) /\ Keeps(s, g) /\ (g.flushcntr = 0 \/ g.pos = 0)
      BY FlushGood
    <3>2. f = g
      BY <2>1
    <3> HIDE DEF g, f
    <3> QED
      BY <2>1, <3>1, <3>2, SizeFacts
  <2>2. CASE ~Full(s, EventLen)
    BY <2>2, SizeFacts DEF Full, Good, Sane, ThreadType, Keeps
  <2> QED
    BY <2>1, <2>2
<1>2. WriteEvent(s, k) = IF drop THEN f ELSE AppendEvent(f, EventLen)
  BY DEF WriteEvent
<1> HIDE DEF f, drop
<1>3. ~drop => f.pos + EventLen <= BufferSize
  <2>1. f.pos \in Nat
    BY <1>1 DEF Good, Sane, ThreadType
  <2> QED
    BY <1>1, <2>1, SizeFacts
<1>4. CASE drop
  BY <1>1, <1>2, <1>4
<1>5. CASE ~drop
  <2> DEFINE u == AppendEvent(f, EventLen)
  <2>1. Sane(u) /\ u.pos = f.pos + EventLen /\ u.status = f.status /\ u.stack = f.stack
    BY <1>1, <1>3, <1>5, AppendEventSane, SizeFacts DEF Good
  <2>2. WriteEvent(s, k) = u
    BY <1>2, <1>5
  <2> HIDE DEF u
  <2> QED
    BY <1>1, <1>5, <2>1, <2>2 DEF Good, Keeps
<1> QED
  BY <1>4, <1>5

LEMMA UpdateCounterGood ==
  ASSUME NEW s, Good(s), NEW k
  PROVE  Good(UpdateCounter(s, k)) /\ Keeps(s, UpdateCounter(s, k))
<1> DEFINE c1 == WriteCounterIfOn(1, s, k)
           c2 == WriteCounterIfOn(2, c1, k)
           p1 == WriteIf(NumPlugin >= 1, c2, k)
           p2 == WriteIf(NumPlugin >= 2, p1, k)
<1>1. Good(c1) /\ Keeps(s, c1)
  BY WriteEventGood DEF WriteCounterIfOn, Keeps
<1>2. Good(c2) /\ Keeps(s, c2)
  <2> HIDE DEF c1
  <2> QED BY <1>1, WriteEventGood DEF WriteCounterIfOn, Keeps
<1>3. Good(p1) /\ Keeps(s, p1)
  <2> HIDE DEF c2
  <2> QED BY <1>2, WriteEventGood DEF WriteIf, Keeps
<1>4. Good(p2) /\ Keeps(s, p2)
  <2> HIDE DEF p1
  <2> QED BY <1>3, WriteEventGood DEF WriteIf, Keeps
<1>5. UpdateCounter(s, k) = IF c2.status = "ON" THEN p2 ELSE c2
  BY DEF UpdateCounter, WritePluginCounters
<1> HIDE DEF c2, p2
<1> QED
  BY <1>2, <1>4, <1>5

------------------------------------------------------------------------------
(* Entering and leaving regions moves the call stack by one frame. *)

\* The stack grows by d frames, or tracing is off for good.
Moves(s, u, d) ==
  \/ u.status = "PERMANENT"
  \/ u.status = s.status /\ Len(u.stack) = Len(s.stack) + d

LEMMA MarkerHintGood ==
  ASSUME NEW s, Good(s), NEW k
  PROVE  Good(MarkerHint(s, k)) /\ Keeps(s, MarkerHint(s, k))
<1> DEFINE w == WriteDef(s, k)
           d == IF s.hinted THEN s ELSE [w EXCEPT !.hinted = TRUE]
<1>1. Good(w) /\ Keeps(s, w)
  BY WriteDefGood
<1>2. MarkerHint(s, k) = WriteEvent(d, k)
  BY DEF MarkerHint
<1> HIDE DEF w
<1>3. Good(d) /\ Keeps(s, d)
  BY <1>1 DEF Good, Sane, ThreadType, HasMark, Keeps
<1> HIDE DEF d
<1>4. Good(WriteEvent(d, k)) /\ Keeps(d, WriteEvent(d, k))
  BY <1>3, WriteEventGood
<1> QED
  BY <1>2, <1>3, <1>4 DEF Keeps

LEMMA EnterGood ==
  ASSUME NEW s, Good(s), NEW rid \in RegionIds, NEW k
  PROVE  Good(vt_enter(s, rid, k)) /\ Moves(s, vt_enter(s, rid, k), 1)
<1>1. CASE s.status = "PERMANENT"
  BY <1>1 DEF vt_enter, Moves
<1>2. CASE s.status # "PERMANENT"
  <2> DEFINE do_trace == s.status = "ON" /\ Len(s.stack) + 1 <= MaxStackDepth
             p        == StackPush(s, rid, do_trace)
             limit    == p.stack[Len(p.stack)].climit
             h        == IF do_trace /\ limit = 1 THEN MarkerHint(p, k) ELSE p
             w        == WriteEnter(h, rid, k)
             c        == UpdateCounter(w, k)
  <2>1. vt_enter(s, rid, k) = IF do_trace /\ limit # 0 THEN c ELSE h
    BY <1>2 DEF vt_enter
  <2>2. do_trace \in BOOLEAN
    OBVIOUS
  <2> HIDE DEF do_trace
  <2>3. Good(p) /\ p.status = s.status /\ Len(p.stack) = Len(s.stack) + 1
    BY <2>2, StackPushSane DEF Good
  <2> HIDE DEF p, limit
  <2>4. Good(h) /\ Keeps(p, h)
    BY <2>3, MarkerHintGood DEF Keeps
  <2> HIDE DEF h
  <2>5. Good(w) /\ Keeps(h, w)
    BY <2>4, WriteEnterGood
  <2> HIDE DEF w
  <2>6. Good(c) /\ Keeps(w, c)
    BY <2>5, UpdateCounterGood
  <2> HIDE DEF c
  <2>7. Moves(s, h, 1)
    BY <2>3, <2>4 DEF Keeps, Moves
  <2>8. Moves(s, c, 1)
    BY <2>3, <2>4, <2>5, <2>6 DEF Keeps, Moves
  <2> QED
    BY <2>1, <2>4, <2>6, <2>7, <2>8
<1> QED
  BY <1>1, <1>2

LEMMA ExitGood ==
  ASSUME NEW s, Good(s), s.status = "PERMANENT" \/ s.stack # << >>, NEW k
  PROVE  Good(vt_exit(s, k)) /\ Moves(s, vt_exit(s, k), -1)
<1>1. CASE s.status = "PERMANENT"
  BY <1>1 DEF vt_exit, Moves
<1>2. CASE s.status # "PERMANENT"
  <2> DEFINE level    == Len(s.stack)
             st       == SubSeq(s.stack, 1, level - 1)
             p        == [s EXCEPT !.stack = st]
             do_trace == /\ s.status = "ON"
                         /\ level <= MaxStackDepth
                         /\ s.stack[level].climit # 0
             c        == UpdateCounter(p, k)
             w        == WriteLeave(c, k)
  <2>1. vt_exit(s, k) = IF do_trace THEN w ELSE p
    BY <1>2 DEF vt_exit
  <2>2. s.stack \in Seq(Frame) /\ level \in Nat /\ level # 0
    BY <1>2 DEF Good, Sane, ThreadType
  <2>3. st \in Seq(Frame) /\ Len(st) = level - 1
    BY <2>2
  <2> HIDE DEF st, level, do_trace
  <2>4. Good(p) /\ p.status = s.status /\ p.stack = st
    BY <2>3 DEF Good, Sane, ThreadType, HasMark
  <2> HIDE DEF p
  <2>5. Good(c) /\ Keeps(p, c)
    BY <2>4, UpdateCounterGood
  <2> HIDE DEF c
  <2>6. Good(w) /\ Keeps(c, w)
    BY <2>5, WriteLeaveGood
  <2> HIDE DEF w
  <2>7. level - 1 = Len(s.stack) + (-1)
    BY <2>2 DEF level
  <2>8. Moves(s, p, -1)
    BY <2>3, <2>4, <2>7 DEF Moves
  <2>9. Moves(s, w, -1)
    BY <2>3, <2>4, <2>5, <2>6, <2>7 DEF Keeps, Moves
  <2> QED
    BY <2>1, <2>4, <2>6, <2>8, <2>9
<1> QED
  BY <1>1, <1>2

LEMMA DefRegionGood ==
  ASSUME NEW s, Good(s), NEW n, NEW k
  PROVE  Good(vt_def_region(s, n, k)) /\ Keeps(s, vt_def_region(s, n, k))
<1> DEFINE d1 == WriteDef(s, k)
           d2 == IF n >= 2 THEN WriteDef(d1, k) ELSE d1
           d3 == IF n >= 3 THEN WriteDef(d2, k) ELSE d2
<1>1. Good(d1) /\ Keeps(s, d1)
  BY WriteDefGood
<1>2. Good(d2) /\ Keeps(s, d2)
  <2> HIDE DEF d1
  <2> QED BY <1>1, WriteDefGood DEF Keeps
<1>3. Good(d3) /\ Keeps(s, d3)
  <2> HIDE DEF d2
  <2> QED BY <1>2, WriteDefGood DEF Keeps
<1> QED
  BY <1>3 DEF vt_def_region

LEMMA WithTimeGood ==
  ASSUME NEW s, Good(s)
  PROVE  LET u == WithTime(s) IN
         /\ Good(u)
         /\ u.status = s.status
         /\ u.stack = s.stack
         /\ u.pos = s.pos
         /\ u.open = s.open
BY StaleSane DEF Good, WithTime

LEMMA TraceOffGood ==
  ASSUME NEW s, Good(s), NEW k
  PROVE  LET u == vt_trace_off(s, k) IN
         /\ Good(u)
         /\ \/ u.status = "PERMANENT"
            \/ /\ u.status = "OFF" /\ s.status # "PERMANENT"
               /\ Len(u.stack) = Len(s.stack) + 1
<1>1. CASE s.status = "PERMANENT"
  BY <1>1 DEF vt_trace_off
<1>2. CASE s.status # "PERMANENT"
  <2> DEFINE e == vt_enter(s, OFF, k)
             u == [e EXCEPT !.status = "OFF", !.offLevel = Len(e.stack)]
  <2>1. Good(e) /\ Moves(s, e, 1)
    BY EnterGood DEF RegionIds
  <2>2. vt_trace_off(s, k) = IF e.status = "ON" THEN u ELSE e
    BY <1>2 DEF vt_trace_off
  <2>3. s.status \in {"ON", "OFF", "PERMANENT"}
    BY DEF Good, Sane, ThreadType
  <2> HIDE DEF e
  <2>4. Len(e.stack) \in Nat
    BY <2>1 DEF Good, Sane, ThreadType
  <2>5. CASE e.status = "ON"
    <3>1. Good(u) /\ u.status = "OFF" /\ u.stack = e.stack
      BY <2>1, <2>4 DEF Good, Sane, ThreadType, HasMark
    <3> HIDE DEF u
    <3> QED
      BY <1>2, <2>1, <2>2, <2>5, <3>1 DEF Moves
  <2>6. CASE e.status # "ON"
    BY <1>2, <2>1, <2>2, <2>3, <2>6 DEF Moves
  <2> QED
    BY <2>5, <2>6
<1> QED
  BY <1>1, <1>2

LEMMA SetRewindMarkGood ==
  ASSUME NEW s, Good(s), NEW k
  PROVE  Good(vt_set_rewind_mark(s, k)) /\ Keeps(s, vt_set_rewind_mark(s, k))
<1> DEFINE l == [s EXCEPT !.markLevel = Len(s.stack)]
           c == UpdateCounter(l, k)
           u == [c EXCEPT !.markPos = c.pos, !.markDefs = 0, !.openMark = c.open]
<1>1. Len(s.stack) \in Nat
  BY DEF Good, Sane, ThreadType
<1>2. Good(l) /\ l.status = s.status /\ l.stack = s.stack
  BY <1>1 DEF Good, Sane, ThreadType, HasMark
<1>3. vt_set_rewind_mark(s, k) = u
  BY DEF vt_set_rewind_mark
<1> HIDE DEF l
<1>4. Good(c) /\ Keeps(l, c)
  BY <1>2, UpdateCounterGood
<1> HIDE DEF c
<1>5. c.pos \in Nat /\ c.open \in Seq(RegionIds)
  BY <1>4 DEF Good, Sane, ThreadType
<1>6. u \in ThreadType
  BY <1>4, <1>5 DEF Good, Sane, ThreadType
<1>7. Good(u) /\ u.status = c.status /\ u.stack = c.stack
  <2>1. /\ u.status = c.status /\ u.stack = c.stack /\ u.flushcntr = c.flushcntr
        /\ u.overflow = c.overflow /\ u.pos = c.pos /\ u.markPos = c.pos /\ u.markDefs = 0
    BY <1>4 DEF Good, Sane, ThreadType
  <2> HIDE DEF u
  <2>2. u.markPos + u.markDefs <= u.pos
    BY <1>5, <2>1
  <2> QED
    BY <1>4, <1>6, <2>1, <2>2 DEF Good, Sane
<1> HIDE DEF u
<1> QED
  BY <1>2, <1>3, <1>4, <1>7 DEF Keeps

LEMMA RewindGood ==
  ASSUME NEW s, Good(s), HasMark(s), NEW k
  PROVE  Good(vt_rewind(s, k)) /\ Keeps(s, vt_rewind(s, k))
<1> DEFINE q == s.markPos + s.markDefs
           r == [s EXCEPT !.pos = q, !.markPos = q, !.markDefs = 0, !.open = s.openMark]
           e == WriteEnter(r, REWIND, k)
           b == Full(r, EnterLeaveLen)
           x == [e EXCEPT !.stale = b]
           c == UpdateCounter(x, k)
           w == WriteLeave(c, k)
<1>1. q \in Nat /\ q <= s.pos /\ s.pos \in Nat /\ s.openMark \in Seq(RegionIds)
  BY DEF Good, Sane, ThreadType, HasMark
<1>2. VTGen_rewind(s) = r
  BY DEF VTGen_rewind
<1>3. vt_rewind(s, k) = IF x.status = "ON" THEN w ELSE x
  BY <1>2 DEF vt_rewind
<1>4. b \in BOOLEAN
  BY DEF Full
<1> HIDE DEF q, b
<1>5. Good(r) /\ r.status = s.status /\ r.stack = s.stack
  <2>1. r \in ThreadType
    BY <1>1 DEF Good, Sane, ThreadType
  <2>2. s.flushcntr > 0 => q <= Size
    BY <1>1, SizeFacts DEF Good
  <2>3. /\ r.status = s.status /\ r.stack = s.stack /\ r.flushcntr = s.flushcntr
        /\ r.overflow = s.overflow /\ r.pos = q /\ r.markPos = q /\ r.markDefs = 0
    BY DEF Good, Sane, ThreadType
  <2> HIDE DEF r
  <2>4. r.markPos + r.markDefs <= r.pos
    BY <1>1, <2>3
  <2> QED
    BY <2>1, <2>2, <2>3, <2>4 DEF Good, Sane
<1> HIDE DEF r
<1>6. Good(e) /\ Keeps(r, e)
  BY <1>5, WriteEnterGood DEF RegionIds
<1> HIDE DEF e
<1>7. Good(x) /\ x.status = e.status /\ x.stack = e.stack
  BY <1>4, <1>6, StaleSane DEF Good
<1> HIDE DEF x
<1>8. Good(c) /\ Keeps(x, c)
  BY <1>7, UpdateCounterGood
<1> HIDE DEF c
<1>9. Good(w) /\ Keeps(c, w)
  BY <1>8, WriteLeaveGood
<1> HIDE DEF w
<1> QED
  BY <1>3, <1>5, <1>6, <1>7, <1>8, <1>9 DEF Keeps

------------------------------------------------------------------------------
(* The inductive invariant: the type invariant and the three buffer properties
   need each other (the flush is safe only because the reserve was kept, the
   rewind keeps the reserve only because the mark lies inside the buffer), and
   the stack property needs nothing else but the status. *)
IInv == TypeOK /\ Good(t) /\ NoUnderflow

LEMMA InitIInv == Init => IInv
<1> SUFFICES ASSUME Init PROVE IInv
  OBVIOUS
<1>1. t \in ThreadType
  BY RegionsAssumption, LimitsAssumption DEF Init, ThreadType
<1>2. Good(t)
  BY <1>1, SizeFacts DEF Init, Good, Sane, HasMark
<1> QED
  BY <1>1, <1>2 DEF Init, IInv, TypeOK, NoUnderflow

LEMMA NextIInv == IInv /\ [Next]_vars => IInv'
<1> SUFFICES ASSUME IInv, [Next]_vars PROVE IInv'
  OBVIOUS
<1> DEFINE now == WithTime(t)
<1>0. /\ Good(now) /\ now.status = t.status /\ now.stack = t.stack
      /\ t.status \in {"ON", "OFF", "PERMANENT"} /\ t.stack \in Seq(Frame)
      /\ Len(t.stack) \in Nat /\ frames \in Nat
  <2>1. Good(now) /\ now.status = t.status /\ now.stack = t.stack
    BY WithTimeGood DEF IInv
  <2>2. t.status \in {"ON", "OFF", "PERMANENT"} /\ t.stack \in Seq(Frame) /\ frames \in Nat
    BY DEF IInv, ThreadType, TypeOK
  <2> QED
    BY <2>1, <2>2
\* A step that leaves the program where it is and keeps stack and status.
<1>a. ASSUME Good(t'), Keeps(t, t'), UNCHANGED <<frames, offAt, defined, safe>>,
             markAt' \in Nat \cup {-1}, phase' \in {"alive", "closed", "aborted"}
      PROVE  IInv'
  BY <1>a DEF IInv, TypeOK, NoUnderflow, Keeps, Good, Sane
<1> HIDE DEF now
<1>1. CASE UNCHANGED vars
  BY <1>1 DEF vars, IInv, TypeOK, NoUnderflow, Good, Sane, HasMark
<1>2. CASE Close
  <2> DEFINE c == IF t.flushcntr > 0 THEN t.flushcntr - 1 ELSE t.flushcntr
             u == [t EXCEPT !.pos = 0, !.flushcntr = c,
                            !.markPos = -1, !.markDefs = 0, !.openMark = << >>]
  <2>1. t' = u /\ c \in Nat /\ << >> \in Seq(RegionIds) /\ (t.flushcntr = 0 => c = 0)
    BY <1>2 DEF Close, ResetMark, IInv, Good, Sane, ThreadType
  <2> HIDE DEF c
  <2>2. u \in ThreadType
    BY <2>1 DEF IInv, Good, Sane, ThreadType
  <2>3. /\ u.status = t.status /\ u.stack = t.stack /\ u.flushcntr = c
        /\ u.overflow = t.overflow /\ u.pos = 0 /\ u.markPos = -1
    BY DEF IInv, Good, Sane, ThreadType
  <2> HIDE DEF u
  <2>4. Good(u) /\ Keeps(t, u)
    BY <2>1, <2>2, <2>3, SizeFacts DEF IInv, Good, Sane, HasMark, Keeps
  <2> QED
    BY <1>2, <1>a, <2>1, <2>4 DEF Close, ResetMark, IInv, TypeOK
<1>3. ASSUME NEW k \in 0 .. NumCounters, NEW r \in Regions, NEW n \in 1 .. 3,
             Enter(r, n, k)
      PROVE  IInv'
  <2> DEFINE d == IF r \in defined THEN now ELSE vt_def_region(now, n, k)
  <2>1. Good(d) /\ Keeps(now, d)
    BY <1>0, DefRegionGood DEF Keeps
  <2>2. t' = vt_enter(d, r, k)
    BY <1>3 DEF Enter, now
  <2> HIDE DEF d
  <2>3. Good(t') /\ Moves(d, t', 1)
    BY <2>1, <2>2, EnterGood DEF RegionIds
  <2>4. d.status = "PERMANENT" => t'.status = "PERMANENT"
    BY <2>3 DEF Moves
  <2>5. Moves(t, t', 1)
    BY <1>0, <2>1, <2>3, <2>4 DEF Keeps, Moves
  <2>6. frames' = frames + 1 /\ UNCHANGED <<offAt, markAt, phase, safe>>
        /\ defined' \subseteq Regions
    BY <1>3 DEF Enter, IInv, TypeOK
  <2>7. NoUnderflow'
    BY <1>0, <2>5, <2>6 DEF Moves, IInv, NoUnderflow
  <2> QED
    BY <1>0, <2>3, <2>6, <2>7 DEF IInv, TypeOK, Good, Sane
<1>4. ASSUME NEW k \in 0 .. NumCounters, Exit(k)
      PROVE  IInv'
  <2>1. frames > 0 /\ frames' = frames - 1 /\ UNCHANGED <<offAt, defined, safe>>
        /\ markAt' \in Nat \cup {-1}
    BY <1>4 DEF Exit, IInv, TypeOK
  <2>2. t.status = "PERMANENT" \/ t.stack # << >>
    BY <1>0, <2>1 DEF IInv, NoUnderflow
  <2>3. t' = vt_exit(now, k) /\ UNCHANGED phase
    BY <1>4, <2>2 DEF Exit, now
  <2>4. Good(t') /\ Moves(now, t', -1)
    BY <1>0, <2>2, <2>3, ExitGood
  <2>5. NoUnderflow'
    BY <1>0, <2>1, <2>4 DEF Moves, IInv, NoUnderflow
  <2> QED
    BY <1>0, <2>1, <2>3, <2>4, <2>5 DEF IInv, TypeOK, Good, Sane
<1>5. ASSUME NEW k \in 0 .. NumCounters, Event(k)
      PROVE  IInv'
  <2>1. t' = WriteEvent(now, k)
    BY <1>5 DEF Event, now
  <2>2. Good(t') /\ Keeps(t, t')
    BY <1>0, <2>1, WriteEventGood DEF Keeps
  <2> QED
    BY <1>5, <1>a, <2>2 DEF Event, IInv, TypeOK
<1>6. ASSUME NEW k \in 0 .. NumCounters, TraceOff(k)
      PROVE  IInv'
  <2>1. t' = vt_trace_off(now, k)
    BY <1>6 DEF TraceOff, now
  <2>2. /\ Good(t')
        /\ \/ t'.status = "PERMANENT"
           \/ /\ t'.status = "OFF" /\ t.status # "PERMANENT"
              /\ Len(t'.stack) = Len(t.stack) + 1
    BY <1>0, <2>1, TraceOffGood
  <2>3. UNCHANGED <<frames, markAt, defined, phase, safe>> /\ offAt' \in Nat
    BY <1>0, <1>6 DEF TraceOff, IInv, TypeOK
  <2>4. NoUnderflow'
    BY <1>0, <2>2, <2>3 DEF IInv, NoUnderflow
  <2> QED
    BY <2>2, <2>3, <2>4 DEF IInv, TypeOK, Good, Sane
<1>7. ASSUME NEW k \in 0 .. NumCounters, TraceOn(k)
      PROVE  IInv'
  <2>1. CASE Len(t.stack) # t.offLevel
    <3>1. UNCHANGED <<t, frames, offAt, markAt, defined, safe>> /\ phase' = "aborted"
      BY <1>7, <2>1 DEF TraceOn
    <3> QED
      BY <3>1 DEF IInv, TypeOK, NoUnderflow, Good, Sane, HasMark
  <2>2. CASE Len(t.stack) = t.offLevel
    <3> DEFINE on == [t EXCEPT !.status = "ON"]
               s  == WithTime(on)
    <3>1. t.status = "OFF" /\ t' = vt_exit(s, k)
          /\ UNCHANGED <<frames, offAt, markAt, defined, phase, safe>>
      BY <1>7, <2>2 DEF TraceOn
    <3>2. t.stack # << >>
      BY <1>0, <3>1 DEF IInv, NoUnderflow
    <3>3. Good(on) /\ on.status = "ON" /\ on.stack = t.stack
      BY <3>1 DEF IInv, Good, Sane, ThreadType, HasMark
    <3> HIDE DEF on
    <3>4. Good(s) /\ s.status = "ON" /\ s.stack = t.stack
      BY <3>3, WithTimeGood
    <3> HIDE DEF s
    <3>5. Good(t') /\ Moves(s, t', -1)
      BY <3>1, <3>2, <3>4, ExitGood
    <3>6. NoUnderflow'
      BY <1>0, <3>1, <3>4, <3>5 DEF Moves, IInv, NoUnderflow
    <3> QED
      BY <3>1, <3>5, <3>6 DEF IInv, TypeOK, Good, Sane
  <2> QED
    BY <2>1, <2>2
<1>8. ASSUME NEW k \in 0 .. NumCounters, BufferFlush(k)
      PROVE  IInv'
  <2>1. t' = Flush(now, FALSE, k)
    BY <1>8 DEF BufferFlush, now
  <2>2. Good(t') /\ Keeps(t, t')
    BY <1>0, <2>1, FlushGood DEF Keeps
  <2> QED
    BY <1>8, <1>a, <2>2 DEF BufferFlush, IInv, TypeOK
<1>9. ASSUME NEW k \in 0 .. NumCounters, SetRewindMark(k)
      PROVE  IInv'
  <2>1. t' = vt_set_rewind_mark(now, k)
    BY <1>9 DEF SetRewindMark, now
  <2>2. Good(t') /\ Keeps(t, t')
    BY <1>0, <2>1, SetRewindMarkGood DEF Keeps
  <2> QED
    BY <1>0, <1>9, <1>a, <2>2 DEF SetRewindMark, IInv, TypeOK
<1>10. ASSUME NEW k \in 0 .. NumCounters, Rewind(k)
       PROVE  IInv'
  <2>1. CASE Len(t.stack) # t.markLevel
    <3>1. UNCHANGED <<t, frames, offAt, markAt, defined, safe>> /\ phase' = "aborted"
      BY <1>10, <2>1 DEF Rewind
    <3> QED
      BY <3>1 DEF IInv, TypeOK, NoUnderflow, Good, Sane, HasMark
  <2>2. CASE Len(t.stack) = t.markLevel
    <3>1. t' = vt_rewind(now, k) /\ HasMark(t)
          /\ UNCHANGED <<frames, offAt, markAt, defined, phase, safe>>
      BY <1>10, <2>2 DEF Rewind, now
    <3>2. HasMark(now)
      BY <3>1 DEF HasMark, now, WithTime, IInv, TypeOK, ThreadType
    <3>3. Good(t') /\ Keeps(t, t')
      BY <1>0, <3>1, <3>2, RewindGood DEF Keeps
    <3> QED
      BY <1>a, <3>1, <3>3 DEF IInv, TypeOK
  <2> QED
    BY <2>1, <2>2
<1> QED
  BY <1>1, <1>2, <1>3, <1>4, <1>5, <1>6, <1>7, <1>8, <1>9, <1>10 DEF Next

\* The recording state keeps its type, for every program and configuration.
THEOREM TypeCorrect == Spec => []TypeOK
<1>1. Init => IInv
  BY InitIInv
<1>2. IInv /\ [Next]_vars => IInv'
  BY NextIInv
<1>3. IInv => TypeOK
  BY DEF IInv
<1> QED
  BY <1>1, <1>2, <1>3, PTL DEF Spec

\* No event record leaves the allocated buffer, the flush's reserve is kept
\* while another flush is allowed, a rewind mark lies inside the buffer, and
\* vt_exit never finds an empty call stack.
THEOREM BufferSafe == Spec => []BufferIntact
<1>1. Init => IInv
  BY InitIInv
<1>2. IInv /\ [Next]_vars => IInv'
  BY NextIInv
<1>3. IInv => BufferIntact
  BY DEF BufferIntact, IInv, Good, Sane, ThreadType, EventsFit, ReserveKept, MarkInBuffer, HasMark
<1> QED
  BY <1>1, <1>2, <1>3, PTL DEF Spec

------------------------------------------------------------------------------
(* Off for good. *)

\* The body of PermanentIsSilent, for a step to u.
Silent(u, n) ==
  /\ u.status = "PERMANENT"
  /\ u.open = t.open
  /\ u.stack = t.stack
  /\ u.pos = t.pos + n * DefLen

LEMMA PermanentDef ==
  ASSUME NEW s, Good(s), s.status = "PERMANENT", NEW k
  PROVE  LET u == WriteDef(s, k) IN
         /\ Good(u)
         /\ u.status = "PERMANENT"
         /\ u.open = s.open
         /\ u.stack = s.stack
         /\ u.pos = s.pos + DefLen
<1>1. s.flushcntr = 0
  BY DEF Good, Sane
<1>2. Flush(s, FALSE, k) = s
  BY <1>1 DEF Flush
<1>3. WriteDef(s, k) = AppendDef(s)
  BY <1>2 DEF WriteDef
<1>4. Good(WriteDef(s, k))
  BY WriteDefGood
<1> QED
  BY <1>3, <1>4, AppendDefSane DEF Good

LEMMA PermanentStep ==
  ASSUME IInv, t.status = "PERMANENT", [Next]_vars
  PROVE  /\ t'.status = "PERMANENT"
         /\ t'.open = t.open
         /\ t'.stack = t.stack
         /\ phase' = "alive" => \E n \in 0 .. 3 : t'.pos = t.pos + n * DefLen
<1> DEFINE now == WithTime(t)
           Goal == /\ t'.status = "PERMANENT"
                   /\ t'.open = t.open
                   /\ t'.stack = t.stack
                   /\ phase' = "alive" => \E n \in 0 .. 3 : t'.pos = t.pos + n * DefLen
<1>0. /\ Good(now) /\ now.status = "PERMANENT" /\ now.stack = t.stack
      /\ now.open = t.open /\ now.pos = t.pos /\ t.pos \in Nat
  <2>1. t.pos \in Nat
    BY DEF IInv, TypeOK, ThreadType
  <2> QED
    BY <2>1, WithTimeGood DEF IInv
<1>a. ASSUME NEW n \in 0 .. 3, Silent(t', n) PROVE Goal
  BY <1>a DEF Silent
<1>b. ASSUME t' = now \/ t' = t PROVE Goal
  <2>1. Silent(t', 0)
    BY <1>0, <1>b, SizeFacts DEF Silent
  <2> QED
    BY <2>1, <1>a
<1> HIDE DEF now, Goal
<1>1. CASE UNCHANGED vars
  BY <1>1, <1>b DEF vars, Goal
<1>2. CASE Close
  BY <1>2 DEF Close, ResetMark, IInv, TypeOK, ThreadType, Goal
<1>3. ASSUME NEW k \in 0 .. NumCounters, NEW r \in Regions, NEW n \in 1 .. 3,
             Enter(r, n, k)
      PROVE  Goal
  <2> DEFINE d1 == WriteDef(now, k)
             d2 == WriteDef(d1, k)
             d3 == WriteDef(d2, k)
             d  == IF r \in defined THEN now ELSE vt_def_region(now, n, k)
  <2>1. Good(d1) /\ Silent(d1, 1)
    BY <1>0, PermanentDef, SizeFacts DEF Silent
  <2>2. Good(d2) /\ Silent(d2, 2)
    <3> HIDE DEF d1
    <3> QED BY <1>0, <2>1, PermanentDef, SizeFacts DEF Silent
  <2>3. Good(d3) /\ Silent(d3, 3)
    <3> HIDE DEF d2
    <3> QED BY <1>0, <2>2, PermanentDef, SizeFacts DEF Silent
  <2>4. d \in {now, d1, d2, d3}
    BY DEF vt_def_region
  <2>5. t' = vt_enter(d, r, k)
    BY <1>3 DEF Enter, now
  <2> HIDE DEF d, d1, d2, d3
  <2>6. d.status = "PERMANENT"
    BY <1>0, <2>1, <2>2, <2>3, <2>4 DEF Silent
  <2>7. t' = d
    BY <2>5, <2>6 DEF vt_enter
  <2> QED
    BY <1>a, <1>b, <2>1, <2>2, <2>3, <2>4, <2>7
<1>4. ASSUME NEW k \in 0 .. NumCounters, Exit(k)
      PROVE  Goal
  <2>1. t' = vt_exit(now, k)
    BY <1>4 DEF Exit, now
  <2>2. t' = now
    BY <1>0, <2>1 DEF vt_exit
  <2> QED
    BY <1>b, <2>2
<1>5. ASSUME NEW k \in 0 .. NumCounters, TraceOff(k)
      PROVE  Goal
  <2>1. t' = vt_trace_off(now, k)
    BY <1>5 DEF TraceOff, now
  <2>2. t' = now
    BY <1>0, <2>1 DEF vt_trace_off
  <2> QED
    BY <1>b, <2>2
<1>6. ASSUME NEW k \in 0 .. NumCounters, BufferFlush(k)
      PROVE  Goal
  <2>1. t' = Flush(now, FALSE, k) /\ now.flushcntr = 0
    BY <1>0, <1>6 DEF BufferFlush, now, Good, Sane
  <2>2. t' = now
    BY <2>1 DEF Flush
  <2> QED
    BY <1>b, <2>2
<1>7. ASSUME NEW k \in 0 .. NumCounters,
             Event(k) \/ TraceOn(k) \/ SetRewindMark(k) \/ Rewind(k)
      PROVE  Goal
  BY <1>7 DEF Event, TraceOn, SetRewindMark, Rewind
<1> QED
  BY <1>1, <1>2, <1>3, <1>4, <1>5, <1>6, <1>7 DEF Next, Goal

\* After the flush limit is reached (or the rank is switched off for good), no
\* handler ever records an event, moves the call stack or switches tracing on
\* again: only definition records still arrive.
THEOREM SilentAfterLimit == Spec => PermanentIsSilent
<1>1. Init => IInv
  BY InitIInv
<1>2. IInv /\ [Next]_vars => IInv'
  BY NextIInv
<1>3. IInv /\ [Next]_vars =>
        [t.status = "PERMANENT" =>
           /\ t'.status = "PERMANENT"
           /\ t'.open = t.open
           /\ t'.stack = t.stack
           /\ phase' = "alive" => \E n \in 0 .. 3 : t'.pos = t.pos + n * DefLen]_vars
  BY PermanentStep
<1> QED
  BY <1>1, <1>2, <1>3, PTL DEF Spec, PermanentIsSilent


------------------------------------------------------------------------------
(* The steps of a handler one after the other. *)

\* Induction over the natural numbers, for a set of them.
LEMMA NaturalsBySet ==
  ASSUME NEW S, 0 \in S, \A n \in Nat : n \in S => n + 1 \in S
  PROVE  Nat \subseteq S
<1> DEFINE T == Nat \ S
<1>1. SUFFICES ASSUME T # {} PROVE FALSE
  OBVIOUS
<1>2. PICK m \in T : \A n \in T : ~(<<n, m>> \in OpToRel(<, Nat))
  BY <1>1, WFMin, NatLessThanWellFounded
<1>3. m \in Nat /\ m # 0 /\ m - 1 \in Nat
  OBVIOUS
<1>4. m - 1 \in T
  BY <1>3
<1>5. <<m - 1, m>> \in OpToRel(<, Nat)
  BY <1>3 DEF OpToRel
<1> QED
  BY <1>2, <1>4, <1>5

\* g[i] is the thread after the first i of the steps.
Runs(g, s, steps, k, n) ==
  /\ g[0] = s
  /\ \A i \in 1 .. n : g[i] = Step(g[i - 1], steps[i], k)

\* A handler makes its calls in their order.
LEMMA RunStepsIs ==
  ASSUME NEW s, NEW steps, Len(steps) \in Nat, NEW k
  PROVE  \E g : Runs(g, s, steps, k, Len(steps)) /\ RunSteps(s, steps, k) = g[Len(steps)]
<1> DEFINE L == Len(steps)
           Eq(F) == F = [i \in 0 .. Len(steps) |->
                           IF i = 0 THEN s ELSE Step(F[i - 1], steps[i], k)]
           C == CHOOSE F : Eq(F)
           S == {n \in Nat : \E g : Runs(g, s, steps, k, n)}
<1>1. RunSteps(s, steps, k) = C[Len(steps)]
  BY DEF RunSteps
<1>2. 0 \in S
  <2>1. Runs([i \in {0} |-> s], s, steps, k, 0)
    BY DEF Runs
  <2> QED
    BY <2>1
<1>3. ASSUME NEW n \in Nat, n \in S PROVE n + 1 \in S
  <2>1. PICK g : Runs(g, s, steps, k, n)
    BY <1>3
  <2> DEFINE h == [i \in 0 .. n + 1 |-> IF i = n + 1 THEN Step(g[n], steps[n + 1], k) ELSE g[i]]
  <2>2. h[0] = s
    BY <2>1 DEF Runs
  <2>3. ASSUME NEW i \in 1 .. n + 1 PROVE h[i] = Step(h[i - 1], steps[i], k)
    <3>1. CASE i = n + 1
      BY <3>1
    <3>2. CASE i # n + 1
      <4>1. i \in 1 .. n /\ i \in 0 .. n + 1 /\ i - 1 \in 0 .. n + 1 /\ i - 1 # n + 1
        BY <3>2
      <4>2. h[i] = g[i] /\ h[i - 1] = g[i - 1]
        BY <3>2, <4>1
      <4> HIDE DEF h
      <4> QED
        BY <2>1, <4>1, <4>2 DEF Runs
    <3> QED
      BY <3>1, <3>2
  <2> HIDE DEF h
  <2>4. Runs(h, s, steps, k, n + 1)
    BY <2>2, <2>3 DEF Runs
  <2> QED
    BY <2>4
<1>4. PICK g : Runs(g, s, steps, k, L)
  <2> HIDE DEF S
  <2>1. Nat \subseteq S
    BY <1>2, <1>3, NaturalsBySet
  <2> QED
    BY <2>1 DEF S
<1> DEFINE G == [i \in 0 .. L |-> g[i]]
<1>5. Eq(G)
  <2> DEFINE H == [i \in 0 .. L |-> IF i = 0 THEN s ELSE Step(G[i - 1], steps[i], k)]
  <2>1. ASSUME NEW i \in 0 .. L PROVE G[i] = H[i]
    <3>1. CASE i = 0
      BY <1>4, <3>1 DEF Runs
    <3>2. CASE i # 0
      <4>1. i \in 1 .. L /\ i - 1 \in 0 .. L
        BY <3>2
      <4> QED
        BY <1>4, <3>2, <4>1 DEF Runs
    <3> QED
      BY <3>1, <3>2
  <2> HIDE DEF L
  <2> QED
    BY <2>1 DEF L
<1>6. Eq(C)
  <2> HIDE DEF Eq, G
  <2> QED
    BY <1>5
<1>7. Runs(C, s, steps, k, L)
  <2> HIDE DEF C
  <2>1. C[0] = s
    BY <1>6
  <2>2. ASSUME NEW i \in 1 .. L PROVE C[i] = Step(C[i - 1], steps[i], k)
    BY <1>6
  <2> QED
    BY <2>1, <2>2 DEF Runs
<1> QED
  BY <1>1, <1>7

------------------------------------------------------------------------------
(* What one step does to the buffer and the call stack. *)

\* A record of any length the buffer can hold is written behind a flush, or is
\* dropped after the last one.
LEMMA WriteRecordGood ==
  ASSUME NEW s, Good(s), NEW len \in 1 .. Size, NEW k
  PROVE  Good(WriteRecord(s, len, k)) /\ Keeps(s, WriteRecord(s, len, k))
<1> DEFINE f == IF Full(s, len) THEN Flush(s, TRUE, k) ELSE s
           drop == Full(s, len) /\ f.flushcntr = 0
<1>0. len \in Nat /\ 1 <= len /\ len <= Size
  BY SizeFacts
<1>1. Good(f) /\ Keeps(s, f) /\ (~drop => f.pos + len <= Size)
  <2>1. CASE Full(s, len)
    <3> DEFINE g == Flush(s, TRUE, k)
    <3>1. Good(g) /\ Keeps(s, g) /\ (g.flushcntr = 0 \/ g.pos = 0)
      BY FlushGood
    <3>2. f = g
      BY <2>1
    <3> HIDE DEF g, f
    <3> QED
      BY <1>0, <2>1, <3>1, <3>2, SizeFacts
  <2>2. CASE ~Full(s, len)
    BY <1>0, <2>2, SizeFacts DEF Full, Good, Sane, ThreadType, Keeps
  <2> QED
    BY <2>1, <2>2
<1>2. WriteRecord(s, len, k) = IF drop THEN f ELSE AppendEvent(f, len)
  BY DEF WriteRecord
<1> HIDE DEF f, drop
<1>3. ~drop => f.pos + len <= BufferSize
  <2>1. f.pos \in Nat
    BY <1>1 DEF Good, Sane, ThreadType
  <2> QED
    BY <1>0, <1>1, <2>1, SizeFacts
<1>4. CASE drop
  BY <1>1, <1>2, <1>4
<1>5. CASE ~drop
  <2> DEFINE u == AppendEvent(f, len)
  <2>1. Sane(u) /\ u.pos = f.pos + len /\ u.status = f.status /\ u.stack = f.stack
    BY <1>0, <1>1, <1>3, <1>5, AppendEventSane, SizeFacts DEF Good
  <2>2. WriteRecord(s, len, k) = u
    BY <1>2, <1>5
  <2> HIDE DEF u
  <2> QED
    BY <1>1, <1>5, <2>1, <2>2 DEF Good, Keeps
<1> QED
  BY <1>4, <1>5

\* A step that writes a record has its length; these steps leave the call stack
\* and the recorded one alone.
Neutral(step) ==
  /\ step.op \in {"time", "def", "record", "ifOn", "flush"}
  /\ step.op \in {"record", "ifOn"} => step.len \in 1 .. Size

\* Such a step keeps the reserve of the buffer and the call stack.
LEMMA NeutralStep ==
  ASSUME NEW s, Good(s), NEW step, Neutral(step), NEW k
  PROVE  Good(Step(s, step, k)) /\ Keeps(s, Step(s, step, k))
<1>1. CASE step.op = "time"
  BY <1>1, WithTimeGood DEF Step, Keeps
<1>2. CASE step.op = "def"
  BY <1>2, WriteDefGood DEF Step
<1>3. CASE step.op = "record" \/ (step.op = "ifOn" /\ s.status = "ON")
  <2>1. step.len \in 1 .. Size
    BY <1>3 DEF Neutral
  <2>2. Step(s, step, k) = WriteRecord(s, step.len, k)
    BY <1>3 DEF Step
  <2> QED
    BY <2>1, <2>2, WriteRecordGood
<1>4. CASE step.op = "ifOn" /\ s.status # "ON"
  BY <1>4 DEF Step, Keeps
<1>5. CASE step.op = "flush"
  BY <1>5, FlushGood DEF Step
<1> QED
  BY <1>1, <1>2, <1>3, <1>4, <1>5 DEF Neutral

\* The dump of the statistics enters and leaves its region without the call stack.
LEMMA StatGood ==
  ASSUME NEW s, Good(s), NEW step, step.op \in {"enterStat", "exitStat"}, NEW k
  PROVE  Good(Step(s, step, k)) /\ Keeps(s, Step(s, step, k))
<1>1. CASE step.op = "enterStat"
  <2> DEFINE e == WriteEnter(s, STAT, k)
  <2>1. Good(e) /\ Keeps(s, e)
    BY WriteEnterGood DEF RegionIds
  <2>2. Step(s, step, k) = IF s.status = "ON" THEN UpdateCounter(e, k) ELSE s
    BY <1>1 DEF Step, vt_enter_stat
  <2> HIDE DEF e
  <2>3. Good(UpdateCounter(e, k)) /\ Keeps(e, UpdateCounter(e, k))
    BY <2>1, UpdateCounterGood
  <2> QED
    BY <2>1, <2>2, <2>3 DEF Keeps
<1>2. CASE step.op = "exitStat"
  <2> DEFINE c == UpdateCounter(s, k)
  <2>1. Good(c) /\ Keeps(s, c)
    BY UpdateCounterGood
  <2>2. Step(s, step, k) = IF s.status = "ON" THEN WriteLeave(c, k) ELSE s
    BY <1>2 DEF Step, vt_exit_stat
  <2> HIDE DEF c
  <2>3. Good(WriteLeave(c, k)) /\ Keeps(c, WriteLeave(c, k))
    BY <2>1, WriteLeaveGood
  <2> QED
    BY <2>1, <2>2, <2>3 DEF Keeps
<1> QED
  BY <1>1, <1>2

\* A region that a handler enters is left by the same means.
Pair(enter, exit) ==
  \/ enter.op = "enter" /\ enter.rid \in RegionIds /\ exit.op = "exit"
  \/ enter.op = "enterStat" /\ exit.op = "exitStat"

\* A handler enters one region at most, and leaves it with its last call.
Balanced(steps) ==
  /\ Len(steps) \in Nat
  /\ \/ \A j \in 1 .. Len(steps) : Neutral(steps[j])
     \/ \E i \in 1 .. Len(steps) :
          /\ i < Len(steps)
          /\ Pair(steps[i], steps[Len(steps)])
          /\ \A j \in 1 .. Len(steps) : j # i /\ j # Len(steps) => Neutral(steps[j])

\* The call stack of a thread has a length.
LEMMA StackLength ==
  ASSUME NEW s, Good(s)
  PROVE  Len(s.stack) \in Nat /\ (Len(s.stack) # 0 => s.stack # << >>)
<1>1. s.stack \in Seq(Frame)
  BY DEF Good, Sane, ThreadType
<1>2. Len(s.stack) \in Nat
  BY <1>1
<1>3. s.stack = << >> => Len(s.stack) = 0
  OBVIOUS
<1> QED
  BY <1>2, <1>3

\* Moves of the call stack one after the other add up.
LEMMA MovesAdd ==
  ASSUME NEW s, NEW u, NEW v, NEW c \in Int, NEW d \in Int,
         Len(s.stack) \in Nat, Moves(s, u, c), Moves(u, v, d)
  PROVE  Moves(s, v, c + d)
<1> DEFINE x == Len(s.stack)
<1>1. (x + c) + d = x + (c + d)
  <2>1. x \in Int
    OBVIOUS
  <2> HIDE DEF x
  <2> QED
    BY <2>1
<1>2. CASE v.status = "PERMANENT"
  BY <1>2 DEF Moves
<1>3. CASE v.status # "PERMANENT"
  BY <1>1, <1>3 DEF Moves
<1> QED
  BY <1>2, <1>3

\* What holds after the calls of a handler: A between the handlers, and B while
\* the handler is in a region of its own.
LEMMA HandlerRuns ==
  ASSUME NEW A, NEW s \in A, NEW steps, Balanced(steps), NEW k,
         \A u \in A : \A step : Neutral(step) => Step(u, step, k) \in A,
         \A e, x : Pair(e, x) =>
           \E B : /\ \A u \in A : Step(u, e, k) \in B
                  /\ \A u \in B : \A step : Neutral(step) => Step(u, step, k) \in B
                  /\ \A u \in B : Step(u, x, k) \in A
  PROVE  RunSteps(s, steps, k) \in A
<1> DEFINE L == Len(steps)
<1>0. L \in Nat
  BY DEF Balanced
<1>1. PICK g : Runs(g, s, steps, k, L) /\ RunSteps(s, steps, k) = g[L]
  BY RunStepsIs DEF Balanced
<1>2. g[0] = s /\ \A j \in 1 .. L : g[j] = Step(g[j - 1], steps[j], k)
  BY <1>1 DEF Runs
<1> HIDE DEF L
<1>3. CASE \A j \in 1 .. L : Neutral(steps[j])
  <2> DEFINE S == {j \in Nat : j <= L => g[j] \in A}
  <2>1. 0 \in S
    BY <1>2
  <2>2. ASSUME NEW j \in Nat, j \in S PROVE j + 1 \in S
    <3> SUFFICES ASSUME j + 1 <= L PROVE g[j + 1] \in A
      OBVIOUS
    <3>1. j + 1 \in 1 .. L /\ (j + 1) - 1 = j /\ j <= L
      BY <1>0
    <3>2. g[j + 1] = Step(g[j], steps[j + 1], k)
      BY <1>2, <3>1
    <3> QED
      BY <1>3, <2>2, <3>1, <3>2
  <2>3. L \in S
    <3> HIDE DEF S
    <3> QED
      BY <1>0, <2>1, <2>2, NaturalsBySet
  <2> QED
    BY <1>1, <2>3 DEF L
<1>4. CASE \E i \in 1 .. L :
             /\ i < L
             /\ Pair(steps[i], steps[L])
             /\ \A j \in 1 .. L : j # i /\ j # L => Neutral(steps[j])
  <2>1. PICK i \in 1 .. L :
             /\ i < L
             /\ Pair(steps[i], steps[L])
             /\ \A j \in 1 .. L : j # i /\ j # L => Neutral(steps[j])
    BY <1>4
  <2>2. PICK B : /\ \A u \in A : Step(u, steps[i], k) \in B
                 /\ \A u \in B : \A step : Neutral(step) => Step(u, step, k) \in B
                 /\ \A u \in B : Step(u, steps[L], k) \in A
    BY <2>1
  <2> DEFINE S == {j \in Nat : j < L => IF j < i THEN g[j] \in A ELSE g[j] \in B}
  <2>3. 0 \in S
    BY <1>2
  <2>4. ASSUME NEW j \in Nat, j \in S PROVE j + 1 \in S
    <3> DEFINE n == j + 1
    <3> SUFFICES ASSUME n < L PROVE IF n < i THEN g[n] \in A ELSE g[n] \in B
      OBVIOUS
    <3>1. n \in 1 .. L /\ n - 1 = j /\ j < L /\ n # L /\ n \in Nat
      BY <1>0
    <3>2. g[n] = Step(g[j], steps[n], k)
      BY <1>2, <3>1
    <3>3. IF j < i THEN g[j] \in A ELSE g[j] \in B
      BY <2>4, <3>1
    <3>4. (n # i) => Neutral(steps[n])
      BY <2>1, <3>1
    <3>5. CASE n < i
      <4>1. j < i /\ n # i
        BY <3>1, <3>5
      <4>2. g[n] \in A
        BY <3>2, <3>3, <3>4, <4>1
      <4> QED
        BY <3>5, <4>2
    <3>6. CASE n = i
      <4>1. j < i
        BY <3>1, <3>6
      <4>2. g[n] \in B
        BY <2>2, <3>2, <3>3, <3>6, <4>1
      <4> QED
        BY <3>6, <4>2
    <3>7. CASE ~(n < i) /\ n # i
      <4>1. ~(j < i)
        BY <3>1, <3>7
      <4>2. g[n] \in B
        BY <2>2, <3>2, <3>3, <3>4, <3>7, <4>1
      <4> QED
        BY <3>7, <4>2
    <3> HIDE DEF n
    <3> QED
      BY <3>5, <3>6, <3>7
  <2>5. L - 1 \in Nat /\ L - 1 < L /\ ~(L - 1 < i) /\ L \in 1 .. L
    BY <1>0, <2>1
  <2>6. L - 1 \in S
    <3> HIDE DEF S
    <3> QED
      BY <2>3, <2>4, <2>5, NaturalsBySet
  <2>7. g[L - 1] \in B
    BY <2>5, <2>6
  <2>8. g[L] = Step(g[L - 1], steps[L], k)
    BY <1>2, <2>5
  <2> QED
    BY <1>1, <2>2, <2>7, <2>8 DEF L
<1> QED
  BY <1>3, <1>4 DEF Balanced, L

\* Any handler leaves the buffer intact, and the call stack as it found it.
LEMMA HandlerGood ==
  ASSUME NEW s, Good(s), NEW steps, Balanced(steps), NEW k
  PROVE  Good(RunSteps(s, steps, k)) /\ Moves(s, RunSteps(s, steps, k), 0)
<1> DEFINE Level(n) == {u \in ThreadType : Good(u) /\ Moves(s, u, n)}
<1>1. Len(s.stack) \in Nat
  BY StackLength
<1>2. s \in Level(0)
  BY <1>1 DEF Good, Sane, Moves
<1>3. ASSUME NEW n \in Int, NEW u \in Level(n), NEW step,
             Neutral(step) \/ step.op \in {"enterStat", "exitStat"}
      PROVE  Step(u, step, k) \in Level(n)
  <2>1. Good(Step(u, step, k)) /\ Keeps(u, Step(u, step, k))
    BY <1>3, NeutralStep, StatGood
  <2>2. Step(u, step, k) \in ThreadType
    BY <2>1 DEF Good, Sane
  <2>3. Moves(s, Step(u, step, k), n)
    BY <1>3, <2>1 DEF Keeps, Moves
  <2> QED
    BY <2>1, <2>2, <2>3
<1>4. ASSUME NEW u \in Level(0), NEW e, e.op = "enter", e.rid \in RegionIds
      PROVE  Step(u, e, k) \in Level(1)
  <2> DEFINE v == vt_enter(u, e.rid, k)
  <2>1. Step(u, e, k) = v
    BY <1>4 DEF Step
  <2>2. Good(v) /\ Moves(u, v, 1)
    BY <1>4, EnterGood
  <2> HIDE DEF v
  <2>3. Moves(s, v, 0 + 1)
    BY <1>1, <1>4, <2>2, MovesAdd
  <2> QED
    BY <2>1, <2>2, <2>3 DEF Good, Sane
<1>5. ASSUME NEW u \in Level(1), NEW x, x.op = "exit"
      PROVE  Step(u, x, k) \in Level(0)
  <2> DEFINE v == vt_exit(u, k)
  <2>1. Step(u, x, k) = v
    BY <1>5 DEF Step
  <2>2. u.status = "PERMANENT" \/ u.stack # << >>
    <3>1. u.status = "PERMANENT" \/ Len(u.stack) = Len(s.stack) + 1
      BY <1>5 DEF Moves
    <3>2. Len(s.stack) + 1 # 0
      BY <1>1
    <3> QED
      BY <1>5, <3>1, <3>2, StackLength
  <2>3. Good(v) /\ Moves(u, v, -1)
    BY <1>5, <2>2, ExitGood
  <2> HIDE DEF v
  <2>4. Moves(s, v, 1 + (-1))
    BY <1>1, <1>5, <2>3, MovesAdd
  <2> QED
    BY <2>1, <2>3, <2>4 DEF Good, Sane
<1> DEFINE A == Level(0)
<1>6. ASSUME NEW e, NEW x, Pair(e, x)
      PROVE  \E B : /\ \A u \in A : Step(u, e, k) \in B
                    /\ \A u \in B : \A step : Neutral(step) => Step(u, step, k) \in B
                    /\ \A u \in B : Step(u, x, k) \in A
  <2> HIDE DEF Level
  <2>1. CASE e.op = "enter" /\ e.rid \in RegionIds /\ x.op = "exit"
    <3>1. \A u \in A : Step(u, e, k) \in Level(1)
      BY <1>4, <2>1
    <3>2. \A u \in Level(1) : \A step : Neutral(step) => Step(u, step, k) \in Level(1)
      BY <1>3
    <3>3. \A u \in Level(1) : Step(u, x, k) \in A
      BY <1>5, <2>1
    <3> QED
      BY <3>1, <3>2, <3>3
  <2>2. CASE e.op = "enterStat" /\ x.op = "exitStat"
    <3>1. \A u \in A : Step(u, e, k) \in A
      BY <1>3, <2>2
    <3>2. \A u \in A : \A step : Neutral(step) => Step(u, step, k) \in A
      BY <1>3
    <3>3. \A u \in A : Step(u, x, k) \in A
      BY <1>3, <2>2
    <3> QED
      BY <3>1, <3>2, <3>3
  <2> QED
    BY <1>6, <2>1, <2>2 DEF Pair
<1>7. \A u \in A : \A step : Neutral(step) => Step(u, step, k) \in A
  BY <1>3
<1>8. RunSteps(s, steps, k) \in A
  <2> HIDE DEF A
  <2> QED
    BY <1>2, <1>6, <1>7, HandlerRuns DEF A
<1> QED
  BY <1>8

------------------------------------------------------------------------------
(* The handlers are such sequences. *)

Neutrals == {step \in {Time, Def, [op |-> "flush"]}
                      \cup {Record(len) : len \in 1 .. Size}
                      \cup {RecordIfOn(kind) : kind \in Kinds} : Neutral(step)}

\* The records, definitions and time stamps that the handlers are made of.
LEMMA NeutralsAre ==
  /\ {Time, Def, [op |-> "flush"]} \subseteq Neutrals
  /\ \A len \in 1 .. Size : Record(len) \in Neutrals
  /\ \A kind \in Kinds : Record(RecordLen[kind]) \in Neutrals /\ RecordIfOn(kind) \in Neutrals
<1>1. ASSUME NEW len \in 1 .. Size PROVE Record(len) \in Neutrals
  <2>1. Record(len).op = "record" /\ Record(len).len = len
    BY DEF Record
  <2>2. Neutral(Record(len))
    BY <2>1 DEF Neutral
  <2>3. Record(len) \in {Record(l) : l \in 1 .. Size}
    OBVIOUS
  <2> QED
    BY <2>2, <2>3 DEF Neutrals
<1>2. \A kind \in Kinds : RecordLen[kind] \in 1 .. Size
  BY RecordAssumption
<1>3. \A kind \in Kinds : RecordIfOn(kind) \in Neutrals
  BY <1>2 DEF Neutrals, Neutral, RecordIfOn
<1>4. {Time, Def, [op |-> "flush"]} \subseteq Neutrals
  BY DEF Neutrals, Neutral, Time, Def
<1> QED
  BY <1>1, <1>2, <1>3, <1>4

\* Sequences without an entered region.
LEMMA NeutralSequence ==
  ASSUME NEW steps \in Seq(Neutrals)
  PROVE  Balanced(steps)
<1>1. \A step \in Neutrals : Neutral(step)
  BY DEF Neutrals
<1> HIDE DEF Neutrals
<1>2. Len(steps) \in Nat /\ \A j \in 1 .. Len(steps) : steps[j] \in Neutrals
  OBVIOUS
<1> QED
  BY <1>1, <1>2 DEF Balanced

\* A handler whose second part is a region that it enters, with its last call
\* the exit.
LEMMA WrappedSequence ==
  ASSUME NEW a \in Seq(Neutrals), NEW b \in Seq(Neutrals),
         NEW e, NEW x, Pair(e, x), NEW steps, steps = (a \o (<<e>> \o b)) \o <<x>>
  PROVE  Balanced(steps)
<1> DEFINE S == Neutrals \cup {e, x}
           c == <<e>> \o b
           d == a \o c
           m == Len(a)
           n == Len(b)
<1>1. \A step \in Neutrals : Neutral(step)
  BY DEF Neutrals
<1> HIDE DEF Neutrals
<1>2. /\ a \in Seq(S) /\ b \in Seq(S) /\ <<e>> \in Seq(S) /\ <<x>> \in Seq(S)
      /\ Len(<<e>>) = 1 /\ Len(<<x>>) = 1 /\ <<e>>[1] = e /\ <<x>>[1] = x
      /\ m \in Nat /\ n \in Nat
      /\ \A j \in 1 .. m : Neutral(a[j])
      /\ \A j \in 1 .. n : Neutral(b[j])
  BY <1>1
<1> HIDE DEF S
<1>3. /\ c \in Seq(S) /\ Len(c) = 1 + n
      /\ \A j \in 1 .. 1 + n : c[j] = IF j <= 1 THEN <<e>>[j] ELSE b[j - 1]
  BY <1>2, ConcatProperties
<1> HIDE DEF c
<1>4. /\ d \in Seq(S) /\ Len(d) = m + (1 + n)
      /\ \A j \in 1 .. m + (1 + n) : d[j] = IF j <= m THEN a[j] ELSE c[j - m]
  <2>1. /\ d \in Seq(S) /\ Len(d) = Len(a) + Len(c)
        /\ \A j \in 1 .. Len(a) + Len(c) : d[j] = IF j <= Len(a) THEN a[j] ELSE c[j - Len(a)]
    BY <1>2, <1>3, ConcatProperties
  <2> HIDE DEF d, m, n
  <2>2. Len(a) + Len(c) = m + (1 + n) /\ m = Len(a)
    BY <1>3 DEF m
  <2> QED
    BY <2>1, <2>2
<1> HIDE DEF d
<1>5. /\ Len(steps) = (m + (1 + n)) + 1
      /\ \A j \in 1 .. (m + (1 + n)) + 1 :
            steps[j] = IF j <= m + (1 + n) THEN d[j] ELSE <<x>>[j - (m + (1 + n))]
  <2>1. steps = d \o <<x>>
    BY DEF d, c
  <2>2. /\ Len(steps) = Len(d) + Len(<<x>>)
        /\ \A j \in 1 .. Len(d) + Len(<<x>>) :
             steps[j] = IF j <= Len(d) THEN d[j] ELSE <<x>>[j - Len(d)]
    <3> DEFINE y == <<x>>
    <3>1. d \in Seq(S) /\ y \in Seq(S) /\ steps = d \o y
      BY <1>2, <1>4, <2>1
    <3> HIDE DEF y, m, n
    <3>2. /\ Len(d \o y) = Len(d) + Len(y)
          /\ \A j \in 1 .. Len(d) + Len(y) :
               (d \o y)[j] = IF j <= Len(d) THEN d[j] ELSE y[j - Len(d)]
      BY <3>1, ConcatProperties
    <3>3. /\ Len(steps) = Len(d) + Len(y)
          /\ \A j \in 1 .. Len(d) + Len(y) :
               steps[j] = IF j <= Len(d) THEN d[j] ELSE y[j - Len(d)]
      BY <3>1, <3>2, Zenon
    <3> QED
      BY <3>3 DEF y
  <2> HIDE DEF m, n
  <2>3. Len(d) = m + (1 + n) /\ Len(d) + Len(<<x>>) = (m + (1 + n)) + 1
    BY <1>2, <1>4
  <2> QED
    BY <2>2, <2>3
<1> HIDE DEF m, n
<1>6. steps[m + 1] = e
  <2>1. m + 1 \in 1 .. (m + (1 + n)) + 1 /\ m + 1 \in 1 .. m + (1 + n) /\ (m + 1) - m = 1
        /\ 1 \in 1 .. 1 + n /\ m + 1 <= m + (1 + n) /\ ~(m + 1 <= m)
    BY <1>2
  <2>2. steps[m + 1] = d[m + 1]
    BY <1>5, <2>1
  <2>3. d[m + 1] = c[1]
    BY <1>4, <2>1
  <2>4. c[1] = <<e>>[1]
    <3>1. 1 \in 1 .. 1 + n /\ 1 <= 1
      BY <2>1
    <3> QED
      BY <1>3, <3>1
  <2> QED
    BY <1>2, <2>2, <2>3, <2>4
<1>7. steps[Len(steps)] = x
  <2>1. /\ (m + (1 + n)) + 1 \in 1 .. (m + (1 + n)) + 1
        /\ ~((m + (1 + n)) + 1 <= m + (1 + n))
        /\ ((m + (1 + n)) + 1) - (m + (1 + n)) = 1
    BY <1>2
  <2> QED
    BY <1>2, <1>5, <2>1
<1>8. ASSUME NEW j \in 1 .. Len(steps), j # m + 1, j # Len(steps) PROVE Neutral(steps[j])
  <2>1. j \in 1 .. (m + (1 + n)) + 1 /\ j \in 1 .. m + (1 + n) /\ j <= m + (1 + n)
    <3>1. j \in 1 .. (m + (1 + n)) + 1 /\ j # (m + (1 + n)) + 1
      BY <1>5, <1>8
    <3> QED
      BY <1>2, <3>1
  <2>2. CASE j <= m
    <3>1. j \in 1 .. m
      BY <1>2, <2>1, <2>2
    <3>2. steps[j] = d[j]
      BY <1>5, <2>1
    <3>3. d[j] = a[j]
      BY <1>4, <2>1, <2>2
    <3> QED
      BY <1>2, <3>1, <3>2, <3>3
  <2>3. CASE ~(j <= m)
    <3>1. j - m \in 1 .. 1 + n /\ ~(j - m <= 1) /\ (j - m) - 1 \in 1 .. n
      BY <1>2, <1>8, <2>1, <2>3
    <3>2. steps[j] = d[j] /\ d[j] = c[j - m]
      BY <1>4, <1>5, <2>1, <2>3
    <3>3. c[j - m] = b[(j - m) - 1]
      BY <1>3, <3>1
    <3> QED
      BY <1>2, <3>1, <3>2, <3>3
  <2> QED
    BY <2>2, <2>3
<1>9. Len(steps) \in Nat /\ m + 1 \in 1 .. Len(steps) /\ m + 1 < Len(steps)
  BY <1>2, <1>5
<1> QED
  BY <1>6, <1>7, <1>8, <1>9 DEF Balanced

\* Every sequence of calls that a handler may make is of this kind.
LEMMA HandlersBalanced ==
  ASSUME NEW steps \in Handlers
  PROVE  Balanced(steps)
<1> DEFINE N == Neutrals
<1>1. /\ Time \in N /\ Def \in N /\ [op |-> "flush"] \in N
      /\ \A kind \in Kinds : Record(RecordLen[kind]) \in N /\ RecordIfOn(kind) \in N
  BY NeutralsAre
<1>2. \A kinds \in SUBSET Kinds : \A len \in Lengths(kinds) : Record(len) \in N
  BY <1>1 DEF Lengths
<1>3. /\ EventKinds \subseteq Kinds /\ SummaryKinds \subseteq Kinds
      /\ MessageKinds \subseteq Kinds /\ FileKinds \subseteq Kinds /\ RMAKinds \subseteq Kinds
      /\ {"Counter", "Comment", "Marker", "BeginCollectiveOperation",
          "EndCollectiveOperation"} \subseteq Kinds
      /\ {"MessageSummary", "CollectiveOperationSummary"} \subseteq Kinds
  BY DEF Kinds, EventKinds, SummaryKinds, MessageKinds, FileKinds, RMAKinds, TextKinds
<1> HIDE DEF N
<1>4. ASSUME NEW kind \in Kinds, NEW dump \in CheckDump(kind), NEW a \in Seq(N)
      PROVE  Balanced(a \o dump)
  <2>1. CASE dump = << >>
    <3>1. a \o dump = a
      BY <2>1, ConcatEmptySeq
    <3> QED
      BY <3>1, NeutralSequence DEF N
  <2>2. CASE dump # << >>
    <3> DEFINE e == [op |-> "enterStat"]
               x == [op |-> "exitStat"]
               S == N \cup {e, x}
    <3>1. PICK n \in 0 .. MaxStatistics : dump = VTSum_dump(kind, n)
      BY <2>2 DEF CheckDump
    <3> DEFINE w == VTGen_write_SUMMARY(kind, n)
               b == w \o <<Time>>
               p == a \o <<Time>>
    <3>2. w \in Seq(N)
      <4>1. n \in Nat
        BY RecordAssumption
      <4>2. w \in [1 .. n -> N]
        BY <1>1 DEF VTGen_write_SUMMARY
      <4> HIDE DEF w
      <4> QED
        BY <4>1, <4>2
    <3>3. dump = (<<Time, e>> \o w) \o <<Time, x>>
      BY <3>1 DEF VTSum_dump
    <3>4. <<Time, e>> = <<Time>> \o <<e>> /\ <<Time, x>> = <<Time>> \o <<x>>
      OBVIOUS
    <3>5. Pair(e, x)
      BY DEF Pair
    <3> HIDE DEF w
    <3>6. <<Time>> \in Seq(N) /\ p \in Seq(N) /\ b \in Seq(N)
      <4>1. <<Time>> \in Seq(N)
        BY <1>1
      <4> QED
        BY <3>2, <4>1, ConcatProperties
    <3>7. <<Time>> \in Seq(S) /\ a \in Seq(S) /\ w \in Seq(S) /\ <<e>> \in Seq(S)
          /\ <<x>> \in Seq(S)
      BY <1>1, <3>2
    <3> HIDE DEF S, e, x
    <3>8. (<<Time, e>> \o w) \o <<Time, x>> = ((<<Time, e>> \o w) \o <<Time>>) \o <<x>>
      <4>1. <<Time, e>> \o w \in Seq(S)
        BY <3>4, <3>7, ConcatProperties
      <4> QED
        BY <3>4, <3>7, <4>1, ConcatAssociative
    <3>9. (<<Time, e>> \o w) \o <<Time>> = <<Time>> \o (<<e>> \o b)
      <4>1. <<Time, e>> \in Seq(S)
        BY <3>4, <3>7, ConcatProperties
      <4>2. (<<Time, e>> \o w) \o <<Time>> = <<Time, e>> \o b
        BY <3>7, <4>1, ConcatAssociative
      <4>3. b \in Seq(S)
        BY <3>7, ConcatProperties
      <4> HIDE DEF b
      <4>4. (<<Time>> \o <<e>>) \o b = <<Time>> \o (<<e>> \o b)
        BY <3>7, <4>3, ConcatAssociative
      <4> QED
        BY <3>4, <4>2, <4>4
    <3> DEFINE c == <<e>> \o b
    <3>10. c \in Seq(S)
      <4>1. b \in Seq(S)
        BY <3>7, ConcatProperties
      <4> HIDE DEF b
      <4> QED
        BY <3>7, <4>1, ConcatProperties
    <3>11. dump = (<<Time>> \o c) \o <<x>>
      BY <3>3, <3>8, <3>9
    <3> HIDE DEF b, c
    <3>12. a \o dump = (a \o (<<Time>> \o c)) \o <<x>>
      <4>1. <<Time>> \o c \in Seq(S)
        BY <3>7, <3>10, ConcatProperties
      <4> QED
        BY <3>7, <3>11, <4>1, ConcatAssociative
    <3>13. a \o (<<Time>> \o c) = p \o c
      BY <3>7, <3>10, ConcatAssociative
    <3>14. a \o dump = (p \o (<<e>> \o b)) \o <<x>>
      BY <3>12, <3>13 DEF c
    <3> HIDE DEF p
    <3> QED
      BY <3>5, <3>6, <3>14, WrappedSequence DEF N
  <2> QED
    BY <2>1, <2>2
<1>5. ASSUME NEW s \in OnHandlers PROVE Balanced(s)
  <2>1. ASSUME NEW kinds \in SUBSET Kinds, NEW len \in Lengths(kinds)
        PROVE  <<Time, Record(len)>> \in Seq(N)
    <3>1. Time \in N /\ Record(len) \in N
      BY <1>1, <1>2
    <3> QED
      BY <3>1
  <2>2. VTGen_write_FILE_OPERATION \subseteq Seq(N) /\ VTGen_write_RMA \subseteq Seq(N)
    BY <1>3, <2>1 DEF VTGen_write_FILE_OPERATION, VTGen_write_RMA
  <2>3. {VT_User_count, VT_User_comment, VT_User_marker} \subseteq Seq(N)
    BY <1>1, <1>3 DEF VT_User_count, VT_User_comment, VT_User_marker
  <2>4. StandardMarker \subseteq Seq(N)
    <3>1. ASSUME NEW first \in {<< >>, <<Def>>}
          PROVE  <<Time>> \o first \o <<Record(RecordLen["Marker"])>> \in Seq(N)
      <4>1. << >> \in Seq(N) /\ <<Def>> \in Seq(N) /\ <<Time>> \in Seq(N)
            /\ <<Record(RecordLen["Marker"])>> \in Seq(N)
        BY <1>1, <1>3
      <4>2. <<Time>> \o first \in Seq(N)
        <5>1. first \in Seq(N)
          BY <4>1
        <5> QED
          BY <4>1, <5>1, ConcatProperties
      <4> QED
        BY <4>1, <4>2, ConcatProperties
    <3> QED
      BY <3>1 DEF StandardMarker
  <2>5. CASE s \in Message
    <3>1. PICK len \in Lengths(MessageKinds) :
            s \in {<<Time, Record(len)>> \o dump : dump \in CheckDump("MessageSummary")}
      BY <2>5 DEF Message
    <3>2. PICK dump \in CheckDump("MessageSummary") : s = <<Time, Record(len)>> \o dump
      BY <3>1
    <3> QED
      BY <1>3, <1>4, <2>1, <3>2
  <2>6. CASE s \in CollBegin
    <3>1. PICK dump \in CheckDump("CollectiveOperationSummary") :
            s = <<Time, Record(RecordLen["BeginCollectiveOperation"])>> \o dump
      BY <2>6 DEF CollBegin
    <3>2. <<Time, Record(RecordLen["BeginCollectiveOperation"])>> \in Seq(N)
      BY <1>1, <1>3
    <3> QED
      BY <1>3, <1>4, <3>1, <3>2
  <2>7. CASE s \in Seq(N)
    BY <2>7, NeutralSequence DEF N
  <2> QED
    BY <2>2, <2>3, <2>4, <2>5, <2>6, <2>7 DEF OnHandlers
<1>6. Definition \subseteq Seq(N)
  <2>1. << >> \in Seq(N) /\ <<Def>> \in Seq(N) /\ <<Def, Def>> \in Seq(N)
    BY <1>1
  <2>2. Definition \subseteq {<< >>, <<Def>>, <<Def, Def>>}
    BY DEF Definition, SourceDefinition, ObjectDefinition, VT_User_count_def,
           VT_User_marker_def, VT_User_comment_def
  <2> QED
    BY <2>1, <2>2
<1>7. ASSUME NEW s \in CollEnd PROVE Balanced(s)
  <2> DEFINE w == IF t.status = "ON" THEN VTGen_write_END_COLLECTIVE_OPERATION ELSE << >>
             a == <<Time>> \o w
             e == [op |-> "enter", rid |-> SYNC]
             x == [op |-> "exit"]
  <2>1. a \in Seq(N)
    <3>1. w \in Seq(N) /\ <<Time>> \in Seq(N)
      BY <1>1, <1>3 DEF VTGen_write_END_COLLECTIVE_OPERATION
    <3> HIDE DEF w
    <3> QED
      BY <3>1, ConcatProperties
  <2>2. PICK sync \in vt_mpi_sync : s = a \o sync
    BY DEF CollEnd
  <2> HIDE DEF a
  <2>3. CASE sync = << >>
    <3>1. s \in Seq(N)
      BY <2>1, <2>2, <2>3, ConcatEmptySeq
    <3> QED
      BY <3>1, NeutralSequence DEF N
  <2>4. CASE sync # << >>
    <3>1. PICK f \in {<< >>, <<[op |-> "flush"]>>} : sync = <<e>> \o f \o <<Time, x>>
      BY <2>4 DEF vt_mpi_sync
    <3> DEFINE S == N \cup {e, x}
               b == f \o <<Time>>
    <3>2. f \in Seq(N) /\ <<Time>> \in Seq(N)
      <4>1. << >> \in Seq(N) /\ <<[op |-> "flush"]>> \in Seq(N) /\ <<Time>> \in Seq(N)
        BY <1>1
      <4> QED
        BY <4>1
    <3>3. b \in Seq(N)
      BY <3>2, ConcatProperties
    <3>4. /\ f \in Seq(S) /\ <<Time>> \in Seq(S) /\ <<e>> \in Seq(S) /\ <<x>> \in Seq(S)
          /\ a \in Seq(S)
      BY <1>1, <2>1, <3>2
    <3>5. <<Time, x>> = <<Time>> \o <<x>>
      OBVIOUS
    <3> HIDE DEF S, e, x
    <3>6. /\ <<e>> \o f \in Seq(S) /\ f \o <<Time>> \in Seq(S)
          /\ (<<e>> \o f) \o <<Time>> \in Seq(S)
      BY <3>4, ConcatProperties
    <3>7. sync = ((<<e>> \o f) \o <<Time>>) \o <<x>>
      BY <3>1, <3>4, <3>5, <3>6, ConcatAssociative
    <3>8. sync = (<<e>> \o b) \o <<x>>
      BY <3>4, <3>7, ConcatAssociative
    <3>9. <<e>> \o b \in Seq(S)
      BY <3>4, <3>6, ConcatProperties
    <3> HIDE DEF b
    <3>10. s = (a \o (<<e>> \o b)) \o <<x>>
      <4> DEFINE c == <<e>> \o b
      <4> HIDE DEF c
      <4>1. c \in Seq(S)
        BY <3>9 DEF c
      <4>2. (a \o c) \o <<x>> = a \o (c \o <<x>>)
        BY <3>4, <4>1, ConcatAssociative
      <4>3. s = a \o (c \o <<x>>)
        BY <2>2, <3>8 DEF c
      <4> QED
        BY <4>2, <4>3 DEF c
    <3>11. Pair(e, x)
      BY DEF Pair, e, x, RegionIds
    <3> QED
      BY <2>1, <3>3, <3>10, <3>11, WrappedSequence DEF N
  <2> QED
    BY <2>3, <2>4
<1>8. ASSUME NEW s \in MemoryHook PROVE Balanced(s)
  <2> DEFINE e == [op |-> "enter", rid |-> MALLOC]
             x == [op |-> "exit"]
  <2>1. PICK count \in {<< >>, <<RecordIfOn("Counter")>>,
                        <<RecordIfOn("Marker"), RecordIfOn("Counter")>>} :
               s = <<Time, e, Time>> \o count \o <<x>>
    BY DEF MemoryHook
  <2> DEFINE S == N \cup {e, x}
             b == <<Time>> \o count
  <2>2. count \in Seq(N) /\ <<Time>> \in Seq(N)
    <3>1. /\ << >> \in Seq(N) /\ <<Time>> \in Seq(N) /\ <<RecordIfOn("Counter")>> \in Seq(N)
          /\ <<RecordIfOn("Marker"), RecordIfOn("Counter")>> \in Seq(N)
      BY <1>1, <1>3
    <3> QED
      BY <3>1
  <2>3. b \in Seq(N)
    BY <2>2, ConcatProperties
  <2>4. count \in Seq(S) /\ <<Time>> \in Seq(S) /\ <<e>> \in Seq(S)
    BY <1>1, <2>2
  <2>5. <<Time, e, Time>> = <<Time>> \o (<<e>> \o <<Time>>)
    OBVIOUS
  <2> HIDE DEF S, e, x
  <2>6. <<e>> \o <<Time>> \in Seq(S)
    BY <2>4, ConcatProperties
  <2>7. <<Time, e, Time>> \o count = <<Time>> \o (<<e>> \o b)
    BY <2>4, <2>5, <2>6, ConcatAssociative
  <2> HIDE DEF b
  <2>8. s = (<<Time>> \o (<<e>> \o b)) \o <<x>>
    BY <2>1, <2>7
  <2>9. Pair(e, x)
    BY DEF Pair, e, x, RegionIds
  <2> QED
    BY <2>2, <2>3, <2>8, <2>9, WrappedSequence DEF N
<1> QED
  BY <1>5, <1>6, <1>7, <1>8, NeutralSequence DEF N, Handlers, AnyHandlers

------------------------------------------------------------------------------
(* The invariant of the first part holds between all these handlers.     *)

\* Every handler, in any order, keeps the invariant of the first part.
LEMMA NextEventsIInv == IInv /\ [NextEvents]_allVars => IInv'
<1> SUFFICES ASSUME IInv, [NextEvents]_allVars PROVE IInv'
  OBVIOUS
<1> DEFINE now == WithTime(t)
<1>0. /\ Good(now) /\ now.status = t.status /\ now.stack = t.stack
      /\ Len(t.stack) \in Nat /\ frames \in Nat
  BY WithTimeGood, StackLength DEF IInv, TypeOK
<1> HIDE DEF now
<1>1. CASE UNCHANGED allVars
  BY <1>1, NextIInv DEF allVars
<1>2. CASE Program
  BY <1>2, NextIInv DEF Program
<1>3. ASSUME NEW k \in 0 .. NumCounters, NEW steps \in Handlers, Handler(steps, k)
      PROVE  IInv'
  <2>1. t' = RunSteps(t, steps, k)
        /\ UNCHANGED <<frames, offAt, markAt, defined, phase, safe>>
    BY <1>3 DEF Handler
  <2>2. Good(t') /\ Moves(t, t', 0)
    BY <2>1, HandlersBalanced, HandlerGood DEF IInv
  <2>3. NoUnderflow'
    BY <1>0, <2>1, <2>2 DEF Moves, IInv, NoUnderflow
  <2> QED
    BY <2>1, <2>2, <2>3 DEF IInv, TypeOK, Good, Sane
<1>4. ASSUME NEW k \in 0 .. NumCounters, EnterUser(k)
      PROVE  IInv'
  <2>1. t' = vt_enter(now, USER, k) /\ frames = 0 /\ frames' = 1
        /\ UNCHANGED <<offAt, markAt, defined, phase, safe>>
    BY <1>4 DEF EnterUser, now
  <2>2. Good(t') /\ Moves(now, t', 1)
    BY <1>0, <2>1, EnterGood DEF RegionIds
  <2>3. NoUnderflow'
    BY <1>0, <2>1, <2>2 DEF Moves, IInv, NoUnderflow
  <2> QED
    BY <2>1, <2>2, <2>3 DEF IInv, TypeOK, Good, Sane
<1>5. ASSUME NEW k \in 0 .. NumCounters, ExitUser(k)
      PROVE  IInv'
  <2>1. t' = vt_exit(now, k) /\ t.status = "ON" /\ frames > 0 /\ frames' = frames - 1
        /\ markAt' = (IF markAt = frames THEN -1 ELSE markAt)
        /\ UNCHANGED <<offAt, defined, phase, safe>>
    BY <1>5 DEF ExitUser, now
  <2>2. t.stack # << >>
    BY <1>0, <2>1 DEF IInv, NoUnderflow
  <2>3. Good(t') /\ Moves(now, t', -1)
    BY <1>0, <2>1, <2>2, ExitGood
  <2>4. NoUnderflow'
    BY <1>0, <2>1, <2>3 DEF Moves, IInv, NoUnderflow
  <2>5. markAt' \in Nat \cup {-1} /\ frames' \in Nat
    BY <1>0, <2>1 DEF IInv, TypeOK
  <2> QED
    BY <2>1, <2>3, <2>4, <2>5 DEF IInv, TypeOK, Good, Sane
<1> QED
  BY <1>1, <1>2, <1>3, <1>4, <1>5 DEF NextEvents

\* The recording state of a thread keeps its type, whatever handlers run.
THEOREM EventsTypeCorrect == SpecEvents => []TypeOK
<1>1. InitEvents => IInv
  BY InitIInv DEF InitEvents
<1>2. IInv /\ [NextEvents]_allVars => IInv'
  BY NextEventsIInv
<1>3. IInv => TypeOK
  BY DEF IInv
<1> QED
  BY <1>1, <1>2, <1>3, PTL DEF SpecEvents

\* No record of any handler leaves the buffer, the flush's reserve is kept while
\* a flush is allowed, a rewind mark lies inside the buffer, and vt_exit finds a
\* frame for every function it leaves, with the regions that the handlers enter
\* themselves between those of the program.
THEOREM EventsBufferSafe == SpecEvents => []BufferIntact
<1>1. InitEvents => IInv
  BY InitIInv DEF InitEvents
<1>2. IInv /\ [NextEvents]_allVars => IInv'
  BY NextEventsIInv
<1>3. IInv => BufferIntact
  BY DEF BufferIntact, IInv, Good, Sane, ThreadType, EventsFit, ReserveKept, MarkInBuffer, HasMark
<1> QED
  BY <1>1, <1>2, <1>3, PTL DEF SpecEvents

------------------------------------------------------------------------------
(* Off for good. *)

\* Nothing but time stamps has changed.
Quiet(s, u) ==
  Good(u) /\ u.status = s.status /\ u.open = s.open /\ u.stack = s.stack /\ u.pos = s.pos

\* Once tracing is off for good, entries, exits and flushes do nothing.
LEMMA QuietStep ==
  ASSUME NEW s, Good(s), s.status = "PERMANENT", NEW step,
         step.op \in {"time", "enter", "exit", "flush"}, NEW k
  PROVE  Quiet(s, Step(s, step, k))
<1>1. s.flushcntr = 0
  BY DEF Good, Sane
<1>2. CASE step.op = "time"
  BY <1>2, WithTimeGood DEF Step, Quiet
<1>3. CASE step.op # "time"
  <2>1. Step(s, step, k) = s
    BY <1>1, <1>3 DEF Step, vt_enter, vt_exit, Flush
  <2> QED
    BY <2>1 DEF Quiet
<1> QED
  BY <1>2, <1>3

\* Once tracing is off for good, no step of a handler writes an event or enters a
\* region.
LEMMA QuietSteps ==
  ASSUME NEW s, Good(s), s.status = "PERMANENT", NEW steps, Len(steps) \in Nat,
         \A j \in 1 .. Len(steps) : steps[j].op \in {"time", "enter", "exit", "flush"}, NEW k
  PROVE  Quiet(s, RunSteps(s, steps, k))
<1> DEFINE L == Len(steps)
<1>1. PICK g : Runs(g, s, steps, k, L) /\ RunSteps(s, steps, k) = g[L]
  BY RunStepsIs
<1> DEFINE S == {j \in Nat : j <= L => Quiet(s, g[j])}
<1>2. 0 \in S
  BY <1>1 DEF Runs, Quiet
<1>3. ASSUME NEW j \in Nat, j \in S PROVE j + 1 \in S
  <2> SUFFICES ASSUME j + 1 <= L PROVE Quiet(s, g[j + 1])
    OBVIOUS
  <2>1. j + 1 \in 1 .. L /\ (j + 1) - 1 = j /\ j <= L
    OBVIOUS
  <2>2. Quiet(s, g[j])
    BY <1>3, <2>1
  <2>3. g[j + 1] = Step(g[j], steps[j + 1], k)
    BY <1>1, <2>1 DEF Runs
  <2>4. Quiet(g[j], g[j + 1])
    BY <2>1, <2>2, <2>3, QuietStep DEF Quiet
  <2> QED
    BY <2>2, <2>4 DEF Quiet
<1>4. L \in S
  <2> HIDE DEF S
  <2> QED
    BY <1>2, <1>3, NaturalsBySet
<1> QED
  BY <1>1, <1>4

\* Once tracing is off for good, a handler leaves stack and stream as they are.
LEMMA QuietHandlers ==
  ASSUME t.status = "PERMANENT", NEW steps \in CollEnd \cup MemoryHook
  PROVE  /\ Len(steps) \in Nat
         /\ \A j \in 1 .. Len(steps) : steps[j].op \in {"time", "enter", "exit", "flush"}
<1> DEFINE e == [op |-> "enter", rid |-> SYNC]
           m == [op |-> "enter", rid |-> MALLOC]
           x == [op |-> "exit"]
           f == [op |-> "flush"]
           Q == {Time, e, m, x, f}
<1>1. \A step \in Q : step.op \in {"time", "enter", "exit", "flush"}
  BY DEF Time
<1>2. /\ << >> \in Seq(Q) /\ <<Time>> \in Seq(Q) /\ <<e>> \in Seq(Q) /\ <<f>> \in Seq(Q)
      /\ <<Time, x>> \in Seq(Q) /\ <<Time, m, Time>> \in Seq(Q) /\ <<x>> \in Seq(Q)
  OBVIOUS
<1> HIDE DEF Q, e, m, x, f
<1>3. CASE steps \in CollEnd
  <2>1. PICK sync \in vt_mpi_sync : steps = <<Time>> \o << >> \o sync
    BY <1>3 DEF CollEnd
  <2>2. sync \in Seq(Q)
    <3>1. sync = << >> \/ \E flush \in {<< >>, <<f>>} : sync = <<e>> \o flush \o <<Time, x>>
      BY DEF vt_mpi_sync, e, f, x
    <3>2. ASSUME NEW flush \in {<< >>, <<f>>}, sync = <<e>> \o flush \o <<Time, x>>
          PROVE  sync \in Seq(Q)
      <4>1. flush \in Seq(Q)
        BY <1>2
      <4>2. <<e>> \o flush \in Seq(Q)
        BY <1>2, <4>1, ConcatProperties
      <4> QED
        BY <1>2, <3>2, <4>2, ConcatProperties
    <3> QED
      BY <1>2, <3>1, <3>2
  <2>3. <<Time>> \o << >> \in Seq(Q)
    BY <1>2, ConcatProperties
  <2>4. steps \in Seq(Q)
    BY <2>1, <2>2, <2>3, ConcatProperties
  <2> QED
    BY <1>1, <2>4
<1>4. CASE steps \in MemoryHook
  <2>1. steps = <<Time, m, Time>> \o << >> \o <<x>>
    BY <1>4 DEF MemoryHook, m, x
  <2>2. <<Time, m, Time>> \o << >> \in Seq(Q)
    BY <1>2, ConcatProperties
  <2>3. steps \in Seq(Q)
    BY <1>2, <2>1, <2>2, ConcatProperties
  <2> QED
    BY <1>1, <2>3
<1> QED
  BY <1>3, <1>4

\* A definition is added to the buffer, or two.
LEMMA DefinitionSteps ==
  ASSUME NEW s, Good(s), s.status = "PERMANENT", NEW k,
         NEW steps \in {<< >>, <<Def>>, <<Def, Def>>}
  PROVE  LET u == RunSteps(s, steps, k) IN
         /\ u.status = "PERMANENT"
         /\ u.open = s.open
         /\ u.stack = s.stack
         /\ \E n \in 0 .. 2 : u.pos = s.pos + n * DefLen
<1> DEFINE d1 == WriteDef(s, k)
           d2 == WriteDef(d1, k)
<1>0. s.pos \in Nat /\ DefLen \in Nat
  BY SizeFacts DEF Good, Sane, ThreadType
<1>1. /\ Good(d1) /\ d1.status = "PERMANENT" /\ d1.open = s.open /\ d1.stack = s.stack
      /\ d1.pos = s.pos + DefLen
  BY PermanentDef
<1>2. /\ Good(d2) /\ d2.status = "PERMANENT" /\ d2.open = s.open /\ d2.stack = s.stack
      /\ d2.pos = s.pos + DefLen + DefLen
  <2> HIDE DEF d1
  <2> QED
    BY <1>1, PermanentDef
<1>3. Len(steps) \in {0, 1, 2} /\ \A j \in 1 .. Len(steps) : steps[j] = Def
  OBVIOUS
<1>4. PICK g : Runs(g, s, steps, k, Len(steps)) /\ RunSteps(s, steps, k) = g[Len(steps)]
  BY <1>3, RunStepsIs
<1>5. \A u : Step(u, Def, k) = WriteDef(u, k)
  BY DEF Step, Def
<1>6. g[0] = s /\ (Len(steps) >= 1 => g[1] = d1) /\ (Len(steps) >= 2 => g[2] = d2)
  <2>1. g[0] = s
    BY <1>4 DEF Runs
  <2>2. Len(steps) >= 1 => g[1] = d1
    <3> SUFFICES ASSUME Len(steps) >= 1 PROVE g[1] = d1
      OBVIOUS
    <3>1. 1 \in 1 .. Len(steps) /\ 1 - 1 = 0
      BY <1>3
    <3>2. g[1] = Step(g[0], steps[1], k)
      BY <1>4, <3>1 DEF Runs
    <3> QED
      BY <1>3, <1>5, <2>1, <3>1, <3>2
  <2>3. Len(steps) >= 2 => g[2] = d2
    <3> SUFFICES ASSUME Len(steps) >= 2 PROVE g[2] = d2
      OBVIOUS
    <3>1. 2 \in 1 .. Len(steps) /\ 2 - 1 = 1 /\ Len(steps) >= 1
      BY <1>3
    <3>2. g[2] = Step(g[1], steps[2], k)
      BY <1>4, <3>1 DEF Runs
    <3> QED
      BY <1>3, <1>5, <2>2, <3>1, <3>2
  <2> QED
    BY <2>1, <2>2, <2>3
<1> HIDE DEF d1, d2
<1>7. CASE Len(steps) = 0
  <2>1. s.pos = s.pos + 0 * DefLen
    BY <1>0
  <2> QED
    BY <1>4, <1>6, <1>7, <2>1
<1>8. CASE Len(steps) = 1
  <2>1. d1.pos = s.pos + 1 * DefLen
    BY <1>0, <1>1
  <2> QED
    BY <1>1, <1>4, <1>6, <1>8, <2>1
<1>9. CASE Len(steps) = 2
  <2>1. d2.pos = s.pos + 2 * DefLen
    BY <1>0, <1>2
  <2> QED
    BY <1>2, <1>4, <1>6, <1>9, <2>1
<1> QED
  BY <1>3, <1>7, <1>8, <1>9

\* A step after the last flush records nothing but definitions.
LEMMA PermanentEvents ==
  ASSUME IInv, t.status = "PERMANENT", [NextEvents]_allVars
  PROVE  /\ t'.status = "PERMANENT"
         /\ t'.open = t.open
         /\ t'.stack = t.stack
         /\ phase' = "alive" => \E n \in 0 .. 3 : t'.pos = t.pos + n * DefLen
<1> DEFINE Goal == /\ t'.status = "PERMANENT"
                   /\ t'.open = t.open
                   /\ t'.stack = t.stack
                   /\ phase' = "alive" => \E n \in 0 .. 3 : t'.pos = t.pos + n * DefLen
<1>0. Good(t) /\ t.pos \in Nat /\ t.pos = t.pos + 0 * DefLen
  <2>1. t.pos \in Nat
    BY DEF IInv, TypeOK, ThreadType
  <2> QED
    BY <2>1, SizeFacts DEF IInv
<1>a. ASSUME Quiet(t, t') PROVE Goal
  BY <1>0, <1>a DEF Quiet
<1> HIDE DEF Goal
<1>1. CASE UNCHANGED allVars
  BY <1>1, PermanentStep DEF allVars, Goal
<1>2. CASE Program
  BY <1>2, PermanentStep DEF Program, Goal
<1>3. ASSUME NEW k \in 0 .. NumCounters, NEW steps \in Handlers, Handler(steps, k)
      PROVE  Goal
  <2>1. t' = RunSteps(t, steps, k)
    BY <1>3 DEF Handler
  <2>2. steps \in Definition \/ steps \in CollEnd \cup MemoryHook
    BY DEF Handlers, AnyHandlers
  <2>3. CASE steps \in Definition
    <3>1. steps \in {<< >>, <<Def>>, <<Def, Def>>}
      BY <2>3 DEF Definition, SourceDefinition, ObjectDefinition, VT_User_count_def,
                  VT_User_marker_def, VT_User_comment_def
    <3>2. /\ t'.status = "PERMANENT" /\ t'.open = t.open /\ t'.stack = t.stack
          /\ \E n \in 0 .. 2 : t'.pos = t.pos + n * DefLen
      BY <1>0, <2>1, <3>1, DefinitionSteps
    <3> QED
      BY <3>2 DEF Goal
  <2>4. CASE steps \in CollEnd \cup MemoryHook
    BY <1>0, <1>a, <2>1, <2>4, QuietHandlers, QuietSteps
  <2> QED
    BY <2>2, <2>3, <2>4
<1>4. ASSUME NEW k \in 0 .. NumCounters, EnterUser(k)
      PROVE  Goal
  <2>1. t' = WithTime(t)
    BY <1>0, <1>4, WithTimeGood DEF EnterUser, vt_enter
  <2> QED
    BY <1>0, <1>a, <2>1, WithTimeGood DEF Quiet
<1>5. ASSUME NEW k \in 0 .. NumCounters, ExitUser(k)
      PROVE  Goal
  BY <1>5 DEF ExitUser
<1> QED
  BY <1>1, <1>2, <1>3, <1>4, <1>5 DEF NextEvents, Goal

\* After the last flush no handler of any kind records an event, moves the call
\* stack or switches tracing on again: only definitions still arrive.
THEOREM EventsSilentAfterLimit == SpecEvents => PermanentIsSilent
<1>1. InitEvents => IInv
  BY InitIInv DEF InitEvents
<1>2. IInv /\ [NextEvents]_allVars => IInv'
  BY NextEventsIInv
<1>3. IInv /\ [NextEvents]_allVars =>
        [t.status = "PERMANENT" =>
           /\ t'.status = "PERMANENT"
           /\ t'.open = t.open
           /\ t'.stack = t.stack
           /\ phase' = "alive" => \E n \in 0 .. 3 : t'.pos = t.pos + n * DefLen]_vars
  BY PermanentEvents
<1> QED
  BY <1>1, <1>2, <1>3, PTL DEF SpecEvents, PermanentIsSilent

------------------------------------------------------------------------------
(* The recorded stream nests like the call stack. *)

\* Sequences that lost or gained their last element.
LEMMA LastOne ==
  ASSUME NEW S, NEW s \in Seq(S), s # << >>
  PROVE  /\ Len(s) \in Nat /\ Len(s) >= 1
         /\ SubSeq(s, 1, Len(s) - 1) \in Seq(S)
         /\ Len(SubSeq(s, 1, Len(s) - 1)) = Len(s) - 1
         /\ s[Len(s)] \in S
         /\ s = Append(SubSeq(s, 1, Len(s) - 1), s[Len(s)])
<1>1. Len(s) \in Nat /\ Len(s) >= 1 /\ \A i \in 1 .. Len(s) : s[i] \in S
  OBVIOUS
<1>2. 1 \in 1 .. Len(s) /\ Len(s) \in 1 .. Len(s)
  BY <1>1
<1>3. SubSeq(s, 1, Len(s)) = SubSeq(s, 1, Len(s) - 1) \o << s[Len(s)] >>
  BY <1>2, SubSeqRecursiveSecond
<1>4. SubSeq(s, 1, Len(s)) = s
  BY SubSeqFull
<1>5. SubSeq(s, 1, Len(s) - 1) \in Seq(S) /\ Len(SubSeq(s, 1, Len(s) - 1)) = Len(s) - 1
  <2> DEFINE n == Len(s) - 1
  <2>1. n \in Int /\ 1 \in Int /\ (\A i \in 1 .. n : s[i] \in S) /\ n \in Nat
    <3>1. n \in Nat
      BY <1>1
    <3>2. \A i \in 1 .. n : i \in 1 .. Len(s)
      BY <1>1
    <3> HIDE DEF n
    <3> QED
      BY <1>1, <3>1, <3>2
  <2> HIDE DEF n
  <2>2. n = IF 1 <= n THEN n - 1 + 1 ELSE 0
    BY <2>1
  <2>3. SubSeq(s, 1, n) \in Seq(S) /\ Len(SubSeq(s, 1, n)) = IF 1 <= n THEN n - 1 + 1 ELSE 0
    BY <2>1, SubSeqProperties
  <2> QED
    BY <2>2, <2>3 DEF n
<1> DEFINE p == SubSeq(s, 1, Len(s) - 1)
<1>6. s = p \o << s[Len(s)] >>
  BY <1>3, <1>4
<1>7. s[Len(s)] \in S
  BY <1>1, <1>2
<1> HIDE DEF p
<1>8. ASSUME NEW e \in S, p \in Seq(S) PROVE Append(p, e) = p \o <<e>>
  BY <1>8, AppendIsConcat
<1>9. s = Append(p, s[Len(s)])
  BY <1>5, <1>6, <1>7, <1>8 DEF p
<1> QED
  BY <1>1, <1>5, <1>7, <1>9 DEF p

\* The prefixes of a sequence that gained an element.
LEMMA AddOne ==
  ASSUME NEW S, NEW s \in Seq(S), NEW e \in S
  PROVE  /\ Append(s, e) \in Seq(S) /\ Append(s, e) # << >>
         /\ Len(Append(s, e)) = Len(s) + 1
         /\ Append(s, e)[Len(s) + 1] = e
         /\ SubSeq(Append(s, e), 1, Len(s)) = s
         /\ \A n \in 0 .. Len(s) : SubSeq(Append(s, e), 1, n) = SubSeq(s, 1, n)
<1>1. /\ Append(s, e) \in Seq(S) /\ Append(s, e) # << >>
      /\ Len(Append(s, e)) = Len(s) + 1
      /\ \A i \in 1 .. Len(s) : Append(s, e)[i] = s[i]
      /\ Append(s, e)[Len(s) + 1] = e
  BY AppendProperties
<1>2. Len(s) \in Nat /\ \A i \in 1 .. Len(s) : s[i] \in S
  OBVIOUS
<1> DEFINE a == Append(s, e)
<1> HIDE DEF a
<1>3. ASSUME NEW n \in 0 .. Len(s) PROVE SubSeq(a, 1, n) = SubSeq(s, 1, n)
  <2>1. \A i \in 1 .. n : a[i] \in S /\ s[i] \in S /\ a[i] = s[i]
    BY <1>1, <1>2 DEF a
  <2>2. /\ SubSeq(a, 1, n) \in Seq(S) /\ SubSeq(s, 1, n) \in Seq(S)
        /\ \A i \in 1 .. n - 1 + 1 : SubSeq(a, 1, n)[i] = a[1 + i - 1]
        /\ \A i \in 1 .. n - 1 + 1 : SubSeq(s, 1, n)[i] = s[1 + i - 1]
        /\ Len(SubSeq(a, 1, n)) = n /\ Len(SubSeq(s, 1, n)) = n
    <3>1. n \in Int /\ 1 \in Int
      OBVIOUS
    <3>2. \A i \in 1 .. n : a[i] \in S
      BY <2>1
    <3>3. \A i \in 1 .. n : s[i] \in S
      BY <2>1
    <3>4. /\ SubSeq(a, 1, n) \in Seq(S)
          /\ Len(SubSeq(a, 1, n)) = IF 1 <= n THEN n - 1 + 1 ELSE 0
          /\ \A i \in 1 .. n - 1 + 1 : SubSeq(a, 1, n)[i] = a[1 + i - 1]
      BY <3>1, <3>2, SubSeqProperties
    <3>5. /\ SubSeq(s, 1, n) \in Seq(S)
          /\ Len(SubSeq(s, 1, n)) = IF 1 <= n THEN n - 1 + 1 ELSE 0
          /\ \A i \in 1 .. n - 1 + 1 : SubSeq(s, 1, n)[i] = s[1 + i - 1]
      BY <3>1, <3>3, SubSeqProperties
    <3>6. n = IF 1 <= n THEN n - 1 + 1 ELSE 0
      OBVIOUS
    <3> QED
      BY <3>4, <3>5, <3>6
  <2>3. \A i \in 1 .. n : SubSeq(a, 1, n)[i] = SubSeq(s, 1, n)[i]
    <3> TAKE i \in 1 .. n
    <3>1. i \in 1 .. n - 1 + 1 /\ 1 + i - 1 = i
      OBVIOUS
    <3> QED
      BY <2>1, <2>2, <3>1
  <2> QED
    BY <2>2, <2>3, SeqEqual
<1>4. SubSeq(s, 1, Len(s)) = s
  BY SubSeqFull
<1>5. Len(s) \in 0 .. Len(s)
  BY <1>2
<1> QED
  BY <1>1, <1>3, <1>4, <1>5 DEF a

\* g[i] is what the first i frames have opened.
Opens(g, stack, n) ==
  /\ g[0] = << >>
  /\ \A i \in 1 .. n :
        g[i] = IF i <= MaxStackDepth /\ stack[i].climit # 0
               THEN Append(g[i - 1], stack[i].rid) ELSE g[i - 1]

\* The regions a stack has in the stream, frame by frame: those within the limits
\* of stack depth and call count.
LEMMA RecordedIs ==
  ASSUME NEW stack, Len(stack) \in Nat
  PROVE  \E g : Opens(g, stack, Len(stack)) /\ Recorded(stack) = g[Len(stack)]
<1> DEFINE L == Len(stack)
           Keep(i) == i <= MaxStackDepth /\ stack[i].climit # 0
           Eq(F) == F = [i \in 0 .. Len(stack) |->
                           IF i = 0 THEN << >>
                           ELSE IF Keep(i) THEN Append(F[i - 1], stack[i].rid) ELSE F[i - 1]]
           C == CHOOSE F : Eq(F)
           S == {n \in Nat : \E g : Opens(g, stack, n)}
<1>1. Recorded(stack) = C[Len(stack)]
  BY DEF Recorded
<1>2. 0 \in S
  <2>1. Opens([i \in {0} |-> << >>], stack, 0)
    BY DEF Opens
  <2> QED
    BY <2>1
<1>3. ASSUME NEW n \in Nat, n \in S PROVE n + 1 \in S
  <2>1. PICK g : Opens(g, stack, n)
    BY <1>3
  <2> DEFINE x == IF Keep(n + 1) THEN Append(g[n], stack[n + 1].rid) ELSE g[n]
             h == [i \in 0 .. n + 1 |-> IF i = n + 1 THEN x ELSE g[i]]
  <2>2. h[0] = << >>
    BY <2>1 DEF Opens
  <2>3. ASSUME NEW i \in 1 .. n + 1
        PROVE  h[i] = IF Keep(i) THEN Append(h[i - 1], stack[i].rid) ELSE h[i - 1]
    <3>1. CASE i = n + 1
      <4>1. h[n + 1] = x /\ h[n] = g[n] /\ i - 1 = n
        BY <3>1
      <4> QED
        BY <3>1, <4>1
    <3>2. CASE i # n + 1
      <4>1. i \in 1 .. n /\ i \in 0 .. n + 1 /\ i - 1 \in 0 .. n + 1 /\ i - 1 # n + 1
        BY <3>2
      <4>2. h[i] = g[i] /\ h[i - 1] = g[i - 1]
        BY <3>2, <4>1
      <4> HIDE DEF h
      <4> QED
        BY <2>1, <4>1, <4>2 DEF Opens
    <3> QED
      BY <3>1, <3>2
  <2> HIDE DEF h
  <2>4. Opens(h, stack, n + 1)
    BY <2>2, <2>3 DEF Opens
  <2> QED
    BY <2>4
<1>4. PICK g : Opens(g, stack, L)
  <2> HIDE DEF S
  <2>1. Nat \subseteq S
    BY <1>2, <1>3, NaturalsBySet
  <2> QED
    BY <2>1 DEF S
<1> DEFINE G == [i \in 0 .. L |-> g[i]]
<1>5. Eq(G)
  <2> DEFINE H == [i \in 0 .. L |->
                     IF i = 0 THEN << >>
                     ELSE IF Keep(i) THEN Append(G[i - 1], stack[i].rid) ELSE G[i - 1]]
  <2>1. ASSUME NEW i \in 0 .. L PROVE G[i] = H[i]
    <3>1. CASE i = 0
      BY <1>4, <3>1 DEF Opens
    <3>2. CASE i # 0
      <4>1. i \in 1 .. L /\ i - 1 \in 0 .. L
        BY <3>2
      <4>2. g[i] = IF Keep(i) THEN Append(g[i - 1], stack[i].rid) ELSE g[i - 1]
        BY <1>4, <4>1 DEF Opens
      <4>3. G[i] = g[i] /\ G[i - 1] = g[i - 1]
        BY <4>1
      <4>4. H[i] = IF Keep(i) THEN Append(G[i - 1], stack[i].rid) ELSE G[i - 1]
        BY <3>2
      <4> HIDE DEF G, H
      <4> QED
        BY <4>2, <4>3, <4>4
    <3> QED
      BY <3>1, <3>2
  <2> HIDE DEF L, Keep
  <2> QED
    BY <2>1 DEF L
<1>6. Eq(C)
  <2> HIDE DEF Eq, G
  <2> QED
    BY <1>5
<1>7. Opens(C, stack, L)
  <2> HIDE DEF C
  <2>1. C[0] = << >>
    BY <1>6
  <2>2. ASSUME NEW i \in 1 .. L
        PROVE  C[i] = IF Keep(i) THEN Append(C[i - 1], stack[i].rid) ELSE C[i - 1]
    <3>1. i \in 0 .. Len(stack) /\ i # 0
      OBVIOUS
    <3> HIDE DEF Keep
    <3> QED
      BY <1>6, <3>1
  <2> QED
    BY <2>1, <2>2 DEF Opens
<1> QED
  BY <1>1, <1>7

\* A frame opens its region, if the limits let it through.
LEMMA RecordedPush ==
  ASSUME NEW st \in Seq(Frame), NEW f \in Frame
  PROVE  Recorded(Append(st, f)) =
           IF Len(st) + 1 <= MaxStackDepth /\ f.climit # 0
           THEN Append(Recorded(st), f.rid) ELSE Recorded(st)
<1> DEFINE a == Append(st, f)
           n == Len(st)
<1>1. n \in Nat /\ Len(a) = n + 1 /\ (\A i \in 1 .. n : a[i] = st[i]) /\ a[n + 1] = f
  <2>1. n \in Nat
    OBVIOUS
  <2> QED
    BY <2>1, AppendProperties
<1> HIDE DEF a
<1>2. PICK g : Opens(g, st, n) /\ Recorded(st) = g[n]
  BY <1>1, RecordedIs
<1>3. PICK h : Opens(h, a, n + 1) /\ Recorded(a) = h[n + 1]
  <2>1. Len(a) \in Nat
    BY <1>1
  <2>2. \E h : Opens(h, a, Len(a)) /\ Recorded(a) = h[Len(a)]
    BY <2>1, RecordedIs
  <2> QED
    BY <1>1, <2>2
<1> DEFINE S == {j \in Nat : j <= n => h[j] = g[j]}
<1> HIDE DEF n
<1>4. 0 \in S
  BY <1>2, <1>3 DEF Opens
<1>5. ASSUME NEW j \in Nat, j \in S PROVE j + 1 \in S
  <2> SUFFICES ASSUME j + 1 <= n PROVE h[j + 1] = g[j + 1]
    OBVIOUS
  <2>1. j + 1 \in 1 .. n /\ j + 1 \in 1 .. n + 1 /\ (j + 1) - 1 = j /\ j <= n
    BY <1>1
  <2>2. h[j] = g[j] /\ a[j + 1] = st[j + 1]
    BY <1>1, <1>5, <2>1
  <2> DEFINE m == j + 1
  <2> HIDE DEF m
  <2>3. g[m] = IF m <= MaxStackDepth /\ st[m].climit # 0
               THEN Append(g[m - 1], st[m].rid) ELSE g[m - 1]
    BY <1>2, <2>1 DEF Opens, m
  <2>4. h[m] = IF m <= MaxStackDepth /\ a[m].climit # 0
               THEN Append(h[m - 1], a[m].rid) ELSE h[m - 1]
    BY <1>3, <2>1 DEF Opens, m
  <2>5. m - 1 = j
    BY <2>1 DEF m
  <2>6. a[m] = st[m]
    BY <2>2 DEF m
  <2>7. h[m] = g[m]
    BY <2>2, <2>3, <2>4, <2>5, <2>6
  <2> QED
    BY <2>7 DEF m
<1>6. h[n] = g[n]
  <2> HIDE DEF S
  <2>1. n \in S
    BY <1>1, <1>4, <1>5, NaturalsBySet
  <2> QED
    BY <1>1, <2>1 DEF S
<1>7. h[n + 1] = IF n + 1 <= MaxStackDepth /\ a[n + 1].climit # 0
                 THEN Append(h[n], a[n + 1].rid) ELSE h[n]
  <2> DEFINE m == n + 1
  <2>1. m \in 1 .. n + 1 /\ m - 1 = n
    BY <1>1
  <2> HIDE DEF m
  <2>2. h[m] = IF m <= MaxStackDepth /\ a[m].climit # 0
               THEN Append(h[m - 1], a[m].rid) ELSE h[m - 1]
    BY <1>3, <2>1 DEF Opens
  <2>3. h[m] = IF m <= MaxStackDepth /\ a[m].climit # 0
               THEN Append(h[n], a[m].rid) ELSE h[n]
    BY <2>1, <2>2
  <2> QED
    BY <2>3 DEF m
<1> QED
  BY <1>1, <1>2, <1>3, <1>6, <1>7 DEF a, n

\* No flush is allowed any more only if tracing is off for good.
Live(s) == Good(s) /\ (s.flushcntr = 0 => s.status = "PERMANENT")

\* From s to u: tracing is off for good, or the call stack is st, the regions
\* o are open and the levels and the mark are those of s, unless the mark is gone.
Leads(s, u, st, o) ==
  /\ u.orphan = s.orphan
  /\ \/ u.status = "PERMANENT"
     \/ /\ u.status = s.status /\ u.stack = st /\ u.open = o
        /\ u.offLevel = s.offLevel /\ u.markLevel = s.markLevel
        /\ HasMark(u) => HasMark(s) /\ u.openMark = s.openMark

\* No region has been entered or left; what the last flush enters stays open.
Steady(s, u) == Leads(s, u, s.stack, s.open) /\ Len(u.open) >= Len(s.open)

\* Only the buffer and the open regions may differ.
Same(s, u) ==
  /\ u \in ThreadType
  /\ u.status = s.status /\ u.stack = s.stack /\ u.orphan = s.orphan
  /\ u.flushcntr = s.flushcntr /\ u.offLevel = s.offLevel /\ u.markLevel = s.markLevel
  /\ u.markPos = s.markPos /\ u.openMark = s.openMark

\* An event record changes neither call stack nor open regions.
LEMMA AppendEventSame ==
  ASSUME NEW s \in ThreadType, NEW len \in Nat
  PROVE  Same(s, AppendEvent(s, len)) /\ AppendEvent(s, len).open = s.open
<1> DEFINE p == s.pos + len
           v == s.overflow \/ s.pos + len > BufferSize
           b == s.backwards \/ s.stale
           u == [s EXCEPT !.pos = p, !.overflow = v, !.backwards = b]
<1>1. p \in Nat /\ v \in BOOLEAN /\ b \in BOOLEAN
  <2>1. s.pos \in Nat
    BY DEF ThreadType
  <2> QED
    BY <2>1
<1>2. AppendEvent(s, len) = u
  BY DEF AppendEvent
<1> HIDE DEF p, v, b
<1> QED
  BY <1>1, <1>2 DEF Same, ThreadType

\* A definition record changes neither call stack nor open regions.
LEMMA AppendDefSame ==
  ASSUME NEW s \in ThreadType
  PROVE  Same(s, AppendDef(s)) /\ AppendDef(s).open = s.open
<1> DEFINE p == s.pos + DefLen
           d == IF HasMark(s) THEN s.markDefs + DefLen ELSE s.markDefs
           u == [s EXCEPT !.pos = p, !.markDefs = d]
<1>1. p \in Nat /\ d \in Nat
  <2>1. s.pos \in Nat /\ s.markDefs \in Nat
    BY DEF ThreadType
  <2> QED
    BY <2>1, SizeFacts
<1>2. AppendDef(s) = u
  BY DEF AppendDef
<1> HIDE DEF p, d
<1> QED
  BY <1>1, <1>2 DEF Same, ThreadType

\* An ENTER record opens its region and changes nothing of the call stack.
LEMMA AppendEnterSame ==
  ASSUME NEW s \in ThreadType, NEW rid \in RegionIds
  PROVE  LET u == AppendEnter(s, rid) IN
         /\ Same(s, u)
         /\ u.open = Append(s.open, rid)
         /\ Len(u.open) = Len(s.open) + 1
         /\ SubSeq(u.open, 1, Len(s.open)) = s.open
<1> DEFINE e == AppendEvent(s, EnterLeaveLen)
           o == Append(e.open, rid)
           u == [e EXCEPT !.open = o]
<1>1. Same(s, e) /\ e.open = s.open
  BY AppendEventSame, SizeFacts
<1>2. AppendEnter(s, rid) = u
  BY DEF AppendEnter
<1> HIDE DEF e
<1>3. o \in Seq(RegionIds) /\ Len(o) = Len(s.open) + 1 /\ SubSeq(o, 1, Len(s.open)) = s.open
  <2>1. s.open \in Seq(RegionIds)
    BY DEF ThreadType
  <2> QED
    BY <1>1, <2>1, AddOne
<1> HIDE DEF o
<1>4. Same(e, u) /\ u.open = o
  BY <1>1, <1>3 DEF Same, ThreadType
<1>5. o = Append(s.open, rid)
  BY <1>1 DEF o
<1> HIDE DEF u
<1> QED
  BY <1>1, <1>2, <1>3, <1>4, <1>5 DEF Same

\* A LEAVE record closes the last region and changes nothing of the call stack.
LEMMA AppendLeaveSame ==
  ASSUME NEW s \in ThreadType, Len(s.open) # 0
  PROVE  /\ Same(s, AppendLeave(s))
         /\ AppendLeave(s).open = SubSeq(s.open, 1, Len(s.open) - 1)
<1> DEFINE e == AppendEvent(s, EnterLeaveLen)
           o == SubSeq(s.open, 1, Len(s.open) - 1)
           u == [e EXCEPT !.open = o, !.orphan = e.orphan \/ FALSE]
<1>1. Same(s, e) /\ e.open = s.open
  BY AppendEventSame, SizeFacts
<1>2. AppendLeave(s) = u
  <2>1. (Len(s.open) = 0) = FALSE
    OBVIOUS
  <2>2. AppendLeave(s) = [e EXCEPT !.open = IF Len(s.open) = 0 THEN e.open
                                            ELSE SubSeq(e.open, 1, Len(s.open) - 1),
                                   !.orphan = e.orphan \/ Len(s.open) = 0]
    BY DEF AppendLeave
  <2> HIDE DEF e
  <2> QED
    BY <1>1, <2>1, <2>2
<1>3. o \in Seq(RegionIds)
  <2>1. s.open \in Seq(RegionIds) /\ s.open # << >>
    BY DEF ThreadType
  <2> QED
    BY <2>1, LastOne
<1> HIDE DEF e, o
<1>4. e.orphan \in BOOLEAN
  BY <1>1 DEF Same, ThreadType
<1>5. Same(e, u) /\ u.open = o
  BY <1>1, <1>3, <1>4 DEF Same, ThreadType
<1> HIDE DEF u
<1> QED
  BY <1>1, <1>2, <1>5 DEF Same, o

\* A time stamp that a flush made stale is no matter of the stack.
LEMMA StaleSame ==
  ASSUME NEW s \in ThreadType, NEW b \in BOOLEAN
  PROVE  LET u == [s EXCEPT !.stale = b] IN Same(s, u) /\ u.open = s.open
BY DEF Same, ThreadType

\* Types of what is measured.
LEMMA ThreadLengths ==
  ASSUME NEW s \in ThreadType
  PROVE  /\ Len(s.open) \in Nat /\ Len(s.stack) \in Nat
         /\ s.open \in Seq(RegionIds) /\ s.stack \in Seq(Frame)
         /\ s.openMark \in Seq(RegionIds) /\ Len(s.openMark) \in Nat
<1>1. s.open \in Seq(RegionIds) /\ s.stack \in Seq(Frame) /\ s.openMark \in Seq(RegionIds)
  BY DEF ThreadType
<1> QED
  BY <1>1

\* A counter record (VTGen_write_COUNTER) is no matter of the stack.
LEMMA CountIfRoomSame ==
  ASSUME NEW s \in ThreadType, NEW written
  PROVE  Same(s, CountIfRoom(written, s)) /\ CountIfRoom(written, s).open = s.open
BY AppendEventSame, SizeFacts DEF CountIfRoom, Same

\* The counters after the last flush are no matter of the stack.
LEMMA LastCountersSame ==
  ASSUME NEW s \in ThreadType, NEW k
  PROVE  Same(s, LastCounters(s, k)) /\ LastCounters(s, k).open = s.open
<1> DEFINE c1 == CountIfRoom(k >= 1, s)
           c2 == CountIfRoom(k >= 2, c1)
           p1 == CountIfRoom(NumPlugin >= 1, c2)
           p2 == CountIfRoom(NumPlugin >= 2, p1)
<1>1. Same(s, c1) /\ c1.open = s.open
  BY CountIfRoomSame
<1>2. Same(s, c2) /\ c2.open = s.open
  <2> HIDE DEF c1
  <2> QED BY <1>1, CountIfRoomSame DEF Same
<1>3. Same(s, p1) /\ p1.open = s.open
  <2> HIDE DEF c2
  <2> QED BY <1>2, CountIfRoomSame DEF Same
<1>4. Same(s, p2) /\ p2.open = s.open
  <2> HIDE DEF p1
  <2> QED BY <1>3, CountIfRoomSame DEF Same
<1> QED
  BY <1>4 DEF LastCounters

\* VTTHRD_STACK_PUSH adds one frame.
LEMMA StackPushLeads ==
  ASSUME NEW s \in ThreadType, NEW rid \in RegionIds, NEW decr \in BOOLEAN
  PROVE  LET u == StackPush(s, rid, decr) IN
         /\ u \in ThreadType
         /\ \E f \in Frame : f.rid = rid /\ u.stack = Append(s.stack, f)
         /\ u.status = s.status /\ u.orphan = s.orphan /\ u.open = s.open
         /\ u.flushcntr = s.flushcntr /\ u.offLevel = s.offLevel /\ u.markLevel = s.markLevel
         /\ u.markPos = s.markPos /\ u.openMark = s.openMark
<1> DEFINE limit == IF rid \in Regions
                    THEN IF decr /\ s.cd[rid] > 0 THEN s.cd[rid] - 1 ELSE s.cd[rid]
                    ELSE -1
           f == [rid |-> rid, climit |-> limit]
           st == Append(s.stack, f)
           c == IF rid \in Regions THEN [s.cd EXCEPT ![rid] = limit] ELSE s.cd
           u == [s EXCEPT !.stack = st, !.cd = c]
<1>1. s.cd \in [Regions -> Nat \cup {-1}] /\ s.stack \in Seq(Frame)
  BY DEF ThreadType
<1>2. limit \in Nat \cup {-1}
  <2>1. CASE rid \in Regions
    <3>1. s.cd[rid] \in Nat \cup {-1}
      BY <1>1, <2>1
    <3> QED
      BY <2>1, <3>1
  <2>2. CASE rid \notin Regions
    BY <2>2
  <2> QED
    BY <2>1, <2>2
<1>3. StackPush(s, rid, decr) = u
  BY DEF StackPush
<1> HIDE DEF limit
<1>4. f \in Frame /\ f.rid = rid
  BY <1>2 DEF Frame
<1>5. c \in [Regions -> Nat \cup {-1}]
  BY <1>1, <1>2
<1> HIDE DEF f, c
<1>6. st \in Seq(Frame)
  BY <1>1, <1>4
<1>7. st = Append(s.stack, f)
  OBVIOUS
<1> HIDE DEF st
<1>8. /\ u \in ThreadType /\ u.stack = st
      /\ u.status = s.status /\ u.orphan = s.orphan /\ u.open = s.open
      /\ u.flushcntr = s.flushcntr /\ u.offLevel = s.offLevel /\ u.markLevel = s.markLevel
      /\ u.markPos = s.markPos /\ u.openMark = s.openMark
  BY <1>5, <1>6 DEF ThreadType
<1> HIDE DEF u
<1> QED
  BY <1>3, <1>4, <1>7, <1>8

\* The region of the last flush stays open.
LEMMA SwitchOffOpen ==
  ASSUME NEW s \in ThreadType, NEW k
  PROVE  LET u == SwitchOffForGood(s, k) IN
         /\ u.orphan = s.orphan
         /\ u.status = "PERMANENT"
         /\ Len(u.open) >= Len(s.open)
<1> DEFINE fresh   == [s EXCEPT !.stale = FALSE]
           pushed  == StackPush(fresh, OFF, TRUE)
           record  == s.status = "ON" /\ Len(pushed.stack) <= MaxStackDepth
           enter   == AppendEnter(pushed, OFF)
           counted == LastCounters(enter, k)
           entered == IF record
                      THEN [counted EXCEPT !.stale = TRUE]
                      ELSE [pushed EXCEPT !.stale = s.stale]
           off     == [entered EXCEPT !.status = "PERMANENT"]
<1>1. fresh \in ThreadType /\ fresh.orphan = s.orphan /\ fresh.open = s.open
  BY StaleSame DEF Same
<1>2. pushed \in ThreadType /\ pushed.orphan = s.orphan /\ pushed.open = s.open
  <2> HIDE DEF fresh
  <2> QED BY <1>1, StackPushLeads DEF RegionIds
<1>3. s.stale \in BOOLEAN /\ Len(s.open) \in Nat
  <2>1. s.stale \in BOOLEAN
    BY DEF ThreadType
  <2> QED
    BY <2>1, ThreadLengths
<1>4. ASSUME record
      PROVE  entered \in ThreadType /\ entered.orphan = s.orphan /\ Len(entered.open) >= Len(s.open)
  <2> HIDE DEF pushed
  <2>1. enter \in ThreadType /\ enter.orphan = s.orphan /\ Len(enter.open) = Len(s.open) + 1
    BY <1>2, AppendEnterSame DEF RegionIds, Same
  <2> HIDE DEF enter
  <2>2. counted \in ThreadType /\ counted.orphan = s.orphan /\ Len(counted.open) = Len(s.open) + 1
    BY <2>1, LastCountersSame DEF Same
  <2> DEFINE c == [counted EXCEPT !.stale = TRUE]
  <2>3. entered = c
    BY <1>4
  <2> HIDE DEF counted, entered
  <2>4. c \in ThreadType /\ c.orphan = counted.orphan /\ c.open = counted.open
    BY <2>2, StaleSame DEF Same
  <2> HIDE DEF c
  <2> QED
    BY <1>3, <2>2, <2>3, <2>4
<1>5. ASSUME ~record
      PROVE  entered \in ThreadType /\ entered.orphan = s.orphan /\ Len(entered.open) >= Len(s.open)
  <2> HIDE DEF pushed
  <2> QED
    BY <1>2, <1>3, <1>5, StaleSame DEF Same
<1>6. /\ off \in ThreadType /\ off.orphan = s.orphan /\ off.status = "PERMANENT"
      /\ Len(off.open) >= Len(s.open)
  <2> HIDE DEF entered
  <2> QED BY <1>4, <1>5 DEF ThreadType
<1>7. SwitchOffForGood(s, k) = AppendDef(off)
  BY DEF SwitchOffForGood
<1> HIDE DEF off
<1> QED
  BY <1>6, <1>7, AppendDefSame DEF Same

\* What follows a piece of a handler that leaves stack and stream alone.
LEMMA LeadsThen ==
  ASSUME NEW s, NEW u, NEW v, NEW st, NEW o, NEW st2, NEW o2,
         Leads(s, u, st, o), Leads(u, v, st2, o2)
  PROVE  Leads(s, v, st2, o2)
BY DEF Leads

\* Pieces of a handler that leave stack and stream alone, one after the other.
LEMMA SteadyThen ==
  ASSUME NEW s \in ThreadType, NEW u \in ThreadType, NEW v \in ThreadType,
         Steady(s, u), Steady(u, v)
  PROVE  Steady(s, v)
<1>1. Len(s.open) \in Nat /\ Len(u.open) \in Nat /\ Len(v.open) \in Nat
  BY ThreadLengths
<1>2. Leads(s, v, s.stack, s.open)
  BY DEF Steady, Leads
<1>3. Len(v.open) >= Len(s.open)
  BY <1>1 DEF Steady
<1> QED
  BY <1>2, <1>3 DEF Steady

\* Doing nothing leaves stack and stream alone.
LEMMA SteadySelf ==
  ASSUME NEW s \in ThreadType
  PROVE  Steady(s, s)
<1>1. Len(s.open) \in Nat
  BY ThreadLengths
<1> QED
  BY <1>1 DEF Steady, Leads

\* A flush leaves the stack and the open regions as they are, or switches
\* tracing off for good.
LEMMA FlushSteady ==
  ASSUME NEW s, Live(s), NEW own \in BOOLEAN, NEW k
  PROVE  Live(Flush(s, own, k)) /\ Steady(s, Flush(s, own, k))
<1>0. s \in ThreadType /\ Good(Flush(s, own, k))
  BY FlushGood DEF Live, Good, Sane
<1>1. CASE s.flushcntr = 0
  BY <1>0, <1>1, SteadySelf DEF Flush, Live
<1>2. CASE s.flushcntr # 0
  <2> DEFINE on      == s.status = "ON"
             more    == s.flushcntr > 1
             mine    == own /\ s.stale
             timed   == [s EXCEPT !.stale = mine]
             begun   == IF on THEN AppendEnter(timed, FLUSH) ELSE s
             ended   == [begun EXCEPT !.stale = FALSE]
             marked  == IF on /\ more THEN AppendLeave(ended) ELSE begun
             stale   == IF on THEN IF own THEN ~more /\ s.stale ELSE TRUE
                              ELSE s.stale
             written == [marked EXCEPT !.pos = 0, !.flushcntr = @ - 1, !.stale = stale,
                                       !.markPos = -1, !.markDefs = 0, !.openMark = << >>]
  <2>1. s.flushcntr \in Nat /\ s.stale \in BOOLEAN /\ Len(s.open) \in Nat
    <3>1. s.flushcntr \in Nat /\ s.stale \in BOOLEAN
      BY <1>0 DEF ThreadType
    <3> QED
      BY <1>0, <3>1, ThreadLengths
  <2>2. mine \in BOOLEAN /\ stale \in BOOLEAN
    BY <2>1
  <2> HIDE DEF stale
  <2>3. Same(s, timed) /\ timed.open = s.open
    <3> HIDE DEF mine
    <3> QED BY <1>0, <2>2, StaleSame
  <2>4. /\ Same(s, begun)
        /\ IF on THEN Len(begun.open) = Len(s.open) + 1 /\ SubSeq(begun.open, 1, Len(s.open)) = s.open
                 ELSE begun.open = s.open
    <3> HIDE DEF timed
    <3>1. CASE on
      <4>1. FLUSH \in RegionIds /\ timed \in ThreadType
        BY <2>3 DEF RegionIds, Same
      <4> DEFINE e == AppendEnter(timed, FLUSH)
      <4>2. /\ Same(timed, e) /\ Len(e.open) = Len(s.open) + 1
            /\ SubSeq(e.open, 1, Len(s.open)) = s.open
        BY <2>3, <4>1, AppendEnterSame
      <4>3. begun = e
        BY <3>1
      <4> HIDE DEF e, begun
      <4> QED
        BY <2>3, <3>1, <4>2, <4>3 DEF Same
    <3>2. CASE ~on
      BY <1>0, <3>2 DEF Same
    <3> QED
      BY <3>1, <3>2
  <2>5. /\ Same(s, marked)
        /\ IF more THEN marked.open = s.open ELSE Len(marked.open) >= Len(s.open)
    <3> HIDE DEF begun
    <3>1. CASE on /\ more
      <4>1. Same(s, ended) /\ ended.open = begun.open
        BY <2>4, StaleSame DEF Same
      <4> HIDE DEF ended
      <4>2. Len(ended.open) # 0 /\ Len(ended.open) - 1 = Len(s.open)
        BY <2>1, <2>4, <3>1, <4>1
      <4> DEFINE l == AppendLeave(ended)
      <4>3. Same(ended, l) /\ l.open = SubSeq(ended.open, 1, Len(ended.open) - 1)
        BY <4>1, <4>2, AppendLeaveSame DEF Same
      <4>4. marked = l
        BY <3>1
      <4> HIDE DEF l, marked
      <4> QED
        BY <2>4, <3>1, <4>1, <4>2, <4>3, <4>4 DEF Same
    <3>2. CASE ~(on /\ more)
      <4>1. marked = begun
        BY <3>2
      <4> HIDE DEF marked, more
      <4> QED
        BY <2>1, <2>4, <3>2, <4>1
    <3> QED
      BY <3>1, <3>2
  <2> HIDE DEF marked
  <2>6. written \in ThreadType /\ written.flushcntr = s.flushcntr - 1
        /\ written.status = s.status /\ written.stack = s.stack /\ written.orphan = s.orphan
        /\ written.open = marked.open /\ written.offLevel = s.offLevel
        /\ written.markLevel = s.markLevel /\ written.markPos = -1
    <3> DEFINE c == marked.flushcntr - 1
    <3>1. c \in Nat /\ c = s.flushcntr - 1
      BY <1>2, <2>1, <2>5 DEF Same
    <3>2. << >> \in Seq(RegionIds)
      OBVIOUS
    <3> HIDE DEF c
    <3>3. written = [marked EXCEPT !.pos = 0, !.flushcntr = c, !.stale = stale,
                                   !.markPos = -1, !.markDefs = 0, !.openMark = << >>]
      BY <2>5 DEF c, Same, ThreadType
    <3> HIDE DEF written
    <3> QED
      BY <2>2, <2>5, <3>1, <3>2, <3>3 DEF Same, ThreadType
  <2>7. Flush(s, own, k) = IF more THEN written ELSE SwitchOffForGood(written, k)
    BY <1>2 DEF Flush, ResetMark, stale, marked
  <2> HIDE DEF written
  <2>8. CASE more
    <3>1. written.flushcntr # 0
      BY <2>1, <2>6, <2>8
    <3>2. Leads(s, written, s.stack, s.open) /\ Len(written.open) >= Len(s.open)
      BY <2>1, <2>5, <2>6, <2>8 DEF Leads, HasMark
    <3> QED
      BY <1>0, <2>7, <2>8, <3>1, <3>2 DEF Live, Steady
  <2>9. CASE ~more
    <3> DEFINE u == SwitchOffForGood(written, k)
    <3>1. u.orphan = s.orphan /\ u.status = "PERMANENT" /\ Len(u.open) >= Len(written.open)
      BY <2>6, SwitchOffOpen
    <3>2. Flush(s, own, k) = u
      BY <2>7, <2>9
    <3> HIDE DEF u
    <3>3. Len(u.open) \in Nat /\ Len(written.open) \in Nat
      BY <1>0, <2>6, <3>2, ThreadLengths DEF Good, Sane
    <3>4. Len(u.open) >= Len(s.open)
      BY <2>1, <2>5, <2>6, <2>9, <3>1, <3>3
    <3> QED
      BY <1>0, <3>1, <3>2, <3>4 DEF Live, Steady, Leads
  <2> QED
    BY <2>8, <2>9
<1> QED
  BY <1>1, <1>2

\* Making room for a record: if it is dropped, tracing is off for good.
LEMMA RoomSteady ==
  ASSUME NEW s, Live(s), NEW len, NEW own \in BOOLEAN, NEW k
  PROVE  LET f == IF Full(s, len) THEN Flush(s, own, k) ELSE s IN
         /\ Live(f)
         /\ Steady(s, f)
         /\ f.flushcntr = 0 => f.status = "PERMANENT"
<1>1. s \in ThreadType
  BY DEF Live, Good, Sane
<1>2. CASE Full(s, len)
  BY <1>2, FlushSteady DEF Live
<1>3. CASE ~Full(s, len)
  BY <1>1, <1>3, SteadySelf DEF Live
<1> QED
  BY <1>2, <1>3

\* What the buffer gets does not matter to a thread that is steady.
LEMMA SameSteady ==
  ASSUME NEW s, NEW f, Live(f), Steady(s, f), NEW u, Same(f, u), u.open = f.open, Good(u)
  PROVE  Live(u) /\ Steady(s, u)
<1>1. HasMark(u) <=> HasMark(f)
  BY DEF Same, HasMark
<1> QED
  BY <1>1 DEF Live, Steady, Leads, Same

\* A record that is no ENTER or LEAVE leaves stack and stream alone, also if it
\* brings about a flush (VTGEN_ALLOC_EVENT).
LEMMA WriteRecordSteady ==
  ASSUME NEW s, Live(s), NEW len \in 1 .. Size, NEW k
  PROVE  Live(WriteRecord(s, len, k)) /\ Steady(s, WriteRecord(s, len, k))
<1> DEFINE f == IF Full(s, len) THEN Flush(s, TRUE, k) ELSE s
           w == WriteRecord(s, len, k)
           a == AppendEvent(f, len)
<1>1. Live(f) /\ Steady(s, f)
  BY RoomSteady
<1>2. w = f \/ w = a
  BY DEF WriteRecord
<1>3. Good(w)
  BY WriteRecordGood DEF Live
<1> HIDE DEF f, w
<1>4. Same(f, a) /\ a.open = f.open
  <2>1. f \in ThreadType /\ len \in Nat
    BY <1>1, SizeFacts DEF Live, Good, Sane
  <2> QED
    BY <2>1, AppendEventSame
<1> HIDE DEF a
<1>5. Live(w) /\ Steady(s, w)
  BY <1>1, <1>2, <1>3, <1>4, SameSteady
<1> QED
  BY <1>5 DEF w

\* Every event record leaves stack and stream alone.
LEMMA WriteEventSteady ==
  ASSUME NEW s, Live(s), NEW k
  PROVE  Live(WriteEvent(s, k)) /\ Steady(s, WriteEvent(s, k))
<1>1. EventLen \in 1 .. Size
  BY LengthsAssumption
<1>2. WriteEvent(s, k) = WriteRecord(s, EventLen, k)
  BY DEF WriteEvent, WriteRecord
<1> QED
  BY <1>1, <1>2, WriteRecordSteady

\* Every definition record leaves stack and stream alone (VTGEN_ALLOC_DEF).
LEMMA WriteDefSteady ==
  ASSUME NEW s, Live(s), NEW k
  PROVE  Live(WriteDef(s, k)) /\ Steady(s, WriteDef(s, k))
<1> DEFINE f == IF Full(s, DefLen) THEN Flush(s, FALSE, k) ELSE s
           w == WriteDef(s, k)
<1>1. Live(f) /\ Steady(s, f)
  BY RoomSteady
<1>2. w = AppendDef(f)
  BY DEF WriteDef
<1>3. Good(w)
  BY WriteDefGood DEF Live
<1> HIDE DEF f, w
<1>4. Same(f, w) /\ w.open = f.open
  BY <1>1, <1>2, AppendDefSame DEF Live, Good, Sane
<1>5. Live(w) /\ Steady(s, w)
  BY <1>1, <1>3, <1>4, SameSteady
<1> QED
  BY <1>5 DEF w

\* vt_update_counter leaves stack and stream alone.
LEMMA UpdateCounterSteady ==
  ASSUME NEW s, Live(s), NEW k
  PROVE  Live(UpdateCounter(s, k)) /\ Steady(s, UpdateCounter(s, k))
<1> DEFINE c1 == WriteCounterIfOn(1, s, k)
           c2 == WriteCounterIfOn(2, c1, k)
           p1 == WriteIf(NumPlugin >= 1, c2, k)
           p2 == WriteIf(NumPlugin >= 2, p1, k)
<1>a. ASSUME NEW u, Live(u), Steady(s, u), NEW v, v = u \/ v = WriteEvent(u, k)
      PROVE  Live(v) /\ Steady(s, v)
  <2>1. CASE v = u
    BY <1>a, <2>1
  <2>2. CASE v = WriteEvent(u, k)
    <3>1. Live(v) /\ Steady(u, v)
      BY <1>a, <2>2, WriteEventSteady
    <3>2. s \in ThreadType /\ u \in ThreadType /\ v \in ThreadType
      BY <1>a, <3>1 DEF Live, Good, Sane
    <3> QED
      BY <1>a, <3>1, <3>2, SteadyThen
  <2> QED
    BY <1>a, <2>1, <2>2
<1>0. Live(s) /\ Steady(s, s)
  BY SteadySelf DEF Live, Good, Sane
<1>1. Live(c1) /\ Steady(s, c1)
  <2>1. c1 = s \/ c1 = WriteEvent(s, k)
    BY DEF WriteCounterIfOn
  <2> HIDE DEF c1
  <2> QED BY <1>0, <1>a, <2>1
<1>2. Live(c2) /\ Steady(s, c2)
  <2> HIDE DEF c1
  <2>1. c2 = c1 \/ c2 = WriteEvent(c1, k)
    BY DEF WriteCounterIfOn
  <2> HIDE DEF c2
  <2> QED BY <1>1, <1>a, <2>1
<1>3. Live(p1) /\ Steady(s, p1)
  <2> HIDE DEF c2
  <2>1. p1 = c2 \/ p1 = WriteEvent(c2, k)
    BY DEF WriteIf
  <2> HIDE DEF p1
  <2> QED BY <1>2, <1>a, <2>1
<1>4. Live(p2) /\ Steady(s, p2)
  <2> HIDE DEF p1
  <2>1. p2 = p1 \/ p2 = WriteEvent(p1, k)
    BY DEF WriteIf
  <2> HIDE DEF p2
  <2> QED BY <1>3, <1>a, <2>1
<1>5. UpdateCounter(s, k) = IF c2.status = "ON" THEN p2 ELSE c2
  BY DEF UpdateCounter, WritePluginCounters
<1> HIDE DEF c2, p2
<1> QED
  BY <1>2, <1>4, <1>5

\* The marker of a buffer flush leaves stack and stream alone.
LEMMA MarkerHintSteady ==
  ASSUME NEW s, Live(s), NEW k
  PROVE  Live(MarkerHint(s, k)) /\ Steady(s, MarkerHint(s, k))
<1> DEFINE w == WriteDef(s, k)
           h == [w EXCEPT !.hinted = TRUE]
           d == IF s.hinted THEN s ELSE h
           e == WriteEvent(d, k)
<1>0. s \in ThreadType
  BY DEF Live, Good, Sane
<1>1. Live(w) /\ Steady(s, w)
  BY WriteDefSteady
<1>2. MarkerHint(s, k) = e
  BY DEF MarkerHint
<1> HIDE DEF w
<1>3. Same(w, h) /\ h.open = w.open /\ Good(h)
  BY <1>1 DEF Live, Good, Sane, ThreadType, HasMark, Same
<1> HIDE DEF h
<1>4. Live(h) /\ Steady(s, h)
  BY <1>1, <1>3, SameSteady
<1>5. Live(d) /\ Steady(s, d)
  BY <1>0, <1>4, SteadySelf
<1> HIDE DEF d
<1>6. Live(e) /\ Steady(d, e)
  BY <1>5, WriteEventSteady
<1> HIDE DEF e
<1> QED
  BY <1>0, <1>2, <1>5, <1>6, SteadyThen DEF Live, Good, Sane

\* vt_def_region leaves stack and stream alone.
LEMMA DefRegionSteady ==
  ASSUME NEW s, Live(s), NEW n, NEW k
  PROVE  Live(vt_def_region(s, n, k)) /\ Steady(s, vt_def_region(s, n, k))
<1> DEFINE d1 == WriteDef(s, k)
           d2 == IF n >= 2 THEN WriteDef(d1, k) ELSE d1
           d3 == IF n >= 3 THEN WriteDef(d2, k) ELSE d2
<1>a. ASSUME NEW u, Live(u), Steady(s, u), NEW v, v = u \/ v = WriteDef(u, k)
      PROVE  Live(v) /\ Steady(s, v)
  <2>1. CASE v = u
    BY <1>a, <2>1
  <2>2. CASE v = WriteDef(u, k)
    <3>1. Live(v) /\ Steady(u, v)
      BY <1>a, <2>2, WriteDefSteady
    <3>2. s \in ThreadType /\ u \in ThreadType /\ v \in ThreadType
      BY <1>a, <3>1 DEF Live, Good, Sane
    <3> QED
      BY <1>a, <3>1, <3>2, SteadyThen
  <2> QED
    BY <1>a, <2>1, <2>2
<1>1. Live(d1) /\ Steady(s, d1)
  BY WriteDefSteady
<1>2. Live(d2) /\ Steady(s, d2)
  <2> HIDE DEF d1
  <2>1. d2 = d1 \/ d2 = WriteDef(d1, k)
    OBVIOUS
  <2> HIDE DEF d2
  <2> QED BY <1>1, <1>a, <2>1
<1>3. Live(d3) /\ Steady(s, d3)
  <2> HIDE DEF d2
  <2>1. d3 = d2 \/ d3 = WriteDef(d2, k)
    OBVIOUS
  <2> HIDE DEF d3
  <2> QED BY <1>2, <1>a, <2>1
<1> QED
  BY <1>3 DEF vt_def_region

\* The ENTER opens its region.
LEMMA WriteEnterLeads ==
  ASSUME NEW s, Live(s), NEW rid \in RegionIds, NEW k
  PROVE  LET u == WriteEnter(s, rid, k) IN
         /\ Live(u)
         /\ Leads(s, u, s.stack, Append(s.open, rid))
         /\ Len(u.open) >= Len(s.open)
<1> DEFINE f == IF Full(s, EnterLeaveLen) THEN Flush(s, TRUE, k) ELSE s
           drop == Full(s, EnterLeaveLen) /\ f.flushcntr = 0
           w == WriteEnter(s, rid, k)
           a == AppendEnter(f, rid)
<1>1. Live(f) /\ Steady(s, f) /\ f \in ThreadType /\ s \in ThreadType
  BY RoomSteady DEF Live, Good, Sane
<1>2. w = IF drop THEN f ELSE a
  BY DEF WriteEnter
<1>3. Good(w)
  BY WriteEnterGood DEF Live
<1>4. drop => f.status = "PERMANENT"
  BY RoomSteady
<1>5. Len(s.open) \in Nat /\ Len(f.open) \in Nat
  BY <1>1, ThreadLengths
<1> HIDE DEF f, w, drop
<1>6. CASE drop
  BY <1>1, <1>2, <1>4, <1>6 DEF Steady, Leads, w
<1>7. CASE ~drop
  <2>1. Same(f, a) /\ a.open = Append(f.open, rid) /\ Len(a.open) = Len(f.open) + 1
    BY <1>1, AppendEnterSame
  <2>2. w = a
    BY <1>2, <1>7
  <2> HIDE DEF a
  <2>3. Live(w)
    BY <1>1, <1>3, <2>1, <2>2 DEF Live, Same
  <2>4. Len(w.open) >= Len(s.open)
    BY <1>1, <1>5, <2>1, <2>2 DEF Steady
  <2>5. Leads(s, w, s.stack, Append(s.open, rid))
    BY <1>1, <2>1, <2>2 DEF Steady, Leads, Same, HasMark
  <2> QED
    BY <2>3, <2>4, <2>5 DEF w
<1> QED
  BY <1>6, <1>7

\* The LEAVE closes the region that was opened last.
LEMMA WriteLeaveLeads ==
  ASSUME NEW s, Live(s), Len(s.open) # 0, NEW k
  PROVE  LET u == WriteLeave(s, k) IN
         /\ Live(u)
         /\ Leads(s, u, s.stack, SubSeq(s.open, 1, Len(s.open) - 1))
<1> DEFINE f == IF Full(s, EnterLeaveLen) THEN Flush(s, TRUE, k) ELSE s
           drop == Full(s, EnterLeaveLen) /\ f.flushcntr = 0
           w == WriteLeave(s, k)
           a == AppendLeave(f)
<1>1. Live(f) /\ Steady(s, f) /\ f \in ThreadType /\ s \in ThreadType
  BY RoomSteady DEF Live, Good, Sane
<1>2. w = IF drop THEN f ELSE a
  BY DEF WriteLeave
<1>3. Good(w)
  BY WriteLeaveGood DEF Live
<1>4. drop => f.status = "PERMANENT"
  BY RoomSteady
<1>5. Len(s.open) \in Nat /\ Len(f.open) \in Nat
  BY <1>1, ThreadLengths
<1> HIDE DEF f, w, drop
<1>6. CASE drop
  BY <1>1, <1>2, <1>4, <1>6 DEF Steady, Leads, w
<1>7. CASE ~drop
  <2>1. Len(f.open) # 0
    BY <1>1, <1>5 DEF Steady
  <2>2. Same(f, a) /\ a.open = SubSeq(f.open, 1, Len(f.open) - 1)
    BY <1>1, <2>1, AppendLeaveSame
  <2>3. w = a
    BY <1>2, <1>7
  <2> HIDE DEF a
  <2>4. Live(w)
    BY <1>1, <1>3, <2>2, <2>3 DEF Live, Same
  <2>5. Leads(s, w, s.stack, SubSeq(s.open, 1, Len(s.open) - 1))
    BY <1>1, <2>2, <2>3 DEF Steady, Leads, Same, HasMark
  <2> QED
    BY <2>4, <2>5 DEF w
<1> QED
  BY <1>6, <1>7

\* The regions a stack has in the stream are regions, no more than it has frames.
LEMMA RecordedType ==
  ASSUME NEW st \in Seq(Frame)
  PROVE  Recorded(st) \in Seq(RegionIds)
<1> DEFINE n == Len(st)
<1>1. n \in Nat /\ \A i \in 1 .. n : st[i].rid \in RegionIds
  <2>1. \A f \in Frame : f.rid \in RegionIds
    BY DEF Frame
  <2>2. n \in Nat /\ \A i \in 1 .. n : st[i] \in Frame
    OBVIOUS
  <2> QED
    BY <2>1, <2>2
<1>2. PICK g : Opens(g, st, n) /\ Recorded(st) = g[n]
  BY <1>1, RecordedIs
<1> DEFINE Q == Seq(RegionIds)
           S == {j \in Nat : j <= n => g[j] \in Q}
<1>3. << >> \in Q /\ \A q \in Q, r \in RegionIds : Append(q, r) \in Q
  OBVIOUS
<1> HIDE DEF n, Q
<1>4. 0 \in S
  BY <1>2, <1>3 DEF Opens
<1>5. ASSUME NEW j \in Nat, j \in S PROVE j + 1 \in S
  <2> SUFFICES ASSUME j + 1 <= n PROVE g[j + 1] \in Q
    OBVIOUS
  <2> DEFINE m == j + 1
  <2>1. m \in 1 .. n /\ m - 1 = j /\ j <= n
    BY <1>1
  <2> HIDE DEF m
  <2>2. g[m] = IF m <= MaxStackDepth /\ st[m].climit # 0
               THEN Append(g[m - 1], st[m].rid) ELSE g[m - 1]
    BY <1>2, <2>1 DEF Opens
  <2>3. g[m - 1] \in Q /\ st[m].rid \in RegionIds
    BY <1>1, <1>5, <2>1
  <2>4. g[m] \in Q
    BY <1>3, <2>2, <2>3
  <2> QED
    BY <2>4 DEF m
<1>6. n \in S
  <2> HIDE DEF S
  <2> QED
    BY <1>1, <1>4, <1>5, NaturalsBySet
<1> QED
  BY <1>1, <1>2, <1>6 DEF Q

\* Leaving the last frame closes the region it opened, if it did.
LEMMA RecordedPop ==
  ASSUME NEW st \in Seq(Frame), st # << >>
  PROVE  LET p == SubSeq(st, 1, Len(st) - 1) IN
         IF Len(st) <= MaxStackDepth /\ st[Len(st)].climit # 0
         THEN /\ Len(Recorded(st)) # 0
              /\ SubSeq(Recorded(st), 1, Len(Recorded(st)) - 1) = Recorded(p)
         ELSE Recorded(st) = Recorded(p)
<1> DEFINE p == SubSeq(st, 1, Len(st) - 1)
           f == st[Len(st)]
           r == Recorded(p)
<1>1. p \in Seq(Frame) /\ f \in Frame /\ st = Append(p, f) /\ Len(p) + 1 = Len(st)
      /\ Len(st) \in Nat
  <2>1. /\ p \in Seq(Frame) /\ f \in Frame /\ st = Append(p, f) /\ Len(p) = Len(st) - 1
        /\ Len(st) \in Nat
    BY LastOne
  <2>2. Len(p) + 1 = Len(st)
    BY <2>1
  <2> QED
    BY <2>1, <2>2
<1> HIDE DEF p, f
<1>2. Recorded(st) = IF Len(st) <= MaxStackDepth /\ f.climit # 0
                     THEN Append(r, f.rid) ELSE r
  BY <1>1, RecordedPush
<1>3. r \in Seq(RegionIds) /\ f.rid \in RegionIds
  BY <1>1, RecordedType DEF Frame
<1> HIDE DEF r
<1>4. CASE ~(Len(st) <= MaxStackDepth /\ f.climit # 0)
  BY <1>2, <1>4 DEF p, f, r
<1>5. CASE Len(st) <= MaxStackDepth /\ f.climit # 0
  <2> DEFINE a == Append(r, f.rid)
  <2>1. Len(a) = Len(r) + 1 /\ SubSeq(a, 1, Len(r)) = r /\ Len(r) \in Nat
    BY <1>3, AddOne
  <2>2. Recorded(st) = a
    BY <1>2, <1>5
  <2> HIDE DEF a
  <2>3. Len(a) - 1 = Len(r) /\ Len(a) # 0
    BY <2>1
  <2> QED
    BY <1>5, <2>1, <2>2, <2>3 DEF p, f, r
<1> QED
  BY <1>4, <1>5

\* What a frame on top of the stack opens, and what leaving it closes.
Opened(s, f) ==
  IF s.status = "ON" /\ Len(s.stack) + 1 <= MaxStackDepth /\ f.climit # 0
  THEN Append(s.open, f.rid) ELSE s.open

Closes(s) ==
  s.status = "ON" /\ Len(s.stack) <= MaxStackDepth /\ s.stack[Len(s.stack)].climit # 0

Closed(s) == IF Closes(s) THEN SubSeq(s.open, 1, Len(s.open) - 1) ELSE s.open

\* vt_enter adds a frame, and opens its region if the limits and the status let
\* it.
LEMMA EnterLeads ==
  ASSUME NEW s, Live(s), NEW rid \in RegionIds, NEW k
  PROVE  LET u == vt_enter(s, rid, k) IN
         /\ Live(u)
         /\ \E f \in Frame : f.rid = rid /\ Leads(s, u, Append(s.stack, f), Opened(s, f))
<1>1. CASE s.status = "PERMANENT"
  <2>1. vt_enter(s, rid, k) = s
    BY <1>1 DEF vt_enter
  <2> DEFINE f == [rid |-> rid, climit |-> 0]
  <2>2. f \in Frame /\ f.rid = rid
    BY DEF Frame
  <2>3. Leads(s, s, Append(s.stack, f), Opened(s, f))
    BY <1>1 DEF Leads
  <2> QED
    BY <2>1, <2>2, <2>3
<1>2. CASE s.status # "PERMANENT"
  <2> DEFINE do_trace == s.status = "ON" /\ Len(s.stack) + 1 <= MaxStackDepth
             p        == StackPush(s, rid, do_trace)
             limit    == p.stack[Len(p.stack)].climit
             h        == IF do_trace /\ limit = 1 THEN MarkerHint(p, k) ELSE p
             w        == WriteEnter(h, rid, k)
             c        == UpdateCounter(w, k)
  <2>1. vt_enter(s, rid, k) = IF do_trace /\ limit # 0 THEN c ELSE h
    BY <1>2 DEF vt_enter
  <2>2. do_trace \in BOOLEAN /\ s \in ThreadType /\ s.stack \in Seq(Frame)
        /\ Len(s.stack) \in Nat
    BY ThreadLengths DEF Live, Good, Sane
  <2> HIDE DEF do_trace
  <2>3. /\ p \in ThreadType
        /\ \E f \in Frame : f.rid = rid /\ p.stack = Append(s.stack, f)
        /\ p.status = s.status /\ p.orphan = s.orphan /\ p.open = s.open
        /\ p.flushcntr = s.flushcntr /\ p.offLevel = s.offLevel /\ p.markLevel = s.markLevel
        /\ p.markPos = s.markPos /\ p.openMark = s.openMark
    BY <2>2, StackPushLeads
  <2>4. Good(p)
    BY <2>2, StackPushSane DEF Live, Good
  <2>5. PICK f \in Frame : f.rid = rid /\ p.stack = Append(s.stack, f)
    BY <2>3
  <2> HIDE DEF p
  <2>6. limit = f.climit
    BY <2>2, <2>5, AddOne
  <2>7. Live(p) /\ Leads(s, p, Append(s.stack, f), s.open)
    BY <2>3, <2>4, <2>5 DEF Live, Leads, HasMark
  <2> HIDE DEF limit
  <2>8. Live(h) /\ Steady(p, h)
    BY <2>3, <2>7, MarkerHintSteady, SteadySelf
  <2> HIDE DEF h
  <2>9. Leads(s, h, Append(s.stack, f), s.open)
    BY <2>3, <2>5, <2>7, <2>8 DEF Steady, Leads
  <2>10. CASE do_trace /\ limit # 0
    <3>1. Live(w) /\ Leads(h, w, h.stack, Append(h.open, rid))
      BY <2>8, WriteEnterLeads
    <3> HIDE DEF w
    <3>2. Live(c) /\ Steady(w, c)
      BY <3>1, UpdateCounterSteady
    <3> HIDE DEF c
    <3>3. Leads(s, c, Append(s.stack, f), Append(s.open, rid))
      BY <2>9, <3>1, <3>2 DEF Steady, Leads
    <3>4. Opened(s, f) = Append(s.open, rid)
      BY <2>5, <2>6, <2>10 DEF Opened, do_trace
    <3> QED
      BY <2>1, <2>5, <2>10, <3>2, <3>3, <3>4
  <2>11. CASE ~(do_trace /\ limit # 0)
    <3>1. Opened(s, f) = s.open
      BY <2>6, <2>11 DEF Opened, do_trace
    <3> QED
      BY <2>1, <2>5, <2>8, <2>9, <2>11, <3>1
  <2> QED
    BY <2>10, <2>11
<1> QED
  BY <1>1, <1>2

\* vt_exit removes the last frame, and closes the region it opened.
LEMMA ExitLeads ==
  ASSUME NEW s, Live(s), NEW k,
         s.status = "PERMANENT" \/ s.stack # << >>,
         Closes(s) => Len(s.open) # 0
  PROVE  LET u == vt_exit(s, k) IN
         /\ Live(u)
         /\ Leads(s, u, SubSeq(s.stack, 1, Len(s.stack) - 1), Closed(s))
<1>1. CASE s.status = "PERMANENT"
  <2>1. vt_exit(s, k) = s
    BY <1>1 DEF vt_exit
  <2> QED
    BY <1>1, <2>1 DEF Leads
<1>2. CASE s.status # "PERMANENT"
  <2> DEFINE st == SubSeq(s.stack, 1, Len(s.stack) - 1)
             p  == [s EXCEPT !.stack = st]
             c  == UpdateCounter(p, k)
             w  == WriteLeave(c, k)
  <2>1. vt_exit(s, k) = IF Closes(s) THEN w ELSE p
    BY <1>2 DEF vt_exit, Closes
  <2>2. st \in Seq(Frame) /\ s \in ThreadType
    <3>1. s.stack \in Seq(Frame) /\ s.stack # << >> /\ s \in ThreadType
      BY <1>2 DEF Live, Good, Sane, ThreadType
    <3> QED
      BY <3>1, LastOne
  <2> HIDE DEF st
  <2>3. Live(p) /\ Leads(s, p, st, s.open) /\ p.open = s.open /\ p.status = s.status
    BY <2>2 DEF Live, Good, Sane, ThreadType, HasMark, Leads
  <2> HIDE DEF p
  <2>4. CASE Closes(s)
    <3>1. Live(c) /\ Steady(p, c)
      BY <2>3, UpdateCounterSteady
    <3> HIDE DEF c
    <3>2. Len(c.open) \in Nat /\ Len(p.open) \in Nat
      BY <2>3, <3>1, ThreadLengths DEF Live, Good, Sane
    <3>3. Len(c.open) # 0
      BY <2>3, <2>4, <3>1, <3>2 DEF Steady
    <3>4. Live(w) /\ Leads(c, w, c.stack, SubSeq(c.open, 1, Len(c.open) - 1))
      BY <3>1, <3>3, WriteLeaveLeads
    <3> HIDE DEF w
    <3>5. Leads(s, w, st, SubSeq(s.open, 1, Len(s.open) - 1))
      BY <2>3, <3>1, <3>4 DEF Steady, Leads
    <3> QED
      BY <2>1, <2>4, <3>4, <3>5 DEF Closed, st
  <2>5. CASE ~Closes(s)
    BY <2>1, <2>3, <2>5 DEF Closed, st
  <2> QED
    BY <2>4, <2>5
<1> QED
  BY <1>1, <1>2

\* No region is left that has not been entered, and those that are open are the
\* ones on the call stack, up to the level at which tracing was switched off.
Nested(s) ==
  /\ ~s.orphan
  /\ s.status = "ON" => s.open = Recorded(s.stack)
  /\ s.status = "OFF" => /\ s.offLevel <= Len(s.stack)
                         /\ s.open = Recorded(SubSeq(s.stack, 1, s.offLevel))

\* Entering keeps the open regions those of the stack.
LEMMA EnterNested ==
  ASSUME NEW s, Live(s), Nested(s), NEW f \in Frame, NEW u,
         Leads(s, u, Append(s.stack, f), Opened(s, f))
  PROVE  Nested(u)
<1>1. s.stack \in Seq(Frame) /\ Len(s.stack) \in Nat /\ s.offLevel \in Nat
  BY ThreadLengths DEF Live, Good, Sane, ThreadType
<1>2. CASE u.status = "PERMANENT"
  BY <1>2 DEF Nested, Leads
<1>3. CASE u.status = "ON"
  BY <1>1, <1>3, RecordedPush DEF Nested, Leads, Opened
<1>4. CASE u.status = "OFF"
  <2>1. /\ s.status = "OFF" /\ u.stack = Append(s.stack, f) /\ u.open = s.open
        /\ u.offLevel = s.offLevel /\ ~u.orphan /\ s.offLevel <= Len(s.stack)
        /\ s.open = Recorded(SubSeq(s.stack, 1, s.offLevel))
    BY <1>4 DEF Nested, Leads, Opened
  <2>2. Len(u.stack) = Len(s.stack) + 1
        /\ SubSeq(u.stack, 1, s.offLevel) = SubSeq(s.stack, 1, s.offLevel)
    <3>1. s.offLevel \in 0 .. Len(s.stack)
      BY <1>1, <2>1
    <3> QED
      BY <1>1, <2>1, <3>1, AddOne
  <2>3. u.offLevel <= Len(u.stack)
    BY <1>1, <2>1, <2>2
  <2>4. u.open = Recorded(SubSeq(u.stack, 1, u.offLevel))
    BY <2>1, <2>2
  <2> QED
    BY <1>4, <2>1, <2>3, <2>4 DEF Nested
<1>5. u.status = "PERMANENT" \/ u.status = s.status
  BY DEF Leads
<1>6. s.status \in {"ON", "OFF", "PERMANENT"}
  BY DEF Live, Good, Sane, ThreadType
<1> QED
  BY <1>2, <1>3, <1>4, <1>5, <1>6

\* A prefix of the stack without its last frame.
LEMMA PrefixOfRest ==
  ASSUME NEW S, NEW st \in Seq(S), st # << >>, NEW n \in Nat, n < Len(st)
  PROVE  SubSeq(SubSeq(st, 1, Len(st) - 1), 1, n) = SubSeq(st, 1, n)
<1> DEFINE p == SubSeq(st, 1, Len(st) - 1)
<1>1. p \in Seq(S) /\ Len(p) = Len(st) - 1 /\ st[Len(st)] \in S /\ Len(st) \in Nat
      /\ st = Append(p, st[Len(st)])
  BY LastOne
<1> HIDE DEF p
<1>2. n \in 0 .. Len(p)
  BY <1>1
<1> DEFINE e == st[Len(st)]
<1> HIDE DEF e
<1>3. e \in S /\ st = Append(p, e)
  BY <1>1 DEF e
<1>4. SubSeq(Append(p, e), 1, n) = SubSeq(p, 1, n)
  BY <1>1, <1>2, <1>3, AddOne
<1> QED
  BY <1>3, <1>4 DEF p

\* A frame that is left within a nested stream closes the region it opened.
LEMMA ExitNested ==
  ASSUME NEW s, Live(s), Nested(s), s.status = "PERMANENT" \/ s.stack # << >>,
         s.status = "OFF" => s.offLevel < Len(s.stack)
  PROVE  /\ Closes(s) => Len(s.open) # 0
         /\ \A u : Leads(s, u, SubSeq(s.stack, 1, Len(s.stack) - 1), Closed(s)) => Nested(u)
<1>1. s.stack \in Seq(Frame) /\ Len(s.stack) \in Nat /\ s.offLevel \in Nat
  BY ThreadLengths DEF Live, Good, Sane, ThreadType
<1>2. s.status \in {"ON", "OFF", "PERMANENT"}
  BY DEF Live, Good, Sane, ThreadType
<1>3. ASSUME s.status = "ON"
      PROVE  /\ Closes(s) => Len(s.open) # 0
             /\ Closed(s) = Recorded(SubSeq(s.stack, 1, Len(s.stack) - 1))
  <2>1. s.stack # << >> /\ s.open = Recorded(s.stack)
    BY <1>3 DEF Nested
  <2> QED
    BY <1>1, <1>3, <2>1, RecordedPop DEF Closes, Closed
<1>4. ASSUME NEW u, Leads(s, u, SubSeq(s.stack, 1, Len(s.stack) - 1), Closed(s))
      PROVE  Nested(u)
  <2>1. CASE u.status = "PERMANENT"
    BY <1>4, <2>1 DEF Nested, Leads
  <2>2. CASE u.status = "ON"
    BY <1>3, <1>4, <2>2 DEF Nested, Leads
  <2>3. CASE u.status = "OFF"
    <3> DEFINE p == SubSeq(s.stack, 1, Len(s.stack) - 1)
    <3>1. /\ s.status = "OFF" /\ u.stack = p
          /\ u.open = s.open /\ u.offLevel = s.offLevel /\ ~u.orphan
          /\ s.open = Recorded(SubSeq(s.stack, 1, s.offLevel))
      BY <1>4, <2>3 DEF Nested, Leads, Closed, Closes
    <3>2. s.offLevel < Len(s.stack) /\ s.stack # << >>
      BY <3>1
    <3>3. SubSeq(p, 1, s.offLevel) = SubSeq(s.stack, 1, s.offLevel)
      BY <1>1, <3>2, PrefixOfRest
    <3>4. Len(p) = Len(s.stack) - 1
      BY <1>1, <3>2, LastOne
    <3> HIDE DEF p
    <3>5. s.offLevel <= Len(p)
      BY <1>1, <3>2, <3>4
    <3> QED
      BY <2>3, <3>1, <3>3, <3>5 DEF Nested
  <2>4. u.status = "PERMANENT" \/ u.status = s.status
    BY <1>4 DEF Leads
  <2> QED
    BY <1>2, <2>1, <2>2, <2>3, <2>4
<1>5. Closes(s) => Len(s.open) # 0
  BY <1>3 DEF Closes
<1> QED
  BY <1>4, <1>5

\* A piece of a handler after one that leaves stack and stream alone.
LEMMA LeadsSteady ==
  ASSUME NEW s, NEW u, NEW st, NEW o, Leads(s, u, st, o), NEW v, Steady(u, v)
  PROVE  Leads(s, v, st, o)
BY DEF Leads, Steady

\* Entering a region, or leaving one, from a thread that was steady since s.
LEMMA EnterFrom ==
  ASSUME NEW s, NEW d, Leads(s, d, s.stack, s.open), NEW f, NEW u,
         Leads(d, u, Append(d.stack, f), Opened(d, f))
  PROVE  Leads(s, u, Append(s.stack, f), Opened(s, f))
<1>1. CASE u.status = "PERMANENT"
  BY <1>1 DEF Leads
<1>2. CASE u.status # "PERMANENT"
  <2>1. d.status = s.status /\ d.stack = s.stack /\ d.open = s.open
    BY <1>2 DEF Leads
  <2>2. Opened(d, f) = Opened(s, f)
    BY <2>1 DEF Opened
  <2> QED
    BY <2>1, <2>2 DEF Leads
<1> QED
  BY <1>1, <1>2

\* Leaving a region, from a thread that was steady since s.
LEMMA ExitFrom ==
  ASSUME NEW s, NEW d, Leads(s, d, s.stack, s.open), NEW u,
         Leads(d, u, SubSeq(d.stack, 1, Len(d.stack) - 1), Closed(d))
  PROVE  Leads(s, u, SubSeq(s.stack, 1, Len(s.stack) - 1), Closed(s))
<1>1. CASE u.status = "PERMANENT"
  BY <1>1 DEF Leads
<1>2. CASE u.status # "PERMANENT"
  <2>1. d.status = s.status /\ d.stack = s.stack /\ d.open = s.open
    BY <1>2 DEF Leads
  <2>2. Closed(d) = Closed(s)
    BY <2>1 DEF Closed, Closes
  <2> QED
    BY <2>1, <2>2 DEF Leads
<1> QED
  BY <1>1, <1>2

\* Leaving what has just been entered.
LEMMA LeaveEntered ==
  ASSUME NEW s \in ThreadType, NEW f \in Frame, NEW u,
         Leads(s, u, Append(s.stack, f), Opened(s, f)), u.status # "PERMANENT"
  PROVE  /\ u.stack # << >>
         /\ Closes(u) => Len(u.open) # 0
         /\ SubSeq(u.stack, 1, Len(u.stack) - 1) = s.stack
         /\ Closed(u) = s.open
<1> DEFINE n == Len(s.stack)
           m == Len(s.open)
<1>1. s.stack \in Seq(Frame) /\ s.open \in Seq(RegionIds) /\ n \in Nat /\ m \in Nat
      /\ f.rid \in RegionIds
  BY ThreadLengths DEF Frame
<1>2. u.status = s.status /\ u.stack = Append(s.stack, f) /\ u.open = Opened(s, f)
  BY DEF Leads
<1>3. Len(u.stack) = n + 1 /\ u.stack # << >> /\ u.stack[n + 1] = f
      /\ SubSeq(u.stack, 1, n) = s.stack
  BY <1>1, <1>2, AddOne
<1> DEFINE a == Append(s.open, f.rid)
<1>4. Len(a) = m + 1 /\ SubSeq(a, 1, m) = s.open
  BY <1>1, AddOne
<1> HIDE DEF a, n, m
<1>5. Len(u.stack) - 1 = n /\ Len(a) - 1 = m /\ Len(a) # 0
  BY <1>1, <1>3, <1>4
<1>6. Closes(u) <=> s.status = "ON" /\ n + 1 <= MaxStackDepth /\ f.climit # 0
  BY <1>2, <1>3 DEF Closes
<1>7. u.open = IF Closes(u) THEN a ELSE s.open
  BY <1>2, <1>6 DEF Opened, a, n
<1> QED
  BY <1>3, <1>4, <1>5, <1>7 DEF Closed

\* The steps of a handler that are no vt_enter or vt_exit leave stack and stream
\* alone.
LEMMA NeutralSteady ==
  ASSUME NEW s, Live(s), NEW step, Neutral(step), NEW k
  PROVE  Live(Step(s, step, k)) /\ Steady(s, Step(s, step, k))
<1>0. s \in ThreadType
  BY DEF Live, Good, Sane
<1>1. CASE step.op = "time"
  <2> DEFINE u == WithTime(s)
  <2>1. Same(s, u) /\ u.open = s.open /\ Good(u)
    BY <1>0, StaleSame, WithTimeGood DEF WithTime, Live
  <2>2. Step(s, step, k) = u
    BY <1>1 DEF Step
  <2> HIDE DEF u
  <2> QED
    BY <1>0, <2>1, <2>2, SteadySelf, SameSteady
<1>2. CASE step.op = "def"
  BY <1>2, WriteDefSteady DEF Step
<1>3. CASE step.op = "record" \/ (step.op = "ifOn" /\ s.status = "ON")
  <2>1. step.len \in 1 .. Size
    BY <1>3 DEF Neutral
  <2>2. Step(s, step, k) = WriteRecord(s, step.len, k)
    BY <1>3 DEF Step
  <2> QED
    BY <2>1, <2>2, WriteRecordSteady
<1>4. CASE step.op = "ifOn" /\ s.status # "ON"
  BY <1>0, <1>4, SteadySelf DEF Step
<1>5. CASE step.op = "flush"
  BY <1>5, FlushSteady DEF Step
<1> QED
  BY <1>1, <1>2, <1>3, <1>4, <1>5 DEF Neutral

\* A handler leaves every region that it enters.
LEMMA HandlerLeads ==
  ASSUME NEW s, Live(s), NEW steps, Balanced(steps), NEW k
  PROVE  Live(RunSteps(s, steps, k)) /\ Leads(s, RunSteps(s, steps, k), s.stack, s.open)
<1> DEFINE In(st, o) == {u \in ThreadType : Live(u) /\ Leads(s, u, st, o)}
           A == In(s.stack, s.open)
           o1 == IF s.status = "ON" THEN Append(s.open, STAT) ELSE s.open
           C == In(s.stack, o1)
           B == {u \in ThreadType : /\ Live(u)
                                    /\ \E f \in Frame : Leads(s, u, Append(s.stack, f), Opened(s, f))}
<1>0. s \in ThreadType /\ s.open \in Seq(RegionIds) /\ STAT \in RegionIds
      /\ s.status \in {"ON", "OFF", "PERMANENT"} /\ Len(s.open) \in Nat
  <2>1. s \in ThreadType
    BY DEF Live, Good, Sane
  <2> QED
    BY <2>1, ThreadLengths DEF ThreadType, RegionIds
<1>1. s \in A
  BY <1>0 DEF Leads
<1>2. ASSUME NEW st, NEW o, NEW u \in In(st, o), NEW step, Neutral(step)
      PROVE  Step(u, step, k) \in In(st, o)
  <2> DEFINE v == Step(u, step, k)
  <2>1. Live(v) /\ Steady(u, v)
    BY <1>2, NeutralSteady
  <2> HIDE DEF v
  <2>2. Leads(s, v, st, o)
    BY <2>1, LeadsSteady
  <2> QED
    BY <2>1, <2>2 DEF Live, Good, Sane, v
<1>3. ASSUME NEW u \in A, NEW e, e.op = "enter", e.rid \in RegionIds
      PROVE  Step(u, e, k) \in B
  <2> DEFINE v == vt_enter(u, e.rid, k)
  <2>1. Live(v) /\ \E f \in Frame : f.rid = e.rid /\ Leads(u, v, Append(u.stack, f), Opened(u, f))
    BY <1>3, EnterLeads
  <2>2. Step(u, e, k) = v
    BY <1>3 DEF Step
  <2> HIDE DEF v
  <2>3. PICK f \in Frame : Leads(u, v, Append(u.stack, f), Opened(u, f))
    BY <2>1
  <2>4. Leads(s, v, Append(s.stack, f), Opened(s, f))
    BY <2>3, EnterFrom
  <2>5. v \in ThreadType
    BY <2>1 DEF Live, Good, Sane
  <2> QED
    BY <2>1, <2>2, <2>4, <2>5
<1>4. ASSUME NEW u \in B, NEW step, Neutral(step)
      PROVE  Step(u, step, k) \in B
  <2> DEFINE v == Step(u, step, k)
  <2>1. PICK f \in Frame : Leads(s, u, Append(s.stack, f), Opened(s, f))
    OBVIOUS
  <2>2. Live(v) /\ Steady(u, v)
    BY <1>4, NeutralSteady
  <2> HIDE DEF v
  <2>3. Leads(s, v, Append(s.stack, f), Opened(s, f))
    BY <2>1, <2>2, LeadsSteady
  <2> QED
    BY <2>2, <2>3 DEF Live, Good, Sane, v
<1>5. ASSUME NEW u \in B, NEW x, x.op = "exit"
      PROVE  Step(u, x, k) \in A
  <2> DEFINE v == vt_exit(u, k)
  <2>1. PICK f \in Frame : Leads(s, u, Append(s.stack, f), Opened(s, f))
    OBVIOUS
  <2>2. Step(u, x, k) = v
    BY <1>5 DEF Step
  <2>3. CASE u.status = "PERMANENT"
    <3>1. v = u
      BY <2>3 DEF vt_exit
    <3>2. Leads(s, u, s.stack, s.open)
      BY <2>1, <2>3 DEF Leads
    <3> QED
      BY <2>2, <3>1, <3>2
  <2>4. CASE u.status # "PERMANENT"
    <3>1. /\ u.stack # << >>
          /\ Closes(u) => Len(u.open) # 0
          /\ SubSeq(u.stack, 1, Len(u.stack) - 1) = s.stack
          /\ Closed(u) = s.open
      BY <1>0, <2>1, <2>4, LeaveEntered
    <3>2. Live(v) /\ Leads(u, v, s.stack, s.open)
      BY <3>1, ExitLeads
    <3> HIDE DEF v
    <3>3. Leads(s, v, s.stack, s.open)
      BY <2>1, <3>2, LeadsThen
    <3> QED
      BY <2>2, <3>2, <3>3 DEF Live, Good, Sane
  <2> QED
    BY <2>3, <2>4
<1>6. ASSUME NEW u \in A, NEW e, e.op = "enterStat"
      PROVE  Step(u, e, k) \in C
  <2> DEFINE w == WriteEnter(u, STAT, k)
             v == UpdateCounter(w, k)
  <2>1. Step(u, e, k) = IF u.status = "ON" THEN v ELSE u
    BY <1>6 DEF Step, vt_enter_stat
  <2>2. CASE u.status = "ON"
    <3>1. Live(w) /\ Leads(u, w, u.stack, Append(u.open, STAT))
      BY <1>0, WriteEnterLeads
    <3> HIDE DEF w
    <3>2. Live(v) /\ Steady(w, v)
      BY <3>1, UpdateCounterSteady
    <3> HIDE DEF v
    <3>3. s.status = "ON" /\ u.stack = s.stack /\ u.open = s.open
      BY <2>2 DEF Leads
    <3>4. Leads(s, v, s.stack, o1)
      BY <3>1, <3>2, <3>3 DEF Leads, Steady
    <3> QED
      BY <2>1, <2>2, <3>2, <3>4 DEF Live, Good, Sane
  <2>3. CASE u.status # "ON"
    <3>1. Leads(s, u, s.stack, o1)
      BY <2>3 DEF Leads
    <3> QED
      BY <2>1, <2>3, <3>1
  <2> QED
    BY <2>2, <2>3
<1>7. ASSUME NEW u \in C, NEW x, x.op = "exitStat"
      PROVE  Step(u, x, k) \in A
  <2> DEFINE c == UpdateCounter(u, k)
             v == WriteLeave(c, k)
  <2>1. Step(u, x, k) = IF u.status = "ON" THEN v ELSE u
    BY <1>7 DEF Step, vt_exit_stat
  <2>2. CASE u.status = "ON"
    <3>1. s.status = "ON" /\ u.stack = s.stack /\ u.open = o1
      BY <2>2 DEF Leads
    <3>2. u.open = Append(s.open, STAT)
      BY <3>1
    <3>3. Len(u.open) = Len(s.open) + 1 /\ SubSeq(u.open, 1, Len(s.open)) = s.open
      BY <1>0, <3>2, AddOne
    <3>4. Live(c) /\ Steady(u, c)
      BY UpdateCounterSteady
    <3> HIDE DEF c
    <3>5. Len(c.open) \in Nat /\ Len(u.open) \in Nat /\ Len(u.open) - 1 = Len(s.open)
      <4>1. c \in ThreadType /\ u \in ThreadType
        BY <3>4 DEF Live, Good, Sane
      <4> QED
        BY <1>0, <3>3, <4>1, ThreadLengths
    <3>6. Len(c.open) # 0
      BY <1>0, <3>3, <3>4, <3>5 DEF Steady
    <3>7. Live(v) /\ Leads(c, v, c.stack, SubSeq(c.open, 1, Len(c.open) - 1))
      BY <3>4, <3>6, WriteLeaveLeads
    <3> HIDE DEF v
    <3>8. Leads(u, v, u.stack, SubSeq(u.open, 1, Len(u.open) - 1))
      BY <3>4, <3>7 DEF Steady, Leads
    <3>9. SubSeq(u.open, 1, Len(u.open) - 1) = s.open
      BY <3>3, <3>5
    <3>10. Leads(s, v, s.stack, s.open)
      <4>1. Leads(u, v, s.stack, s.open)
        BY <3>1, <3>8, <3>9 DEF Leads
      <4>2. Leads(s, u, s.stack, o1)
        OBVIOUS
      <4> QED
        BY <4>1, <4>2, LeadsThen
    <3> QED
      BY <2>1, <2>2, <3>7, <3>10 DEF Live, Good, Sane
  <2>3. CASE u.status # "ON"
    <3>1. Leads(s, u, s.stack, s.open)
      BY <2>3 DEF Leads
    <3> QED
      BY <2>1, <2>3, <3>1
  <2> QED
    BY <2>2, <2>3
<1>8. ASSUME NEW e, NEW x, Pair(e, x)
      PROVE  \E D : /\ \A u \in A : Step(u, e, k) \in D
                    /\ \A u \in D : \A step : Neutral(step) => Step(u, step, k) \in D
                    /\ \A u \in D : Step(u, x, k) \in A
  <2>1. CASE e.op = "enter" /\ e.rid \in RegionIds /\ x.op = "exit"
    <3> HIDE DEF A, B
    <3>1. \A u \in A : Step(u, e, k) \in B
      BY <1>3, <2>1
    <3>2. \A u \in B : \A step : Neutral(step) => Step(u, step, k) \in B
      BY <1>4
    <3>3. \A u \in B : Step(u, x, k) \in A
      BY <1>5, <2>1
    <3> QED
      BY <3>1, <3>2, <3>3
  <2>2. CASE e.op = "enterStat" /\ x.op = "exitStat"
    <3>1. \A u \in C : \A step : Neutral(step) => Step(u, step, k) \in C
      <4> HIDE DEF In
      <4> QED
        BY <1>2
    <3> HIDE DEF A, C
    <3>2. \A u \in A : Step(u, e, k) \in C
      BY <1>6, <2>2
    <3>3. \A u \in C : Step(u, x, k) \in A
      BY <1>7, <2>2
    <3> QED
      BY <3>1, <3>2, <3>3
  <2> QED
    BY <1>8, <2>1, <2>2 DEF Pair
<1>9. \A u \in A : \A step : Neutral(step) => Step(u, step, k) \in A
  <2> HIDE DEF In
  <2> QED
    BY <1>2
<1>10. RunSteps(s, steps, k) \in A
  <2> HIDE DEF A
  <2> QED
    BY <1>1, <1>8, <1>9, HandlerRuns
<1> QED
  BY <1>10

------------------------------------------------------------------------------
(* The inductive invariant of the nesting, for programs that use VT_OFF, VT_ON
   and the rewind as recommended. *)

\* Since VT_OFF the stack has grown by the functions the program entered.
OffInv ==
  t.status = "OFF" => offAt <= frames /\ Len(t.stack) = t.offLevel + (frames - offAt)

\* The same since the rewind mark was set, unless its function is left; the
\* regions open at the mark are those of the stack of that time.
MarkInv ==
  t.status # "PERMANENT" /\ HasMark(t) /\ markAt # -1 =>
    /\ markAt <= frames
    /\ t.status = "OFF" => markAt <= offAt
    /\ Len(t.stack) = t.markLevel + (frames - markAt) + (IF t.status = "OFF" THEN 1 ELSE 0)
    /\ t.openMark = Recorded(SubSeq(t.stack, 1, t.markLevel))

Settled == Nested(t) /\ OffInv /\ MarkInv

NestInv == safe => phase # "aborted" /\ (phase = "alive" => Live(t) /\ Settled)

\* Once tracing is off for good only the regions left so far matter.
LEMMA SettledForGood ==
  ASSUME t'.status = "PERMANENT", ~t'.orphan
  PROVE  Settled'
BY DEF Settled, Nested, OffInv, MarkInv

\* What the invariant is about has its type.
LEMMA NestTypes ==
  ASSUME IInv
  PROVE  /\ t \in ThreadType
         /\ t.stack \in Seq(Frame) /\ Len(t.stack) \in Nat /\ t.offLevel \in Nat
         /\ t.markLevel \in Nat /\ t.status \in {"ON", "OFF", "PERMANENT"}
         /\ frames \in Nat /\ offAt \in Nat /\ markAt \in Nat \cup {-1}
<1>1. /\ t \in ThreadType /\ frames \in Nat /\ offAt \in Nat /\ markAt \in Nat \cup {-1}
  BY DEF IInv, TypeOK
<1> QED
  BY <1>1, ThreadLengths DEF ThreadType

\* The time stamp of a handler changes nothing of this.
LEMMA NowLive ==
  ASSUME Live(t), Settled
  PROVE  /\ Live(WithTime(t)) /\ Leads(t, WithTime(t), t.stack, t.open)
         /\ Same(t, WithTime(t)) /\ WithTime(t).open = t.open /\ Nested(WithTime(t))
<1> DEFINE u == WithTime(t)
<1>0. t \in ThreadType
  BY DEF Live, Good, Sane
<1>1. Same(t, u) /\ u.open = t.open /\ Good(u)
  BY <1>0, StaleSame, WithTimeGood DEF WithTime, Live
<1> HIDE DEF u
<1>2. Live(u) /\ Steady(t, u)
  BY <1>0, <1>1, SteadySelf, SameSteady
<1>3. Nested(u)
  BY <1>1 DEF Settled, Nested, Same
<1> QED
  BY <1>1, <1>2, <1>3 DEF Steady, u

\* Handlers that leave the call stack where it is.
LEMMA KeepSettled ==
  ASSUME IInv, Settled, Leads(t, t', t.stack, t.open), UNCHANGED <<frames, offAt, markAt>>
  PROVE  Settled'
<1>1. CASE t'.status = "PERMANENT"
  BY <1>1, SettledForGood DEF Leads, Settled, Nested
<1>2. CASE t'.status # "PERMANENT"
  <2>1. /\ t'.status = t.status /\ t'.stack = t.stack /\ t'.open = t.open
        /\ t'.offLevel = t.offLevel /\ t'.markLevel = t.markLevel /\ t'.orphan = t.orphan
        /\ HasMark(t') => HasMark(t) /\ t'.openMark = t.openMark
    BY <1>2 DEF Leads
  <2>2. Nested(t')
    BY <2>1 DEF Settled, Nested
  <2>3. OffInv'
    BY <2>1 DEF Settled, OffInv
  <2>4. MarkInv'
    BY <2>1 DEF Settled, MarkInv
  <2> QED
    BY <2>2, <2>3, <2>4 DEF Settled
<1> QED
  BY <1>1, <1>2

\* The program enters a function.
LEMMA PushSettled ==
  ASSUME IInv, Live(t), Settled, NEW f \in Frame,
         Leads(t, t', Append(t.stack, f), Opened(t, f)),
         frames' = frames + 1, UNCHANGED <<offAt, markAt>>
  PROVE  Settled'
<1>0. /\ t \in ThreadType
      /\ t.stack \in Seq(Frame) /\ Len(t.stack) \in Nat /\ t.offLevel \in Nat
      /\ t.markLevel \in Nat /\ t.status \in {"ON", "OFF", "PERMANENT"}
      /\ frames \in Nat /\ offAt \in Nat /\ markAt \in Nat \cup {-1}
  BY NestTypes
<1>1. CASE t'.status = "PERMANENT"
  BY <1>1, SettledForGood DEF Leads, Settled, Nested
<1>2. CASE t'.status # "PERMANENT"
  <2>1. /\ t'.status = t.status /\ t'.stack = Append(t.stack, f)
        /\ t'.offLevel = t.offLevel /\ t'.markLevel = t.markLevel
        /\ HasMark(t') => HasMark(t) /\ t'.openMark = t.openMark
    BY <1>2 DEF Leads
  <2>2. Nested(t')
    BY EnterNested DEF Settled
  <2>3. Len(t'.stack) = Len(t.stack) + 1
        /\ \A n \in 0 .. Len(t.stack) : SubSeq(t'.stack, 1, n) = SubSeq(t.stack, 1, n)
    BY <1>0, <2>1, AddOne
  <2>4. OffInv'
    <3> SUFFICES ASSUME t.status = "OFF"
                 PROVE  offAt' <= frames' /\ Len(t'.stack) = t'.offLevel + (frames' - offAt')
      BY <2>1 DEF OffInv
    <3>1. offAt <= frames /\ Len(t.stack) = t.offLevel + (frames - offAt)
      BY DEF Settled, OffInv
    <3>2. Len(t.stack) + 1 = t.offLevel + ((frames + 1) - offAt) /\ offAt <= frames + 1
      BY <1>0, <3>1
    <3> QED
      BY <2>1, <2>3, <3>2
  <2>5. ASSUME HasMark(t'), markAt # -1
        PROVE  /\ markAt' <= frames'
               /\ t'.status = "OFF" => markAt' <= offAt'
               /\ Len(t'.stack) = t'.markLevel + (frames' - markAt') +
                                    (IF t'.status = "OFF" THEN 1 ELSE 0)
               /\ t'.openMark = Recorded(SubSeq(t'.stack, 1, t'.markLevel))
    <3> DEFINE d == IF t.status = "OFF" THEN 1 ELSE 0
    <3>1. /\ markAt <= frames
          /\ t.status = "OFF" => markAt <= offAt
          /\ Len(t.stack) = t.markLevel + (frames - markAt) + d
          /\ t.openMark = Recorded(SubSeq(t.stack, 1, t.markLevel))
      BY <1>2, <2>1, <2>5 DEF Settled, MarkInv
    <3>2. d \in Nat
      OBVIOUS
    <3>3. (IF t'.status = "OFF" THEN 1 ELSE 0) = d
      BY <2>1
    <3> HIDE DEF d
    <3>4. t.markLevel \in 0 .. Len(t.stack) /\ markAt \in Nat
      BY <1>0, <2>5, <3>1, <3>2
    <3>5. Len(t'.stack) = t'.markLevel + (frames' - markAt') + d /\ markAt' <= frames'
      BY <1>0, <2>1, <2>3, <3>1, <3>2, <3>4
    <3>6. t'.openMark = Recorded(SubSeq(t'.stack, 1, t'.markLevel))
      BY <2>1, <2>3, <2>5, <3>1, <3>4
    <3> QED
      BY <2>1, <3>1, <3>3, <3>5, <3>6
  <2>6. MarkInv'
    BY <2>5 DEF MarkInv
  <2> QED
    BY <2>2, <2>4, <2>6 DEF Settled
<1> QED
  BY <1>1, <1>2

\* The program leaves a function.
LEMMA PopSettled ==
  ASSUME IInv, Live(t), Settled, t.status = "PERMANENT" \/ t.stack # << >>,
         t.status = "OFF" => frames > offAt,
         frames > 0, frames' = frames - 1, offAt' = offAt,
         markAt' = (IF markAt = frames THEN -1 ELSE markAt),
         Leads(t, t', SubSeq(t.stack, 1, Len(t.stack) - 1), Closed(t))
  PROVE  Settled'
<1>0. /\ t \in ThreadType
      /\ t.stack \in Seq(Frame) /\ Len(t.stack) \in Nat /\ t.offLevel \in Nat
      /\ t.markLevel \in Nat /\ t.status \in {"ON", "OFF", "PERMANENT"}
      /\ frames \in Nat /\ offAt \in Nat /\ markAt \in Nat \cup {-1}
  BY NestTypes
<1>1. CASE t'.status = "PERMANENT"
  BY <1>1, SettledForGood DEF Leads, Settled, Nested
<1>2. CASE t'.status # "PERMANENT"
  <2> DEFINE p == SubSeq(t.stack, 1, Len(t.stack) - 1)
  <2>1. /\ t'.status = t.status /\ t'.stack = p /\ t.stack # << >>
        /\ t'.offLevel = t.offLevel /\ t'.markLevel = t.markLevel
        /\ HasMark(t') => HasMark(t) /\ t'.openMark = t.openMark
    BY <1>2 DEF Leads
  <2>2. Nested(t')
    <3>1. t.status = "OFF" => t.offLevel < Len(t.stack)
      BY <1>0 DEF Settled, OffInv
    <3> QED
      BY <3>1, ExitNested DEF Settled
  <2>3. Len(p) = Len(t.stack) - 1
        /\ \A n \in Nat : n < Len(t.stack) => SubSeq(p, 1, n) = SubSeq(t.stack, 1, n)
    BY <1>0, <2>1, LastOne, PrefixOfRest
  <2> HIDE DEF p
  <2>4. OffInv'
    BY <1>0, <2>1, <2>3 DEF Settled, OffInv
  <2>5. ASSUME HasMark(t'), markAt' # -1
        PROVE  /\ markAt' <= frames'
               /\ t'.status = "OFF" => markAt' <= offAt'
               /\ Len(t'.stack) = t'.markLevel + (frames' - markAt') +
                                    (IF t'.status = "OFF" THEN 1 ELSE 0)
               /\ t'.openMark = Recorded(SubSeq(t'.stack, 1, t'.markLevel))
    <3> DEFINE d == IF t.status = "OFF" THEN 1 ELSE 0
    <3>1. markAt' = markAt /\ markAt # -1 /\ markAt # frames
      BY <2>5
    <3>2. /\ markAt <= frames
          /\ t.status = "OFF" => markAt <= offAt
          /\ Len(t.stack) = t.markLevel + (frames - markAt) + d
          /\ t.openMark = Recorded(SubSeq(t.stack, 1, t.markLevel))
      BY <1>2, <2>1, <2>5, <3>1 DEF Settled, MarkInv
    <3>3. d \in Nat
      OBVIOUS
    <3>4. (IF t'.status = "OFF" THEN 1 ELSE 0) = d
      BY <2>1
    <3> HIDE DEF d
    <3>5. t.markLevel < Len(t.stack) /\ markAt \in Nat
      BY <1>0, <3>1, <3>2, <3>3
    <3>6. Len(t'.stack) = t'.markLevel + (frames' - markAt') + d /\ markAt' <= frames'
      BY <1>0, <2>1, <2>3, <3>1, <3>2, <3>3, <3>5
    <3>7. t'.openMark = Recorded(SubSeq(t'.stack, 1, t'.markLevel))
      BY <1>0, <2>1, <2>3, <2>5, <3>2, <3>5
    <3> QED
      BY <2>1, <3>1, <3>2, <3>4, <3>6, <3>7
  <2>6. MarkInv'
    BY <2>5 DEF MarkInv
  <2> QED
    BY <2>2, <2>4, <2>6 DEF Settled
<1> QED
  BY <1>1, <1>2

\* VT_OFF in a program that is recording.
LEMMA OffSettled ==
  ASSUME IInv, Live(t), Settled, t.status = "ON", NEW k,
         t' = vt_trace_off(WithTime(t), k), offAt' = frames, UNCHANGED <<frames, markAt>>
  PROVE  Live(t') /\ Settled'
<1> DEFINE now == WithTime(t)
           e == vt_enter(now, OFF, k)
           n == Len(e.stack)
           u == [e EXCEPT !.status = "OFF", !.offLevel = n]
<1>0. /\ t \in ThreadType
      /\ t.stack \in Seq(Frame) /\ Len(t.stack) \in Nat /\ t.offLevel \in Nat
      /\ t.markLevel \in Nat /\ t.status \in {"ON", "OFF", "PERMANENT"}
      /\ frames \in Nat /\ offAt \in Nat /\ markAt \in Nat \cup {-1}
  BY NestTypes
<1>1. Live(now) /\ Leads(t, now, t.stack, t.open) /\ now.status = "ON"
  BY NowLive DEF Same
<1>2. t' = IF e.status = "ON" THEN u ELSE e
  BY <1>1 DEF vt_trace_off
<1>3. Good(t')
  <2>1. Good(now)
    BY <1>1 DEF Live
  <2> QED
    BY <2>1, TraceOffGood
<1> HIDE DEF now
<1>4. Live(e) /\ \E f \in Frame : Leads(now, e, Append(now.stack, f), Opened(now, f))
  BY <1>1, EnterLeads DEF RegionIds
<1>5. PICK f \in Frame : Leads(t, e, Append(t.stack, f), Opened(t, f))
  <2>1. PICK f \in Frame : Leads(now, e, Append(now.stack, f), Opened(now, f))
    BY <1>4
  <2>2. Leads(t, e, Append(t.stack, f), Opened(t, f))
    <3> HIDE DEF e
    <3> QED
      BY <1>1, <2>1, EnterFrom
  <2> QED
    BY <2>2
<1>6. Nested(e)
  <2> HIDE DEF e
  <2> QED
    BY <1>5, EnterNested DEF Settled
<1> HIDE DEF e
<1>7. e \in ThreadType /\ e.stack \in Seq(Frame) /\ n \in Nat
  BY <1>4, ThreadLengths DEF Live, Good, Sane
<1>8. CASE e.status = "ON"
  <2>1. /\ e.stack = Append(t.stack, f) /\ e.open = Recorded(e.stack) /\ ~e.orphan
        /\ e.markLevel = t.markLevel
        /\ HasMark(e) => HasMark(t) /\ e.openMark = t.openMark
        /\ e.flushcntr # 0
    BY <1>4, <1>5, <1>6, <1>8 DEF Leads, Nested, Live
  <2>2. n = Len(t.stack) + 1
        /\ \A m \in 0 .. Len(t.stack) : SubSeq(e.stack, 1, m) = SubSeq(t.stack, 1, m)
    BY <1>0, <2>1, AddOne
  <2>3. SubSeq(e.stack, 1, n) = e.stack
    BY <1>7, SubSeqFull
  <2> HIDE DEF n
  <2>4. /\ t'.status = "OFF" /\ t'.offLevel = n /\ t'.stack = e.stack /\ t'.open = e.open
        /\ t'.orphan = e.orphan /\ t'.markLevel = e.markLevel /\ t'.markPos = e.markPos
        /\ t'.openMark = e.openMark /\ t'.flushcntr = e.flushcntr
    BY <1>2, <1>7, <1>8 DEF ThreadType
  <2>5. Live(t')
    BY <1>3, <2>1, <2>4 DEF Live
  <2>6. Nested(t')
    <3>1. t'.offLevel <= Len(t'.stack)
      BY <1>7, <2>4 DEF n
    <3>2. t'.open = Recorded(SubSeq(t'.stack, 1, t'.offLevel))
      BY <2>1, <2>3, <2>4
    <3> QED
      BY <2>1, <2>4, <3>1, <3>2 DEF Nested
  <2>7. OffInv'
    BY <1>0, <1>7, <2>4 DEF OffInv, n
  <2>8. MarkInv'
    <3> SUFFICES ASSUME HasMark(t'), markAt # -1
                 PROVE  /\ markAt' <= frames' /\ markAt' <= offAt'
                        /\ Len(t'.stack) = t'.markLevel + (frames' - markAt') + 1
                        /\ t'.openMark = Recorded(SubSeq(t'.stack, 1, t'.markLevel))
      BY <2>4 DEF MarkInv
    <3>1. HasMark(t) /\ t'.openMark = t.openMark
      BY <2>1, <2>4 DEF HasMark
    <3>2. /\ markAt <= frames /\ Len(t.stack) = t.markLevel + (frames - markAt) + 0
          /\ t.openMark = Recorded(SubSeq(t.stack, 1, t.markLevel))
      BY <3>1 DEF Settled, MarkInv
    <3>3. t.markLevel \in 0 .. Len(t.stack) /\ markAt \in Nat
      BY <1>0, <3>2
    <3>4. Len(t'.stack) = t'.markLevel + (frames' - markAt') + 1
      BY <1>0, <2>1, <2>2, <2>4, <3>2, <3>3 DEF n
    <3>5. t'.openMark = Recorded(SubSeq(t'.stack, 1, t'.markLevel))
      BY <2>1, <2>2, <2>4, <3>1, <3>2, <3>3
    <3> QED
      BY <3>2, <3>4, <3>5
  <2> QED
    BY <2>5, <2>6, <2>7, <2>8 DEF Settled
<1>9. CASE e.status # "ON"
  <2>1. t' = e /\ e.status = "PERMANENT" /\ ~e.orphan
    BY <1>2, <1>5, <1>6, <1>9 DEF Leads, Nested
  <2> QED
    BY <1>4, <2>1, SettledForGood
<1> QED
  BY <1>8, <1>9

\* VT_ON in the function that called VT_OFF.
LEMMA OnSettled ==
  ASSUME IInv, Live(t), Settled, t.status = "OFF", frames = offAt, NEW k,
         t' = vt_exit(WithTime([t EXCEPT !.status = "ON"]), k),
         UNCHANGED <<frames, offAt, markAt>>
  PROVE  Live(t') /\ Settled'
<1> DEFINE on == [t EXCEPT !.status = "ON"]
           s  == WithTime(on)
           p  == SubSeq(t.stack, 1, Len(t.stack) - 1)
<1>0. /\ t \in ThreadType
      /\ t.stack \in Seq(Frame) /\ Len(t.stack) \in Nat /\ t.offLevel \in Nat
      /\ t.markLevel \in Nat /\ t.status \in {"ON", "OFF", "PERMANENT"}
      /\ frames \in Nat /\ offAt \in Nat /\ markAt \in Nat \cup {-1}
  BY NestTypes
<1>1. /\ Good(on) /\ on.status = "ON" /\ on.stack = t.stack /\ on.open = t.open
      /\ on.flushcntr = t.flushcntr /\ on.markLevel = t.markLevel /\ on.markPos = t.markPos
      /\ on.openMark = t.openMark /\ on.orphan = t.orphan /\ on \in ThreadType
  BY DEF Live, Good, Sane, ThreadType, HasMark
<1>2. t' = vt_exit(s, k)
  OBVIOUS
<1> HIDE DEF on
<1>3. Good(s) /\ Same(on, s) /\ s.open = on.open
  BY <1>1, WithTimeGood, StaleSame DEF WithTime
<1> HIDE DEF s
<1>4. t.flushcntr # 0
  BY DEF Live
<1>5. Live(s)
  BY <1>1, <1>3, <1>4 DEF Live, Same
<1>6. Len(t.stack) = t.offLevel /\ t.stack # << >>
  BY <1>0 DEF Settled, OffInv, IInv, NoUnderflow
<1>7. Nested(s) /\ s.status = "ON" /\ s.stack = t.stack
  <2>1. t.open = Recorded(SubSeq(t.stack, 1, Len(t.stack))) /\ ~t.orphan
    BY <1>6 DEF Settled, Nested
  <2>2. SubSeq(t.stack, 1, Len(t.stack)) = t.stack
    BY <1>0, SubSeqFull
  <2> QED
    BY <1>1, <1>3, <2>1, <2>2 DEF Nested, Same
<1>8. /\ Closes(s) => Len(s.open) # 0
      /\ \A u : Leads(s, u, SubSeq(s.stack, 1, Len(s.stack) - 1), Closed(s)) => Nested(u)
  BY <1>5, <1>6, <1>7, ExitNested
<1>9. Live(t') /\ Leads(s, t', SubSeq(s.stack, 1, Len(s.stack) - 1), Closed(s))
  BY <1>2, <1>5, <1>6, <1>7, <1>8, ExitLeads
<1>10. Nested(t')
  BY <1>8, <1>9
<1>11. CASE t'.status = "PERMANENT"
  BY <1>9, <1>10, <1>11, SettledForGood DEF Nested
<1>12. CASE t'.status # "PERMANENT"
  <2>1. /\ t'.status = "ON" /\ t'.stack = p /\ t'.markLevel = t.markLevel
        /\ HasMark(t') => HasMark(t) /\ t'.openMark = t.openMark
    BY <1>1, <1>3, <1>7, <1>9, <1>12 DEF Leads, Same, HasMark
  <2>2. Len(p) = Len(t.stack) - 1
        /\ \A n \in Nat : n < Len(t.stack) => SubSeq(p, 1, n) = SubSeq(t.stack, 1, n)
    BY <1>0, <1>6, LastOne, PrefixOfRest
  <2> HIDE DEF p
  <2>3. MarkInv'
    <3> SUFFICES ASSUME HasMark(t'), markAt # -1
                 PROVE  /\ markAt' <= frames'
                        /\ Len(t'.stack) = t'.markLevel + (frames' - markAt') + 0
                        /\ t'.openMark = Recorded(SubSeq(t'.stack, 1, t'.markLevel))
      BY <2>1 DEF MarkInv
    <3>1. HasMark(t) /\ t'.openMark = t.openMark
      BY <2>1
    <3>2. /\ markAt <= frames /\ Len(t.stack) = t.markLevel + (frames - markAt) + 1
          /\ t.openMark = Recorded(SubSeq(t.stack, 1, t.markLevel))
      BY <3>1 DEF Settled, MarkInv
    <3>3. t.markLevel < Len(t.stack) /\ markAt \in Nat
      BY <1>0, <3>2
    <3>4. Len(t'.stack) = t'.markLevel + (frames' - markAt') + 0
      BY <1>0, <2>1, <2>2, <3>2, <3>3
    <3>5. t'.openMark = Recorded(SubSeq(t'.stack, 1, t'.markLevel))
      BY <1>0, <2>1, <2>2, <3>1, <3>2, <3>3
    <3> QED
      BY <3>2, <3>4, <3>5
  <2>4. OffInv'
    BY <2>1 DEF OffInv
  <2> QED
    BY <1>9, <1>10, <2>3, <2>4 DEF Settled
<1> QED
  BY <1>11, <1>12

\* VT_SET_REWIND_MARK remembers the regions that are open now.
LEMMA MarkSettled ==
  ASSUME IInv, Live(t), Settled, t.status = "ON", NEW k,
         t' = vt_set_rewind_mark(WithTime(t), k), markAt' = frames, UNCHANGED <<frames, offAt>>
  PROVE  Live(t') /\ Settled'
<1> DEFINE now == WithTime(t)
           n == Len(now.stack)
           l == [now EXCEPT !.markLevel = n]
           c == UpdateCounter(l, k)
<1>0. /\ t \in ThreadType
      /\ t.stack \in Seq(Frame) /\ Len(t.stack) \in Nat /\ t.offLevel \in Nat
      /\ t.markLevel \in Nat /\ t.status \in {"ON", "OFF", "PERMANENT"}
      /\ frames \in Nat /\ offAt \in Nat /\ markAt \in Nat \cup {-1}
  BY NestTypes
<1>1. /\ Live(now) /\ now.status = "ON" /\ now.stack = t.stack /\ now.open = t.open
      /\ now.orphan = t.orphan /\ now \in ThreadType /\ Nested(now)
  BY NowLive DEF Same
<1>2. t' = [c EXCEPT !.markPos = c.pos, !.markDefs = 0, !.openMark = c.open]
  BY DEF vt_set_rewind_mark
<1>3. Good(t')
  BY <1>1, SetRewindMarkGood DEF Live
<1> HIDE DEF now
<1>4. n = Len(t.stack) /\ n \in Nat
  BY <1>0, <1>1
<1> HIDE DEF n
<1>5. Live(l) /\ l.markLevel = n /\ l.status = "ON" /\ l.stack = t.stack /\ l.open = t.open
      /\ l.orphan = t.orphan
  BY <1>1, <1>4 DEF Live, Good, Sane, ThreadType, HasMark
<1> HIDE DEF l
<1>6. Live(c) /\ Steady(l, c)
  BY <1>5, UpdateCounterSteady
<1> HIDE DEF c
<1>7. c.open \in Seq(RegionIds) /\ c.pos \in Nat /\ c \in ThreadType
  BY <1>6 DEF Live, Good, Sane, ThreadType
<1>8. /\ t'.status = c.status /\ t'.stack = c.stack /\ t'.open = c.open /\ t'.orphan = c.orphan
      /\ t'.markLevel = c.markLevel /\ t'.openMark = c.open /\ t'.flushcntr = c.flushcntr
  BY <1>2, <1>7 DEF ThreadType
<1>9. Live(t')
  BY <1>3, <1>6, <1>8 DEF Live
<1>10. ~t'.orphan
  BY <1>5, <1>6, <1>8 DEF Steady, Leads, Settled, Nested
<1>11. CASE t'.status = "PERMANENT"
  BY <1>9, <1>10, <1>11, SettledForGood
<1>12. CASE t'.status # "PERMANENT"
  <2>1. t'.status = "ON" /\ t'.stack = t.stack /\ t'.open = t.open /\ t'.openMark = t.open
        /\ t'.markLevel = n
    BY <1>5, <1>6, <1>8, <1>12 DEF Steady, Leads
  <2>2. t.open = Recorded(t.stack) /\ SubSeq(t.stack, 1, n) = t.stack
    BY <1>0, <1>4, SubSeqFull DEF Settled, Nested
  <2>3. Nested(t') /\ OffInv'
    BY <1>10, <2>1, <2>2 DEF Nested, OffInv
  <2>4. MarkInv'
    <3>1. n = n + (frames - frames) + 0 /\ markAt' <= frames'
      BY <1>0, <1>4
    <3>2. Len(t'.stack) = t'.markLevel + (frames' - markAt') + 0
      BY <1>4, <2>1, <3>1
    <3>3. t'.openMark = Recorded(SubSeq(t'.stack, 1, t'.markLevel))
      BY <2>1, <2>2
    <3> QED
      BY <2>1, <3>1, <3>2, <3>3 DEF MarkInv
  <2> QED
    BY <1>9, <2>3, <2>4 DEF Settled
<1> QED
  BY <1>11, <1>12

\* VT_REWIND in the function that set the mark.
LEMMA RewindSettled ==
  ASSUME IInv, Live(t), Settled, t.status = "ON", HasMark(t), markAt = frames, NEW k,
         t' = vt_rewind(WithTime(t), k), UNCHANGED <<frames, offAt, markAt>>
  PROVE  Live(t') /\ Settled'
<1> DEFINE now == WithTime(t)
           g == VTGen_rewind(now)
           e == WriteEnter(g, REWIND, k)
           b == Full(g, EnterLeaveLen)
           x == [e EXCEPT !.stale = b]
           c == UpdateCounter(x, k)
           w == WriteLeave(c, k)
<1>0. /\ t \in ThreadType
      /\ t.stack \in Seq(Frame) /\ Len(t.stack) \in Nat /\ t.offLevel \in Nat
      /\ t.markLevel \in Nat /\ t.status \in {"ON", "OFF", "PERMANENT"}
      /\ frames \in Nat /\ offAt \in Nat /\ markAt \in Nat \cup {-1}
  BY NestTypes
<1>1. /\ Live(now) /\ now.status = "ON" /\ HasMark(now) /\ now \in ThreadType
      /\ now.stack = t.stack /\ now.orphan = t.orphan /\ now.offLevel = t.offLevel
      /\ now.markLevel = t.markLevel /\ now.openMark = t.openMark /\ now.flushcntr = t.flushcntr
  BY NowLive DEF Same, HasMark
<1>2. t' = IF x.status = "ON" THEN w ELSE x
  BY DEF vt_rewind
<1>3. Len(t.stack) = t.markLevel /\ t.open = Recorded(t.stack) /\ t.openMark = t.open
  <2>1. /\ Len(t.stack) = t.markLevel + (frames - markAt) + 0
        /\ t.openMark = Recorded(SubSeq(t.stack, 1, t.markLevel))
    BY <1>0 DEF Settled, MarkInv
  <2>2. SubSeq(t.stack, 1, Len(t.stack)) = t.stack
    BY <1>0, SubSeqFull
  <2>3. Len(t.stack) = t.markLevel
    BY <1>0, <2>1
  <2> QED
    BY <2>1, <2>2, <2>3 DEF Settled, Nested
<1> HIDE DEF now
<1>4. /\ Good(g) /\ g.status = "ON" /\ g.stack = t.stack /\ g.orphan = t.orphan
      /\ g.offLevel = t.offLevel /\ g.markLevel = t.markLevel /\ g.openMark = t.openMark
      /\ g.open = t.open /\ g.flushcntr = now.flushcntr
  <2> DEFINE q == now.markPos + now.markDefs
             r == [now EXCEPT !.pos = q, !.markPos = q, !.markDefs = 0, !.open = now.openMark]
  <2>1. q \in Nat /\ q <= now.pos /\ now.pos \in Nat /\ now.openMark \in Seq(RegionIds)
    BY <1>1 DEF Live, Good, Sane, ThreadType, HasMark
  <2>2. g = r
    BY DEF VTGen_rewind
  <2> HIDE DEF q, g
  <2>3. r \in ThreadType
    BY <1>1, <2>1 DEF ThreadType
  <2>4. now.flushcntr > 0 => q <= Size
    BY <1>1, <2>1, SizeFacts DEF Live, Good
  <2>5. /\ r.status = now.status /\ r.stack = now.stack /\ r.flushcntr = now.flushcntr
        /\ r.overflow = now.overflow /\ r.pos = q /\ r.markPos = q /\ r.markDefs = 0
        /\ r.orphan = now.orphan /\ r.offLevel = now.offLevel /\ r.markLevel = now.markLevel
        /\ r.openMark = now.openMark /\ r.open = now.openMark
    BY <1>1 DEF ThreadType
  <2> HIDE DEF r
  <2>6. r.markPos + r.markDefs <= r.pos
    BY <2>1, <2>5
  <2>7. Good(r)
    BY <1>1, <2>3, <2>4, <2>5, <2>6 DEF Live, Good, Sane
  <2> QED
    BY <1>1, <1>3, <2>2, <2>5, <2>7
<1>5. b \in BOOLEAN
  BY DEF Full
<1> HIDE DEF b
<1>6. Live(g) /\ Leads(t, g, t.stack, t.open)
  <2>1. Live(g)
    BY <1>1, <1>4 DEF Live
  <2> QED
    BY <1>4, <2>1 DEF Leads
<1> HIDE DEF g
<1>7. Live(e) /\ Leads(g, e, g.stack, Append(g.open, REWIND))
  BY <1>6, WriteEnterLeads DEF RegionIds
<1> HIDE DEF e
<1>8. Good(x) /\ Same(e, x) /\ x.open = e.open
  BY <1>5, <1>7, StaleSane, StaleSame DEF Live, Good, Sane
<1> HIDE DEF x
<1>9. Live(x) /\ Leads(t, x, t.stack, Append(t.open, REWIND))
  <2>1. Live(x)
    BY <1>7, <1>8 DEF Live, Same
  <2>2. Leads(t, e, t.stack, Append(t.open, REWIND))
    BY <1>4, <1>7 DEF Leads
  <2>3. Leads(t, x, t.stack, Append(t.open, REWIND))
    BY <1>8, <2>2 DEF Leads, Same, HasMark
  <2> QED
    BY <2>1, <2>3
<1>10. CASE x.status = "ON"
  <2>1. x.stack = t.stack /\ x.open = Append(t.open, REWIND)
    BY <1>9, <1>10 DEF Leads
  <2>2. t.open \in Seq(RegionIds) /\ Len(t.open) \in Nat /\ REWIND \in RegionIds
    BY <1>0, ThreadLengths DEF RegionIds
  <2>3. Len(x.open) = Len(t.open) + 1 /\ SubSeq(x.open, 1, Len(t.open)) = t.open
    BY <2>1, <2>2, AddOne
  <2>4. Live(c) /\ Steady(x, c)
    BY <1>9, UpdateCounterSteady
  <2> HIDE DEF c
  <2>5. Len(c.open) \in Nat
    BY <2>4, ThreadLengths DEF Live, Good, Sane
  <2>6. Len(c.open) # 0 /\ Len(x.open) - 1 = Len(t.open)
    BY <2>2, <2>3, <2>4, <2>5 DEF Steady
  <2>7. Live(w) /\ Leads(c, w, c.stack, SubSeq(c.open, 1, Len(c.open) - 1))
    BY <2>4, <2>6, WriteLeaveLeads
  <2> HIDE DEF w
  <2>8. Leads(x, w, x.stack, SubSeq(x.open, 1, Len(x.open) - 1))
    BY <2>4, <2>7 DEF Steady, Leads
  <2>9. Leads(x, w, t.stack, t.open)
    BY <2>1, <2>3, <2>6, <2>8 DEF Leads
  <2>10. Leads(t, w, t.stack, t.open)
    BY <1>9, <2>9, LeadsThen
  <2>11. t' = w
    BY <1>2, <1>10
  <2> QED
    BY <2>7, <2>10, <2>11, KeepSettled
<1>11. CASE x.status # "ON"
  <2>1. t' = x /\ x.status = "PERMANENT" /\ x.orphan = t.orphan
    BY <1>2, <1>9, <1>11 DEF Leads
  <2> QED
    BY <1>9, <2>1, SettledForGood DEF Settled, Nested
<1> QED
  BY <1>10, <1>11

\* A new thread has nothing on its stack and nothing in its stream.
LEMMA InitNestInv == InitEvents => NestInv
<1> SUFFICES ASSUME InitEvents PROVE NestInv
  OBVIOUS
<1>1. IInv /\ Good(t)
  BY InitIInv DEF InitEvents, IInv
<1>2. t.status = "ON" /\ t.stack = << >> /\ t.open = << >> /\ ~t.orphan /\ t.flushcntr = FlushLimit
      /\ t.markPos = -1 /\ phase = "alive"
  BY DEF InitEvents, Init
<1>3. Live(t)
  BY <1>1, <1>2, LimitsAssumption DEF Live
<1>4. Recorded(<< >>) = << >>
  <2> DEFINE st == << >>
  <2>1. Len(st) = 0
    OBVIOUS
  <2> HIDE DEF st
  <2>2. PICK g : Opens(g, st, Len(st)) /\ Recorded(st) = g[Len(st)]
    BY <2>1, RecordedIs
  <2>3. Recorded(st) = << >>
    BY <2>1, <2>2 DEF Opens
  <2> QED
    BY <2>3 DEF st
<1> QED
  BY <1>2, <1>3, <1>4 DEF NestInv, Settled, Nested, OffInv, MarkInv, HasMark

\* Every handler keeps the stream nested like the stack, and finds the levels that
\* VT_OFF and VT_SET_REWIND_MARK remembered.
LEMMA NextNestInv == IInv /\ NestInv /\ [NextEvents]_allVars => NestInv'
<1> SUFFICES ASSUME IInv, NestInv, [NextEvents]_allVars, safe' PROVE (phase # "aborted" /\ (phase = "alive" => Live(t) /\ Settled))'
  BY DEF NestInv
<1> DEFINE now == WithTime(t)
           Goal == (phase # "aborted" /\ (phase = "alive" => Live(t) /\ Settled))'
<1>1. CASE UNCHANGED allVars
  BY <1>1 DEF allVars, vars, NestInv, Settled, Nested, OffInv, MarkInv, HasMark, Live, Good, Sane
<1>2. CASE NextEvents
  <2>0. safe' = safe /\ phase = "alive"
    BY <1>2 DEF NextEvents, Program, Next, Handler, EnterUser, ExitUser, Close, Enter, Exit,
                Event, TraceOff, TraceOn, BufferFlush, SetRewindMark, Rewind
  <2>1. Live(t) /\ Settled
    BY <2>0 DEF NestInv
  <2>2. /\ t \in ThreadType
        /\ t.stack \in Seq(Frame) /\ Len(t.stack) \in Nat /\ t.offLevel \in Nat
        /\ t.markLevel \in Nat /\ t.status \in {"ON", "OFF", "PERMANENT"}
        /\ frames \in Nat /\ offAt \in Nat /\ markAt \in Nat \cup {-1}
    BY NestTypes
  <2>3. /\ Live(now) /\ Leads(t, now, t.stack, t.open) /\ Same(t, now) /\ now.open = t.open
        /\ Nested(now)
    BY <2>1, NowLive
  <2>4. now.stack = t.stack /\ now.status = t.status /\ now.offLevel = t.offLevel
    BY <2>3 DEF Same
  \* A handler that leaves the stack where it is, behind the time stamp.
  <2>a. ASSUME Live(t'), Steady(now, t'), UNCHANGED <<frames, offAt, markAt>>, phase' = phase
        PROVE  Goal
    <3>1. Leads(t, t', t.stack, t.open)
      BY <2>3, <2>a, LeadsSteady
    <3>2. Settled'
      BY <2>1, <2>a, <3>1, KeepSettled
    <3> QED
      BY <2>0, <2>a, <3>2
  \* The program enters a function.
  <2>b. ASSUME NEW d, Live(d), Steady(now, d), NEW rid \in RegionIds, NEW k,
               t' = vt_enter(d, rid, k),
               frames' = frames + 1, UNCHANGED <<offAt, markAt>>, phase' = phase
        PROVE  Goal
    <3>1. Leads(t, d, t.stack, t.open)
      BY <2>3, <2>b, LeadsSteady
    <3>2. Live(t') /\ \E f \in Frame : Leads(d, t', Append(d.stack, f), Opened(d, f))
      BY <2>b, EnterLeads
    <3>3. PICK f \in Frame : Leads(d, t', Append(d.stack, f), Opened(d, f))
      BY <3>2
    <3>4. Leads(t, t', Append(t.stack, f), Opened(t, f))
      BY <3>1, <3>3, EnterFrom
    <3>5. Settled'
      BY <2>1, <2>b, <3>4, PushSettled
    <3> QED
      BY <2>0, <2>b, <3>2, <3>5
  \* The program leaves a function.
  <2>c. ASSUME NEW k, t' = vt_exit(now, k), frames > 0, frames' = frames - 1, offAt' = offAt,
               markAt' = (IF markAt = frames THEN -1 ELSE markAt), phase' = phase,
               t.status = "OFF" => frames > offAt
        PROVE  Goal
    <3>1. t.status = "PERMANENT" \/ t.stack # << >>
      BY <2>2, <2>c DEF IInv, NoUnderflow
    <3>2. t.status = "OFF" => t.offLevel < Len(t.stack)
      BY <2>1, <2>2, <2>c DEF Settled, OffInv
    <3>3. now.status = "PERMANENT" \/ now.stack # << >>
      BY <2>4, <3>1
    <3>4. Closes(now) => Len(now.open) # 0
      <4>1. now.status = "OFF" => now.offLevel < Len(now.stack)
        BY <2>4, <3>2
      <4> HIDE DEF now
      <4> QED
        BY <2>3, <3>3, <4>1, ExitNested
    <3>5. Live(t') /\ Leads(now, t', SubSeq(now.stack, 1, Len(now.stack) - 1), Closed(now))
      <4> HIDE DEF now
      <4> QED
        BY <2>3, <2>c, <3>3, <3>4, ExitLeads
    <3>6. Leads(t, t', SubSeq(t.stack, 1, Len(t.stack) - 1), Closed(t))
      <4> HIDE DEF now
      <4> QED
        BY <2>3, <3>5, ExitFrom
    <3>7. Settled'
      BY <2>1, <2>c, <3>1, <3>6, PopSettled
    <3> QED
      BY <2>0, <2>c, <3>5, <3>7
  <2>5. ASSUME Close PROVE Goal
    BY <2>5 DEF Close
  <2>6. ASSUME NEW k \in 0 .. NumCounters, NEW r \in Regions, NEW n \in 1 .. 3, Enter(r, n, k)
        PROVE  Goal
    <3> DEFINE d == IF r \in defined THEN now ELSE vt_def_region(now, n, k)
    <3>1. Live(d) /\ Steady(now, d)
      <4> HIDE DEF now
      <4> QED
        BY <2>3, DefRegionSteady, SteadySelf DEF Live, Good, Sane
    <3>2. t' = vt_enter(d, r, k) /\ frames' = frames + 1 /\ UNCHANGED <<offAt, markAt>>
          /\ phase' = phase
      BY <2>6 DEF Enter
    <3>3. r \in RegionIds
      BY DEF RegionIds
    <3> HIDE DEF d, Goal
    <3> QED
      BY <2>b, <3>1, <3>2, <3>3
  <2>7. ASSUME NEW k \in 0 .. NumCounters, Exit(k) PROVE Goal
    <3>1. frames > 0 /\ frames' = frames - 1 /\ offAt' = offAt
          /\ markAt' = (IF markAt = frames THEN -1 ELSE markAt)
          /\ (t.status = "OFF" => frames > offAt)
      BY <2>0, <2>7 DEF Exit
    <3>2. ~(t.status # "PERMANENT" /\ t.stack = << >>)
      BY <2>2, <3>1 DEF IInv, NoUnderflow
    <3>3. t' = vt_exit(now, k) /\ phase' = phase
      BY <2>7, <3>2 DEF Exit
    <3> HIDE DEF Goal
    <3> QED
      BY <2>c, <3>1, <3>3
  <2>8. ASSUME NEW k \in 0 .. NumCounters, Event(k) PROVE Goal
    <3>1. t' = WriteEvent(now, k) /\ UNCHANGED <<frames, offAt, markAt>> /\ phase' = phase
      BY <2>8 DEF Event
    <3> HIDE DEF Goal, now
    <3> QED
      BY <2>3, <2>a, <3>1, WriteEventSteady
  <2>9. ASSUME NEW k \in 0 .. NumCounters, TraceOff(k) PROVE Goal
    <3>1. t' = vt_trace_off(now, k) /\ t.status # "OFF" /\ UNCHANGED <<frames, markAt>>
          /\ offAt' = (IF t.status = "ON" THEN frames ELSE offAt) /\ phase' = phase
      BY <2>0, <2>9 DEF TraceOff
    <3>2. CASE t.status = "ON"
      BY <2>0, <2>1, <3>1, <3>2, OffSettled
    <3>3. CASE t.status = "PERMANENT"
      <4>1. t' = now
        BY <2>4, <3>1, <3>3 DEF vt_trace_off
      <4>2. Live(t') /\ t'.status = "PERMANENT" /\ ~t'.orphan
        BY <2>3, <2>4, <3>3, <4>1 DEF Nested
      <4> QED
        BY <2>0, <3>1, <4>2, SettledForGood
    <3> QED
      BY <2>2, <3>1, <3>2, <3>3
  <2>10. ASSUME NEW k \in 0 .. NumCounters, TraceOn(k) PROVE Goal
    <3>1. t.status = "OFF" /\ frames = offAt /\ UNCHANGED <<frames, offAt, markAt>>
      BY <2>0, <2>10 DEF TraceOn
    <3>2. Len(t.stack) = t.offLevel
      BY <2>1, <2>2, <3>1 DEF Settled, OffInv
    <3>3. t' = vt_exit(WithTime([t EXCEPT !.status = "ON"]), k) /\ phase' = phase
      BY <2>10, <3>2 DEF TraceOn
    <3> QED
      BY <2>0, <2>1, <3>1, <3>3, OnSettled
  <2>11. ASSUME NEW k \in 0 .. NumCounters, BufferFlush(k) PROVE Goal
    <3>1. t' = Flush(now, FALSE, k) /\ UNCHANGED <<frames, offAt, markAt>> /\ phase' = phase
      BY <2>11 DEF BufferFlush
    <3> HIDE DEF Goal, now
    <3> QED
      BY <2>3, <2>a, <3>1, FlushSteady
  <2>12. ASSUME NEW k \in 0 .. NumCounters, SetRewindMark(k) PROVE Goal
    <3>1. t.status = "ON" /\ t' = vt_set_rewind_mark(now, k) /\ markAt' = frames
          /\ UNCHANGED <<frames, offAt>> /\ phase' = phase
      BY <2>12 DEF SetRewindMark
    <3> QED
      BY <2>0, <2>1, <3>1, MarkSettled
  <2>13. ASSUME NEW k \in 0 .. NumCounters, Rewind(k) PROVE Goal
    <3>1. t.status = "ON" /\ HasMark(t) /\ markAt = frames /\ UNCHANGED <<frames, offAt, markAt>>
      BY <2>0, <2>13 DEF Rewind
    <3>2. Len(t.stack) = t.markLevel
      BY <2>1, <2>2, <3>1 DEF Settled, MarkInv
    <3>3. t' = vt_rewind(now, k) /\ phase' = phase
      BY <2>13, <3>2 DEF Rewind
    <3> QED
      BY <2>0, <2>1, <3>1, <3>3, RewindSettled
  <2>14. ASSUME NEW k \in 0 .. NumCounters, NEW steps \in Handlers, Handler(steps, k) PROVE Goal
    <3>1. t' = RunSteps(t, steps, k) /\ UNCHANGED <<frames, offAt, markAt>> /\ phase' = phase
      BY <2>14 DEF Handler
    <3>2. Live(t') /\ Leads(t, t', t.stack, t.open)
      BY <2>1, <3>1, HandlersBalanced, HandlerLeads
    <3>3. Settled'
      BY <2>1, <3>1, <3>2, KeepSettled
    <3> QED
      BY <2>0, <3>1, <3>2, <3>3
  <2>15. ASSUME NEW k \in 0 .. NumCounters, EnterUser(k) PROVE Goal
    <3>1. t' = vt_enter(now, USER, k) /\ frames = 0 /\ frames' = 1
          /\ UNCHANGED <<offAt, markAt>> /\ phase' = phase
      BY <2>15 DEF EnterUser
    <3>2. frames' = frames + 1
      BY <3>1
    <3>3. USER \in RegionIds /\ Steady(now, now)
      BY <2>3, SteadySelf DEF RegionIds, Same
    <3> HIDE DEF Goal, now
    <3> QED
      BY <2>3, <2>b, <3>1, <3>2, <3>3
  <2>16. ASSUME NEW k \in 0 .. NumCounters, ExitUser(k) PROVE Goal
    <3>1. t' = vt_exit(now, k) /\ t.status = "ON" /\ frames > 0 /\ frames' = frames - 1
          /\ markAt' = (IF markAt = frames THEN -1 ELSE markAt)
          /\ offAt' = offAt /\ phase' = phase
      BY <2>16 DEF ExitUser
    <3> HIDE DEF Goal
    <3> QED
      BY <2>c, <3>1
  <2> HIDE DEF Goal
  <2>17. ASSUME Next PROVE Goal
    BY <2>5, <2>6, <2>7, <2>8, <2>9, <2>10, <2>11, <2>12, <2>13, <2>17, Zenon DEF Next
  <2>18. Goal
    BY <1>2, <2>14, <2>15, <2>16, <2>17, Zenon DEF NextEvents, Program
  <2> QED
    BY <2>18 DEF Goal
<1> QED
  BY <1>1, <1>2

\* With the recommended usage the regions open in the recorded stream are those
\* on the call stack that the limits let through, every LEAVE closes the region
\* it was written for, and neither VT_ON nor VT_REWIND aborts: across flushes,
\* off sections, rewinds and the regions that the handlers enter themselves.
THEOREM EventsNest == SpecEvents => []OpenMatchesStack
<1>1. InitEvents => IInv /\ NestInv
  BY InitIInv, InitNestInv DEF InitEvents
<1>2. IInv /\ NestInv /\ [NextEvents]_allVars => (IInv /\ NestInv)'
  BY NextEventsIInv, NextNestInv
<1>3. NestInv => OpenMatchesStack
  BY DEF NestInv, Settled, Nested, OpenMatchesStack
<1> QED
  BY <1>1, <1>2, <1>3, PTL DEF SpecEvents
==============================================================================
