---------------------------- MODULE IoTrace_proofs ----------------------------
(***************************************************************************)
(* Proofs about IoTrace, for every number of threads, descriptors, files   *)
(* and handles, with any suspensions and switches of recording: the table  *)
(* of descriptors follows the operating system's, so that every recorded   *)
(* end names the file the operation worked on (FilesRight); it is the end  *)
(* of an operation that was under way (MatchingRight); and VampirTrace's   *)
(* own operations never show (OwnIoHidden).                                *)
(***************************************************************************)
EXTENDS IoTrace, FiniteSetTheorems, SequenceTheorems, WellFoundedInduction, TLAPS

------------------------------------------------------------------------------
(* The inductive invariant. *)

Fns == {"open", "dup", "dup2", "close", "read", "fgets", "unlink", "lockf", "sync"}
MpiFns ==
  {"mpi_open", "mpi_close", "mpi_delete", "mpi_read", "mpi_iread", "mpi_wait", "mpi_end"}

CallType ==
  [at : {"idle", "entered", "returned"}, fn : Fns \cup {"none"}, fd : Fds \cup {-1},
   to : Fds \cup {-1}, path : Files \cup {"none"}, recorded : BOOLEAN, mid : Nat,
   result : Fds \cup {-1}, real : AnyFile]
EndType ==
  [mid : Int, file : AnyFile, handle : Nat, fn : Fns \cup MpiFns \cup {"none"},
   real : AnyFile, matched : BOOLEAN]
StreamType == [open : SUBSET Nat, last : EndType]
ThreadType ==
  [on : BOOLEAN, enabled : BOOLEAN, state : BOOLEAN, suspended : Nat,
   nextMid : Nat \ {0}, nextHandle : Nat \ {0}]
TableEntry == [file : AnyFile, handle : Nat]
MpiEntry == [fh : Handles \cup {Null}, file : Files, split : Nat, handle : Nat \ {0}]
Request == [on : Handles, mid : Nat, file : Files, handle : Nat, real : Files]

RecTypes ==
  /\ program \in Programs
  /\ thr \in [team -> ThreadType]
  /\ io \in [team -> StreamType]
  /\ made \in 0 .. program.calls /\ switches \in Nat
WrapTypes ==
  /\ os \in [Fds -> AnyFile]
  /\ table \in [Fds -> TableEntry]
  /\ call \in [team -> CallType]
  /\ blind \in SUBSET Fds
MpiTypes ==
  /\ mpi \in [Handles -> Files \cup {"none"}]
  /\ fmap \in Seq(MpiEntry) /\ Len(fmap) <= MaxMpiFiles
  /\ begun \in [Handles -> {"no", "yes", "recorded"}]
  /\ requests \in SUBSET Request
  /\ careless \in BOOLEAN /\ aborted \in BOOLEAN
Types == RecTypes /\ WrapTypes /\ MpiTypes

Working(t) == call[t].at # "idle"

\* The counters and the handles are no further than the calls made.
Counted ==
  /\ \A t \in team :
       /\ thr[t].suspended <= program.suspensions
       /\ thr[t].nextMid <= made + 1
       /\ thr[t].nextHandle <= made + (IF Working(t) THEN 1 ELSE 2)
  /\ \A fd \in Fds : table[fd].handle <= made + 2

\* A suspension is over when the outermost one is, and then the state saved by
\* it returns.
Suspensions ==
  \A t \in team : /\ thr[t].enabled <=> thr[t].suspended = 0
                  /\ thr[t].suspended > 0 => thr[t].state

\* The call c works on what its function takes and returns.
Formed(c) ==
  /\ c.fn \in Fns
  /\ c.fn \in {"open", "unlink"} <=> c.path # "none"
  /\ c.fn \in {"open", "unlink", "sync"} => c.fd = -1
  /\ c.fn \notin {"open", "unlink", "sync", "read"} => c.fd # -1
  /\ c.fn = "dup2" <=> c.to # -1
  /\ c.fn = "close" => c.fd # 0
  /\ c.to # 0
  /\ c.at = "entered" => c.result = -1
  /\ c.at = "returned" =>
       /\ c.fn = "dup2" => c.result = c.to
       /\ c.fn \in {"open", "dup"} => c.result # 0 /\ (c.result = -1 \/ c.result # c.fd)
       /\ c.fn \notin {"open", "dup", "dup2"} => c.result \in {-1, c.fd}
WellFormed == \A t \in team : Working(t) => Formed(call[t])

\* The descriptors a thread's call has to itself; a closed one is free for the
\* next open.
Own(t) ==
  IF ~Working(t) \/ (call[t].fn = "close" /\ call[t].at = "returned") THEN {}
  ELSE {call[t].fd, call[t].to, call[t].result} \ {-1}

Live(fd) == os[fd] \notin {"none", "trace"}
Alone(t) == team = {t}

\* A thread that is alone may duplicate onto a descriptor that is not open.
Fresh(t, fd) ==
  Alone(t) /\ call[t].at = "entered" /\ fd = call[t].to /\ fd # call[t].fd

\* No two calls work on one descriptor, and what a call works on stays open.
Apart ==
  /\ \A s, t \in team : s # t => Own(s) \cap Own(t) = {}
  /\ \A t \in team : \A fd \in Own(t) : Live(fd) \/ Fresh(t, fd)
  /\ os[0] = "stdin"

\* Descriptors the library has returned and the wrapper not yet entered.
Opens(c) == c.at = "returned" /\ c.fn \in {"open", "dup", "dup2"}
Pending(fd) ==
  \E t \in team : Opens(call[t]) /\ call[t].result = fd /\ fd # call[t].fd

\* The table names the files of descriptors that were opened by traced calls.
Named ==
  /\ \A fd \in Fds : Live(fd) /\ fd \notin blind /\ ~Pending(fd) =>
       table[fd].file = os[fd] /\ table[fd].handle # 0
  /\ table[0].file = "stdin"

FileOf(fd) == IF fd \in blind THEN "foreign" ELSE os[fd]

\* What a call has truly worked on is still to be seen when the wrapper goes on.
RealOf(t) ==
  LET c == call[t] IN
  /\ c.real # "trace"
  /\ c.fn \in {"open", "unlink"} => c.real = c.path
  /\ c.fn = "sync" => c.real = "all"
  /\ c.fn = "read" /\ c.fd = -1 => c.real = "invalid"
  /\ c.fn = "close" /\ Alone(t) =>
       c.real = "foreign" \/ (c.real = table[c.fd].file /\ c.real # "none")
  /\ c.fn \in {"read", "fgets", "lockf", "dup", "dup2"} /\ c.fd # -1 => c.real = FileOf(c.fd)
  /\ c.fn \in {"dup", "dup2"} /\ c.result # -1 => os[c.result] = os[c.fd]
  /\ c.fn = "open" /\ c.result # -1 => os[c.result] = c.path
Worked == \A t \in team : call[t].at = "returned" => RealOf(t)

DescriptorsInv == WellFormed /\ Apart /\ Named /\ Worked

\* The record of an end names the right file.
EndRight(r) ==
  /\ r.real # "trace"
  /\ \/ r.file = r.real \/ r.real = "foreign"
     \/ r.fn = "fgets" /\ r.file = "stdin"
     \/ r.fn = "close" /\ team # {Main}
EndsRight == \A t \in team : EndRight(io[t].last)

\* A thread that is alone gives out each handle once.
HandlesOnce ==
  Alone(Main) =>
    /\ \A f \in Fds : table[f].handle < thr[Main].nextHandle
    /\ \A f, g \in Fds : f # g /\ table[f].handle = table[g].handle => table[f].handle = 0
    /\ \A f \in Fds : \A k \in DOMAIN fmap : table[f].handle # fmap[k].handle
    /\ \A k \in DOMAIN fmap : fmap[k].handle < thr[Main].nextHandle
    /\ \A j, k \in DOMAIN fmap : j # k => fmap[j].handle # fmap[k].handle

\* The table of MPI files: an open file has one entry, a closed one none.
MpiFilesInv ==
  /\ \A k \in DOMAIN fmap : fmap[k].fh # Null => mpi[fmap[k].fh] = fmap[k].file
  /\ \A j, k \in DOMAIN fmap : fmap[j].fh # Null /\ fmap[j].fh = fmap[k].fh => j = k
  /\ ~aborted => \A h \in OpenFiles : \E k \in DOMAIN fmap : fmap[k].fh = h
  /\ \A h \in Handles : begun[h] # "no" => h \in OpenFiles
  /\ \A q \in requests : q.file = q.real /\ q.on \in OpenFiles

\* The operations begun and not ended are under way, and have ids of their own:
\* the calls of the C library, the requests, and the split collectives.
Splitting(k) == fmap[k].fh # Null /\ begun[fmap[k].fh] = "recorded"
Recording(t) == Working(t) /\ call[t].recorded
StreamsRight ==
  /\ \A t \in team : \A m \in io[t].open : m < thr[t].nextMid
  /\ \A t \in team : Recording(t) => thr[t].on /\ call[t].mid \in io[t].open
  /\ \A t \in team : io[t].last.fn = "lockf" \/ io[t].last.matched
IdsApart ==
  /\ \A q \in requests : q.mid \in io[Main].open
  /\ \A k \in DOMAIN fmap : Splitting(k) => fmap[k].split \in io[Main].open
  /\ \A p, q \in requests : p.mid = q.mid => p = q
  /\ \A q \in requests : \A k \in DOMAIN fmap : Splitting(k) => q.mid # fmap[k].split
  /\ \A j, k \in DOMAIN fmap :
       Splitting(j) /\ Splitting(k) /\ fmap[j].split = fmap[k].split => j = k
CallApart ==
  Recording(Main) =>
    /\ \A q \in requests : q.mid # call[Main].mid
    /\ \A k \in DOMAIN fmap : Splitting(k) => fmap[k].split # call[Main].mid
IdsInv == StreamsRight /\ IdsApart /\ CallApart
MatchInv == ~careless => IdsInv

IInv ==
  /\ Types /\ Counted /\ Suspensions /\ DescriptorsInv /\ EndsRight /\ HandlesOnce
  /\ MpiFilesInv /\ MatchInv

------------------------------------------------------------------------------
(* The types. *)

\* A record of the end of an operation, whether the wrapper or MPI's ends it.
LEMMA IoendType ==
  ASSUME NEW s \in StreamType, NEW th, NEW file \in AnyFile, NEW mid \in Int,
         NEW handle \in Nat, NEW fn \in Fns \cup MpiFns, NEW real \in AnyFile
  PROVE  vt_ioend(s, th, file, mid, handle, fn, real) \in StreamType
BY DEF vt_ioend, StreamType, EndType

\* A record of the beginning of an operation.
LEMMA IobeginType ==
  ASSUME NEW s \in StreamType, NEW th, NEW mid \in Nat
  PROVE  vt_iobegin(s, th, mid) \in StreamType
BY DEF vt_iobegin, StreamType, EndType, NoEnd, AnyFile, Special

\* Setting one field of a thread at a time.
SetOn(th, b) == [th EXCEPT !.on = b]
SetEnabled(th, b) == [th EXCEPT !.enabled = b]
SetState(th, b) == [th EXCEPT !.state = b]
SetSuspended(th, n) == [th EXCEPT !.suspended = n]

\* u is th but for the fields named.
SameIds(u, th) == u.on = th.on /\ u.nextMid = th.nextMid /\ u.nextHandle = th.nextHandle
SameState(u, th) == u.enabled = th.enabled /\ u.state = th.state /\ u.suspended = th.suspended

\* Setting a field leaves the others.
LEMMA SettingOn ==
  ASSUME NEW th \in ThreadType, NEW b \in BOOLEAN
  PROVE  /\ SetOn(th, b) \in ThreadType /\ SetOn(th, b).on = b
         /\ SameState(SetOn(th, b), th)
         /\ SetOn(th, b).nextMid = th.nextMid /\ SetOn(th, b).nextHandle = th.nextHandle
BY DEF SetOn, ThreadType, SameState

\* Setting a field leaves the others.
LEMMA SettingEnabled ==
  ASSUME NEW th \in ThreadType, NEW b \in BOOLEAN
  PROVE  /\ SetEnabled(th, b) \in ThreadType /\ SetEnabled(th, b).enabled = b
         /\ SameIds(SetEnabled(th, b), th)
         /\ SetEnabled(th, b).state = th.state /\ SetEnabled(th, b).suspended = th.suspended
BY DEF SetEnabled, ThreadType, SameIds

\* Setting a field leaves the others.
LEMMA SettingState ==
  ASSUME NEW th \in ThreadType, NEW b \in BOOLEAN
  PROVE  /\ SetState(th, b) \in ThreadType /\ SetState(th, b).state = b
         /\ SameIds(SetState(th, b), th)
         /\ SetState(th, b).enabled = th.enabled /\ SetState(th, b).suspended = th.suspended
BY DEF SetState, ThreadType, SameIds

\* Setting a field leaves the others.
LEMMA SettingSuspended ==
  ASSUME NEW th \in ThreadType, NEW n \in Nat
  PROVE  /\ SetSuspended(th, n) \in ThreadType /\ SetSuspended(th, n).suspended = n
         /\ SameIds(SetSuspended(th, n), th)
         /\ SetSuspended(th, n).enabled = th.enabled /\ SetSuspended(th, n).state = th.state
BY DEF SetSuspended, ThreadType, SameIds

\* VT_SUSPEND_IO_TRACING
LEMMA SuspendedIs ==
  ASSUME NEW th \in ThreadType
  PROVE  /\ Suspended(th) \in ThreadType /\ SameIds(Suspended(th), th)
         /\ Suspended(th).suspended = th.suspended + 1 /\ Suspended(th).enabled = FALSE
         /\ Suspended(th).state = IF th.enabled THEN TRUE ELSE th.state
<1>1. th.state \in BOOLEAN /\ th.enabled \in BOOLEAN /\ th.suspended \in Nat
  BY DEF ThreadType
<1>2. PICK b \in BOOLEAN : b = IF th.enabled THEN TRUE ELSE th.state
  BY <1>1
<1>3. PICK n \in Nat : n = th.suspended + 1
  BY <1>1
<1>4. Suspended(th) = SetEnabled(SetSuspended(
                        SetState(th, IF th.enabled THEN TRUE ELSE th.state), th.suspended + 1), FALSE)
  BY Zenon DEF Suspended, SetEnabled, SetSuspended, SetState
<1>5. Suspended(th) = SetEnabled(SetSuspended(SetState(th, b), n), FALSE)
  BY <1>2, <1>3, <1>4, Zenon
<1>6. PICK u \in ThreadType : u = SetState(th, b) /\ u.state = b /\ SameIds(u, th)
  BY SettingState
<1>7. PICK v \in ThreadType : v = SetSuspended(u, n) /\ v.suspended = n /\ v.state = u.state
                              /\ SameIds(v, u)
  BY SettingSuspended
<1>8. PICK w \in ThreadType : w = SetEnabled(v, FALSE) /\ w.enabled = FALSE
             /\ w.suspended = v.suspended /\ w.state = v.state /\ SameIds(w, v)
  BY SettingEnabled
<1>9. Suspended(th) = w
  BY <1>5, <1>6, <1>7, <1>8
<1>10. SameIds(w, th)
  BY <1>6, <1>7, <1>8 DEF SameIds
<1>11. w.suspended = th.suspended + 1 /\ w.enabled = FALSE /\ w.state = b
  BY <1>3, <1>6, <1>7, <1>8
<1> QED
  BY <1>2, <1>9, <1>10, <1>11

\* VT_RESUME_IO_TRACING
LEMMA ResumedIs ==
  ASSUME NEW th \in ThreadType, th.suspended > 0
  PROVE  /\ Resumed(th) \in ThreadType /\ SameIds(Resumed(th), th)
         /\ Resumed(th).suspended = th.suspended - 1 /\ Resumed(th).state = th.state
         /\ Resumed(th).enabled = IF th.suspended = 1 THEN th.state ELSE th.enabled
<1>1. th.state \in BOOLEAN /\ th.enabled \in BOOLEAN /\ th.suspended \in Nat
  BY DEF ThreadType
<1>2. PICK b \in BOOLEAN : b = IF th.suspended = 1 THEN th.state ELSE th.enabled
  BY <1>1
<1>3. PICK n \in Nat : n = th.suspended - 1
  BY <1>1
<1>4. Resumed(th) = SetEnabled(SetSuspended(th, th.suspended - 1),
                               IF th.suspended = 1 THEN th.state ELSE th.enabled)
  BY Zenon DEF Resumed, SetEnabled, SetSuspended
<1>5. Resumed(th) = SetEnabled(SetSuspended(th, n), b)
  BY <1>2, <1>3, <1>4, Zenon
<1>6. PICK v \in ThreadType : v = SetSuspended(th, n) /\ v.suspended = n /\ v.state = th.state
                              /\ SameIds(v, th)
  BY SettingSuspended
<1>7. PICK w \in ThreadType : w = SetEnabled(v, b) /\ w.enabled = b
             /\ w.suspended = v.suspended /\ w.state = v.state /\ SameIds(w, v)
  BY SettingEnabled
<1>8. Resumed(th) = w
  BY <1>5, <1>6, <1>7
<1>9. SameIds(w, th)
  BY <1>6, <1>7 DEF SameIds
<1>10. w.suspended = th.suspended - 1 /\ w.enabled = b /\ w.state = th.state
  BY <1>3, <1>6, <1>7
<1> QED
  BY <1>2, <1>8, <1>9, <1>10

\* The counters of ids and handles.
LEMMA CountersAre ==
  ASSUME NEW th \in ThreadType
  PROVE  /\ NextMid(th) \in ThreadType /\ NextHandle(th) \in ThreadType
         /\ SameState(NextMid(th), th) /\ NextMid(th).on = th.on
         /\ NextMid(th).nextMid = th.nextMid + 1 /\ NextMid(th).nextHandle = th.nextHandle
         /\ SameState(NextHandle(th), th) /\ NextHandle(th).on = th.on
         /\ NextHandle(th).nextHandle = th.nextHandle + 1 /\ NextHandle(th).nextMid = th.nextMid
         /\ th.nextMid \in Nat \ {0} /\ th.nextHandle \in Nat \ {0} /\ th.suspended \in Nat
         /\ th.on \in BOOLEAN
BY DEF NextMid, NextHandle, ThreadType, SameState

\* VT_OFF and VT_ON of a thread.
LEMMA SwitchIs ==
  ASSUME RecTypes, NEW t \in team, Switch(t)
  PROVE  \E b \in BOOLEAN : thr' = [thr EXCEPT ![t] = SetOn(thr[t], b)]
<1>1. thr' = [thr EXCEPT ![t] = SetOn(thr[t], ~thr[t].on)]
  BY Zenon DEF Switch, SetOn
<1>2. thr[t].on \in BOOLEAN
  BY DEF RecTypes, ThreadType
<1>3. PICK b \in BOOLEAN : b = ~thr[t].on
  OBVIOUS
<1>4. thr' = [thr EXCEPT ![t] = SetOn(thr[t], b)]
  BY <1>1, <1>3, Zenon
<1> QED
  BY <1>4, Zenon

\* The lowest free descriptor is a free one.
LEMMA LowestIs ==
  ASSUME NEW S \in SUBSET Fds, S # {}
  PROVE  Lowest(S) \in S
<1>1. S \subseteq Nat
  BY FdsAssumption
<1>2. PICK x \in S : TRUE
  OBVIOUS
<1>3. \E m \in S : \A j \in S : ~(<<j, m>> \in OpToRel(<, Nat))
  BY <1>1, <1>2, WFMin, NatLessThanWellFounded, Zenon
<1>4. PICK m \in S : \A j \in S : ~(<<j, m>> \in OpToRel(<, Nat))
  BY <1>3
<1>5. \A j \in S : ~(j < m)
  BY <1>1, <1>4 DEF OpToRel
<1>6. \A j \in S : m <= j
  BY <1>1, <1>5
<1> QED
  BY <1>6 DEF Lowest

\* Descriptors, the files they refer to, and the main thread.
LEMMA Basics ==
  ASSUME RecTypes
  PROVE  /\ Main \in team /\ IsFiniteSet(team) /\ program.calls \in Nat
         /\ program.suspensions \in Nat /\ program.mpi \in BOOLEAN
         /\ -1 \notin Fds /\ 0 \in Fds /\ Fds \subseteq Int
         /\ Files \subseteq AnyFile /\ Files \cap Special = {}
BY IoAssumption, FdsAssumption, FS_Subset DEF RecTypes, team, AnyFile

\* The calls that exist.
LEMMA CallsAre ==
  ASSUME Types, os[0] = "stdin", NEW t \in team, NEW c \in Calls(t)
  PROVE  /\ c.fn \in Fns /\ c.fd \in Fds \cup {-1} /\ c.to \in Fds \cup {-1}
         /\ c.path \in Files \cup {"none"}
         /\ c.fn \in {"open", "unlink"} <=> c.path # "none"
         /\ c.fn \in {"open", "unlink", "sync"} => c.fd = -1
         /\ c.fn \notin {"open", "unlink", "sync", "read"} => c.fd # -1
         /\ c.fn = "dup2" <=> c.to # -1
         /\ c.fn = "close" => c.fd # 0 /\ c.fd \in Closable(t)
         /\ c.to # 0
         /\ c.fd # -1 => c.fd \in Usable \ InUse(t)
         /\ c.to # -1 => c.to \in Closable(t) \/ (Alone(t) /\ os[c.to] = "none")
<1>1. /\ Usable \subseteq Fds /\ Closable(t) \subseteq Usable \ InUse(t)
      /\ 0 \notin Closable(t) /\ -1 \notin Fds /\ 0 \in Fds /\ "none" \notin Files
  BY FdsAssumption, IoAssumption DEF Usable, Closable, Special
<1>3. CASE c \in OnPath("open") \cup OnPath("unlink")
  <2>1. /\ c.fd = -1 /\ c.to = -1 /\ c.path \in Files /\ c.fn \in {"open", "unlink"}
    BY <1>3 DEF OnPath
  <2> QED
    BY <1>1, <2>1 DEF Fns
<1>4. CASE c \in dup2(t)
  <2>1. /\ c.fn = "dup2" /\ c.fd \in Usable \ InUse(t) /\ c.path = "none"
        /\ c.to \in Closable(t) \/ (Alone(t) /\ c.to \in Fds /\ os[c.to] = "none")
    BY <1>4 DEF dup2, Alone
  <2> QED
    BY <1>1, <2>1 DEF Fns
<1>5. CASE c \in On("close", Closable(t))
  BY <1>1, <1>5 DEF On, Fns
<1>6. CASE c \in On("read", (Usable \ InUse(t)) \cup {-1}) \cup On("sync", {-1})
  BY <1>1, <1>6 DEF On, Fns
<1>7. CASE \E fn \in {"dup", "read", "fgets", "lockf"} : c \in On(fn, Usable \ InUse(t))
  BY <1>1, <1>7 DEF On, Fns
<1>8. \/ c \in OnPath("open") \cup OnPath("unlink") \/ c \in dup2(t)
      \/ c \in On("close", Closable(t))
      \/ c \in On("read", (Usable \ InUse(t)) \cup {-1}) \cup On("sync", {-1})
      \/ \E fn \in {"dup", "read", "fgets", "lockf"} : c \in On(fn, Usable \ InUse(t))
  BY DEF Calls, open, fopen, dup, close, fclose, read, pread, fsync, fseek, fread, fputc,
      fscanf, flockfile, fdopen, fgets, unlink, lockf, sync, fflush
<1> QED
  BY <1>3, <1>4, <1>5, <1>6, <1>7, <1>8

\* The step of the library: the call's result and what it truly worked on.
Returned(c, result, real) == [c EXCEPT !.at = "returned", !.result = result, !.real = real]

\* What the step of the library changes of a call.
LEMMA ReturnedIs ==
  ASSUME NEW c \in CallType, NEW result \in Fds \cup {-1}, NEW real \in AnyFile
  PROVE  /\ Returned(c, result, real) \in CallType
         /\ Returned(c, result, real).at = "returned"
         /\ Returned(c, result, real).result = result /\ Returned(c, result, real).real = real
         /\ Returned(c, result, real).fn = c.fn /\ Returned(c, result, real).fd = c.fd
         /\ Returned(c, result, real).to = c.to /\ Returned(c, result, real).path = c.path
         /\ Returned(c, result, real).recorded = c.recorded
         /\ Returned(c, result, real).mid = c.mid
BY DEF Returned, CallType

\* A thread's call is over.
LEMMA IdleType == Idle \in CallType
BY DEF Idle, CallType, AnyFile, Special

\* A thread that works is in a call of a function.
LEMMA CallIs ==
  ASSUME Types, NEW t \in team
  PROVE  /\ call[t] \in CallType /\ thr[t] \in ThreadType /\ io[t] \in StreamType
         /\ call[t].fn \in Fns \cup {"none"} /\ call[t].fd \in Fds \cup {-1}
         /\ call[t].to \in Fds \cup {-1} /\ call[t].result \in Fds \cup {-1}
         /\ call[t].path \in Files \cup {"none"} /\ call[t].mid \in Nat
         /\ call[t].real \in AnyFile /\ call[t].recorded \in BOOLEAN
         /\ call[t].at \in {"idle", "entered", "returned"}
BY DEF Types, RecTypes, WrapTypes, CallType

\* The file a descriptor is known by.
LEMMA VampirFile ==
  ASSUME Types, NEW fd \in Fds
  PROVE  get_vampir_file(fd) \in TableEntry
BY DEF get_vampir_file, Types, WrapTypes, TableEntry, AnyFile, Special

\* The file a call works on is a file.
LEMMA RealType ==
  ASSUME Types, NEW t \in team, WellFormed, Working(t)
  PROVE  Real(call[t]) \in AnyFile
<1>1. /\ call[t].path \in Files \cup {"none"} /\ call[t].fd \in Fds \cup {-1}
  BY CallIs
<1> QED
  BY <1>1 DEF Real, AnyFile, Special, Types, WrapTypes

\* The descriptors a call may return.
LEMMA ResultType ==
  ASSUME Types, NEW t \in team, NEW result \in Results(call[t])
  PROVE  /\ result \in Fds \cup {-1}
         /\ call[t].fn \in {"open", "dup"} => result = -1 \/ (result \in Free /\ Free # {})
         /\ call[t].fn = "dup2" => result = call[t].to
         /\ call[t].fn \notin {"open", "dup", "dup2"} => result \in {-1, call[t].fd}
         /\ call[t].fn \notin {"open", "dup", "dup2", "fgets"} => result = call[t].fd
<1>1. Free \in SUBSET Fds
  BY DEF Free
<1>2. Free # {} => Lowest(Free) \in Free
  BY <1>1, LowestIs
<1>3. call[t].fd \in Fds \cup {-1} /\ call[t].to \in Fds \cup {-1}
  BY CallIs
<1> QED
  BY <1>1, <1>2, <1>3 DEF Results

\* The end of an operation is in the stream of its thread.
EndWritten(t, file, mid) ==
  /\ call[t].recorded /\ thr[t].on
  /\ io'[t].open = IF call[t].fn = "lockf" THEN io[t].open ELSE io[t].open \ {mid}
  /\ io'[t].last.fn = call[t].fn /\ io'[t].last.real = call[t].real /\ io'[t].last.file = file
  /\ mid \in io[t].open => io'[t].last.matched

\* The end of an operation is written to the stream of its thread.
LEMMA EndIs ==
  ASSUME Types, NEW t \in team, Working(t), call[t].fn \in Fns,
         NEW file \in AnyFile, NEW mid \in Int, NEW handle \in Nat,
         End(t, file, mid, handle)
  PROVE  /\ io' \in [team -> StreamType]
         /\ \A s \in team : s # t => io'[s] = io[s]
         /\ (io'[t] = io[t] /\ ~(call[t].recorded /\ thr[t].on)) \/ EndWritten(t, file, mid)
<1>1. io[t] \in StreamType /\ call[t].real \in AnyFile /\ io \in [team -> StreamType]
  BY CallIs DEF Types, RecTypes
<1>2. PICK s \in StreamType :
        s = vt_ioend(io[t], thr[t], file, mid, handle, call[t].fn, call[t].real)
  BY <1>1, IoendType
<1>3. CASE ~call[t].recorded
  <2>1. io' = io
    BY <1>3 DEF End
  <2>2. io'[t] = io[t] /\ \A r \in team : r # t => io'[r] = io[r]
    BY <2>1
  <2>3. ~(call[t].recorded /\ thr[t].on)
    BY <1>3
  <2> QED
    BY <1>1, <2>1, <2>2, <2>3
<1>4. CASE call[t].recorded
  <2>1. io' = [io EXCEPT ![t] = s]
    BY <1>2, <1>4 DEF End
  <2>2. io' \in [team -> StreamType] /\ io'[t] = s /\ \A r \in team : r # t => io'[r] = io[r]
    BY <1>1, <2>1
  <2>3. CASE ~thr[t].on
    <3>1. s = io[t]
      BY <1>2, <2>3 DEF vt_ioend
    <3>2. ~(call[t].recorded /\ thr[t].on)
      BY <2>3
    <3> QED
      BY <2>2, <3>1, <3>2
  <2>4. CASE thr[t].on
    <3>1. s = [open |-> IF call[t].fn = "lockf" THEN io[t].open ELSE io[t].open \ {mid},
               last |-> [mid |-> mid, file |-> file, handle |-> handle, fn |-> call[t].fn,
                         real |-> call[t].real, matched |-> mid \in io[t].open]]
      BY <1>2, <2>4, Zenon DEF vt_ioend
    <3>2. s.open = IF call[t].fn = "lockf" THEN io[t].open ELSE io[t].open \ {mid}
      BY <3>1
    <3>3. PICK b : b = (mid \in io[t].open)
      BY Zenon
    <3>4. s.last = [mid |-> mid, file |-> file, handle |-> handle, fn |-> call[t].fn,
                    real |-> call[t].real, matched |-> b]
      BY <3>1, <3>3, Zenon
    <3>5. s.last.fn = call[t].fn /\ s.last.real = call[t].real /\ s.last.file = file
          /\ s.last.matched = b
      BY <3>4
    <3>6. mid \in io[t].open => s.last.matched
      BY <3>3, <3>5, Zenon
    <3> QED
      BY <1>4, <2>2, <2>4, <3>2, <3>5, <3>6, Zenon DEF EndWritten
  <2> QED
    BY <2>2, <2>3, <2>4
<1> QED
  BY <1>3, <1>4

\* What holds of the variables of the wrappers of MPI-IO, whatever the wrappers
\* of the C library do.
LEMMA MpiTypesStay == MpiTypes /\ UNCHANGED <<mpiVars, program>> => MpiTypes'
BY DEF MpiTypes, mpiVars

\* A beginning of a call.
LEMMA EnterTypes ==
  ASSUME Types, WellFormed, os[0] = "stdin", NEW t \in team, ENTER_IOFUNC(t), UNCHANGED mpiVars
  PROVE  Types'
<1>1. PICK c \in Calls(t), recorded \in Outcomes(thr[t]) :
         /\ Enter(t, recorded)
         /\ call' = [call EXCEPT ![t] =
              [at |-> "entered", fn |-> c.fn, fd |-> c.fd, to |-> c.to, path |-> c.path,
               recorded |-> recorded, mid |-> IF recorded THEN thr[t].nextMid ELSE 0,
               result |-> -1, real |-> "none"]]
  BY DEF ENTER_IOFUNC
<1>2. UNCHANGED <<os, table, blind, program, switches>>
  BY DEF ENTER_IOFUNC
<1>3. thr[t] \in ThreadType /\ io[t] \in StreamType
  BY CallIs
<1>4. thr[t].nextMid \in Nat /\ recorded \in BOOLEAN
  BY <1>1, <1>3, CountersAre DEF Outcomes
<1>5. PICK m \in Nat : m = IF recorded THEN thr[t].nextMid ELSE 0
  BY <1>4
<1>6. [at |-> "entered", fn |-> c.fn, fd |-> c.fd, to |-> c.to, path |-> c.path,
       recorded |-> recorded, mid |-> m, result |-> -1, real |-> "none"] \in CallType
  BY <1>4, CallsAre DEF CallType, AnyFile, Special
<1>7. call' \in [team -> CallType]
  BY <1>1, <1>5, <1>6 DEF Types, WrapTypes
<1>8. thr' \in [team -> ThreadType] /\ io' \in [team -> StreamType]
  <2>1. CASE recorded
    <3>1. NextMid(thr[t]) \in ThreadType
      BY <1>3, CountersAre
    <3>2. vt_iobegin(io[t], thr[t], thr[t].nextMid) \in StreamType
      BY <1>3, <1>4, IobeginType
    <3> QED
      BY <1>1, <2>1, <3>1, <3>2 DEF Enter, Types, RecTypes
  <2>2. CASE ~recorded
    BY <1>1, <2>2 DEF Enter, Types, RecTypes
  <2> QED
    BY <2>1, <2>2
<1>9. made' \in 0 .. program.calls
  BY <1>1, Basics DEF Enter, Types, RecTypes
<1> QED
  BY <1>2, <1>7, <1>8, <1>9, MpiTypesStay DEF Types, RecTypes, WrapTypes, team

\* The library function.
LEMMA CallTypes ==
  ASSUME Types, WellFormed, NEW t \in team, CALL_LIBFUNC(t), UNCHANGED mpiVars
  PROVE  Types'
<1>1. PICK result \in Results(call[t]) :
        /\ Effect(call[t], result)
        /\ call' = [call EXCEPT ![t] = Returned(call[t], result, Real(call[t]))]
  BY Zenon DEF CALL_LIBFUNC, Returned
<1>2. UNCHANGED <<table, blind, recVars>> /\ Working(t)
  BY DEF CALL_LIBFUNC, Proceeds, Working
<1>3. Returned(call[t], result, Real(call[t])) \in CallType
  BY <1>2, CallIs, RealType, ResultType, ReturnedIs
<1>4. call' \in [team -> CallType]
  BY <1>1, <1>3 DEF Types, WrapTypes
<1>5. os' \in [Fds -> AnyFile]
  <2>1. call[t].fd \in Fds \cup {-1} /\ call[t].path \in Files \cup {"none"}
        /\ result \in Fds \cup {-1} /\ os \in [Fds -> AnyFile] /\ "none" \in AnyFile
    BY CallIs, ResultType DEF Types, WrapTypes, AnyFile, Special
  <2>2. call[t].fn \in {"dup", "dup2"} => call[t].fd \in Fds
    BY <1>2, CallIs DEF WellFormed, Formed
  <2>3. CASE result = -1
    <3>1. os' = os
      BY <1>1, <2>3 DEF Effect
    <3> QED
      BY <2>1, <3>1
  <2>4. CASE result # -1 /\ call[t].fn = "open"
    <3>1. os' = [os EXCEPT ![result] = call[t].path]
      BY <1>1, <2>4 DEF Effect
    <3> QED
      BY <2>1, <3>1 DEF AnyFile, Special
  <2>5. CASE result # -1 /\ call[t].fn \in {"dup", "dup2"}
    <3>1. os' = [os EXCEPT ![result] = os[call[t].fd]]
      BY <1>1, <2>5 DEF Effect
    <3> QED
      BY <2>1, <2>2, <2>5, <3>1
  <2>6. CASE result # -1 /\ call[t].fn = "close"
    <3>1. os' = [os EXCEPT ![call[t].fd] = "none"]
      BY <1>1, <2>6 DEF Effect
    <3> QED
      BY <2>1, <3>1
  <2>7. CASE call[t].fn \notin {"open", "dup", "dup2", "close"}
    <3>1. os' = os
      BY <1>1, <2>7 DEF Effect
    <3> QED
      BY <2>1, <3>1
  <2> QED
    BY <2>3, <2>4, <2>5, <2>6, <2>7
<1> QED
  BY <1>2, <1>4, <1>5, MpiTypesStay DEF Types, RecTypes, WrapTypes, recVars, team

\* A wrapper goes on after the library function, ends the operation and returns.
Leaves(t, file, mid, handle) ==
  /\ Proceeds(t, "returned") /\ End(t, file, mid, handle) /\ Return(t)
  /\ UNCHANGED <<os, program, made, switches>>

\* The file the end of a call names.
Names(c, file) ==
  /\ c.fn \in {"open", "unlink"} => file = c.path
  /\ c.fn = "sync" => file = "all"
  /\ c.fn = "read" /\ c.fd = -1 => file = "invalid"
  /\ c.fn \in {"close", "read", "lockf", "dup", "dup2"} /\ c.fd # -1 =>
       file = get_vampir_file(c.fd).file
  /\ c.fn = "fgets" => file \in {get_vampir_file(c.fd).file, get_vampir_file(0).file}
                       /\ (c.result # -1 => file = get_vampir_file(c.fd).file)

\* The file a new descriptor is entered with.
NewFile(c) == IF c.fn = "open" THEN c.path ELSE table[c.fd].file

\* The wrapper enters the descriptor that was returned.
Learns(t) ==
  /\ call[t].fn \in {"open", "dup", "dup2"} /\ call[t].result # -1
  /\ table' = [table EXCEPT ![call[t].result] =
                 [file |-> NewFile(call[t]), handle |-> thr[t].nextHandle]]
  /\ thr' = [thr EXCEPT ![t] = NextHandle(thr[t])]
  /\ blind' = IF call[t].fn # "open" /\ call[t].fd \in blind
              THEN blind \cup {call[t].result} ELSE blind \ {call[t].result}

\* All the macros that end a wrapper, in one form.
LeaveStep(t) ==
  \/ LEAVE_IOFUNC_OPEN(t) \/ LEAVE_IOFUNC_DUP(t) \/ LEAVE_IOFUNC(t)
  \/ LEAVE_IOFUNC_PATH(t) \/ LeaveLockf(t)

LEMMA LeaveIs ==
  ASSUME Types, WellFormed, NEW t \in team, LeaveStep(t)
  PROVE  /\ \E file \in AnyFile, mid \in Int, handle \in Nat :
              /\ Leaves(t, file, mid, handle) /\ Names(call[t], file)
              /\ call[t].fn # "lockf" => mid = call[t].mid
         /\ \/ Learns(t)
            \/ /\ UNCHANGED <<table, thr, blind>>
               /\ call[t].fn \in {"open", "dup", "dup2"} => call[t].result = -1
<1> DEFINE c == call[t]
<1>1. /\ call[t].at = "returned" /\ Proceeds(t, "returned") /\ Return(t) /\ Formed(call[t])
      /\ UNCHANGED <<os, program, made, switches>>
  BY DEF LeaveStep, LEAVE_IOFUNC_OPEN, LEAVE_IOFUNC_DUP, LEAVE_IOFUNC, LEAVE_IOFUNC_PATH,
         LeaveLockf, Proceeds, WellFormed, Working
<1>2. /\ call[t].mid \in Int /\ call[t].mid \in Nat /\ call[t].fd \in Fds \cup {-1}
      /\ call[t].path \in Files \cup {"none"} /\ 0 \in Fds
      /\ Fds \subseteq Nat /\ -1 \notin Fds /\ thr[t] \in ThreadType
      /\ Files \cup {"none", "all", "invalid"} \subseteq AnyFile
  BY CallIs, FdsAssumption DEF AnyFile, Special
<1>3. \A fd \in Fds : get_vampir_file(fd).file \in AnyFile /\ get_vampir_file(fd).handle \in Nat
  BY VampirFile DEF TableEntry
<1>4. CASE LEAVE_IOFUNC_OPEN(t)
  <2>1. call[t].fn = "open"
    BY <1>4 DEF LEAVE_IOFUNC_OPEN
  <2>2. Names(call[t], call[t].path)
    BY <2>1 DEF Names
  <2>3. CASE call[t].result = -1
    <3>1. End(t, call[t].path, call[t].mid, 0) /\ UNCHANGED <<table, thr, blind>>
      BY <1>4, <2>3 DEF LEAVE_IOFUNC_OPEN
    <3>2. Leaves(t, call[t].path, call[t].mid, 0)
      BY <1>1, <3>1 DEF Leaves
    <3> QED
      BY <1>2, <2>2, <2>3, <3>1, <3>2
  <2>4. CASE call[t].result # -1
    <3>1. /\ End(t, call[t].path, call[t].mid, thr[t].nextHandle)
          /\ vt_iofile_open(t, call[t].path, call[t].result)
          /\ blind' = blind \ {call[t].result}
      BY <1>4, <2>4 DEF LEAVE_IOFUNC_OPEN
    <3>2. Leaves(t, call[t].path, call[t].mid, thr[t].nextHandle)
      BY <1>1, <3>1 DEF Leaves
    <3>3. thr[t].nextHandle \in Nat
      BY <1>2, CountersAre
    <3>4. Learns(t)
      BY <2>1, <2>4, <3>1 DEF Learns, NewFile, vt_iofile_open
    <3> QED
      BY <1>2, <2>2, <3>2, <3>3, <3>4
  <2> QED
    BY <2>3, <2>4
<1>5. CASE LEAVE_IOFUNC_DUP(t)
  <2>1. /\ call[t].fn \in {"dup", "dup2"}
        /\ End(t, get_vampir_file(call[t].fd).file, call[t].mid, get_vampir_file(call[t].fd).handle)
    BY <1>5 DEF LEAVE_IOFUNC_DUP
  <2>2. call[t].fd \in Fds
    BY <1>1, <1>2, <2>1 DEF Formed
  <2>3. Names(call[t], get_vampir_file(call[t].fd).file)
    BY <2>1 DEF Names
  <2>4. Leaves(t, get_vampir_file(call[t].fd).file, call[t].mid, get_vampir_file(call[t].fd).handle)
    BY <1>1, <2>1 DEF Leaves
  <2>5. CASE call[t].result = -1
    <3>1. UNCHANGED <<table, thr, blind>>
      BY <1>5, <2>5 DEF LEAVE_IOFUNC_DUP
    <3> QED
      BY <1>2, <1>3, <2>2, <2>3, <2>4, <2>5, <3>1
  <2>6. CASE call[t].result # -1
    <3>1. /\ vt_iofile_dupfd(t, call[t].fd, call[t].result)
          /\ blind' = IF call[t].fd \in blind THEN blind \cup {call[t].result}
                      ELSE blind \ {call[t].result}
      BY <1>5, <2>6 DEF LEAVE_IOFUNC_DUP
    <3>2. table[call[t].fd] \in TableEntry
      BY <2>2 DEF Types, WrapTypes
    <3>3. [table[call[t].fd] EXCEPT !.handle = thr[t].nextHandle]
            = [file |-> table[call[t].fd].file, handle |-> thr[t].nextHandle]
      BY <3>2 DEF TableEntry
    <3>4. call[t].fn # "open"
      BY <2>1
    <3>5. table' = [table EXCEPT ![call[t].result] =
                      [file |-> NewFile(call[t]), handle |-> thr[t].nextHandle]]
      BY <3>1, <3>3, <3>4 DEF vt_iofile_dupfd, NewFile
    <3>6. Learns(t)
      BY <2>1, <2>6, <3>1, <3>4, <3>5 DEF Learns, vt_iofile_dupfd
    <3> QED
      BY <1>2, <1>3, <2>2, <2>3, <2>4, <3>6
  <2> QED
    BY <2>5, <2>6
<1>6. CASE LEAVE_IOFUNC(t)
  <2>1. call[t].fn \in {"close", "read", "fgets"} /\ UNCHANGED <<table, thr, blind>>
    BY <1>6 DEF LEAVE_IOFUNC
  <2>2. PICK fd : fd = IF call[t].fn = "fgets" /\ call[t].result = -1 THEN 0 ELSE call[t].fd
    OBVIOUS
  <2>3. PICK f : f = IF fd = -1 THEN [file |-> "invalid", handle |-> 0] ELSE get_vampir_file(fd)
    OBVIOUS
  <2>4. End(t, f.file, call[t].mid, f.handle)
    BY <1>6, <2>2, <2>3 DEF LEAVE_IOFUNC
  <2>5. fd \in Fds \cup {-1} /\ (fd = -1 => call[t].fn = "read" /\ call[t].fd = -1)
    BY <1>1, <1>2, <2>1, <2>2 DEF Formed
  <2>6. f.file \in AnyFile /\ f.handle \in Nat /\ Names(call[t], f.file)
    <3>1. CASE fd = -1
      BY <1>2, <2>3, <2>5, <3>1 DEF Names
    <3>2. CASE fd # -1
      BY <1>2, <1>3, <2>1, <2>2, <2>3, <2>5, <3>2 DEF Names
    <3> QED
      BY <3>1, <3>2
  <2>7. Leaves(t, f.file, call[t].mid, f.handle)
    BY <1>1, <2>4 DEF Leaves
  <2> QED
    BY <1>2, <2>1, <2>6, <2>7
<1>7. CASE LEAVE_IOFUNC_PATH(t)
  <2>1. call[t].fn \in {"unlink", "sync"} /\ UNCHANGED <<table, thr, blind>>
    BY <1>7 DEF LEAVE_IOFUNC_PATH
  <2>2. PICK file \in AnyFile : file = IF call[t].fn = "sync" THEN "all" ELSE call[t].path
    BY <1>2
  <2>3. Leaves(t, file, call[t].mid, 0)
    BY <1>1, <1>7, <2>2 DEF LEAVE_IOFUNC_PATH, Leaves
  <2>4. Names(call[t], file)
    BY <2>1, <2>2 DEF Names
  <2> QED
    BY <1>2, <2>1, <2>3, <2>4
<1>8. CASE LeaveLockf(t)
  <2>1. /\ call[t].fn = "lockf" /\ UNCHANGED <<table, thr, blind>>
        /\ End(t, get_vampir_file(call[t].fd).file, call[t].fd + 1, call[t].mid)
    BY <1>8 DEF LeaveLockf
  <2>a. call[t].fd \in Fds
    BY <1>1, <1>2, <2>1 DEF Formed
  <2>b. \A fd \in Fds : fd + 1 \in Int
    BY <1>2
  <2>2. call[t].fd \in Fds /\ call[t].fd + 1 \in Int
    BY <2>a, <2>b
  <2>3. Leaves(t, get_vampir_file(call[t].fd).file, call[t].fd + 1, call[t].mid)
    BY <1>1, <2>1 DEF Leaves
  <2>4. Names(call[t], get_vampir_file(call[t].fd).file)
    BY <2>1 DEF Names
  <2> QED
    BY <1>2, <1>3, <2>1, <2>2, <2>3, <2>4
<1> QED
  BY <1>4, <1>5, <1>6, <1>7, <1>8 DEF LeaveStep

\* The end of a wrapper.
LEMMA LeaveTypes ==
  ASSUME Types, WellFormed, NEW t \in team, LeaveStep(t), UNCHANGED mpiVars
  PROVE  Types'
<1>1. PICK file \in AnyFile, mid \in Int, handle \in Nat : Leaves(t, file, mid, handle)
  BY LeaveIs
<1>2. Working(t) /\ call[t].fn \in Fns /\ Formed(call[t])
  BY <1>1 DEF Leaves, Proceeds, Working, WellFormed, Formed
<1>3. io' \in [team -> StreamType]
  BY <1>1, <1>2, EndIs DEF Leaves
<1>4. call' \in [team -> CallType]
  BY <1>1, IdleType DEF Leaves, Return, Types, WrapTypes
<1>5. /\ thr' \in [team -> ThreadType] /\ table' \in [Fds -> TableEntry]
      /\ blind' \in SUBSET Fds
  <2>1. CASE UNCHANGED <<table, thr, blind>>
    <3>1. thr \in [team -> ThreadType] /\ table \in [Fds -> TableEntry] /\ blind \in SUBSET Fds
      BY DEF Types, RecTypes, WrapTypes
    <3> QED
      BY <2>1, <3>1
  <2>2. CASE Learns(t)
    <3>1. call[t].result \in Fds
      BY <2>2, CallIs DEF Learns
    <3>2. NewFile(call[t]) \in AnyFile
      <4>1. CASE call[t].fn = "open"
        BY <4>1, CallIs DEF NewFile, AnyFile, Special
      <4>2. CASE call[t].fn # "open"
        <5>1. call[t].fd \in Fds
          BY <1>2, <2>2, <4>2, CallIs DEF Formed, Learns
        <5> QED
          BY <4>2, <5>1 DEF NewFile, Types, WrapTypes, TableEntry
      <4> QED
        BY <4>1, <4>2
    <3>3. thr[t].nextHandle \in Nat /\ NextHandle(thr[t]) \in ThreadType
      BY CallIs, CountersAre
    <3>4. [file |-> NewFile(call[t]), handle |-> thr[t].nextHandle] \in TableEntry
      BY <3>2, <3>3 DEF TableEntry
    <3>5. thr' \in [team -> ThreadType]
      BY <2>2, <3>3 DEF Learns, Types, RecTypes
    <3>6. table' \in [Fds -> TableEntry]
      BY <2>2, <3>4 DEF Learns, Types, WrapTypes
    <3>7. blind' \in SUBSET Fds
      BY <2>2, <3>1 DEF Learns, Types, WrapTypes
    <3> QED
      BY <3>5, <3>6, <3>7
  <2> QED
    BY <2>1, <2>2, LeaveIs
<1> QED
  BY <1>1, <1>3, <1>4, <1>5, MpiTypesStay DEF Leaves, Types, RecTypes, WrapTypes, team

\* I/O that no wrapper records: VampirTrace's own, and functions without one.
UntracedStep(t) == Untraced(t) \/ OpenElsewhere(t)

\* Such I/O opens a free descriptor, which is not known, or closes one of
\* VampirTrace's.
LEMMA UntracedIs ==
  ASSUME Types, NEW t \in team, UntracedStep(t)
  PROVE  /\ UNCHANGED <<table, call, thr, io, program, switches>>
         /\ made < program.calls /\ made' = made + 1
         /\ \/ \E fd \in Fds, file \in {"trace", "foreign"} :
                 /\ os[fd] = "none" /\ os' = [os EXCEPT ![fd] = file]
                 /\ blind' = blind \cup {fd}
            \/ \E fd \in Fds :
                 /\ os[fd] = "trace" /\ os' = [os EXCEPT ![fd] = "none"]
                 /\ UNCHANGED blind
<1>1. Free \in SUBSET Fds /\ \A fd \in Free : os[fd] = "none"
  BY DEF Free
<1>2. Free # {} => Lowest(Free) \in Free
  BY <1>1, LowestIs
<1>3. CASE Untraced(t)
  BY <1>1, <1>2, <1>3 DEF Untraced
<1>4. CASE OpenElsewhere(t)
  BY <1>1, <1>2, <1>4 DEF OpenElsewhere
<1> QED
  BY <1>3, <1>4 DEF UntracedStep

\* I/O that no wrapper records.
LEMMA UntracedTypes ==
  ASSUME Types, NEW t \in team, UntracedStep(t), UNCHANGED mpiVars
  PROVE  Types'
<1>1. os' \in [Fds -> AnyFile] /\ blind' \in SUBSET Fds
  <2>1. CASE \E fd \in Fds, file \in {"trace", "foreign"} :
               os' = [os EXCEPT ![fd] = file] /\ blind' = blind \cup {fd}
    BY <2>1 DEF Types, WrapTypes, AnyFile, Special
  <2>2. CASE \E fd \in Fds : os' = [os EXCEPT ![fd] = "none"] /\ UNCHANGED blind
    BY <2>2 DEF Types, WrapTypes, AnyFile, Special
  <2> QED
    BY <2>1, <2>2, UntracedIs
<1>2. made' \in 0 .. program.calls
  BY UntracedIs, Basics DEF Types, RecTypes
<1> QED
  BY <1>1, <1>2, UntracedIs, MpiTypesStay DEF Types, RecTypes, WrapTypes, team

\* VampirTrace's own work begins and ends; recording is switched.
ControlStep(t) == Suspend(t) \/ Resume(t) \/ SwitchRecording(t)

\* What a step of control changes of its thread: nothing but the state of
\* tracing, and recording only between two calls.
LEMMA ControlIs ==
  ASSUME Types, NEW t \in team, ControlStep(t)
  PROVE  /\ UNCHANGED <<program, io, made>>
         /\ switches' \in Nat
         /\ thr' \in [team -> ThreadType] /\ \A s \in team : s # t => thr'[s] = thr[s]
         /\ thr'[t].nextMid = thr[t].nextMid /\ thr'[t].nextHandle = thr[t].nextHandle
         /\ thr'[t].on = thr[t].on \/ ~Working(t)
         /\ \/ SameState(thr'[t], thr[t])
            \/ /\ thr[t].suspended < program.suspensions
               /\ thr'[t].suspended = thr[t].suspended + 1 /\ thr'[t].enabled = FALSE
               /\ thr'[t].state = IF thr[t].enabled THEN TRUE ELSE thr[t].state
            \/ /\ thr[t].suspended > 0 /\ thr'[t].suspended = thr[t].suspended - 1
               /\ thr'[t].state = thr[t].state
               /\ thr'[t].enabled = IF thr[t].suspended = 1 THEN thr[t].state ELSE thr[t].enabled
<1>1. thr \in [team -> ThreadType] /\ thr[t] \in ThreadType /\ switches \in Nat
  BY DEF Types, RecTypes
<1>2. CASE Suspend(t)
  <2>1. PICK u \in ThreadType :
          /\ u = Suspended(thr[t]) /\ SameIds(u, thr[t])
          /\ u.suspended = thr[t].suspended + 1 /\ u.enabled = FALSE
          /\ u.state = IF thr[t].enabled THEN TRUE ELSE thr[t].state
    BY <1>1, SuspendedIs
  <2>2. thr' = [thr EXCEPT ![t] = u] /\ UNCHANGED <<program, io, made, switches>>
        /\ thr[t].suspended < program.suspensions
    BY <1>2, <2>1 DEF Suspend
  <2>3. thr' \in [team -> ThreadType] /\ thr'[t] = u /\ \A s \in team : s # t => thr'[s] = thr[s]
    BY <1>1, <2>2
  <2> QED
    BY <1>1, <2>1, <2>2, <2>3 DEF SameIds
<1>3. CASE Resume(t)
  <2>0. thr[t].suspended > 0
    BY <1>3 DEF Resume
  <2>1. PICK u \in ThreadType :
          /\ u = Resumed(thr[t]) /\ SameIds(u, thr[t])
          /\ u.suspended = thr[t].suspended - 1 /\ u.state = thr[t].state
          /\ u.enabled = IF thr[t].suspended = 1 THEN thr[t].state ELSE thr[t].enabled
    BY <1>1, <2>0, ResumedIs
  <2>2. thr' = [thr EXCEPT ![t] = u] /\ UNCHANGED <<program, io, made, switches>>
    BY <1>3, <2>1 DEF Resume
  <2>3. thr' \in [team -> ThreadType] /\ thr'[t] = u /\ \A s \in team : s # t => thr'[s] = thr[s]
    BY <1>1, <2>2
  <2> QED
    BY <1>1, <2>0, <2>1, <2>2, <2>3 DEF SameIds
<1>4. CASE SwitchRecording(t)
  <2>0. Switch(t) /\ ~Working(t) /\ UNCHANGED <<program, io, made>> /\ switches' \in Nat
    BY <1>1, <1>4 DEF SwitchRecording, Switch, Working
  <2>1. PICK b \in BOOLEAN : thr' = [thr EXCEPT ![t] = SetOn(thr[t], b)]
    BY <2>0, SwitchIs DEF Types
  <2>2. PICK u \in ThreadType :
          /\ u = SetOn(thr[t], b) /\ SameState(u, thr[t])
          /\ u.nextMid = thr[t].nextMid /\ u.nextHandle = thr[t].nextHandle
    BY <1>1, SettingOn
  <2>3. thr' \in [team -> ThreadType] /\ thr'[t] = u /\ \A s \in team : s # t => thr'[s] = thr[s]
    BY <1>1, <2>1, <2>2
  <2> QED
    BY <2>0, <2>2, <2>3
<1> QED
  BY <1>2, <1>3, <1>4 DEF ControlStep

\* Switching and suspending.
LEMMA ControlTypes ==
  ASSUME Types, NEW t \in team, ControlStep(t), UNCHANGED <<wrapVars, mpiVars>>
  PROVE  Types'
BY ControlIs, MpiTypesStay DEF Types, RecTypes, WrapTypes, wrapVars, team

\* What an MPI-IO call records on the main thread's stream. A call that ends
\* names the file it worked on.
MainOnly ==
  /\ io' \in [team -> StreamType] /\ thr' \in [team -> ThreadType]
  /\ \A s \in team : s # Main => io'[s] = io[s] /\ thr'[s] = thr[s]
  /\ thr'[Main].on = thr[Main].on /\ SameState(thr'[Main], thr[Main])
Silent ==
  /\ io'[Main] = io[Main]
  /\ thr'[Main].nextMid \in {thr[Main].nextMid, thr[Main].nextMid + 1}
Begins ==
  /\ thr[Main].on /\ thr'[Main].nextMid = thr[Main].nextMid + 1
  /\ io'[Main].open = io[Main].open \cup {thr[Main].nextMid} /\ io'[Main].last = NoEnd
Whole ==
  /\ thr[Main].on /\ thr'[Main].nextMid = thr[Main].nextMid + 1
  /\ io'[Main].open = (io[Main].open \cup {thr[Main].nextMid}) \ {thr[Main].nextMid}
  /\ io'[Main].last.matched = TRUE /\ io'[Main].last.fn \in MpiFns
  /\ io'[Main].last.file = io'[Main].last.real /\ io'[Main].last.real \in Files
Ends(mid) ==
  /\ thr[Main].on /\ thr'[Main].nextMid = thr[Main].nextMid
  /\ io'[Main].open = io[Main].open \ {mid}
  /\ (mid \in io[Main].open => io'[Main].last.matched) /\ io'[Main].last.fn \in MpiFns
  /\ io'[Main].last.file = io'[Main].last.real /\ io'[Main].last.real \in Files
NoNewHandle == thr'[Main].nextHandle = thr[Main].nextHandle

\* The stream u is s with both records of a call.
WithRecords(u, s, th, mid, file, handle, fn) ==
  /\ u = Records(s, th, mid, file, handle, fn, file)
  /\ u.open = (s.open \cup {mid}) \ {mid} /\ u.last.matched = TRUE
  /\ u.last.fn = fn /\ u.last.file = file /\ u.last.real = file

\* A call that is complete when it returns: both of its records.
LEMMA RecordsAre ==
  ASSUME NEW s \in StreamType, NEW th \in ThreadType, th.on, NEW mid \in Nat,
         NEW file \in Files, NEW handle \in Nat, NEW fn \in MpiFns
  PROVE  \E u \in StreamType : WithRecords(u, s, th, mid, file, handle, fn)
<1>1. PICK v \in StreamType : v = vt_iobegin(s, th, mid)
  BY IobeginType
<1>2. v.open = s.open \cup {mid}
  BY <1>1 DEF vt_iobegin
<1>3. file \in AnyFile /\ mid \in Int /\ fn # "lockf"
  BY DEF AnyFile, MpiFns
<1>4. PICK u \in StreamType : u = vt_ioend(v, th, file, mid, handle, fn, file)
  BY <1>3, IoendType
<1>5. u = [open |-> IF fn = "lockf" THEN v.open ELSE v.open \ {mid},
           last |-> [mid |-> mid, file |-> file, handle |-> handle, fn |-> fn,
                     real |-> file, matched |-> mid \in v.open]]
  BY <1>4, Zenon DEF vt_ioend
<1>6. mid \in v.open
  BY <1>2
<1>7. PICK b : b = TRUE /\ b = (mid \in v.open)
  BY <1>6, Zenon
<1>8. u = [open |-> IF fn = "lockf" THEN v.open ELSE v.open \ {mid},
           last |-> [mid |-> mid, file |-> file, handle |-> handle, fn |-> fn,
                     real |-> file, matched |-> b]]
  BY <1>5, <1>7, Zenon
<1>9. u.open = v.open \ {mid}
  BY <1>3, <1>8
<1>10. u.last.matched = b /\ u.last.fn = fn /\ u.last.file = file /\ u.last.real = file
  BY <1>8
<1>11. u = Records(s, th, mid, file, handle, fn, file)
  BY <1>1, <1>4 DEF Records
<1> QED
  BY <1>2, <1>6, <1>7, <1>9, <1>10, <1>11 DEF WithRecords

\* An open file has an entry, which is the one found.
LEMMA GetData ==
  ASSUME Types, MpiFilesInv, ~aborted, NEW h \in OpenFiles
  PROVE  \E k \in DOMAIN fmap :
           /\ fmap[k].fh = h /\ Position(h) = k /\ vt_mpifile_get_data(h) = fmap[k]
           /\ fmap[k] \in MpiEntry /\ fmap[k].file = mpi[h] /\ mpi[h] \in Files /\ h # Null
           /\ h \in Handles /\ fmap[k].split \in Nat
<1>1. h \in Handles /\ mpi[h] # "none" /\ mpi[h] \in Files
  BY DEF OpenFiles, Types, MpiTypes
<1>2. h # Null
  BY <1>1, HandlesAssumption
<1>3. PICK k \in DOMAIN fmap : fmap[k].fh = h
  BY <1>1 DEF MpiFilesInv
<1>4. Entries(h) = {k}
  BY <1>2, <1>3 DEF Entries, MpiFilesInv
<1>5. k \in Nat /\ fmap[k] \in MpiEntry
  BY <1>3 DEF Types, MpiTypes
<1>6. Position(h) = k
  BY <1>4, <1>5 DEF Position
<1>7. fmap[k].file = mpi[h]
  BY <1>2, <1>3 DEF MpiFilesInv
<1>8. fmap[k].split \in Nat
  BY <1>5 DEF MpiEntry
<1>9. vt_mpifile_get_data(h) = fmap[k]
  BY <1>6 DEF vt_mpifile_get_data
<1> QED
  BY <1>1, <1>2, <1>3, <1>5, <1>6, <1>7, <1>8, <1>9

\* The main thread's stream and counters in a step of MPI-IO.
LEMMA MainIs ==
  ASSUME Types
  PROVE  /\ Main \in team /\ thr[Main] \in ThreadType /\ io[Main] \in StreamType
         /\ thr \in [team -> ThreadType] /\ io \in [team -> StreamType]
         /\ thr[Main].nextMid \in Nat /\ thr[Main].nextHandle \in Nat \ {0}
         /\ \A recorded \in Recorded : recorded \in BOOLEAN /\ (recorded => thr[Main].on)
<1>1. Main \in team /\ thr[Main] \in ThreadType /\ io[Main] \in StreamType
  BY Basics DEF Types, RecTypes
<1>2. thr[Main].on \in BOOLEAN /\ thr[Main].nextMid \in Nat /\ thr[Main].nextHandle \in Nat \ {0}
  BY <1>1, CountersAre
<1> QED
  BY <1>1, <1>2 DEF Types, RecTypes, Recorded, Outcomes

\* Nothing is recorded.
LEMMA SilentIs ==
  ASSUME Types, UNCHANGED <<io, thr>>
  PROVE  MainOnly /\ Silent /\ NoNewHandle
BY MainIs DEF MainOnly, Silent, NoNewHandle, SameState

\* A stream and a thread are replaced.
LEMMA MainReplaced ==
  ASSUME Types, NEW s \in StreamType, NEW th \in ThreadType,
         io' = [io EXCEPT ![Main] = s], thr' = [thr EXCEPT ![Main] = th],
         th.on = thr[Main].on, SameState(th, thr[Main])
  PROVE  MainOnly /\ io'[Main] = s /\ thr'[Main] = th
BY MainIs DEF MainOnly

\* A whole call of a file, on a stream that is recorded.
LEMMA WholeIs ==
  ASSUME Types, thr[Main].on, NEW file \in Files, NEW handle \in Nat, NEW fn \in MpiFns,
         io' = [io EXCEPT ![Main] =
                  Records(io[Main], thr[Main], thr[Main].nextMid, file, handle, fn, file)],
         NEW th \in ThreadType, thr' = [thr EXCEPT ![Main] = th],
         th.on = thr[Main].on, SameState(th, thr[Main]), th.nextMid = thr[Main].nextMid + 1
  PROVE  MainOnly /\ Whole /\ thr'[Main] = th
<1>0. io[Main] \in StreamType /\ thr[Main] \in ThreadType /\ thr[Main].nextMid \in Nat
  BY MainIs
<1>1. PICK u \in StreamType :
        WithRecords(u, io[Main], thr[Main], thr[Main].nextMid, file, handle, fn)
  BY <1>0, RecordsAre
<1>2. io' = [io EXCEPT ![Main] = u]
  BY <1>1 DEF WithRecords
<1>3. thr' = [thr EXCEPT ![Main] = th] /\ th.on = thr[Main].on /\ SameState(th, thr[Main])
  OBVIOUS
<1>4. MainOnly /\ io'[Main] = u /\ thr'[Main] = th
  BY <1>2, <1>3, MainReplaced
<1> QED
  BY <1>1, <1>4 DEF Whole, WithRecords

\* An operation on an open file that is complete when it returns.
LEMMA CompleteIs ==
  ASSUME Types, MpiFilesInv, ~aborted, NEW h \in OpenFiles, NEW fn \in MpiFns,
         NEW recorded \in Recorded, Complete(h, fn, recorded)
  PROVE  MainOnly /\ NoNewHandle /\ (Silent \/ Whole)
<1>1. CASE ~recorded
  BY <1>1, SilentIs DEF Complete
<1>2. CASE recorded
  <2>1. PICK k \in DOMAIN fmap :
          /\ vt_mpifile_get_data(h) = fmap[k] /\ fmap[k] \in MpiEntry
          /\ fmap[k].file = mpi[h] /\ mpi[h] \in Files
    BY GetData
  <2>2. fmap[k].handle \in Nat
    BY <2>1 DEF MpiEntry
  <2>3. PICK th \in ThreadType :
          /\ th = NextMid(thr[Main]) /\ th.on = thr[Main].on /\ SameState(th, thr[Main])
          /\ th.nextMid = thr[Main].nextMid + 1 /\ th.nextHandle = thr[Main].nextHandle
    BY MainIs, CountersAre
  <2>4. /\ io' = [io EXCEPT ![Main] = Records(io[Main], thr[Main], thr[Main].nextMid, mpi[h],
                                              fmap[k].handle, fn, mpi[h])]
        /\ thr' = [thr EXCEPT ![Main] = th]
    BY <1>2, <2>1, <2>3 DEF Complete
  <2>5. MainOnly /\ Whole /\ thr'[Main] = th
    BY <1>2, <2>1, <2>2, <2>3, <2>4, MainIs, WholeIs
  <2> QED
    BY <2>3, <2>5 DEF NoNewHandle
<1> QED
  BY <1>1, <1>2, MainIs

\* What the steps of MPI-IO have in common.
MpiStep ==
  /\ UNCHANGED wrapVars /\ ~Working(Main) /\ ~aborted
  /\ UNCHANGED <<program, switches>>
  /\ made < program.calls /\ made' = made + 1

\* The eight kinds of calls of MPI-IO.
MpiKind ==
  \/ MPI_File_open \/ MPI_File_close \/ MPI_File_delete \/ Blocking
  \/ Nonblocking \/ MPI_Wait \/ SplitBegin \/ SplitEnd

\* Every call of MPI-IO is one of these.
LEMMA MpiCallIs ==
  ASSUME MpiCall
  PROVE  MpiStep /\ MpiKind
<1>1. MpiKind
  BY DEF MpiCall, MpiNext, MpiKind, MPI_File_sync, MPI_File_read, MPI_File_read_at,
         MPI_File_read_shared, MPI_File_iread, MPI_File_iread_at, MPI_File_iread_shared,
         ReadSplit, WriteSplit
<1>2. CallMpi
  BY <1>1 DEF MpiKind, MPI_File_open, MPI_File_close, MPI_File_delete, Blocking,
              Nonblocking, MPI_Wait, SplitBegin, SplitEnd
<1> QED
  BY <1>1, <1>2 DEF MpiStep, MpiCall, CallMpi, Working

\* The last entry takes the place of the one removed.
Removed(k) ==
  /\ Len(fmap) \in Nat \ {0} /\ k \in 1 .. Len(fmap)
  /\ DOMAIN fmap = 1 .. Len(fmap) /\ DOMAIN fmap' = 1 .. Len(fmap) - 1
  /\ Len(fmap') = Len(fmap) - 1
  /\ fmap' = [i \in 1 .. Len(fmap) - 1 |-> IF i = k THEN fmap[Len(fmap)] ELSE fmap[i]]
  /\ \A i \in DOMAIN fmap' : fmap'[i] = IF i = k THEN fmap[Len(fmap)] ELSE fmap[i]

\* MPI_File_open: a new entry with a new handle, or the table is full.
LEMMA OpenIs ==
  ASSUME Types, ~aborted, MPI_File_open
  PROVE  /\ MainOnly /\ (Silent \/ Whole)
         /\ thr'[Main].nextHandle = thr[Main].nextHandle + 1
         /\ UNCHANGED <<begun, requests, careless>>
         /\ \E file \in Files, h \in Handles \cup {Null} :
              /\ h # Null => h \in Handles /\ mpi[h] = "none"
              /\ mpi' = IF h = Null THEN mpi ELSE [mpi EXCEPT ![h] = file]
              /\ \/ aborted' = TRUE /\ UNCHANGED fmap
                 \/ /\ Len(fmap) < MaxMpiFiles /\ UNCHANGED aborted
                    /\ fmap' = Append(fmap, [fh |-> h, file |-> file, split |-> 0,
                                             handle |-> thr[Main].nextHandle])
<1>1. PICK file \in Files, recorded \in Recorded,
           h \in {Null} \cup {x \in Handles : mpi[x] = "none"} :
        /\ vt_mpifile_create(h, file)
        /\ mpi' = IF h = Null THEN mpi ELSE [mpi EXCEPT ![h] = file]
        /\ io' = IF recorded /\ ~aborted'
                 THEN [io EXCEPT ![Main] =
                         Records(@, thr[Main], thr[Main].nextMid, file, thr[Main].nextHandle,
                                 "mpi_open", file)]
                 ELSE io
        /\ thr' = [thr EXCEPT ![Main] =
                     IF recorded THEN NextMid(NextHandle(@)) ELSE NextHandle(@)]
  BY DEF MPI_File_open
<1>2. /\ h # Null => h \in Handles /\ mpi[h] = "none"
      /\ h \in Handles \cup {Null}
  BY <1>1
<1>3. \/ aborted' = TRUE /\ UNCHANGED fmap
      \/ /\ Len(fmap) < MaxMpiFiles /\ UNCHANGED aborted
         /\ fmap' = Append(fmap, [fh |-> h, file |-> file, split |-> 0,
                                  handle |-> thr[Main].nextHandle])
  BY <1>1, HandlesAssumption DEF vt_mpifile_create, Types, MpiTypes
<1>4. /\ Main \in team /\ thr[Main] \in ThreadType /\ io[Main] \in StreamType
      /\ thr[Main].nextMid \in Nat /\ thr[Main].nextHandle \in Nat /\ recorded \in BOOLEAN
      /\ io \in [team -> StreamType] /\ thr \in [team -> ThreadType]
      /\ recorded => thr[Main].on
  BY <1>1, MainIs
<1>5. PICK a \in ThreadType :
        /\ a = NextHandle(thr[Main]) /\ a.on = thr[Main].on /\ SameState(a, thr[Main])
        /\ a.nextMid = thr[Main].nextMid /\ a.nextHandle = thr[Main].nextHandle + 1
  BY <1>4, CountersAre
<1>6. PICK b \in ThreadType :
        /\ b = NextMid(a) /\ b.on = a.on /\ SameState(b, a)
        /\ b.nextMid = a.nextMid + 1 /\ b.nextHandle = a.nextHandle
  BY CountersAre
<1>7. SameState(b, thr[Main])
  BY <1>5, <1>6 DEF SameState
<1>8. CASE ~(recorded /\ ~aborted')
  <2>1. PICK c \in {a, b} : thr' = [thr EXCEPT ![Main] = c]
    BY <1>1, <1>4, <1>5, <1>6
  <2>2. io' = [io EXCEPT ![Main] = io[Main]]
    BY <1>1, <1>4, <1>8
  <2>3. /\ c \in ThreadType /\ c.on = thr[Main].on /\ SameState(c, thr[Main])
        /\ c.nextMid \in {thr[Main].nextMid, thr[Main].nextMid + 1}
        /\ c.nextHandle = thr[Main].nextHandle + 1
    BY <1>5, <1>6, <1>7, <2>1
  <2>4. MainOnly /\ thr'[Main] = c /\ io'[Main] = io[Main]
    BY <1>4, <2>1, <2>2, <2>3, MainReplaced
  <2>5. Silent
    BY <2>3, <2>4 DEF Silent
  <2> QED
    BY <1>1, <1>2, <1>3, <2>3, <2>4, <2>5 DEF MPI_File_open
<1>9. CASE recorded /\ ~aborted'
  <2>1. /\ thr' = [thr EXCEPT ![Main] = b]
        /\ io' = [io EXCEPT ![Main] =
                    Records(io[Main], thr[Main], thr[Main].nextMid, file,
                            thr[Main].nextHandle, "mpi_open", file)]
    BY <1>1, <1>5, <1>6, <1>9
  <2>2. "mpi_open" \in MpiFns
    BY DEF MpiFns
  <2>3. MainOnly /\ Whole /\ thr'[Main] = b
    BY <1>4, <1>5, <1>6, <1>7, <1>9, <2>1, <2>2, WholeIs
  <2> QED
    BY <1>1, <1>2, <1>3, <1>5, <1>6, <2>3 DEF MPI_File_open
<1> QED
  BY <1>8, <1>9

\* MPI_File_close: the entry is removed.
LEMMA CloseIs ==
  ASSUME Types, MpiFilesInv, ~aborted, MPI_File_close
  PROVE  /\ MainOnly /\ NoNewHandle /\ (Silent \/ Whole)
         /\ UNCHANGED <<begun, requests, careless, aborted>>
         /\ \E h \in OpenFiles, k \in DOMAIN fmap :
              /\ h \in Handles /\ h # Null /\ fmap[k].fh = h
              /\ begun[h] = "no" /\ \A q \in requests : q.on # h
              /\ mpi' = [mpi EXCEPT ![h] = "none"] /\ Removed(k)
<1>1. PICK h \in OpenFiles, recorded \in Recorded :
        /\ begun[h] = "no" /\ \A q \in requests : q.on # h
        /\ Complete(h, "mpi_close", recorded)
        /\ mpi' = [mpi EXCEPT ![h] = "none"] /\ fmap' = vt_mpifile_free(h)
  BY DEF MPI_File_close
<1>2. MainOnly /\ NoNewHandle /\ (Silent \/ Whole)
  BY <1>1, CompleteIs DEF MpiFns
<1>3. PICK k \in DOMAIN fmap :
        fmap[k].fh = h /\ Position(h) = k /\ h \in Handles /\ h # Null
  BY <1>1, GetData
<1>4. DOMAIN fmap = 1 .. Len(fmap) /\ Len(fmap) \in Nat
  BY DEF Types, MpiTypes
<1>5. Len(fmap) \in Nat \ {0} /\ k \in 1 .. Len(fmap)
  BY <1>3, <1>4
<1>6. fmap' = [i \in 1 .. Len(fmap) - 1 |-> IF i = k THEN fmap[Len(fmap)] ELSE fmap[i]]
  BY <1>1, <1>3 DEF vt_mpifile_free
<1>7. DOMAIN fmap' = 1 .. Len(fmap) - 1 /\ Len(fmap') = Len(fmap) - 1
  BY <1>5, <1>6, LenProperties
<1>8. Removed(k)
  BY <1>4, <1>5, <1>6, <1>7 DEF Removed
<1> QED
  BY <1>1, <1>2, <1>3, <1>8 DEF MPI_File_close

\* MPI_File_delete and the blocking operations.
LEMMA WholeCalls ==
  ASSUME Types, MpiFilesInv, ~aborted, MPI_File_delete \/ Blocking
  PROVE  MainOnly /\ NoNewHandle /\ (Silent \/ Whole) /\ UNCHANGED mpiVars
<1>1. CASE Blocking
  <2>1. PICK h \in OpenFiles, recorded \in Recorded : Complete(h, "mpi_read", recorded)
    BY <1>1 DEF Blocking
  <2> QED
    BY <1>1, <2>1, CompleteIs DEF MpiFns, Blocking
<1>2. CASE MPI_File_delete
  <2>1. PICK file \in Files, recorded \in Recorded :
          IF recorded
          THEN /\ io' = [io EXCEPT ![Main] = Records(io[Main], thr[Main], thr[Main].nextMid,
                                                     file, 0, "mpi_delete", file)]
               /\ thr' = [thr EXCEPT ![Main] = NextMid(thr[Main])]
          ELSE UNCHANGED <<io, thr>>
    BY <1>2 DEF MPI_File_delete
  <2>2. UNCHANGED mpiVars
    BY <1>2 DEF MPI_File_delete
  <2>3. CASE ~recorded
    BY <2>1, <2>2, <2>3, SilentIs
  <2>4. CASE recorded
    <3>1. PICK th \in ThreadType :
            /\ th = NextMid(thr[Main]) /\ th.on = thr[Main].on /\ SameState(th, thr[Main])
            /\ th.nextMid = thr[Main].nextMid + 1 /\ th.nextHandle = thr[Main].nextHandle
      BY MainIs, CountersAre
    <3>2. thr[Main].on /\ "mpi_delete" \in MpiFns /\ 0 \in Nat
      BY <2>4, MainIs DEF MpiFns
    <3>3. MainOnly /\ Whole /\ thr'[Main] = th
      BY <2>1, <2>4, <3>1, <3>2, WholeIs
    <3> QED
      BY <2>2, <3>1, <3>3 DEF NoNewHandle
  <2>5. recorded \in BOOLEAN
    BY MainIs
  <2> QED
    BY <2>3, <2>4, <2>5
<1> QED
  BY <1>1, <1>2

\* The operation of MPI-IO begins, and ends later.
LEMMA BeginsIs ==
  ASSUME Types, thr[Main].on,
         io' = [io EXCEPT ![Main] = vt_iobegin(io[Main], thr[Main], thr[Main].nextMid)],
         thr' = [thr EXCEPT ![Main] = NextMid(thr[Main])]
  PROVE  MainOnly /\ Begins /\ NoNewHandle
<1>1. io[Main] \in StreamType /\ thr[Main] \in ThreadType /\ thr[Main].nextMid \in Nat
  BY MainIs
<1>2. PICK s \in StreamType : s = vt_iobegin(io[Main], thr[Main], thr[Main].nextMid)
  BY <1>1, IobeginType
<1>3. PICK th \in ThreadType :
        /\ th = NextMid(thr[Main]) /\ th.on = thr[Main].on /\ SameState(th, thr[Main])
        /\ th.nextMid = thr[Main].nextMid + 1 /\ th.nextHandle = thr[Main].nextHandle
  BY <1>1, CountersAre
<1>4. io' = [io EXCEPT ![Main] = s] /\ thr' = [thr EXCEPT ![Main] = th]
  BY <1>2, <1>3
<1>5. MainOnly /\ io'[Main] = s /\ thr'[Main] = th
  BY <1>3, <1>4, MainReplaced
<1>6. s.open = io[Main].open \cup {thr[Main].nextMid} /\ s.last = NoEnd
  BY <1>2 DEF vt_iobegin
<1> QED
  BY <1>3, <1>5, <1>6 DEF Begins, NoNewHandle

\* The operation of MPI-IO that began earlier ends.
LEMMA EndsIs ==
  ASSUME Types, thr[Main].on, NEW file \in Files, NEW mid \in Nat, NEW handle \in Nat,
         NEW fn \in MpiFns, UNCHANGED thr,
         io' = [io EXCEPT ![Main] = vt_ioend(io[Main], thr[Main], file, mid, handle, fn, file)]
  PROVE  MainOnly /\ Ends(mid) /\ NoNewHandle
<1>1. /\ io[Main] \in StreamType /\ thr[Main] \in ThreadType /\ thr \in [team -> ThreadType]
      /\ Main \in team
  BY MainIs
<1>2. file \in AnyFile /\ mid \in Int /\ fn # "lockf"
  BY DEF AnyFile, MpiFns
<1>3. PICK s \in StreamType : s = vt_ioend(io[Main], thr[Main], file, mid, handle, fn, file)
  BY <1>1, <1>2, IoendType
<1>4. io' = [io EXCEPT ![Main] = s] /\ thr' = [thr EXCEPT ![Main] = thr[Main]]
  BY <1>1, <1>3
<1>5. MainOnly /\ io'[Main] = s /\ thr'[Main] = thr[Main]
  BY <1>1, <1>4, MainReplaced DEF SameState
<1>6. PICK b : b = (mid \in io[Main].open)
  BY Zenon
<1>7. s = [open |-> IF fn = "lockf" THEN io[Main].open ELSE io[Main].open \ {mid},
           last |-> [mid |-> mid, file |-> file, handle |-> handle, fn |-> fn,
                     real |-> file, matched |-> mid \in io[Main].open]]
  BY <1>3, Zenon DEF vt_ioend
<1>8. s = [open |-> IF fn = "lockf" THEN io[Main].open ELSE io[Main].open \ {mid},
           last |-> [mid |-> mid, file |-> file, handle |-> handle, fn |-> fn,
                     real |-> file, matched |-> b]]
  BY <1>6, <1>7, Zenon
<1>9. s.open = io[Main].open \ {mid}
  BY <1>2, <1>8
<1>10. s.last.matched = b /\ s.last.fn = fn /\ s.last.file = file /\ s.last.real = file
  BY <1>8
<1>11. mid \in io[Main].open => s.last.matched
  BY <1>6, <1>10, Zenon
<1> QED
  BY <1>5, <1>9, <1>10, <1>11, Zenon DEF Ends, NoNewHandle

\* The request of a nonblocking operation.
LEMMA NonblockingIs ==
  ASSUME Types, MpiFilesInv, ~aborted, Nonblocking
  PROVE  /\ MainOnly /\ NoNewHandle /\ UNCHANGED <<mpi, fmap, begun, careless, aborted>>
         /\ \/ (Silent \/ Whole) /\ UNCHANGED requests
            \/ /\ Begins
               /\ \E q \in Request :
                    /\ q.mid = thr[Main].nextMid /\ q.file = q.real /\ q.on \in OpenFiles
                    /\ requests' = requests \cup {q}
<1>1. PICK h \in OpenFiles, recorded \in Recorded, ok \in BOOLEAN :
        LET d == vt_mpifile_get_data(h) IN
        IF ~recorded THEN UNCHANGED <<io, thr, requests>>
        ELSE /\ thr' = [thr EXCEPT ![Main] = NextMid(@)]
             /\ IF ok
                THEN /\ io' = [io EXCEPT ![Main] = vt_iobegin(@, thr[Main], thr[Main].nextMid)]
                     /\ requests' = requests \cup
                          {[on |-> h, mid |-> thr[Main].nextMid, file |-> d.file,
                            handle |-> d.handle, real |-> mpi[h]]}
                ELSE /\ io' = [io EXCEPT ![Main] =
                                 Records(@, thr[Main], thr[Main].nextMid, d.file, d.handle,
                                         "mpi_iread", mpi[h])]
                     /\ UNCHANGED requests
  BY DEF Nonblocking
<1>2. UNCHANGED <<mpi, fmap, begun, careless, aborted>>
  BY DEF Nonblocking
<1>3. PICK k \in DOMAIN fmap :
        /\ vt_mpifile_get_data(h) = fmap[k] /\ fmap[k] \in MpiEntry
        /\ fmap[k].file = mpi[h] /\ mpi[h] \in Files /\ h \in Handles
  BY <1>1, GetData
<1>4. fmap[k].handle \in Nat
  BY <1>3 DEF MpiEntry
<1>5. recorded \in BOOLEAN /\ (recorded => thr[Main].on) /\ thr[Main].nextMid \in Nat
  BY <1>1, MainIs
<1>6. CASE ~recorded
  BY <1>1, <1>2, <1>6, SilentIs
<1>7. CASE recorded /\ ok
  <2>1. /\ thr' = [thr EXCEPT ![Main] = NextMid(thr[Main])]
        /\ io' = [io EXCEPT ![Main] = vt_iobegin(io[Main], thr[Main], thr[Main].nextMid)]
        /\ requests' = requests \cup
             {[on |-> h, mid |-> thr[Main].nextMid, file |-> fmap[k].file,
               handle |-> fmap[k].handle, real |-> mpi[h]]}
    BY <1>1, <1>3, <1>7
  <2>2. MainOnly /\ Begins /\ NoNewHandle
    BY <1>5, <1>7, <2>1, BeginsIs
  <2>3. PICK q \in Request :
          q = [on |-> h, mid |-> thr[Main].nextMid, file |-> fmap[k].file,
               handle |-> fmap[k].handle, real |-> mpi[h]]
    BY <1>3, <1>4, <1>5 DEF Request
  <2>4. q.mid = thr[Main].nextMid /\ q.file = q.real /\ q.on \in OpenFiles
    BY <1>1, <1>3, <2>3
  <2> QED
    BY <1>2, <2>1, <2>2, <2>3, <2>4
<1>8. CASE recorded /\ ~ok
  <2>1. /\ thr' = [thr EXCEPT ![Main] = NextMid(thr[Main])] /\ UNCHANGED requests
        /\ io' = [io EXCEPT ![Main] = Records(io[Main], thr[Main], thr[Main].nextMid, mpi[h],
                                              fmap[k].handle, "mpi_iread", mpi[h])]
    BY <1>1, <1>3, <1>8
  <2>2. PICK th \in ThreadType :
          /\ th = NextMid(thr[Main]) /\ th.on = thr[Main].on /\ SameState(th, thr[Main])
          /\ th.nextMid = thr[Main].nextMid + 1 /\ th.nextHandle = thr[Main].nextHandle
    BY MainIs, CountersAre
  <2>3. "mpi_iread" \in MpiFns /\ thr' = [thr EXCEPT ![Main] = th]
    BY <2>1, <2>2 DEF MpiFns
  <2>4. MainOnly /\ Whole /\ thr'[Main] = th
    BY <1>3, <1>4, <1>5, <1>8, <2>1, <2>2, <2>3, WholeIs
  <2> QED
    BY <1>2, <2>1, <2>2, <2>4 DEF NoNewHandle
<1> QED
  BY <1>5, <1>6, <1>7, <1>8

\* A request completes.
LEMMA WaitIs ==
  ASSUME Types, MpiFilesInv, ~aborted, MPI_Wait
  PROVE  /\ MainOnly /\ NoNewHandle /\ UNCHANGED <<mpi, fmap, begun, careless, aborted>>
         /\ \E q \in requests :
              (Silent \/ Ends(q.mid)) /\ requests' = requests \ {q}
<1>1. PICK q \in requests, recorded \in Recorded :
        /\ io' = IF recorded
                 THEN [io EXCEPT ![Main] =
                         vt_ioend(@, thr[Main], q.file, q.mid, q.handle, "mpi_wait", q.real)]
                 ELSE io
        /\ requests' = requests \ {q}
  BY DEF MPI_Wait
<1>2. UNCHANGED <<mpi, fmap, begun, careless, aborted, thr>>
  BY DEF MPI_Wait
<1>3. q.file = q.real /\ q.file \in Files /\ q.mid \in Nat /\ q.handle \in Nat
  BY DEF MpiFilesInv, Types, MpiTypes, Request
<1>4. recorded \in BOOLEAN /\ (recorded => thr[Main].on)
  BY MainIs
<1>5. CASE ~recorded
  BY <1>1, <1>2, <1>5, SilentIs
<1>6. CASE recorded
  <2>1. io' = [io EXCEPT ![Main] =
                 vt_ioend(io[Main], thr[Main], q.file, q.mid, q.handle, "mpi_wait", q.file)]
    BY <1>1, <1>3, <1>6
  <2>2. "mpi_wait" \in MpiFns
    BY DEF MpiFns
  <2>3. MainOnly /\ Ends(q.mid) /\ NoNewHandle
    BY <1>2, <1>3, <1>4, <1>6, <2>1, <2>2, EndsIs
  <2> QED
    BY <1>1, <1>2, <2>3
<1> QED
  BY <1>4, <1>5, <1>6

\* A split collective begins: its id is kept with the file.
LEMMA SplitBeginIs ==
  ASSUME Types, MpiFilesInv, ~aborted, SplitBegin
  PROVE  /\ MainOnly /\ NoNewHandle /\ UNCHANGED <<mpi, requests, careless, aborted>>
         /\ \E h \in OpenFiles, k \in DOMAIN fmap :
              /\ h \in Handles /\ h # Null /\ fmap[k].fh = h /\ begun[h] = "no"
              /\ \/ Silent /\ UNCHANGED fmap /\ begun' = [begun EXCEPT ![h] = "no"]
                 \/ Silent /\ UNCHANGED fmap /\ begun' = [begun EXCEPT ![h] = "yes"]
                 \/ /\ Begins
                    /\ begun' = [begun EXCEPT ![h] = "no"]
                       \/ begun' = [begun EXCEPT ![h] = "recorded"]
                    /\ fmap' = [fmap EXCEPT ![k] =
                         [fh |-> h, file |-> fmap[k].file, split |-> thr[Main].nextMid,
                          handle |-> fmap[k].handle]]
<1>1. PICK h \in OpenFiles, recorded \in Recorded, ok \in BOOLEAN :
        /\ begun[h] = "no"
        /\ IF recorded
           THEN /\ io' = [io EXCEPT ![Main] = vt_iobegin(@, thr[Main], thr[Main].nextMid)]
                /\ thr' = [thr EXCEPT ![Main] = NextMid(@)]
                /\ fmap' = [fmap EXCEPT ![Position(h)].split = thr[Main].nextMid]
           ELSE UNCHANGED <<io, thr, fmap>>
        /\ begun' = [begun EXCEPT ![h] =
                       IF ~ok THEN "no" ELSE IF recorded THEN "recorded" ELSE "yes"]
  BY DEF SplitBegin
<1>2. UNCHANGED <<mpi, requests, careless, aborted>>
  BY DEF SplitBegin
<1>3. PICK k \in DOMAIN fmap :
        /\ Position(h) = k /\ fmap[k] \in MpiEntry /\ fmap[k].fh = h
        /\ h \in Handles /\ h # Null
  BY <1>1, GetData
<1>4. recorded \in BOOLEAN /\ (recorded => thr[Main].on) /\ thr[Main].nextMid \in Nat
  BY <1>1, MainIs
<1>5. CASE ~recorded
  <2>1. MainOnly /\ Silent /\ NoNewHandle /\ UNCHANGED fmap
    BY <1>1, <1>5, SilentIs
  <2>2. begun' = [begun EXCEPT ![h] = "no"] \/ begun' = [begun EXCEPT ![h] = "yes"]
    BY <1>1, <1>5
  <2> QED
    BY <1>1, <1>2, <1>3, <2>1, <2>2
<1>6. CASE recorded
  <2>1. /\ io' = [io EXCEPT ![Main] = vt_iobegin(io[Main], thr[Main], thr[Main].nextMid)]
        /\ thr' = [thr EXCEPT ![Main] = NextMid(thr[Main])]
        /\ fmap' = [fmap EXCEPT ![k].split = thr[Main].nextMid]
    BY <1>1, <1>3, <1>6
  <2>2. MainOnly /\ Begins /\ NoNewHandle
    BY <1>4, <1>6, <2>1, BeginsIs
  <2>3. [fmap[k] EXCEPT !.split = thr[Main].nextMid]
          = [fh |-> h, file |-> fmap[k].file, split |-> thr[Main].nextMid,
             handle |-> fmap[k].handle]
    BY <1>3, <1>4 DEF MpiEntry
  <2>4. fmap' = [fmap EXCEPT ![k] =
                   [fh |-> h, file |-> fmap[k].file, split |-> thr[Main].nextMid,
                    handle |-> fmap[k].handle]]
    BY <2>1, <2>3
  <2>5. begun' = [begun EXCEPT ![h] = "no"] \/ begun' = [begun EXCEPT ![h] = "recorded"]
    BY <1>1, <1>6
  <2> QED
    BY <1>1, <1>2, <1>3, <2>2, <2>4, <2>5
<1> QED
  BY <1>4, <1>5, <1>6

\* A split collective ends, with the id kept with the file.
LEMMA SplitEndIs ==
  ASSUME Types, MpiFilesInv, ~aborted, SplitEnd
  PROVE  /\ MainOnly /\ NoNewHandle /\ UNCHANGED <<mpi, fmap, requests, aborted>>
         /\ \E h \in OpenFiles, k \in DOMAIN fmap :
              /\ h \in Handles /\ h # Null /\ fmap[k].fh = h /\ begun[h] # "no"
              /\ begun' = [begun EXCEPT ![h] = "no"]
              /\ \/ Silent /\ UNCHANGED careless
                 \/ Ends(fmap[k].split) /\ careless' = (careless \/ begun[h] = "yes")
<1>1. PICK h \in OpenFiles, recorded \in Recorded :
        LET d == vt_mpifile_get_data(h) IN
        /\ begun[h] # "no"
        /\ io' = IF recorded
                 THEN [io EXCEPT ![Main] =
                         vt_ioend(@, thr[Main], d.file, d.split, d.handle, "mpi_end", mpi[h])]
                 ELSE io
        /\ careless' = (careless \/ (recorded /\ begun[h] = "yes"))
        /\ begun' = [begun EXCEPT ![h] = "no"]
  BY DEF SplitEnd
<1>2. UNCHANGED <<mpi, fmap, requests, aborted, thr>>
  BY DEF SplitEnd
<1>3. PICK k \in DOMAIN fmap :
        /\ vt_mpifile_get_data(h) = fmap[k] /\ fmap[k] \in MpiEntry
        /\ fmap[k].file = mpi[h] /\ mpi[h] \in Files /\ fmap[k].fh = h
        /\ h \in Handles /\ h # Null /\ fmap[k].split \in Nat
  BY <1>1, GetData
<1>4. fmap[k].handle \in Nat
  BY <1>3 DEF MpiEntry
<1>5. recorded \in BOOLEAN /\ (recorded => thr[Main].on) /\ careless \in BOOLEAN
  BY <1>1, MainIs DEF Types, MpiTypes
<1>6. CASE ~recorded
  <2>1. careless' = careless /\ io' = io
    BY <1>1, <1>5, <1>6
  <2> QED
    BY <1>1, <1>2, <1>3, <2>1, SilentIs
<1>7. CASE recorded
  <2>1. /\ io' = [io EXCEPT ![Main] = vt_ioend(io[Main], thr[Main], mpi[h], fmap[k].split,
                                               fmap[k].handle, "mpi_end", mpi[h])]
        /\ careless' = (careless \/ begun[h] = "yes")
    BY <1>1, <1>3, <1>7
  <2>2. "mpi_end" \in MpiFns
    BY DEF MpiFns
  <2>3. MainOnly /\ Ends(fmap[k].split) /\ NoNewHandle
    BY <1>2, <1>3, <1>4, <1>5, <1>7, <2>1, <2>2, EndsIs
  <2> QED
    BY <1>1, <1>2, <1>3, <2>1, <2>3
<1> QED
  BY <1>5, <1>6, <1>7

\* What every call of MPI-IO does to the stream and the counters of its thread.
LEMMA MpiMain ==
  ASSUME Types, MpiFilesInv, ~aborted, MpiKind
  PROVE  /\ MainOnly
         /\ Silent \/ Whole \/ Begins \/ \E mid \in Nat : Ends(mid)
         /\ thr'[Main].nextHandle \in {thr[Main].nextHandle, thr[Main].nextHandle + 1}
<1>1. CASE MPI_File_open
  BY <1>1, OpenIs
<1>2. CASE MPI_File_close
  BY <1>2, CloseIs DEF NoNewHandle
<1>3. CASE MPI_File_delete \/ Blocking
  BY <1>3, WholeCalls DEF NoNewHandle
<1>4. CASE Nonblocking
  BY <1>4, NonblockingIs DEF NoNewHandle
<1>5. CASE MPI_Wait
  <2>1. PICK q \in requests : Silent \/ Ends(q.mid)
    BY <1>5, WaitIs
  <2>2. q.mid \in Nat
    BY DEF Types, MpiTypes, Request
  <2>3. MainOnly /\ NoNewHandle
    BY <1>5, WaitIs
  <2> QED
    BY <2>1, <2>2, <2>3 DEF NoNewHandle
<1>6. CASE SplitBegin
  BY <1>6, SplitBeginIs DEF NoNewHandle
<1>7. CASE SplitEnd
  <2>1. PICK k \in DOMAIN fmap : Silent \/ Ends(fmap[k].split)
    BY <1>7, SplitEndIs
  <2>2. fmap[k].split \in Nat
    <3>1. fmap[k] \in MpiEntry
      BY DEF Types, MpiTypes
    <3> QED
      BY <3>1 DEF MpiEntry
  <2>3. MainOnly /\ NoNewHandle
    BY <1>7, SplitEndIs
  <2> QED
    BY <2>1, <2>2, <2>3 DEF NoNewHandle
<1> QED
  BY <1>1, <1>2, <1>3, <1>4, <1>5, <1>6, <1>7 DEF MpiKind

\* The table and what is kept of MPI's files have their types.
LEMMA MpiTablesTyped ==
  ASSUME Types, MpiFilesInv, ~aborted, MpiKind
  PROVE  MpiTypes'
<1>0. /\ mpi \in [Handles -> Files \cup {"none"}] /\ fmap \in Seq(MpiEntry)
      /\ Len(fmap) <= MaxMpiFiles /\ begun \in [Handles -> {"no", "yes", "recorded"}]
      /\ requests \in SUBSET Request /\ careless \in BOOLEAN /\ aborted \in BOOLEAN
      /\ Len(fmap) \in Nat /\ DOMAIN fmap = 1 .. Len(fmap) /\ MaxMpiFiles \in Nat
  BY HandlesAssumption DEF Types, MpiTypes
<1>1. CASE MPI_File_open
  <2>1. PICK file \in Files, h \in Handles \cup {Null} :
          /\ mpi' = IF h = Null THEN mpi ELSE [mpi EXCEPT ![h] = file]
          /\ \/ aborted' = TRUE /\ UNCHANGED fmap
             \/ /\ Len(fmap) < MaxMpiFiles /\ UNCHANGED aborted
                /\ fmap' = Append(fmap, [fh |-> h, file |-> file, split |-> 0,
                                         handle |-> thr[Main].nextHandle])
    BY <1>1, OpenIs
  <2>2. UNCHANGED <<begun, requests, careless>>
    BY <1>1, OpenIs
  <2>3. mpi' \in [Handles -> Files \cup {"none"}]
    BY <1>0, <2>1
  <2>4. fmap' \in Seq(MpiEntry) /\ Len(fmap') <= MaxMpiFiles /\ aborted' \in BOOLEAN
    <3>1. CASE aborted' = TRUE /\ UNCHANGED fmap
      BY <1>0, <3>1
    <3>2. CASE /\ Len(fmap) < MaxMpiFiles /\ UNCHANGED aborted
               /\ fmap' = Append(fmap, [fh |-> h, file |-> file, split |-> 0,
                                        handle |-> thr[Main].nextHandle])
      <4>1. [fh |-> h, file |-> file, split |-> 0, handle |-> thr[Main].nextHandle] \in MpiEntry
        BY MainIs DEF MpiEntry
      <4>2. fmap' \in Seq(MpiEntry) /\ Len(fmap') = Len(fmap) + 1
        BY <1>0, <3>2, <4>1
      <4> QED
        BY <1>0, <3>2, <4>2
    <3> QED
      BY <2>1, <3>1, <3>2
  <2> QED
    BY <1>0, <2>2, <2>3, <2>4 DEF MpiTypes
<1>2. CASE MPI_File_close
  <2>1. PICK h \in OpenFiles, k \in DOMAIN fmap :
          h \in Handles /\ mpi' = [mpi EXCEPT ![h] = "none"] /\ Removed(k)
    BY <1>2, CloseIs
  <2>2. UNCHANGED <<begun, requests, careless, aborted>>
    BY <1>2, CloseIs
  <2>3. /\ Len(fmap) \in Nat \ {0} /\ DOMAIN fmap' = 1 .. Len(fmap) - 1
        /\ Len(fmap') = Len(fmap) - 1
        /\ \A i \in 1 .. Len(fmap) - 1 : fmap'[i] = IF i = k THEN fmap[Len(fmap)] ELSE fmap[i]
    BY <2>1 DEF Removed
  <2>4. \A i \in 1 .. Len(fmap) : fmap[i] \in MpiEntry
    BY <1>0
  <2>5. \A i \in 1 .. Len(fmap) - 1 : fmap'[i] \in MpiEntry
    BY <2>3, <2>4
  <2>6. PICK n \in Nat : n = Len(fmap) - 1
    BY <2>3
  <2>7. fmap' = [i \in 1 .. n |-> fmap'[i]]
    <3>1. fmap' = [i \in 1 .. Len(fmap) - 1 |-> IF i = k THEN fmap[Len(fmap)] ELSE fmap[i]]
      BY <2>1 DEF Removed
    <3> QED
      BY <2>6, <3>1
  <2>8. fmap' \in Seq(MpiEntry)
    BY <2>5, <2>6, <2>7
  <2> QED
    BY <1>0, <2>1, <2>2, <2>3, <2>8 DEF MpiTypes
<1>3. CASE MPI_File_delete \/ Blocking
  BY <1>0, <1>3, WholeCalls DEF MpiTypes, mpiVars
<1>4. CASE Nonblocking
  BY <1>0, <1>4, NonblockingIs DEF MpiTypes
<1>5. CASE MPI_Wait
  BY <1>0, <1>5, WaitIs DEF MpiTypes
<1>6. CASE SplitBegin
  <2>1. PICK h \in OpenFiles, k \in DOMAIN fmap :
          /\ h \in Handles
          /\ \/ UNCHANGED fmap /\ begun' = [begun EXCEPT ![h] = "no"]
             \/ UNCHANGED fmap /\ begun' = [begun EXCEPT ![h] = "yes"]
             \/ /\ begun' = [begun EXCEPT ![h] = "no"]
                   \/ begun' = [begun EXCEPT ![h] = "recorded"]
                /\ fmap' = [fmap EXCEPT ![k] =
                     [fh |-> h, file |-> fmap[k].file, split |-> thr[Main].nextMid,
                      handle |-> fmap[k].handle]]
    BY <1>6, SplitBeginIs
  <2>2. UNCHANGED <<mpi, requests, careless, aborted>>
    BY <1>6, SplitBeginIs
  <2>3. begun' \in [Handles -> {"no", "yes", "recorded"}]
    BY <1>0, <2>1
  <2>4. fmap[k] \in MpiEntry
    BY <1>0
  <2>5. [fh |-> h, file |-> fmap[k].file, split |-> thr[Main].nextMid,
         handle |-> fmap[k].handle] \in MpiEntry
    BY <2>1, <2>4, MainIs DEF MpiEntry
  <2>6. fmap' \in Seq(MpiEntry) /\ Len(fmap') = Len(fmap)
    <3>1. CASE UNCHANGED fmap
      BY <1>0, <3>1
    <3>2. CASE fmap' = [fmap EXCEPT ![k] =
                  [fh |-> h, file |-> fmap[k].file, split |-> thr[Main].nextMid,
                   handle |-> fmap[k].handle]]
      <4>1. PICK e \in MpiEntry : fmap' = [fmap EXCEPT ![k] = e]
        BY <2>5, <3>2
      <4>2. k \in 1 .. Len(fmap)
        BY <1>0
      <4> QED
        BY <1>0, <4>1, <4>2, ExceptSeq
    <3> QED
      BY <2>1, <3>1, <3>2
  <2> QED
    BY <1>0, <2>2, <2>3, <2>6 DEF MpiTypes
<1>7. CASE SplitEnd
  <2>1. PICK h \in OpenFiles :
          /\ h \in Handles /\ begun' = [begun EXCEPT ![h] = "no"]
          /\ careless' = careless \/ careless' = (careless \/ begun[h] = "yes")
    BY <1>7, SplitEndIs
  <2>2. UNCHANGED <<mpi, fmap, requests, aborted>>
    BY <1>7, SplitEndIs
  <2>3. begun' \in [Handles -> {"no", "yes", "recorded"}] /\ careless' \in BOOLEAN
    BY <1>0, <2>1
  <2> QED
    BY <1>0, <2>2, <2>3 DEF MpiTypes
<1> QED
  BY <1>1, <1>2, <1>3, <1>4, <1>5, <1>6, <1>7 DEF MpiKind

\* A call of MPI-IO.
LEMMA MpiTypesNext ==
  ASSUME Types, MpiFilesInv, MpiStep, MpiKind
  PROVE  Types'
<1>1. MainOnly /\ MpiTypes'
  BY MpiMain, MpiTablesTyped DEF MpiStep
<1>2. UNCHANGED <<wrapVars, program, switches>> /\ made < program.calls /\ made' = made + 1
  BY DEF MpiStep
<1>3. program.calls \in Nat
  BY Basics DEF Types
<1> QED
  BY <1>1, <1>2, <1>3 DEF Types, RecTypes, WrapTypes, MainOnly, wrapVars, team

------------------------------------------------------------------------------
(* The steps, by what they change. *)

\* The kinds of steps.
LEMMA NextIs ==
  ASSUME Next
  PROVE  /\ ~aborted
         /\ \/ MpiStep /\ MpiKind
            \/ \E t \in team :
                 \/ UNCHANGED mpiVars /\ (\/ ENTER_IOFUNC(t) \/ CALL_LIBFUNC(t)
                                          \/ LeaveStep(t) \/ UntracedStep(t))
                 \/ UNCHANGED <<wrapVars, mpiVars>> /\ ControlStep(t)
<1>1. CASE MpiCall
  BY <1>1, MpiCallIs DEF Next
<1>2. CASE \E t \in team : WrapNext(t) /\ UNCHANGED mpiVars
  BY <1>2 DEF Next, WrapNext, LeaveStep, UntracedStep
<1>3. CASE \E t \in team : (Suspend(t) \/ Resume(t)) /\ UNCHANGED <<wrapVars, mpiVars>>
  BY <1>3 DEF Next, ControlStep
<1>4. CASE \E t \in team : SwitchRecording(t)
  <2>1. PICK t \in team : SwitchRecording(t)
    BY <1>4
  <2>2. UNCHANGED <<wrapVars, mpiVars>>
    BY <2>1 DEF SwitchRecording
  <2> QED
    BY <2>1, <2>2 DEF Next, ControlStep
<1> QED
  BY <1>1, <1>2, <1>3, <1>4 DEF Next

\* The thread t begins the call c.
Entered(t, c) ==
  /\ ~Working(t) /\ thr[t].enabled /\ c.at = "entered" /\ Formed(c)
  /\ call' = [call EXCEPT ![t] = c]
  /\ UNCHANGED <<os, table, blind, program, switches>>
  /\ made < program.calls /\ made' = made + 1
  /\ c.fd # -1 => c.fd \in Usable \ InUse(t)
  /\ c.to # -1 => c.to \in Closable(t) \/ (Alone(t) /\ os[c.to] = "none")
  /\ c.fn = "close" => c.fd \in Closable(t)
EnterRecorded(t, c) ==
  /\ c.recorded /\ thr[t].on /\ c.mid = thr[t].nextMid
  /\ thr' \in [team -> ThreadType] /\ io' \in [team -> StreamType]
  /\ \A s \in team : s # t => io'[s] = io[s] /\ thr'[s] = thr[s]
  /\ thr'[t].on = thr[t].on /\ SameState(thr'[t], thr[t])
  /\ thr'[t].nextMid = thr[t].nextMid + 1 /\ thr'[t].nextHandle = thr[t].nextHandle
  /\ io'[t].open = io[t].open \cup {thr[t].nextMid} /\ io'[t].last = NoEnd

\* VT_IOWRAP_ENTER_IOFUNC
LEMMA EnterIs ==
  ASSUME Types, os[0] = "stdin", NEW t \in team, ENTER_IOFUNC(t)
  PROVE  \E c \in CallType :
           /\ Entered(t, c)
           /\ (~c.recorded /\ UNCHANGED <<thr, io>>) \/ EnterRecorded(t, c)
<1>1. PICK d \in Calls(t), recorded \in Outcomes(thr[t]) :
         /\ Enter(t, recorded)
         /\ call' = [call EXCEPT ![t] =
              [at |-> "entered", fn |-> d.fn, fd |-> d.fd, to |-> d.to, path |-> d.path,
               recorded |-> recorded, mid |-> IF recorded THEN thr[t].nextMid ELSE 0,
               result |-> -1, real |-> "none"]]
  BY DEF ENTER_IOFUNC
<1>2. /\ ~Working(t) /\ thr[t].enabled /\ UNCHANGED <<os, table, blind, program, switches>>
      /\ made < program.calls /\ made' = made + 1
  BY <1>1 DEF ENTER_IOFUNC, DO_TRACE, Working, Enter
<1>3. /\ thr[t] \in ThreadType /\ io[t] \in StreamType /\ thr \in [team -> ThreadType]
      /\ io \in [team -> StreamType] /\ call \in [team -> CallType]
  BY DEF Types, RecTypes, WrapTypes
<1>4. thr[t].nextMid \in Nat /\ recorded \in BOOLEAN /\ (recorded => thr[t].on)
  BY <1>1, <1>3, CountersAre DEF Outcomes
<1>5. PICK m \in Nat : m = IF recorded THEN thr[t].nextMid ELSE 0
  BY <1>4
<1>6. PICK c \in CallType :
        c = [at |-> "entered", fn |-> d.fn, fd |-> d.fd, to |-> d.to, path |-> d.path,
             recorded |-> recorded, mid |-> m, result |-> -1, real |-> "none"]
  BY <1>4, CallsAre DEF CallType, AnyFile, Special
<1>7. /\ c.at = "entered" /\ c.fn = d.fn /\ c.fd = d.fd /\ c.to = d.to /\ c.path = d.path
      /\ c.recorded = recorded /\ c.mid = m /\ c.result = -1
  BY <1>6
<1>8. call' = [call EXCEPT ![t] = c]
  BY <1>1, <1>5, <1>6
<1>9. Formed(c)
  BY <1>7, CallsAre DEF Formed
<1>10. Entered(t, c)
  <2>1. /\ c.fd # -1 => c.fd \in Usable \ InUse(t)
        /\ c.to # -1 => c.to \in Closable(t) \/ (Alone(t) /\ os[c.to] = "none")
        /\ c.fn = "close" => c.fd \in Closable(t)
    BY <1>7, CallsAre
  <2> QED
    BY <1>2, <1>7, <1>8, <1>9, <2>1 DEF Entered
<1>11. CASE ~recorded
  BY <1>1, <1>7, <1>10, <1>11 DEF Enter
<1>12. CASE recorded
  <2>1. PICK s \in StreamType : s = vt_iobegin(io[t], thr[t], thr[t].nextMid)
    BY <1>3, <1>4, IobeginType
  <2>2. PICK th \in ThreadType :
          /\ th = NextMid(thr[t]) /\ th.on = thr[t].on /\ SameState(th, thr[t])
          /\ th.nextMid = thr[t].nextMid + 1 /\ th.nextHandle = thr[t].nextHandle
    BY <1>3, CountersAre
  <2>3. io' = [io EXCEPT ![t] = s] /\ thr' = [thr EXCEPT ![t] = th]
    BY <1>1, <1>12, <2>1, <2>2 DEF Enter
  <2>4. /\ io' \in [team -> StreamType] /\ thr' \in [team -> ThreadType]
        /\ io'[t] = s /\ thr'[t] = th
        /\ \A r \in team : r # t => io'[r] = io[r] /\ thr'[r] = thr[r]
    BY <1>3, <2>3
  <2>5. s.open = io[t].open \cup {thr[t].nextMid} /\ s.last = NoEnd
    BY <1>4, <1>12, <2>1 DEF vt_iobegin
  <2>6. c.recorded /\ c.mid = thr[t].nextMid
    BY <1>5, <1>7, <1>12
  <2>7. EnterRecorded(t, c)
    BY <1>4, <1>12, <2>2, <2>4, <2>5, <2>6 DEF EnterRecorded
  <2> QED
    BY <1>10, <2>7
<1> QED
  BY <1>4, <1>11, <1>12

\* The library function of the thread t has returned: its call is d.
Reached(t, d) ==
  /\ call[t].at = "entered" /\ d.at = "returned" /\ thr[t].suspended = 0
  /\ call' = [call EXCEPT ![t] = d]
  /\ UNCHANGED <<table, blind, recVars>>
  /\ d.fn = call[t].fn /\ d.fd = call[t].fd /\ d.to = call[t].to /\ d.path = call[t].path
  /\ d.recorded = call[t].recorded /\ d.mid = call[t].mid /\ d.real = Real(call[t])
Does(c, result) ==
  \/ result = -1 /\ UNCHANGED os
  \/ result # -1 /\ c.fn = "open" /\ os[result] = "none" /\ os' = [os EXCEPT ![result] = c.path]
  \/ /\ result # -1 /\ c.fn \in {"dup", "dup2"} /\ os' = [os EXCEPT ![result] = os[c.fd]]
     /\ c.fn = "dup" => os[result] = "none"
     /\ c.fn = "dup2" => result = c.to
  \/ result # -1 /\ result = c.fd /\ c.fn = "close" /\ os' = [os EXCEPT ![c.fd] = "none"]
  \/ c.fn \notin {"open", "dup", "dup2", "close"} /\ UNCHANGED os

\* VT_IOWRAP_CALL_LIBFUNC
LEMMA CallLibIs ==
  ASSUME Types, WellFormed, NEW t \in team, CALL_LIBFUNC(t)
  PROVE  \E d \in CallType :
           /\ Reached(t, d) /\ Does(call[t], d.result)
           /\ d.fn \in {"open", "dup"} => d.result = -1 \/ (d.result \in Fds /\ os[d.result] = "none")
           /\ d.fn = "dup2" => d.result = d.to
           /\ d.fn \notin {"open", "dup", "dup2"} => d.result \in {-1, d.fd}
<1>1. PICK result \in Results(call[t]) :
        /\ Effect(call[t], result)
        /\ call' = [call EXCEPT ![t] = Returned(call[t], result, Real(call[t]))]
  BY Zenon DEF CALL_LIBFUNC, Returned
<1>2. /\ UNCHANGED <<table, blind, recVars>> /\ Working(t) /\ call[t].at = "entered"
      /\ thr[t].suspended = 0
  BY DEF CALL_LIBFUNC, Proceeds, Working
<1>3. call[t] \in CallType /\ Real(call[t]) \in AnyFile /\ result \in Fds \cup {-1}
  BY <1>2, CallIs, RealType, ResultType
<1>4. PICK d \in CallType : d = Returned(call[t], result, Real(call[t]))
  BY <1>3, ReturnedIs
<1>5. /\ d.at = "returned" /\ d.result = result /\ d.real = Real(call[t])
      /\ d.fn = call[t].fn /\ d.fd = call[t].fd /\ d.to = call[t].to /\ d.path = call[t].path
      /\ d.recorded = call[t].recorded /\ d.mid = call[t].mid
  BY <1>3, <1>4, ReturnedIs
<1>6. Reached(t, d)
  BY <1>1, <1>2, <1>4, <1>5 DEF Reached
<1>7. /\ d.fn \in {"open", "dup"} => d.result = -1 \/ (d.result \in Fds /\ os[d.result] = "none")
      /\ d.fn = "dup2" => d.result = d.to
      /\ d.fn \notin {"open", "dup", "dup2"} => d.result \in {-1, d.fd}
  BY <1>5, ResultType DEF Free
<1>8. Does(call[t], result)
  <2>1. CASE result = -1
    BY <1>1, <2>1 DEF Effect, Does
  <2>2. CASE result # -1 /\ call[t].fn = "open"
    <3>1. os' = [os EXCEPT ![result] = call[t].path]
      BY <1>1, <2>2 DEF Effect
    <3> QED
      BY <1>5, <1>7, <2>2, <3>1 DEF Does
  <2>3. CASE result # -1 /\ call[t].fn \in {"dup", "dup2"}
    <3>1. os' = [os EXCEPT ![result] = os[call[t].fd]]
      BY <1>1, <2>3 DEF Effect
    <3> QED
      BY <1>5, <1>7, <2>3, <3>1 DEF Does
  <2>4. CASE result # -1 /\ call[t].fn = "close"
    <3>1. os' = [os EXCEPT ![call[t].fd] = "none"]
      BY <1>1, <2>4 DEF Effect
    <3> QED
      BY <1>5, <1>7, <2>4, <3>1 DEF Does
  <2>5. CASE result # -1 /\ call[t].fn \notin {"open", "dup", "dup2", "close"}
    <3>1. os' = os
      BY <1>1, <2>5 DEF Effect
    <3> QED
      BY <2>5, <3>1 DEF Does
  <2> QED
    BY <2>1, <2>2, <2>3, <2>4, <2>5
<1> QED
  BY <1>5, <1>6, <1>7, <1>8

------------------------------------------------------------------------------
(* Types, counters and suspensions. *)

\* The types hold after every step.
LEMMA TypesNext ==
  ASSUME Types, WellFormed, os[0] = "stdin", MpiFilesInv, Next
  PROVE  Types'
<1>1. CASE MpiStep /\ MpiKind
  BY <1>1, MpiTypesNext
<1>2. ASSUME NEW t \in team, UNCHANGED mpiVars,
             ENTER_IOFUNC(t) \/ CALL_LIBFUNC(t) \/ LeaveStep(t) \/ UntracedStep(t)
      PROVE  Types'
  BY <1>2, EnterTypes, CallTypes, LeaveTypes, UntracedTypes
<1>3. ASSUME NEW t \in team, UNCHANGED <<wrapVars, mpiVars>>, ControlStep(t)
      PROVE  Types'
  BY <1>3, ControlTypes
<1> QED
  BY <1>1, <1>2, <1>3, NextIs

\* The counters are numbers.
LEMMA Numbers ==
  ASSUME Types
  PROVE  /\ made \in Nat /\ program.calls \in Nat /\ program.suspensions \in Nat
         /\ \A t \in team : /\ thr[t].suspended \in Nat /\ thr[t].nextMid \in Nat
                            /\ thr[t].nextHandle \in Nat /\ thr[t].nextHandle # 0
         /\ \A fd \in Fds : table[fd].handle \in Nat
BY Basics DEF Types, RecTypes, WrapTypes, ThreadType, TableEntry

\* The calls bound the counters.
LEMMA CountedNext ==
  ASSUME Types, WellFormed, os[0] = "stdin", MpiFilesInv, Counted, Next, Types'
  PROVE  Counted'
<1>0. /\ \A s \in team : /\ thr[s].suspended <= program.suspensions
                         /\ thr[s].nextMid <= made + 1
                         /\ thr[s].nextHandle <= made + 2
                         /\ Working(s) => thr[s].nextHandle <= made + 1
      /\ \A fd \in Fds : table[fd].handle <= made + 2
      /\ call \in [team -> CallType] /\ thr \in [team -> ThreadType]
      /\ table \in [Fds -> TableEntry]
  BY Numbers DEF Counted, Types, WrapTypes, RecTypes
<1>1. CASE MpiStep /\ MpiKind
  <2>1. /\ made' = made + 1 /\ UNCHANGED <<table, call, program>> /\ team' = team
        /\ ~Working(Main)
    BY <1>1 DEF MpiStep, wrapVars, team
  <2>2. /\ MainOnly /\ Main \in team
        /\ thr'[Main].nextMid \in {thr[Main].nextMid, thr[Main].nextMid + 1}
        /\ thr'[Main].nextHandle \in {thr[Main].nextHandle, thr[Main].nextHandle + 1}
    BY <1>1, MpiMain, MainIs DEF MpiStep, Silent, Whole, Begins, Ends
  <2>3. \A s \in team : Working(s)' <=> Working(s)
    BY <2>1 DEF Working
  <2>4. /\ \A s \in team : s # Main => thr'[s] = thr[s]
        /\ thr'[Main].suspended = thr[Main].suspended
    BY <2>2 DEF MainOnly, SameState
  <2>5. \A s \in team : /\ thr'[s].suspended <= program.suspensions
                        /\ thr'[s].nextMid <= made' + 1
                        /\ thr'[s].nextHandle <= made' + 2
                        /\ Working(s) => thr'[s].nextHandle <= made' + 1
    BY <1>0, <2>1, <2>2, <2>4, Numbers
  <2>6. \A fd \in Fds : table'[fd].handle <= made' + 2
    BY <1>0, <2>1, Numbers
  <2> QED
    BY <2>1, <2>3, <2>5, <2>6 DEF Counted
<1>2. ASSUME NEW t \in team, ENTER_IOFUNC(t)
      PROVE  Counted'
  <2>1. PICK c \in CallType :
          /\ Entered(t, c)
          /\ (~c.recorded /\ UNCHANGED <<thr, io>>) \/ EnterRecorded(t, c)
    BY <1>2, EnterIs
  <2>2. made' = made + 1 /\ UNCHANGED <<table, program>> /\ team' = team
    BY <2>1 DEF Entered, team
  <2>3. \A s \in team : s # t => (Working(s)' <=> Working(s))
    BY <1>0, <2>1 DEF Entered, Working
  <2>4. \A s \in team : /\ thr'[s].suspended = thr[s].suspended
                        /\ thr'[s].nextMid \in {thr[s].nextMid, thr[s].nextMid + 1}
                        /\ thr'[s].nextHandle = thr[s].nextHandle
    BY <2>1 DEF EnterRecorded, SameState
  <2>5. \A s \in team : /\ thr'[s].suspended <= program.suspensions
                        /\ thr'[s].nextMid <= made' + 1
                        /\ thr'[s].nextHandle <= made' + 1
    BY <1>0, <2>2, <2>4, Numbers
  <2>6. \A fd \in Fds : table'[fd].handle <= made' + 2
    BY <1>0, <2>2, Numbers
  <2>7. \A s \in team : thr'[s].nextHandle <= made' + 2
    BY <2>2, <2>4, <2>5, Numbers
  <2> QED
    BY <2>2, <2>5, <2>6, <2>7 DEF Counted
<1>3. ASSUME NEW t \in team, CALL_LIBFUNC(t)
      PROVE  Counted'
  <2>1. PICK d \in CallType : Reached(t, d)
    BY <1>3, CallLibIs
  <2>2. UNCHANGED <<made, table, program, thr>> /\ team' = team
    BY <2>1 DEF Reached, recVars, team
  <2>3. \A s \in team : Working(s)' <=> Working(s)
    BY <1>0, <2>1 DEF Reached, Working
  <2> QED
    BY <2>2, <2>3 DEF Counted
<1>4. ASSUME NEW t \in team, LeaveStep(t)
      PROVE  Counted'
  <2>1. PICK file \in AnyFile, mid \in Int, handle \in Nat : Leaves(t, file, mid, handle)
    BY <1>4, LeaveIs
  <2>2. UNCHANGED <<made, program>> /\ team' = team /\ Working(t)
    BY <2>1 DEF Leaves, team, Proceeds, Working
  <2>3. ~Working(t)' /\ \A s \in team : s # t => (Working(s)' <=> Working(s))
    BY <1>0, <2>1 DEF Leaves, Return, Working, Idle
  <2>4. /\ \A s \in team : s # t => thr'[s] = thr[s]
        /\ thr'[t].suspended = thr[t].suspended /\ thr'[t].nextMid = thr[t].nextMid
        /\ thr'[t].nextHandle \in {thr[t].nextHandle, thr[t].nextHandle + 1}
    <3>1. CASE Learns(t)
      <4>1. thr' = [thr EXCEPT ![t] = NextHandle(thr[t])]
        BY <3>1 DEF Learns
      <4>2. NextHandle(thr[t]).nextHandle = thr[t].nextHandle + 1
            /\ SameState(NextHandle(thr[t]), thr[t])
            /\ NextHandle(thr[t]).nextMid = thr[t].nextMid
        BY CountersAre, CallIs
      <4>3. thr'[t] = NextHandle(thr[t]) /\ \A s \in team : s # t => thr'[s] = thr[s]
        BY <1>0, <4>1
      <4> QED
        BY <4>2, <4>3 DEF SameState
    <3>2. CASE UNCHANGED <<table, thr, blind>>
      BY <3>2
    <3> QED
      BY <1>4, <3>1, <3>2, LeaveIs
  <2>5. \A fd \in Fds : table'[fd].handle \in {table[fd].handle, thr[t].nextHandle}
    <3>1. CASE Learns(t)
      BY <1>0, <3>1 DEF Learns
    <3>2. CASE UNCHANGED <<table, thr, blind>>
      BY <3>2
    <3> QED
      BY <1>4, <3>1, <3>2, LeaveIs
  <2>6. \A s \in team : /\ thr'[s].suspended <= program.suspensions
                        /\ thr'[s].nextMid <= made + 1
                        /\ thr'[s].nextHandle <= made + 2
                        /\ Working(s)' => thr'[s].nextHandle <= made + 1
    BY <1>0, <2>2, <2>3, <2>4, Numbers
  <2>7. \A fd \in Fds : table'[fd].handle <= made + 2
    BY <1>0, <2>5, Numbers
  <2> QED
    BY <2>2, <2>6, <2>7 DEF Counted
<1>5. ASSUME NEW t \in team, UntracedStep(t)
      PROVE  Counted'
  <2>1. UNCHANGED <<table, call, thr, program>> /\ made' = made + 1 /\ team' = team
    BY <1>5, UntracedIs DEF team
  <2>2. \A s \in team : /\ thr[s].nextMid <= made' + 1 /\ thr[s].nextHandle <= made' + 2
                        /\ Working(s) => thr[s].nextHandle <= made' + 1
    BY <1>0, <2>1, Numbers
  <2>3. \A fd \in Fds : table[fd].handle <= made' + 2
    BY <1>0, <2>1, Numbers
  <2>4. \A s \in team : Working(s)' <=> Working(s)
    BY <2>1 DEF Working
  <2> QED
    BY <1>0, <2>1, <2>2, <2>3, <2>4 DEF Counted
<1>6. ASSUME NEW t \in team, ControlStep(t), UNCHANGED <<wrapVars, mpiVars>>
      PROVE  Counted'
  <2>1. UNCHANGED <<made, program, table, call>> /\ team' = team
    BY <1>6, ControlIs DEF wrapVars, team
  <2>2. /\ \A s \in team : s # t => thr'[s] = thr[s]
        /\ thr'[t].nextMid = thr[t].nextMid /\ thr'[t].nextHandle = thr[t].nextHandle
        /\ \/ thr'[t].suspended = thr[t].suspended
           \/ /\ thr[t].suspended < program.suspensions
              /\ thr'[t].suspended = thr[t].suspended + 1
           \/ thr[t].suspended > 0 /\ thr'[t].suspended = thr[t].suspended - 1
    BY <1>6, ControlIs DEF SameState
  <2>3. \A s \in team : thr'[s].suspended <= program.suspensions
    BY <1>0, <2>2, Numbers
  <2>4. \A s \in team : Working(s)' <=> Working(s)
    BY <2>1 DEF Working
  <2>5. \A s \in team : thr'[s].nextMid = thr[s].nextMid /\ thr'[s].nextHandle = thr[s].nextHandle
    BY <2>2
  <2> QED
    BY <1>0, <2>1, <2>3, <2>4, <2>5 DEF Counted
<1> QED
  BY <1>1, <1>2, <1>3, <1>4, <1>5, <1>6, NextIs

\* I/O tracing stays suspended until the last suspension ends.
LEMMA SuspensionsNext ==
  ASSUME Types, WellFormed, os[0] = "stdin", MpiFilesInv, Suspensions, Next
  PROVE  Suspensions'
<1>0. /\ thr \in [team -> ThreadType]
      /\ \A s \in team : /\ thr[s].suspended \in Nat /\ thr[s].enabled \in BOOLEAN
                         /\ thr[s].state \in BOOLEAN
  BY DEF Types, RecTypes, ThreadType
<1>1. CASE MpiStep /\ MpiKind
  <2>1. \A s \in team : SameState(thr'[s], thr[s])
    BY <1>1, MpiMain DEF MpiStep, MainOnly, SameState
  <2>2. team' = team
    BY <1>1 DEF MpiStep, team
  <2> QED
    BY <2>1, <2>2 DEF Suspensions, SameState
<1>2. ASSUME NEW t \in team, ENTER_IOFUNC(t)
      PROVE  Suspensions'
  <2>1. PICK c \in CallType :
          Entered(t, c) /\ (UNCHANGED <<thr, io>> \/ EnterRecorded(t, c))
    BY <1>2, EnterIs
  <2>2. \A s \in team : SameState(thr'[s], thr[s])
    BY <2>1 DEF EnterRecorded, SameState
  <2>3. team' = team
    BY <2>1 DEF Entered, team
  <2> QED
    BY <2>2, <2>3 DEF Suspensions, SameState
<1>3. ASSUME NEW t \in team, CALL_LIBFUNC(t)
      PROVE  Suspensions'
  <2>1. UNCHANGED <<thr, program>>
    BY <1>3 DEF CALL_LIBFUNC, recVars
  <2> QED
    BY <2>1 DEF Suspensions, team
<1>4. ASSUME NEW t \in team, LeaveStep(t)
      PROVE  Suspensions'
  <2>1. program' = program /\ team' = team
    BY <1>4, LeaveIs DEF Leaves, team
  <2>2. \A s \in team : SameState(thr'[s], thr[s])
    <3>1. CASE Learns(t)
      <4>1. thr' = [thr EXCEPT ![t] = NextHandle(thr[t])]
        BY <3>1 DEF Learns
      <4>2. SameState(NextHandle(thr[t]), thr[t])
        BY <1>0, CountersAre
      <4>3. thr'[t] = NextHandle(thr[t]) /\ \A s \in team : s # t => thr'[s] = thr[s]
        BY <1>0, <4>1
      <4> QED
        BY <4>2, <4>3 DEF SameState
    <3>2. CASE UNCHANGED <<table, thr, blind>>
      BY <3>2 DEF SameState
    <3> QED
      BY <1>4, <3>1, <3>2, LeaveIs
  <2> QED
    BY <2>1, <2>2 DEF Suspensions, SameState
<1>5. ASSUME NEW t \in team, UntracedStep(t)
      PROVE  Suspensions'
  <2>1. UNCHANGED <<thr, program>>
    BY <1>5, UntracedIs
  <2> QED
    BY <2>1 DEF Suspensions, team
<1>6. ASSUME NEW t \in team, ControlStep(t)
      PROVE  Suspensions'
  <2>1. team' = team /\ \A s \in team : s # t => thr'[s] = thr[s]
    BY <1>6, ControlIs DEF team
  <2>2. (thr'[t].enabled <=> thr'[t].suspended = 0) /\ (thr'[t].suspended > 0 => thr'[t].state)
    <3>1. CASE SameState(thr'[t], thr[t])
      BY <3>1 DEF Suspensions, SameState
    <3>2. CASE /\ thr'[t].suspended = thr[t].suspended + 1 /\ thr'[t].enabled = FALSE
               /\ thr'[t].state = (IF thr[t].enabled THEN TRUE ELSE thr[t].state)
      <4>1. thr'[t].state
        BY <1>0, <3>2 DEF Suspensions
      <4>2. thr'[t].suspended \in Nat \ {0}
        <5>1. thr[t].suspended \in Nat /\ thr'[t].suspended = thr[t].suspended + 1
          BY <1>0, <3>2
        <5> QED
          BY <5>1
      <4>3. ~thr'[t].enabled
        BY <3>2
      <4> QED
        BY <4>1, <4>2, <4>3
    <3>3. CASE /\ thr[t].suspended > 0 /\ thr'[t].suspended = thr[t].suspended - 1
               /\ thr'[t].state = thr[t].state
               /\ thr'[t].enabled = IF thr[t].suspended = 1 THEN thr[t].state ELSE thr[t].enabled
      <4>1. (thr[t].enabled <=> thr[t].suspended = 0) /\ thr[t].state
        BY <3>3 DEF Suspensions
      <4>2. CASE thr[t].suspended = 1
        <5>1. thr'[t].enabled = thr[t].state /\ thr'[t].suspended = 0
          BY <3>3, <4>2
        <5> QED
          BY <3>3, <4>1, <5>1
      <4>3. CASE thr[t].suspended # 1
        <5>1. thr'[t].enabled = thr[t].enabled /\ thr'[t].state = thr[t].state
          BY <3>3, <4>3
        <5>2. thr'[t].suspended > 0 /\ thr[t].suspended # 0
          BY <1>0, <3>3, <4>3
        <5> QED
          BY <4>1, <5>1, <5>2
      <4> QED
        BY <4>2, <4>3
    <3> QED
      BY <1>6, <3>1, <3>2, <3>3, ControlIs
  <2> QED
    BY <2>1, <2>2 DEF Suspensions
<1> QED
  BY <1>1, <1>2, <1>3, <1>4, <1>5, <1>6, NextIs

------------------------------------------------------------------------------
(* The descriptors. *)

\* The descriptors a call has to itself.
LEMMA OwnIs ==
  ASSUME Types, NEW t \in team
  PROVE  /\ Own(t) \subseteq Fds
         /\ Working(t) /\ ~(call[t].fn = "close" /\ call[t].at = "returned") =>
              \A f : f \in Own(t) <=> f # -1 /\ f \in {call[t].fd, call[t].to, call[t].result}
         /\ ~Working(t) \/ (call[t].fn = "close" /\ call[t].at = "returned") => Own(t) = {}
BY CallIs DEF Own

\* What two threads work on is apart, and open: a fresh descriptor is that of a
\* thread that is alone.
LEMMA Separate ==
  ASSUME Apart, NEW s \in team, NEW t \in team, s # t
  PROVE  Own(s) \cap Own(t) = {} /\ (\A f \in Own(s) : Live(f)) /\ ~Alone(s) /\ ~Alone(t)
<1>1. ~Alone(s) /\ ~Alone(t)
  BY DEF Alone
<1> QED
  BY <1>1 DEF Apart, Fresh

\* The descriptor a call works on is open, and no other thread's open has just
\* returned it.
LEMMA FdLive ==
  ASSUME Types, Apart, NEW t \in team, Working(t), call[t].fd # -1,
         ~(call[t].fn = "close" /\ call[t].at = "returned")
  PROVE  call[t].fd \in Fds /\ call[t].fd \in Own(t) /\ Live(call[t].fd) /\ ~Pending(call[t].fd)
<1>1. call[t].fd \in Fds /\ call[t].fd \in Own(t)
  BY OwnIs, CallIs
<1>2. Live(call[t].fd)
  BY <1>1 DEF Apart, Fresh
<1>3. ASSUME NEW s \in team, Opens(call[s]), call[s].result = call[t].fd,
             call[t].fd # call[s].fd
      PROVE  FALSE
  <2>1. s # t /\ Working(s) /\ call[s].fn # "close"
    BY <1>3 DEF Opens, Working
  <2>2. call[t].fd \in Own(s)
    BY <1>3, <2>1, OwnIs
  <2> QED
    BY <1>1, <2>1, <2>2, Separate
<1> QED
  BY <1>1, <1>2, <1>3 DEF Pending

\* The table names the file of the descriptor a call works on.
LEMMA FdKnown ==
  ASSUME Types, Apart, Named, NEW t \in team, Working(t), call[t].fd # -1,
         ~(call[t].fn = "close" /\ call[t].at = "returned"), call[t].fd \notin blind
  PROVE  /\ table[call[t].fd].file = os[call[t].fd]
         /\ get_vampir_file(call[t].fd).file = os[call[t].fd]
<1>1. call[t].fd \in Fds /\ Live(call[t].fd) /\ ~Pending(call[t].fd)
  BY FdLive
<1>2. table[call[t].fd].file = os[call[t].fd]
  BY <1>1 DEF Named
<1> QED
  BY <1>1, <1>2 DEF get_vampir_file, Live

\* What a call has worked on is not disturbed by a step that leaves its
\* descriptors alone.
LEMMA WorkedStays ==
  ASSUME Types, WellFormed, NEW s \in team, call[s].at = "returned", RealOf(s),
         call'[s] = call[s], team' = team,
         \A f \in Own(s) : os'[f] = os[f] /\ (f \in blind' <=> f \in blind),
         ~Alone(s) \/ UNCHANGED table
  PROVE  RealOf(s)'
<1>1. Working(s)
  BY DEF Working
<1>2. call[s].fn # "close" => /\ call[s].fd # -1 => call[s].fd \in Own(s)
                              /\ call[s].result # -1 => call[s].result \in Own(s)
  BY <1>1, OwnIs
<1>3. /\ call[s].real # "trace"
      /\ call[s].fn \in {"open", "unlink"} => call[s].real = call[s].path
      /\ call[s].fn = "sync" => call[s].real = "all"
      /\ call[s].fn = "read" /\ call[s].fd = -1 => call[s].real = "invalid"
  BY DEF RealOf
<1>4. call[s].fn = "close" /\ Alone(s) =>
        call[s].real = "foreign" \/ (call[s].real = table'[call[s].fd].file /\ call[s].real # "none")
  BY DEF RealOf
<1>5. call[s].fn \in {"read", "fgets", "lockf", "dup", "dup2"} /\ call[s].fd # -1 =>
        call[s].real = FileOf(call[s].fd)'
  BY <1>2 DEF RealOf, FileOf
<1>6. call[s].fn \in {"dup", "dup2"} /\ call[s].result # -1 /\ call[s].fd # -1 =>
        os'[call[s].result] = os'[call[s].fd]
  BY <1>2 DEF RealOf
<1>7. call[s].fn = "open" /\ call[s].result # -1 => os'[call[s].result] = call[s].path
  BY <1>2 DEF RealOf
<1>8. call[s].fn \in {"dup", "dup2"} => call[s].fd # -1
  BY <1>1 DEF WellFormed, Formed
<1> QED
  BY <1>3, <1>4, <1>5, <1>6, <1>7, <1>8 DEF RealOf, FileOf, Alone

\* The other steps do not touch the descriptors.
LEMMA DescriptorsStay ==
  ASSUME DescriptorsInv, UNCHANGED <<wrapVars, program>>
  PROVE  DescriptorsInv'
<1>1. UNCHANGED <<os, table, call, blind>> /\ team' = team
  BY DEF wrapVars, team
<1>2. \A t : /\ (Working(t)' <=> Working(t)) /\ Own(t)' = Own(t) /\ (Alone(t)' <=> Alone(t))
  BY <1>1 DEF Working, Own, Alone
<1>3. \A f : (Live(f)' <=> Live(f)) /\ (Pending(f)' <=> Pending(f)) /\ FileOf(f)' = FileOf(f)
  BY <1>1 DEF Live, Pending, FileOf
<1>4. \A t, f : Fresh(t, f)' <=> Fresh(t, f)
  BY <1>1, <1>2 DEF Fresh
<1>5. WellFormed'
  BY <1>1, <1>2 DEF DescriptorsInv, WellFormed
<1>6. Apart'
  BY <1>1, <1>2, <1>3, <1>4 DEF DescriptorsInv, Apart
<1>7. Named'
  BY <1>1, <1>3 DEF DescriptorsInv, Named
<1>8. ASSUME NEW t \in team, RealOf(t)
      PROVE  RealOf(t)'
  BY <1>1, <1>2, <1>3, <1>8 DEF RealOf
<1>9. Worked'
  BY <1>1, <1>8 DEF DescriptorsInv, Worked
<1> QED
  BY <1>5, <1>6, <1>7, <1>9 DEF DescriptorsInv

\* The calls of the other threads are what they were.
LEMMA OthersStay ==
  ASSUME Types, NEW t \in team, NEW c, call' = [call EXCEPT ![t] = c], program' = program
  PROVE  /\ team' = team /\ call'[t] = c
         /\ \A s \in team : s # t =>
              /\ call'[s] = call[s] /\ (Working(s)' <=> Working(s)) /\ Own(s)' = Own(s)
              /\ (Alone(s)' <=> Alone(s))
<1>1. call \in [team -> CallType]
  BY DEF Types, WrapTypes
<1>2. team' = team /\ call'[t] = c /\ \A s \in team : s # t => call'[s] = call[s]
  BY <1>1 DEF team
<1> QED
  BY <1>2 DEF Working, Own, Alone

\* I/O that no wrapper records.
LEMMA UntracedDescriptors ==
  ASSUME Types, DescriptorsInv, NEW t \in team, UntracedStep(t)
  PROVE  DescriptorsInv'
<1>1. /\ UNCHANGED <<table, call>> /\ team' = team /\ os \in [Fds -> AnyFile]
      /\ blind \in SUBSET Fds
  BY UntracedIs DEF team, Types, WrapTypes
<1>2. PICK fd \in Fds :
        \/ \E file \in {"trace", "foreign"} :
             /\ os[fd] = "none" /\ os' = [os EXCEPT ![fd] = file] /\ blind' = blind \cup {fd}
        \/ os[fd] = "trace" /\ os' = [os EXCEPT ![fd] = "none"] /\ UNCHANGED blind
  BY UntracedIs
<1>3. /\ ~Live(fd) /\ fd # 0
      /\ \A f \in Fds : f # fd => os'[f] = os[f] /\ (f \in blind' <=> f \in blind)
      /\ Live(fd)' => fd \in blind'
  BY <1>1, <1>2 DEF Live, DescriptorsInv, Apart
<1>4. \A s \in team : /\ (Working(s)' <=> Working(s)) /\ Own(s)' = Own(s) /\ (Alone(s)' <=> Alone(s))
  BY <1>1 DEF Working, Own, Alone
<1>5. WellFormed'
  BY <1>1, <1>4 DEF DescriptorsInv, WellFormed
<1>6. Apart'
  <2>1. \A s \in team : \A f : Fresh(s, f)' <=> Fresh(s, f)
    BY <1>1, <1>4 DEF Fresh
  <2>2. ASSUME NEW s \in team, NEW f \in Own(s)
        PROVE  Live(f)' \/ Fresh(s, f)'
    <3>1. f \in Fds /\ (Live(f) \/ Fresh(s, f))
      BY OwnIs DEF DescriptorsInv, Apart
    <3>2. CASE f = fd
      BY <1>3, <2>1, <3>1, <3>2
    <3>3. CASE f # fd
      BY <1>3, <2>1, <3>1, <3>3 DEF Live
    <3> QED
      BY <3>2, <3>3
  <2>3. os'[0] = "stdin"
    BY <1>3, FdsAssumption DEF DescriptorsInv, Apart
  <2> QED
    BY <1>1, <1>4, <2>2, <2>3 DEF DescriptorsInv, Apart
<1>7. Named'
  <2>1. \A f : Pending(f)' <=> Pending(f)
    BY <1>1 DEF Pending
  <2>2. ASSUME NEW f \in Fds, Live(f)', f \notin blind', ~Pending(f)
        PROVE  table[f].file = os'[f] /\ table[f].handle # 0
    <3>1. f # fd
      BY <1>3, <2>2
    <3> QED
      BY <1>3, <2>2, <3>1 DEF DescriptorsInv, Named, Live
  <2> QED
    BY <1>1, <2>1, <2>2 DEF DescriptorsInv, Named
<1>8. Worked'
  <2>1. ASSUME NEW s \in team, call[s].at = "returned"
        PROVE  RealOf(s)'
    <3>1. RealOf(s)
      BY <2>1 DEF DescriptorsInv, Worked
    <3>2. \A f \in Own(s) : f # fd /\ f \in Fds
      BY <1>3, <2>1, OwnIs DEF DescriptorsInv, Apart, Fresh
    <3>3. \A f \in Own(s) : os'[f] = os[f] /\ (f \in blind' <=> f \in blind)
      BY <1>3, <3>2
    <3> QED
      BY <1>1, <2>1, <3>1, <3>3, WorkedStays DEF DescriptorsInv
  <2> QED
    BY <1>1, <2>1 DEF Worked
<1> QED
  BY <1>5, <1>6, <1>7, <1>8 DEF DescriptorsInv

\* Nothing another thread works on is free for a call.
LEMMA InUseIs ==
  ASSUME Types, NEW t \in team, NEW s \in team, s # t, NEW f \in Own(s)
  PROVE  f \in InUse(t)
<1>1. Working(s) /\ ~(call[s].fn = "close" /\ call[s].at = "returned")
      /\ f \in {call[s].fd, call[s].to, call[s].result}
  BY DEF Own
<1> QED
  BY <1>1 DEF InUse, Working

\* A call begins.
LEMMA EnterDescriptors ==
  ASSUME Types, DescriptorsInv, NEW t \in team, NEW c \in CallType, Entered(t, c)
  PROVE  DescriptorsInv'
<1>1. /\ UNCHANGED <<os, table, blind, program>> /\ c.at = "entered" /\ Formed(c) /\ ~Working(t)
      /\ call' = [call EXCEPT ![t] = c]
  BY DEF Entered
<1>2. /\ team' = team /\ call'[t] = c
      /\ \A s \in team : s # t =>
           /\ call'[s] = call[s] /\ (Working(s)' <=> Working(s)) /\ Own(s)' = Own(s)
           /\ (Alone(s)' <=> Alone(s))
  BY <1>1, OthersStay
<1>3. WellFormed'
  BY <1>1, <1>2 DEF DescriptorsInv, WellFormed
<1>4. c.result = -1 /\ c.fd \in Fds \cup {-1} /\ c.to \in Fds \cup {-1}
  BY <1>1 DEF Formed, CallType
<1>5. Own(t)' = {c.fd, c.to} \ {-1}
  <2>1. Working(t)' /\ call'[t].at = "entered"
    BY <1>1, <1>2 DEF Working
  <2>2. Own(t)' = {c.fd, c.to, c.result} \ {-1}
    BY <1>2, <2>1 DEF Own
  <2> QED
    BY <1>4, <2>2
<1>6. /\ c.fd # -1 => Live(c.fd) /\ c.fd \notin InUse(t)
      /\ c.to # -1 => \/ Live(c.to) /\ c.to \notin InUse(t)
                      \/ Alone(t) /\ os[c.to] = "none"
      /\ c.fn = "dup2" <=> c.to # -1
      /\ c.fn \notin {"open", "unlink", "sync", "read"} => c.fd # -1
  BY <1>1 DEF Entered, Usable, Closable, Live, Formed
<1>7. ASSUME NEW f \in Own(t)'
      PROVE  /\ \A s \in team : s # t => f \notin Own(s)
             /\ Live(f)' \/ Fresh(t, f)'
  <2>1. CASE f = c.fd /\ f # -1
    BY <1>1, <1>6, <2>1, InUseIs DEF Live
  <2>2. CASE f = c.to /\ f # -1 /\ f # c.fd
    <3>1. CASE Live(c.to) /\ c.to \notin InUse(t)
      BY <1>1, <2>2, <3>1, InUseIs DEF Live
    <3>2. CASE Alone(t) /\ os[c.to] = "none"
      BY <1>1, <1>2, <2>2, <3>2 DEF Alone, Fresh
    <3> QED
      BY <1>6, <2>2, <3>1, <3>2
  <2> QED
    BY <1>5, <1>7, <2>1, <2>2
<1>8. Apart'
  <2>1. ASSUME NEW r \in team, NEW s \in team, r # s
        PROVE  (Own(r) \cap Own(s) = {})'
    <3>1. CASE r = t
      BY <1>2, <1>7, <2>1, <3>1
    <3>2. CASE s = t
      BY <1>2, <1>7, <2>1, <3>2
    <3>3. CASE r # t /\ s # t
      BY <1>2, <2>1, <3>3 DEF DescriptorsInv, Apart
    <3> QED
      BY <3>1, <3>2, <3>3
  <2>2. ASSUME NEW s \in team, NEW f \in Own(s)'
        PROVE  Live(f)' \/ Fresh(s, f)'
    <3>1. CASE s = t
      BY <1>7, <2>2, <3>1
    <3>2. CASE s # t
      <4>1. f \in Own(s) /\ Live(f)
        BY <1>2, <2>2, <3>2, Separate DEF DescriptorsInv
      <4> QED
        BY <1>1, <4>1 DEF Live
    <3> QED
      BY <3>1, <3>2
  <2> QED
    BY <1>1, <1>2, <2>1, <2>2 DEF DescriptorsInv, Apart
<1>9. Named'
  <2>1. ~Opens(c) /\ ~Opens(call[t])
    BY <1>1 DEF Opens, Working
  <2>2. \A f : Pending(f) => Pending(f)'
    BY <1>2, <2>1 DEF Pending
  <2> QED
    BY <1>1, <2>2 DEF DescriptorsInv, Named, Live
<1>10. Worked'
  <2>1. ASSUME NEW s \in team, call'[s].at = "returned"
        PROVE  RealOf(s)'
    <3>1. s # t
      BY <1>1, <1>2, <2>1
    <3>2. call'[s] = call[s] /\ RealOf(s)
      BY <1>2, <2>1, <3>1 DEF DescriptorsInv, Worked
    <3> QED
      BY <1>1, <1>2, <2>1, <3>2, WorkedStays DEF DescriptorsInv
  <2> QED
    BY <1>2, <2>1 DEF Worked
<1> QED
  BY <1>3, <1>8, <1>9, <1>10 DEF DescriptorsInv

\* The thread's call after the library function is well formed.
LEMMA ReachedFormed ==
  ASSUME Types, WellFormed, Apart, NEW t \in team, NEW d \in CallType, Reached(t, d),
         d.fn \in {"open", "dup"} => d.result = -1 \/ (d.result \in Fds /\ os[d.result] = "none"),
         d.fn = "dup2" => d.result = d.to,
         d.fn \notin {"open", "dup", "dup2"} => d.result \in {-1, d.fd}
  PROVE  Formed(d)
<1>1. /\ Working(t) /\ call[t].at = "entered" /\ d.at = "returned" /\ Formed(call[t])
      /\ d.fn = call[t].fn /\ d.fd = call[t].fd /\ d.to = call[t].to /\ d.path = call[t].path
  BY DEF Reached, Working, WellFormed
<1>2. d.fn \in {"open", "dup"} => d.result # 0 /\ (d.result = -1 \/ d.result # d.fd)
  <2>1. CASE d.result = -1
    BY <2>1
  <2>2. CASE d.fn = "open" /\ d.result # -1
    BY <1>1, <2>2, FdsAssumption DEF Formed, Apart
  <2>3. CASE d.fn = "dup" /\ d.result # -1
    <3>1. d.fd # -1
      BY <1>1, <2>3 DEF Formed
    <3>2. Live(d.fd)
      BY <1>1, <3>1, FdLive
    <3> QED
      BY <2>3, <3>2 DEF Live, Apart
  <2> QED
    BY <2>1, <2>2, <2>3
<1> QED
  BY <1>1, <1>2 DEF Formed

\* The library function.
LEMMA CallDescriptors ==
  ASSUME Types, DescriptorsInv, NEW t \in team, CALL_LIBFUNC(t)
  PROVE  DescriptorsInv'
<1>0. WellFormed /\ Apart /\ Named /\ Worked
  BY DEF DescriptorsInv
<1>1. PICK d \in CallType :
        /\ Reached(t, d) /\ Does(call[t], d.result)
        /\ d.fn \in {"open", "dup"} => d.result = -1 \/ (d.result \in Fds /\ os[d.result] = "none")
        /\ d.fn = "dup2" => d.result = d.to
        /\ d.fn \notin {"open", "dup", "dup2"} => d.result \in {-1, d.fd}
  BY <1>0, CallLibIs
<1>2. Formed(d)
  BY <1>0, <1>1, ReachedFormed
<1>3. /\ UNCHANGED <<table, blind, program>> /\ d.at = "returned" /\ call[t].at = "entered"
      /\ call' = [call EXCEPT ![t] = d] /\ Working(t) /\ d.real = Real(call[t])
      /\ d.fn = call[t].fn /\ d.fd = call[t].fd /\ d.to = call[t].to /\ d.path = call[t].path
  BY <1>1 DEF Reached, recVars, Working
<1>4. /\ team' = team /\ call'[t] = d
      /\ \A s \in team : s # t =>
           /\ call'[s] = call[s] /\ (Working(s)' <=> Working(s)) /\ Own(s)' = Own(s)
           /\ (Alone(s)' <=> Alone(s))
  BY <1>3, OthersStay
<1>5. WellFormed'
  BY <1>0, <1>2, <1>4 DEF WellFormed
<1>6. /\ d.fd \in Fds \cup {-1} /\ d.to \in Fds \cup {-1} /\ d.result \in Fds \cup {-1}
      /\ d.path \in Files \cup {"none"} /\ os \in [Fds -> AnyFile]
      /\ 0 \in Fds /\ -1 \notin Fds
  BY FdsAssumption DEF CallType, Types, WrapTypes
<1>7. d.fd # -1 => d.fd \in Own(t) /\ Live(d.fd) /\ ~Pending(d.fd)
  BY <1>0, <1>3, FdLive
<1>8. d.to # -1 => d.to \in Own(t)
  BY <1>3, <1>6, OwnIs
<1>9. ASSUME NEW s \in team, s # t, NEW f \in Own(s)
      PROVE  f # d.fd /\ f # d.to /\ f # d.result /\ Live(f) /\ f \in Fds
  <2>1. Own(s) \cap Own(t) = {} /\ Live(f) /\ f \in Fds
    BY <1>0, <1>9, Separate, OwnIs
  <2>2. f # d.fd /\ f # d.to
    BY <1>6, <1>7, <1>8, <2>1
  <2>3. f # d.result
    BY <1>1, <1>2, <1>6, <2>1, <2>2 DEF Live
  <2> QED
    BY <2>1, <2>2, <2>3
\* The descriptors that change are those of the call.
<1>10. /\ \A f \in Fds : f = d.fd \/ f = d.to \/ f = d.result \/ os'[f] = os[f]
       /\ os'[0] = "stdin"
  BY <1>0, <1>1, <1>2, <1>3, <1>6 DEF Does, Apart, Formed
<1>11. \A s \in team : s # t => \A f \in Own(s) : os'[f] = os[f]
  BY <1>9, <1>10
<1>12. \A f \in Own(t)' : d.fn # "close" /\ f # -1 /\ f \in {d.fd, d.to, d.result}
  BY <1>3, <1>4 DEF Own
\* The descriptor the call works on stays open, but for a close; the result is
\* open on its file.
<1>13. d.fn # "close" =>
         /\ d.fd # -1 => os'[d.fd] = os[d.fd]
         /\ d.fn \in {"dup", "dup2"} /\ d.result # -1 => os'[d.result] = os[d.fd]
         /\ d.fn = "open" /\ d.result # -1 => os'[d.result] = d.path
  BY <1>1, <1>2, <1>3, <1>6 DEF Does, Formed
<1>14. ASSUME NEW f \in Own(t)'
       PROVE  Live(f)'
  <2>1. CASE f = d.fd
    BY <1>7, <1>12, <1>13, <2>1 DEF Live
  <2>2. CASE f = d.result /\ f # d.fd
    <3>1. d.fn \in {"open", "dup", "dup2"}
      BY <1>1, <1>12, <2>2
    <3>2. CASE d.fn = "open"
      <4>1. d.path \in Files
        BY <1>2, <1>6, <3>2 DEF Formed
      <4>2. d.path \notin Special
        BY <4>1, IoAssumption
      <4> QED
        BY <1>12, <1>13, <2>2, <3>2, <4>2 DEF Live, Special
    <3>3. CASE d.fn \in {"dup", "dup2"}
      <4>1. d.fd # -1
        BY <1>2, <3>3 DEF Formed
      <4> QED
        BY <1>7, <1>12, <1>13, <2>2, <3>3, <4>1 DEF Live
    <3> QED
      BY <3>1, <3>2, <3>3
  <2>3. CASE f = d.to /\ f # d.fd
    <3>1. d.fn = "dup2"
      BY <1>2, <1>12, <2>3 DEF Formed
    <3> QED
      BY <1>1, <2>2, <2>3, <3>1
  <2> QED
    BY <1>12, <2>1, <2>2, <2>3
<1>15. ASSUME NEW s \in team, s # t
       PROVE  (Own(s) \cap Own(t) = {})'
  BY <1>4, <1>9, <1>12, <1>15
<1>16. Apart'
  <2>1. ASSUME NEW r \in team, NEW s \in team, r # s
        PROVE  (Own(r) \cap Own(s) = {})'
    <3>1. CASE r = t
      BY <1>15, <2>1, <3>1
    <3>2. CASE s = t
      BY <1>15, <2>1, <3>2
    <3>3. CASE r # t /\ s # t
      BY <1>0, <1>4, <2>1, <3>3 DEF Apart
    <3> QED
      BY <3>1, <3>2, <3>3
  <2>2. ASSUME NEW s \in team, NEW f \in Own(s)'
        PROVE  Live(f)'
    <3>1. CASE s = t
      BY <1>14, <2>2, <3>1
    <3>2. CASE s # t
      <4>1. f \in Own(s) /\ Live(f) /\ os'[f] = os[f]
        BY <1>4, <1>9, <1>11, <2>2, <3>2
      <4> QED
        BY <4>1 DEF Live
    <3> QED
      BY <3>1, <3>2
  <2> QED
    BY <1>4, <1>10, <2>1, <2>2 DEF Apart
<1>17. Named'
  <2>1. ~Opens(call[t])
    BY <1>3 DEF Opens
  <2>2. \A f : Pending(f) => Pending(f)'
    BY <1>4, <2>1 DEF Pending
  <2>3. ASSUME NEW f \in Fds, Live(f)', ~Pending(f)'
        PROVE  os'[f] = os[f]
    <3>1. CASE d.fn = "close"
      BY <1>1, <1>3, <1>6, <2>3, <3>1 DEF Does, Live
    <3>2. CASE d.fn \notin {"open", "dup", "dup2", "close"}
      BY <1>1, <1>3, <3>2 DEF Does
    <3>3. CASE d.fn \in {"open", "dup", "dup2"}
      <4>1. CASE f = d.result /\ f # d.fd
        <5>1. Opens(d)
          BY <1>3, <3>3 DEF Opens
        <5>2. Pending(f)'
          BY <1>4, <4>1, <5>1 DEF Pending
        <5> QED
          BY <2>3, <5>2
      <4>2. CASE f = d.fd
        BY <1>6, <1>13, <3>3, <4>2
      <4>3. CASE f # d.result /\ f # d.fd
        BY <1>1, <1>3, <1>6, <3>3, <4>3 DEF Does
      <4> QED
        BY <4>1, <4>2, <4>3
    <3> QED
      BY <3>1, <3>2, <3>3
  <2>4. ASSUME NEW f \in Fds, Live(f)', f \notin blind', ~Pending(f)'
        PROVE  (table[f].file = os[f] /\ table[f].handle # 0)'
    <3>1. os'[f] = os[f] /\ Live(f) /\ ~Pending(f)
      BY <2>2, <2>3, <2>4 DEF Live
    <3> QED
      BY <1>0, <1>3, <2>4, <3>1 DEF Named
  <2> QED
    BY <1>0, <1>3, <2>4 DEF Named
\* What the call has worked on.
<1>18. RealOf(t)'
  <2>1. /\ d.path # "none" => d.real = d.path
        /\ d.path = "none" /\ d.fd = -1 => d.real = IF d.fn = "sync" THEN "all" ELSE "invalid"
        /\ d.path = "none" /\ d.fd # -1 /\ d.fd \in blind => d.real = "foreign"
        /\ d.path = "none" /\ d.fd # -1 /\ d.fd \notin blind => d.real = os[d.fd]
    BY <1>3 DEF Real
  <2>2. d.path # "none" => d.path # "trace"
    BY <1>6, IoAssumption DEF Special
  <2>3. d.real # "trace"
    BY <1>7, <2>1, <2>2 DEF Live
  <2>4. /\ d.fn \in {"open", "unlink"} => d.real = d.path
        /\ d.fn = "sync" => d.real = "all"
        /\ d.fn = "read" /\ d.fd = -1 => d.real = "invalid"
    BY <1>2, <2>1 DEF Formed
  <2>5. d.fn = "close" => d.real = "foreign" \/ (d.real = table[d.fd].file /\ d.real # "none")
    <3>1. ASSUME d.fn = "close"
          PROVE  d.fd # -1 /\ d.path = "none"
      BY <1>2, <3>1 DEF Formed
    <3>2. ASSUME d.fn = "close", d.fd \notin blind
          PROVE  d.real = table[d.fd].file /\ d.real # "none"
      <4>1. table[d.fd].file = os[d.fd]
        BY <1>0, <1>3, <3>1, <3>2, FdKnown
      <4> QED
        BY <1>7, <2>1, <3>1, <3>2, <4>1 DEF Live
    <3> QED
      BY <2>1, <3>1, <3>2
  <2>6. d.fn \in {"read", "fgets", "lockf", "dup", "dup2"} /\ d.fd # -1 =>
          d.real = IF d.fd \in blind THEN "foreign" ELSE os'[d.fd]
    BY <1>2, <1>13, <2>1 DEF Formed
  <2>7. d.fn \in {"dup", "dup2"} /\ d.result # -1 => os'[d.result] = os'[d.fd]
    BY <1>2, <1>13 DEF Formed
  <2>8. d.fn = "open" /\ d.result # -1 => os'[d.result] = d.path
    BY <1>13
  <2> QED
    BY <1>3, <1>4, <2>3, <2>4, <2>5, <2>6, <2>7, <2>8 DEF RealOf, FileOf
<1>19. Worked'
  <2>1. ASSUME NEW s \in team, s # t, call'[s].at = "returned"
        PROVE  RealOf(s)'
    <3>1. call'[s] = call[s] /\ RealOf(s) /\ call[s].at = "returned"
      BY <1>0, <1>4, <2>1 DEF Worked
    <3> QED
      BY <1>0, <1>3, <1>4, <1>11, <2>1, <3>1, WorkedStays
  <2> QED
    BY <1>4, <1>18, <2>1 DEF Worked
<1> QED
  BY <1>5, <1>16, <1>17, <1>19 DEF DescriptorsInv

\* The end of a wrapper.
LEMMA LeaveDescriptors ==
  ASSUME Types, DescriptorsInv, NEW t \in team, LeaveStep(t)
  PROVE  DescriptorsInv'
<1>0. WellFormed /\ Apart /\ Named /\ Worked
  BY DEF DescriptorsInv
<1>1. PICK file \in AnyFile, mid \in Int, handle \in Nat : Leaves(t, file, mid, handle)
  BY <1>0, LeaveIs
<1>2. \/ Learns(t)
      \/ /\ UNCHANGED <<table, thr, blind>>
         /\ call[t].fn \in {"open", "dup", "dup2"} => call[t].result = -1
  BY <1>0, LeaveIs
<1>3. /\ UNCHANGED <<os, program>> /\ call' = [call EXCEPT ![t] = Idle]
      /\ call[t].at = "returned" /\ Working(t) /\ Formed(call[t]) /\ RealOf(t)
  BY <1>0, <1>1 DEF Leaves, Proceeds, Return, Working, WellFormed, Worked
<1>4. /\ team' = team /\ call'[t] = Idle
      /\ \A s \in team : s # t =>
           /\ call'[s] = call[s] /\ (Working(s)' <=> Working(s)) /\ Own(s)' = Own(s)
           /\ (Alone(s)' <=> Alone(s))
  BY <1>3, OthersStay
<1>5. ~Working(t)' /\ Own(t)' = {}
  BY <1>4 DEF Working, Idle, Own
<1>6. WellFormed'
  BY <1>0, <1>4, <1>5 DEF WellFormed
<1>7. Apart'
  <2>1. ASSUME NEW r \in team, NEW s \in team, r # s
        PROVE  (Own(r) \cap Own(s) = {})'
    BY <1>0, <1>4, <1>5, <2>1 DEF Apart
  <2>2. ASSUME NEW s \in team, NEW f \in Own(s)'
        PROVE  Live(f)'
    <3>1. s # t /\ f \in Own(s)
      BY <1>4, <1>5, <2>2
    <3>2. Live(f)
      BY <1>0, <3>1, Separate
    <3> QED
      BY <1>3, <3>2 DEF Live
  <2> QED
    BY <1>0, <1>3, <1>4, <2>1, <2>2 DEF Apart
<1>8. /\ call[t].fd \in Fds \cup {-1} /\ call[t].result \in Fds \cup {-1} /\ -1 \notin Fds
      /\ table \in [Fds -> TableEntry] /\ 0 \in Fds
  BY FdsAssumption, CallIs DEF Types, WrapTypes
\* The descriptor that is entered is the call's own.
<1>9. Learns(t) =>
        /\ call[t].result \in Own(t) /\ call[t].result \in Fds /\ call[t].result # 0
        /\ \A f \in Fds : f # call[t].result =>
             table'[f] = table[f] /\ (f \in blind' <=> f \in blind)
        /\ table'[call[t].result] = [file |-> NewFile(call[t]), handle |-> thr[t].nextHandle]
  <2>1. ASSUME Learns(t)
        PROVE  call[t].result \in Own(t) /\ call[t].result \in Fds /\ call[t].result # 0
    <3>1. call[t].result # -1 /\ call[t].fn \in {"open", "dup", "dup2"}
      BY <2>1 DEF Learns
    <3>2. call[t].result \in Own(t)
      BY <1>3, <3>1, OwnIs
    <3> QED
      BY <1>3, <1>8, <3>1, <3>2 DEF Formed
  <2> QED
    BY <1>8, <2>1 DEF Learns
<1>10. Named'
  <2>1. ASSUME NEW f \in Fds, ~Pending(f)', ~(Learns(t) /\ f = call[t].result)
        PROVE  ~Pending(f)
    <3>1. ASSUME Opens(call[t]), call[t].result = f
          PROVE  FALSE
      BY <1>2, <1>8, <2>1, <3>1 DEF Opens
    <3> QED
      BY <1>4, <2>1, <3>1 DEF Pending
  <2>2. ASSUME NEW f \in Fds, Live(f), f \notin blind', ~Pending(f)', ~(Learns(t) /\ f = call[t].result)
        PROVE  table'[f].file = os[f] /\ table'[f].handle # 0
    <3>1. ~Pending(f) /\ table'[f] = table[f] /\ f \notin blind
      BY <1>2, <1>9, <2>1, <2>2
    <3> QED
      BY <1>0, <2>2, <3>1 DEF Named
  <2>3. ASSUME Learns(t), call[t].result \notin blind'
        PROVE  /\ table'[call[t].result].file = os[call[t].result]
               /\ table'[call[t].result].handle # 0
    <3>1. call[t].fn \in {"open", "dup", "dup2"} /\ call[t].result # -1
      BY <2>3 DEF Learns
    <3>2. NewFile(call[t]) = os[call[t].result]
      <4>1. CASE call[t].fn = "open"
        BY <1>3, <3>1, <4>1 DEF NewFile, RealOf
      <4>2. CASE call[t].fn # "open"
        <5>1. call[t].fd # -1 /\ call[t].fd \notin blind
          BY <1>3, <2>3, <3>1, <4>2 DEF Formed, Learns
        <5>2. table[call[t].fd].file = os[call[t].fd]
          BY <1>0, <1>3, <3>1, <5>1, FdKnown
        <5>3. os[call[t].result] = os[call[t].fd]
          BY <1>3, <3>1, <4>2 DEF RealOf
        <5> QED
          BY <4>2, <5>2, <5>3 DEF NewFile
      <4> QED
        BY <4>1, <4>2
    <3> QED
      BY <1>9, <2>3, <3>2, Numbers
  <2>4. table'[0].file = "stdin"
    <3>1. table'[0] = table[0]
      BY <1>2, <1>8, <1>9
    <3> QED
      BY <1>0, <3>1 DEF Named
  <2> QED
    BY <1>3, <2>2, <2>3, <2>4 DEF Named, Live
<1>11. Worked'
  <2>1. ASSUME NEW s \in team, call'[s].at = "returned"
        PROVE  RealOf(s)'
    <3>1. s # t
      BY <1>4, <2>1 DEF Idle
    <3>2. call'[s] = call[s] /\ RealOf(s) /\ call[s].at = "returned" /\ ~Alone(s)
      BY <1>0, <1>4, <2>1, <3>1, Separate DEF Worked
    <3>3. \A f \in Own(s) : os'[f] = os[f] /\ (f \in blind' <=> f \in blind)
      <4>1. \A f \in Own(s) : f \in Fds /\ f \notin Own(t)
        BY <1>0, <3>1, Separate, OwnIs
      <4> QED
        BY <1>2, <1>3, <1>9, <4>1
    <3> QED
      BY <1>0, <1>3, <1>4, <2>1, <3>2, <3>3, WorkedStays
  <2> QED
    BY <1>4, <2>1 DEF Worked
<1> QED
  BY <1>6, <1>7, <1>10, <1>11 DEF DescriptorsInv

\* The descriptors hold after every step.
LEMMA DescriptorsNext ==
  ASSUME Types, DescriptorsInv, Next
  PROVE  DescriptorsInv'
<1>0. os[0] = "stdin"
  BY DEF DescriptorsInv, Apart
<1>1. CASE MpiStep /\ MpiKind
  BY <1>1, DescriptorsStay DEF MpiStep
<1>2. ASSUME NEW t \in team, ENTER_IOFUNC(t)
      PROVE  DescriptorsInv'
  BY <1>0, <1>2, EnterIs, EnterDescriptors
<1>3. ASSUME NEW t \in team, CALL_LIBFUNC(t) \/ LeaveStep(t) \/ UntracedStep(t)
      PROVE  DescriptorsInv'
  BY <1>3, CallDescriptors, LeaveDescriptors, UntracedDescriptors
<1>4. ASSUME NEW t \in team, UNCHANGED <<wrapVars, mpiVars>>, ControlStep(t)
      PROVE  DescriptorsInv'
  BY <1>4, ControlIs, DescriptorsStay
<1> QED
  BY <1>1, <1>2, <1>3, <1>4, NextIs

------------------------------------------------------------------------------
(* The ends. *)

\* The end of a wrapper's operation names the file that was worked on.
LEMMA LeaveRight ==
  ASSUME Types, DescriptorsInv, NEW t \in team, call[t].at = "returned", NEW r,
         r.fn = call[t].fn, r.real = call[t].real, Names(call[t], r.file)
  PROVE  EndRight(r)
<1>0. WellFormed /\ Apart /\ Named /\ Worked
  BY DEF DescriptorsInv
<1>1. Working(t) /\ Formed(call[t]) /\ RealOf(t)
  BY <1>0 DEF Working, WellFormed, Worked
<1>2. r.real # "trace"
  BY <1>1 DEF RealOf
<1>3. CASE call[t].fn \in {"open", "unlink", "sync"}
  BY <1>1, <1>2, <1>3 DEF Names, RealOf, EndRight
<1>4. CASE call[t].fn = "read" /\ call[t].fd = -1
  BY <1>1, <1>2, <1>4 DEF Names, RealOf, EndRight
<1>5. CASE call[t].fn = "close"
  <2>1. CASE Alone(t)
    <3>1. call[t].fd # -1
      BY <1>1, <1>5 DEF Formed
    <3>2. call[t].fd \in Fds
      BY <3>1, CallIs
    <3>3. r.file = get_vampir_file(call[t].fd).file
      BY <1>5, <3>1 DEF Names
    <3>4. r.real = "foreign" \/ (r.real = table[call[t].fd].file /\ r.real # "none")
      BY <1>1, <1>5, <2>1 DEF RealOf
    <3> QED
      BY <1>2, <3>3, <3>4 DEF EndRight, get_vampir_file
  <2>2. CASE ~Alone(t)
    <3>1. team # {Main}
      BY <2>2 DEF Alone
    <3> QED
      BY <1>2, <1>5, <3>1 DEF EndRight
  <2> QED
    BY <2>1, <2>2
<1>6. CASE call[t].fn \in {"read", "fgets", "lockf", "dup", "dup2"} /\ call[t].fd # -1
  <2>1. r.real = FileOf(call[t].fd)
    BY <1>1, <1>6 DEF RealOf
  <2>2. CASE call[t].fd \in blind
    BY <1>2, <2>1, <2>2 DEF FileOf, EndRight
  <2>3. CASE call[t].fd \notin blind
    <3>1. get_vampir_file(call[t].fd).file = os[call[t].fd]
      BY <1>0, <1>1, <1>6, <2>3, FdKnown
    <3>2. r.real = os[call[t].fd]
      BY <2>1, <2>3 DEF FileOf
    <3>3. CASE r.file = get_vampir_file(call[t].fd).file
      BY <1>2, <3>1, <3>2, <3>3 DEF EndRight
    <3>4. CASE r.file = get_vampir_file(0).file /\ call[t].fn = "fgets"
      <4>1. get_vampir_file(0).file = "stdin"
        BY <1>0 DEF Named, get_vampir_file
      <4> QED
        BY <1>2, <3>4, <4>1 DEF EndRight
    <3> QED
      BY <1>6, <3>3, <3>4 DEF Names
  <2> QED
    BY <2>2, <2>3
<1> QED
  BY <1>1, <1>3, <1>4, <1>5, <1>6 DEF Formed, Fns

\* A record that is no end.
LEMMA NoEndRight == EndRight(NoEnd)
BY DEF EndRight, NoEnd

\* Every recorded end names the right file.
LEMMA EndsRightNext ==
  ASSUME Types, DescriptorsInv, MpiFilesInv, EndsRight, Next
  PROVE  EndsRight'
<1>0. os[0] = "stdin" /\ WellFormed /\ io \in [team -> StreamType]
  BY DEF DescriptorsInv, Apart, Types, RecTypes
<1>a. ASSUME team' = team
      PROVE  \A r : EndRight(r)' <=> EndRight(r)
  BY <1>a DEF EndRight
<1>b. ASSUME team' = team, UNCHANGED io
      PROVE  EndsRight'
  BY <1>b DEF EndsRight, EndRight
<1>1. CASE MpiStep /\ MpiKind
  <2>1. MainOnly /\ (Silent \/ Whole \/ Begins \/ \E mid \in Nat : Ends(mid)) /\ Main \in team
    BY <1>1, MpiMain, MainIs DEF MpiStep
  <2>2. team' = team
    BY <1>1 DEF MpiStep, team
  <2>3. \A s \in team : s # Main => io'[s] = io[s]
    BY <2>1 DEF MainOnly
  <2>4. EndRight(io'[Main].last)
    <3>1. CASE Silent
      BY <2>1, <3>1 DEF Silent, EndsRight
    <3>2. CASE Begins
      BY <3>2, NoEndRight DEF Begins
    <3>3. CASE Whole \/ \E mid \in Nat : Ends(mid)
      <4>1. io'[Main].last.file = io'[Main].last.real /\ io'[Main].last.real \in Files
        BY <3>3 DEF Whole, Ends
      <4> QED
        BY <4>1, IoAssumption DEF EndRight, Special
    <3> QED
      BY <2>1, <3>1, <3>2, <3>3
  <2> QED
    BY <2>2, <2>3, <2>4 DEF EndsRight, EndRight
<1>2. ASSUME NEW t \in team, ENTER_IOFUNC(t)
      PROVE  EndsRight'
  <2>1. PICK c \in CallType :
          /\ Entered(t, c)
          /\ (~c.recorded /\ UNCHANGED <<thr, io>>) \/ EnterRecorded(t, c)
    BY <1>0, <1>2, EnterIs
  <2>2. team' = team
    BY <2>1 DEF Entered, team
  <2>3. CASE EnterRecorded(t, c)
    <3>1. \A s \in team : EndRight(io'[s].last)
      BY <2>3, NoEndRight DEF EnterRecorded, EndsRight
    <3> QED
      BY <2>2, <3>1 DEF EndsRight, EndRight
  <2> QED
    BY <1>b, <2>1, <2>2, <2>3
<1>3. ASSUME NEW t \in team, CALL_LIBFUNC(t) \/ UntracedStep(t)
      PROVE  EndsRight'
  <2>1. CASE CALL_LIBFUNC(t)
    BY <1>b, <2>1 DEF CALL_LIBFUNC, recVars, team
  <2>2. CASE UntracedStep(t)
    BY <1>b, <2>2, UntracedIs DEF team
  <2> QED
    BY <1>3, <2>1, <2>2
<1>4. ASSUME NEW t \in team, LeaveStep(t)
      PROVE  EndsRight'
  <2>1. PICK file \in AnyFile, mid \in Int, handle \in Nat :
          Leaves(t, file, mid, handle) /\ Names(call[t], file)
    BY <1>0, <1>4, LeaveIs
  <2>2. /\ team' = team /\ Working(t) /\ call[t].at = "returned" /\ End(t, file, mid, handle)
        /\ call[t].fn \in Fns
    BY <1>0, <2>1 DEF Leaves, Proceeds, Working, team, WellFormed, Formed
  <2>3. /\ \A s \in team : s # t => io'[s] = io[s]
        /\ io'[t] = io[t] \/ EndWritten(t, file, mid)
    BY <2>2, EndIs
  <2>4. EndRight(io'[t].last)
    <3>1. CASE io'[t] = io[t]
      BY <3>1 DEF EndsRight
    <3>2. CASE EndWritten(t, file, mid)
      BY <2>1, <2>2, <3>2, LeaveRight DEF EndWritten
    <3> QED
      BY <2>3, <3>1, <3>2
  <2> QED
    BY <2>2, <2>3, <2>4 DEF EndsRight, EndRight
<1>5. ASSUME NEW t \in team, ControlStep(t)
      PROVE  EndsRight'
  BY <1>b, <1>5, ControlIs DEF team
<1> QED
  BY <1>1, <1>2, <1>3, <1>4, <1>5, NextIs

------------------------------------------------------------------------------
(* The table of MPI files, and the handles. *)

\* Where an entry was before one was removed.
From(i, k) == IF i = k THEN Len(fmap) ELSE i

\* Removing an entry moves the last one, and nothing else.
LEMMA RemovedIs ==
  ASSUME NEW k, Removed(k)
  PROVE  /\ \A i \in DOMAIN fmap' : /\ From(i, k) \in DOMAIN fmap /\ From(i, k) # k
                                    /\ fmap'[i] = fmap[From(i, k)]
         /\ \A i, j \in DOMAIN fmap' : From(i, k) = From(j, k) => i = j
         /\ \A j \in DOMAIN fmap : j # k => \E i \in DOMAIN fmap' : fmap'[i] = fmap[j]
<1>1. PICK n \in Nat \ {0} : n = Len(fmap)
  BY DEF Removed
<1>2. /\ k \in 1 .. n /\ DOMAIN fmap = 1 .. n /\ DOMAIN fmap' = 1 .. n - 1
      /\ \A i \in 1 .. n - 1 : fmap'[i] = IF i = k THEN fmap[n] ELSE fmap[i]
  BY <1>1 DEF Removed
<1>3. \A i \in 1 .. n - 1 : From(i, k) = IF i = k THEN n ELSE i
  BY <1>1 DEF From
<1>4. \A i \in 1 .. n - 1 : /\ From(i, k) \in 1 .. n /\ From(i, k) # k
                            /\ fmap'[i] = fmap[From(i, k)]
  BY <1>2, <1>3
<1>5. \A i, j \in 1 .. n - 1 : From(i, k) = From(j, k) => i = j
  BY <1>2, <1>3
<1>6. ASSUME NEW j \in 1 .. n, j # k
      PROVE  \E i \in 1 .. n - 1 : fmap'[i] = fmap[j]
  <2>1. CASE j = n
    <3>1. k \in 1 .. n - 1
      BY <1>2, <1>6, <2>1
    <3> QED
      BY <1>2, <2>1, <3>1
  <2>2. CASE j # n
    <3>1. j \in 1 .. n - 1
      BY <2>2
    <3> QED
      BY <1>2, <1>6, <3>1
  <2> QED
    BY <2>1, <2>2
<1> QED
  BY <1>2, <1>4, <1>5, <1>6

\* What is appended is the last entry.
LEMMA AppendedIs ==
  ASSUME Types, NEW e \in MpiEntry, fmap' = Append(fmap, e)
  PROVE  \E n \in Nat :
           /\ DOMAIN fmap = 1 .. n /\ DOMAIN fmap' = 1 .. n + 1 /\ fmap'[n + 1] = e
           /\ \A i \in 1 .. n : fmap'[i] = fmap[i]
<1>1. fmap \in Seq(MpiEntry) /\ Len(fmap) \in Nat /\ DOMAIN fmap = 1 .. Len(fmap)
  BY DEF Types, MpiTypes
<1>2. PICK n \in Nat : n = Len(fmap)
  BY <1>1
<1>3. /\ fmap' \in Seq(MpiEntry) /\ Len(fmap') = n + 1 /\ fmap'[n + 1] = e
      /\ \A i \in 1 .. n : fmap'[i] = fmap[i]
  BY <1>1, <1>2, AppendProperties
<1>4. DOMAIN fmap' = 1 .. n + 1
  BY <1>3
<1> QED
  BY <1>1, <1>2, <1>3, <1>4

\* The entry of a split collective that begins.
LEMMA SplitEntryIs ==
  ASSUME Types, NEW k \in DOMAIN fmap, NEW e, fmap' = [fmap EXCEPT ![k] = e]
  PROVE  /\ DOMAIN fmap' = DOMAIN fmap /\ fmap'[k] = e
         /\ \A i \in DOMAIN fmap : i # k => fmap'[i] = fmap[i]
BY DEF Types, MpiTypes

\* The table of MPI files follows the openings and closings.
LEMMA MpiFilesNext ==
  ASSUME Types, MpiFilesInv, ~aborted, MpiKind
  PROVE  MpiFilesInv'
<1>0. /\ mpi \in [Handles -> Files \cup {"none"}] /\ begun \in [Handles -> {"no", "yes", "recorded"}]
      /\ requests \in SUBSET Request /\ "none" \notin Files /\ Null \notin Handles
      /\ \A k \in DOMAIN fmap : fmap[k] \in MpiEntry /\ fmap[k].fh \in Handles \cup {Null}
                                /\ fmap[k].file \in Files
  <2>1. \A k \in DOMAIN fmap : fmap[k] \in MpiEntry
    BY DEF Types, MpiTypes
  <2>2. \A e \in MpiEntry : e.fh \in Handles \cup {Null} /\ e.file \in Files
    BY DEF MpiEntry
  <2> QED
    BY <2>1, <2>2, HandlesAssumption, IoAssumption DEF Types, MpiTypes, Special
<1>1. CASE MPI_File_open
  <2>1. PICK file \in Files, h \in Handles \cup {Null} :
          /\ h # Null => h \in Handles /\ mpi[h] = "none"
          /\ mpi' = IF h = Null THEN mpi ELSE [mpi EXCEPT ![h] = file]
          /\ \/ aborted' = TRUE /\ UNCHANGED fmap
             \/ /\ Len(fmap) < MaxMpiFiles /\ UNCHANGED aborted
                /\ fmap' = Append(fmap, [fh |-> h, file |-> file, split |-> 0,
                                         handle |-> thr[Main].nextHandle])
    BY <1>1, OpenIs
  <2>2. UNCHANGED <<begun, requests, careless>>
    BY <1>1, OpenIs
  <2>3. /\ \A g \in Handles : g # h => mpi'[g] = mpi[g]
        /\ h # Null => mpi'[h] = file
    BY <1>0, <2>1
  <2>4. OpenFiles' = OpenFiles \cup ({h} \ {Null})
    BY <1>0, <2>1, <2>3 DEF OpenFiles
  <2>5. \A k \in DOMAIN fmap : fmap[k].fh # Null => fmap[k].fh # h /\ mpi'[fmap[k].fh] = fmap[k].file
    BY <1>0, <2>1, <2>3 DEF MpiFilesInv
  <2>6. CASE aborted' = TRUE /\ UNCHANGED fmap
    BY <2>2, <2>4, <2>5, <2>6 DEF MpiFilesInv
  <2>7. CASE fmap' = Append(fmap, [fh |-> h, file |-> file, split |-> 0,
                                   handle |-> thr[Main].nextHandle])
    <3>1. PICK e \in MpiEntry : e = [fh |-> h, file |-> file, split |-> 0,
                                     handle |-> thr[Main].nextHandle]
      BY MainIs DEF MpiEntry
    <3>2. e.fh = h /\ e.file = file
      BY <3>1
    <3>3. PICK n \in Nat :
            /\ DOMAIN fmap = 1 .. n /\ DOMAIN fmap' = 1 .. n + 1 /\ fmap'[n + 1] = e
            /\ \A i \in 1 .. n : fmap'[i] = fmap[i]
      BY <2>7, <3>1, AppendedIs
    <3>4. DOMAIN fmap' = DOMAIN fmap \cup {n + 1}
      BY <3>3
    <3>5. \A k \in DOMAIN fmap : fmap'[k] = fmap[k] /\ k \in DOMAIN fmap'
      BY <3>3, <3>4
    <3>6. \A k \in DOMAIN fmap' : fmap'[k].fh # Null => mpi'[fmap'[k].fh] = fmap'[k].file
      BY <2>3, <2>5, <3>2, <3>3, <3>4, <3>5
    <3>7. \A j, k \in DOMAIN fmap' : fmap'[j].fh # Null /\ fmap'[j].fh = fmap'[k].fh => j = k
      BY <2>5, <3>2, <3>3, <3>4, <3>5 DEF MpiFilesInv
    <3>8. \A g \in OpenFiles' : \E k \in DOMAIN fmap' : fmap'[k].fh = g
      <4>1. n + 1 \in DOMAIN fmap' /\ fmap'[n + 1].fh = h
        BY <3>2, <3>3, <3>4
      <4>2. \A g \in OpenFiles : \E k \in DOMAIN fmap' : fmap'[k].fh = g
        BY <3>5 DEF MpiFilesInv
      <4> QED
        BY <2>4, <4>1, <4>2
    <3> QED
      BY <2>2, <2>4, <3>6, <3>7, <3>8 DEF MpiFilesInv
  <2> QED
    BY <2>1, <2>6, <2>7
<1>2. CASE MPI_File_close
  <2>1. PICK h \in OpenFiles, k \in DOMAIN fmap :
          /\ h \in Handles /\ h # Null /\ fmap[k].fh = h
          /\ begun[h] = "no" /\ \A q \in requests : q.on # h
          /\ mpi' = [mpi EXCEPT ![h] = "none"] /\ Removed(k)
    BY <1>2, CloseIs
  <2>2. UNCHANGED <<begun, requests, careless, aborted>>
    BY <1>2, CloseIs
  <2>3. mpi'[h] = "none" /\ \A g \in Handles : g # h => mpi'[g] = mpi[g]
    BY <1>0, <2>1
  <2>4. OpenFiles' = OpenFiles \ {h}
    BY <1>0, <2>1, <2>3 DEF OpenFiles
  <2>5. \A j \in DOMAIN fmap : j # k /\ fmap[j].fh # Null => fmap[j].fh # h
    BY <2>1 DEF MpiFilesInv
  <2>6. /\ \A i \in DOMAIN fmap' : /\ From(i, k) \in DOMAIN fmap /\ From(i, k) # k
                                   /\ fmap'[i] = fmap[From(i, k)]
        /\ \A i, j \in DOMAIN fmap' : From(i, k) = From(j, k) => i = j
        /\ \A j \in DOMAIN fmap : j # k => \E i \in DOMAIN fmap' : fmap'[i] = fmap[j]
    BY <2>1, RemovedIs
  <2>7. \A i \in DOMAIN fmap' : fmap'[i].fh # Null => mpi'[fmap'[i].fh] = fmap'[i].file
    <3>1. \A j \in DOMAIN fmap : j # k /\ fmap[j].fh # Null => mpi'[fmap[j].fh] = fmap[j].file
      BY <1>0, <2>3, <2>5 DEF MpiFilesInv
    <3> QED
      BY <2>6, <3>1
  <2>8. \A i, j \in DOMAIN fmap' : fmap'[i].fh # Null /\ fmap'[i].fh = fmap'[j].fh => i = j
    BY <2>6 DEF MpiFilesInv
  <2>9. \A g \in OpenFiles' : \E i \in DOMAIN fmap' : fmap'[i].fh = g
    <3>1. ASSUME NEW g \in OpenFiles'
          PROVE  \E i \in DOMAIN fmap' : fmap'[i].fh = g
      <4>1. g \in OpenFiles /\ g # h
        BY <2>4, <3>1
      <4>2. PICK j \in DOMAIN fmap : fmap[j].fh = g
        BY <4>1 DEF MpiFilesInv
      <4>3. j # k
        BY <2>1, <4>1, <4>2
      <4> QED
        BY <2>6, <4>2, <4>3
    <3> QED
      BY <3>1
  <2>10. /\ \A g \in Handles : begun'[g] # "no" => g \in OpenFiles'
         /\ \A q \in requests' : q.file = q.real /\ q.on \in OpenFiles'
    BY <2>1, <2>2, <2>4 DEF MpiFilesInv
  <2> QED
    BY <2>7, <2>8, <2>9, <2>10 DEF MpiFilesInv
<1>3. CASE MPI_File_delete \/ Blocking
  BY <1>3, WholeCalls DEF MpiFilesInv, mpiVars, OpenFiles
<1>4. CASE Nonblocking
  <2>1. UNCHANGED <<mpi, fmap, begun, careless, aborted>>
    BY <1>4, NonblockingIs
  <2>2. \/ UNCHANGED requests
        \/ \E q \in Request : q.file = q.real /\ q.on \in OpenFiles /\ requests' = requests \cup {q}
    BY <1>4, NonblockingIs
  <2>3. \A q \in requests' : q.file = q.real /\ q.on \in OpenFiles
    BY <2>2 DEF MpiFilesInv
  <2> QED
    BY <2>1, <2>3 DEF MpiFilesInv, OpenFiles
<1>5. CASE MPI_Wait
  <2>1. UNCHANGED <<mpi, fmap, begun, careless, aborted>> /\ requests' \subseteq requests
    BY <1>5, WaitIs
  <2> QED
    BY <2>1 DEF MpiFilesInv, OpenFiles
<1>6. CASE SplitBegin
  <2>1. UNCHANGED <<mpi, requests, careless, aborted>>
    BY <1>6, SplitBeginIs
  <2>2. PICK h \in OpenFiles, k \in DOMAIN fmap :
          /\ h \in Handles /\ fmap[k].fh = h
          /\ \A g \in Handles : g # h => begun'[g] = begun[g]
          /\ \/ UNCHANGED fmap
             \/ fmap' = [fmap EXCEPT ![k] =
                     [fh |-> h, file |-> fmap[k].file, split |-> thr[Main].nextMid,
                      handle |-> fmap[k].handle]]
    BY <1>0, <1>6, SplitBeginIs
  <2>3. /\ DOMAIN fmap' = DOMAIN fmap
        /\ \A i \in DOMAIN fmap : fmap'[i].fh = fmap[i].fh /\ fmap'[i].file = fmap[i].file
    <3>1. CASE UNCHANGED fmap
      BY <3>1
    <3>2. CASE fmap' = [fmap EXCEPT ![k] =
                     [fh |-> h, file |-> fmap[k].file, split |-> thr[Main].nextMid,
                      handle |-> fmap[k].handle]]
      BY <2>2, <3>2, SplitEntryIs
    <3> QED
      BY <2>2, <3>1, <3>2
  <2>4. \A g \in Handles : begun'[g] # "no" => g \in OpenFiles
    BY <2>2 DEF MpiFilesInv
  <2> QED
    BY <2>1, <2>3, <2>4 DEF MpiFilesInv, OpenFiles
<1>7. CASE SplitEnd
  <2>1. UNCHANGED <<mpi, fmap, requests, aborted>>
    BY <1>7, SplitEndIs
  <2>2. PICK h \in Handles : begun' = [begun EXCEPT ![h] = "no"]
    BY <1>7, SplitEndIs
  <2>3. \A g \in Handles : begun'[g] # "no" => g \in OpenFiles
    BY <1>0, <2>2 DEF MpiFilesInv
  <2> QED
    BY <2>1, <2>3 DEF MpiFilesInv, OpenFiles
<1> QED
  BY <1>1, <1>2, <1>3, <1>4, <1>5, <1>6, <1>7 DEF MpiKind

\* A step that enters no descriptor and no MPI file.
LEMMA HandlesStay ==
  ASSUME HandlesOnce, team' = team, UNCHANGED <<table, fmap>>,
         thr'[Main].nextHandle = thr[Main].nextHandle
  PROVE  HandlesOnce'
<1>1. Alone(Main)' <=> Alone(Main)
  BY DEF Alone
<1> QED
  BY <1>1 DEF HandlesOnce

\* A thread that is alone gives out each handle once.
LEMMA HandlesNext ==
  ASSUME Types, DescriptorsInv, MpiFilesInv, HandlesOnce, Next
  PROVE  HandlesOnce'
<1>0. os[0] = "stdin" /\ WellFormed /\ Main \in team /\ thr \in [team -> ThreadType]
  BY MainIs DEF DescriptorsInv, Apart
<1>1. CASE MpiStep /\ MpiKind
  <2>1. UNCHANGED table /\ team' = team /\ ~aborted
    BY <1>1 DEF MpiStep, wrapVars, team
  <2>2. thr[Main].nextHandle \in Nat \ {0} /\ \A f \in Fds : table[f].handle \in Nat
    BY MainIs, Numbers
  <2>e. \A k \in DOMAIN fmap : fmap[k] \in MpiEntry /\ fmap[k].handle \in Nat
    <3>1. \A k \in DOMAIN fmap : fmap[k] \in MpiEntry
      BY DEF Types, MpiTypes
    <3>2. \A e \in MpiEntry : e.handle \in Nat
      BY DEF MpiEntry
    <3> QED
      BY <3>1, <3>2
  <2>3. CASE MPI_File_open
    <3>1. PICK file \in Files, h \in Handles \cup {Null} :
            \/ UNCHANGED fmap
            \/ fmap' = Append(fmap, [fh |-> h, file |-> file, split |-> 0,
                                     handle |-> thr[Main].nextHandle])
      BY <2>1, <2>3, OpenIs
    <3>2. thr'[Main].nextHandle = thr[Main].nextHandle + 1
      BY <2>1, <2>3, OpenIs
    <3>3. ASSUME Alone(Main)
          PROVE  /\ \A f \in Fds : table[f].handle < thr[Main].nextHandle + 1
                 /\ \A f \in Fds : table[f].handle # thr[Main].nextHandle
                 /\ \A k \in DOMAIN fmap : fmap[k].handle < thr[Main].nextHandle + 1
                 /\ \A k \in DOMAIN fmap : fmap[k].handle # thr[Main].nextHandle
      BY <2>2, <2>e, <3>3 DEF HandlesOnce
    <3>4. CASE UNCHANGED fmap
      BY <2>1, <3>2, <3>3, <3>4 DEF HandlesOnce, Alone
    <3>5. CASE fmap' = Append(fmap, [fh |-> h, file |-> file, split |-> 0,
                                     handle |-> thr[Main].nextHandle])
      <4>1. PICK e \in MpiEntry : e = [fh |-> h, file |-> file, split |-> 0,
                                       handle |-> thr[Main].nextHandle]
        BY <2>2 DEF MpiEntry
      <4>2. e.handle = thr[Main].nextHandle
        BY <4>1
      <4>3. PICK n \in Nat :
              /\ DOMAIN fmap = 1 .. n /\ DOMAIN fmap' = 1 .. n + 1 /\ fmap'[n + 1] = e
              /\ \A i \in 1 .. n : fmap'[i] = fmap[i]
        BY <3>5, <4>1, AppendedIs
      <4>4. DOMAIN fmap' = DOMAIN fmap \cup {n + 1} /\ \A i \in DOMAIN fmap : fmap'[i] = fmap[i]
        BY <4>3
      <4>5. ASSUME Alone(Main)
            PROVE  /\ \A f \in Fds : \A k \in DOMAIN fmap' : table[f].handle # fmap'[k].handle
                   /\ \A k \in DOMAIN fmap' : fmap'[k].handle < thr[Main].nextHandle + 1
                   /\ \A j, k \in DOMAIN fmap' : j # k => fmap'[j].handle # fmap'[k].handle
        <5>1. /\ \A f \in Fds : \A k \in DOMAIN fmap : table[f].handle # fmap[k].handle
              /\ \A j, k \in DOMAIN fmap : j # k => fmap[j].handle # fmap[k].handle
          BY <4>5 DEF HandlesOnce
        <5>2. \A k \in DOMAIN fmap' :
                \/ k \in DOMAIN fmap /\ fmap'[k] = fmap[k]
                \/ k = n + 1 /\ fmap'[k].handle = thr[Main].nextHandle
          BY <4>2, <4>3, <4>4
        <5>3. \A f \in Fds : \A k \in DOMAIN fmap' : table[f].handle # fmap'[k].handle
          BY <3>3, <4>5, <5>1, <5>2
        <5>4. \A k \in DOMAIN fmap' : fmap'[k].handle < thr[Main].nextHandle + 1
          BY <2>2, <3>3, <4>5, <5>2
        <5>5. \A j, k \in DOMAIN fmap' : j # k => fmap'[j].handle # fmap'[k].handle
          BY <3>3, <4>5, <5>1, <5>2
        <5> QED
          BY <5>3, <5>4, <5>5
      <4>6. Alone(Main)' <=> Alone(Main)
        BY <2>1 DEF Alone
      <4> QED
        BY <2>1, <3>2, <3>3, <4>5, <4>6 DEF HandlesOnce
    <3> QED
      BY <3>1, <3>4, <3>5
  <2>4. CASE MPI_File_close
    <3>1. PICK k \in DOMAIN fmap : Removed(k)
      BY <2>1, <2>4, CloseIs
    <3>2. thr'[Main].nextHandle = thr[Main].nextHandle
      BY <2>1, <2>4, CloseIs DEF NoNewHandle
    <3>3. /\ \A i \in DOMAIN fmap' : /\ From(i, k) \in DOMAIN fmap
                                     /\ fmap'[i] = fmap[From(i, k)]
          /\ \A i, j \in DOMAIN fmap' : From(i, k) = From(j, k) => i = j
      BY <3>1, RemovedIs
    <3>4. Alone(Main)' <=> Alone(Main)
      BY <2>1 DEF Alone
    <3> QED
      BY <2>1, <3>2, <3>3, <3>4 DEF HandlesOnce
  <2>5. CASE SplitBegin
    <3>1. thr'[Main].nextHandle = thr[Main].nextHandle
      BY <2>1, <2>5, SplitBeginIs DEF NoNewHandle
    <3>2. PICK h \in OpenFiles, k \in DOMAIN fmap :
            \/ UNCHANGED fmap
            \/ fmap' = [fmap EXCEPT ![k] =
                     [fh |-> h, file |-> fmap[k].file, split |-> thr[Main].nextMid,
                      handle |-> fmap[k].handle]]
      BY <2>1, <2>5, SplitBeginIs
    <3>3. DOMAIN fmap' = DOMAIN fmap /\ \A i \in DOMAIN fmap : fmap'[i].handle = fmap[i].handle
      <4>1. CASE UNCHANGED fmap
        BY <4>1
      <4>2. CASE fmap' = [fmap EXCEPT ![k] =
                     [fh |-> h, file |-> fmap[k].file, split |-> thr[Main].nextMid,
                      handle |-> fmap[k].handle]]
        BY <4>2, SplitEntryIs
      <4> QED
        BY <3>2, <4>1, <4>2
    <3>4. Alone(Main)' <=> Alone(Main)
      BY <2>1 DEF Alone
    <3> QED
      BY <2>1, <3>1, <3>3, <3>4 DEF HandlesOnce
  <2>6. CASE MPI_File_delete \/ Blocking \/ Nonblocking \/ MPI_Wait \/ SplitEnd
    <3>1. UNCHANGED fmap /\ NoNewHandle
      BY <2>1, <2>6, WholeCalls, NonblockingIs, WaitIs, SplitEndIs DEF mpiVars
    <3> QED
      BY <2>1, <3>1, HandlesStay DEF NoNewHandle
  <2> QED
    BY <1>1, <2>3, <2>4, <2>5, <2>6 DEF MpiKind
<1>2. ASSUME NEW t \in team, UNCHANGED mpiVars, ENTER_IOFUNC(t)
      PROVE  HandlesOnce'
  <2>1. PICK c \in CallType :
          /\ Entered(t, c)
          /\ (~c.recorded /\ UNCHANGED <<thr, io>>) \/ EnterRecorded(t, c)
    BY <1>0, <1>2, EnterIs
  <2>2. UNCHANGED <<table, fmap>> /\ team' = team
    BY <1>2, <2>1 DEF Entered, mpiVars, team
  <2>3. thr'[Main].nextHandle = thr[Main].nextHandle
    BY <1>0, <2>1 DEF EnterRecorded
  <2> QED
    BY <2>2, <2>3, HandlesStay
<1>3. ASSUME NEW t \in team, UNCHANGED mpiVars, CALL_LIBFUNC(t) \/ UntracedStep(t)
      PROVE  HandlesOnce'
  <2>1. CASE CALL_LIBFUNC(t)
    BY <1>3, <2>1, HandlesStay DEF CALL_LIBFUNC, recVars, team, mpiVars
  <2>2. CASE UntracedStep(t)
    <3>1. UNCHANGED <<table, thr, fmap>> /\ team' = team
      BY <1>3, <2>2, UntracedIs DEF mpiVars, team
    <3> QED
      BY <3>1, HandlesStay
  <2> QED
    BY <1>3, <2>1, <2>2
<1>4. ASSUME NEW t \in team, UNCHANGED mpiVars, LeaveStep(t)
      PROVE  HandlesOnce'
  <2>1. UNCHANGED fmap /\ team' = team
    BY <1>0, <1>4, LeaveIs DEF Leaves, mpiVars, team
  <2>2. CASE UNCHANGED <<table, thr, blind>>
    BY <2>1, <2>2, HandlesStay
  <2>3. CASE Learns(t)
    <3>1. Alone(Main)' <=> Alone(Main)
      BY <2>1 DEF Alone
    <3>2. SUFFICES ASSUME Alone(Main)
                   PROVE  HandlesOnce'
      BY <3>1 DEF HandlesOnce
    <3>3. t = Main
      BY <3>2 DEF Alone
    <3>4. PICK n \in Nat \ {0} : n = thr[Main].nextHandle
      BY MainIs
    <3>5. thr'[Main].nextHandle = n + 1
      <4>1. thr' = [thr EXCEPT ![Main] = NextHandle(thr[Main])]
        BY <2>3, <3>3 DEF Learns
      <4>2. thr'[Main] = NextHandle(thr[Main])
        BY <1>0, <4>1
      <4> QED
        BY <3>4, <4>2, MainIs, CountersAre
    <3>6. PICK r \in Fds : /\ table'[r].handle = n
                           /\ \A f \in Fds : f # r => table'[f] = table[f]
      <4>1. call[t].result \in Fds /\ table \in [Fds -> TableEntry]
        BY <2>3, CallIs DEF Learns, Types, WrapTypes
      <4> QED
        BY <2>3, <3>3, <3>4, <4>1 DEF Learns
    <3>7. /\ \A f \in Fds : table[f].handle < n
          /\ \A f, g \in Fds : f # g /\ table[f].handle = table[g].handle => table[f].handle = 0
          /\ \A f \in Fds : \A k \in DOMAIN fmap : table[f].handle # fmap[k].handle
          /\ \A k \in DOMAIN fmap : fmap[k].handle < n
          /\ \A j, k \in DOMAIN fmap : j # k => fmap[j].handle # fmap[k].handle
      BY <3>2, <3>4 DEF HandlesOnce
    <3>8. \A f \in Fds : table[f].handle \in Nat
      BY Numbers
    <3>9. \A k \in DOMAIN fmap : fmap[k].handle \in Nat
      <4>1. \A k \in DOMAIN fmap : fmap[k] \in MpiEntry
        BY DEF Types, MpiTypes
      <4>2. \A e \in MpiEntry : e.handle \in Nat
        BY DEF MpiEntry
      <4> QED
        BY <4>1, <4>2
    <3>10. \A f \in Fds : table'[f].handle < n + 1 /\ (f # r => table'[f].handle = table[f].handle)
      BY <3>6, <3>7, <3>8
    <3>11. \A f, g \in Fds : f # g /\ table'[f].handle = table'[g].handle => table'[f].handle = 0
      BY <3>6, <3>7, <3>8, <3>10
    <3>12. \A f \in Fds : \A k \in DOMAIN fmap : table'[f].handle # fmap[k].handle
      BY <3>6, <3>7, <3>9, <3>10
    <3>13. \A k \in DOMAIN fmap : fmap[k].handle < n + 1
      BY <3>7, <3>9
    <3> QED
      BY <2>1, <3>5, <3>7, <3>10, <3>11, <3>12, <3>13 DEF HandlesOnce
  <2> QED
    BY <1>0, <1>4, <2>2, <2>3, LeaveIs
<1>5. ASSUME NEW t \in team, UNCHANGED <<wrapVars, mpiVars>>, ControlStep(t)
      PROVE  HandlesOnce'
  <2>1. UNCHANGED <<table, fmap>> /\ team' = team
    BY <1>5, ControlIs DEF wrapVars, mpiVars, team
  <2>2. thr'[Main].nextHandle = thr[Main].nextHandle
    BY <1>0, <1>5, ControlIs
  <2> QED
    BY <2>1, <2>2, HandlesStay
<1> QED
  BY <1>1, <1>2, <1>3, <1>4, <1>5, NextIs

------------------------------------------------------------------------------
(* The matching ids. *)

\* The next matching id is that of no operation under way.
LEMMA MidIsNew ==
  ASSUME Types, StreamsRight, NEW t \in team
  PROVE  thr[t].nextMid \notin io[t].open /\ io[t].open \subseteq Nat
<1>1. io[t].open \subseteq Nat /\ thr[t].nextMid \in Nat
  BY Numbers DEF Types, RecTypes, StreamType
<1>2. \A m \in io[t].open : m < thr[t].nextMid
  BY DEF StreamsRight
<1> QED
  BY <1>1, <1>2

\* A step that leaves the calls, the streams, and what is kept of MPI's files.
LEMMA IdsStay ==
  ASSUME IdsInv, team' = team, UNCHANGED <<io, mpiVars>>,
         \A s \in team : /\ (Recording(s)' => Recording(s) /\ call'[s].mid = call[s].mid)
                         /\ thr'[s].nextMid = thr[s].nextMid
                         /\ (thr'[s].on = thr[s].on \/ ~Recording(s)),
         Main \in team
  PROVE  IdsInv'
<1>1. StreamsRight'
  BY DEF IdsInv, StreamsRight
<1>2. \A k : Splitting(k)' <=> Splitting(k)
  BY DEF Splitting, mpiVars
<1>3. IdsApart'
  BY <1>2 DEF IdsInv, IdsApart, mpiVars
<1>4. CallApart'
  BY <1>2 DEF IdsInv, CallApart, mpiVars
<1> QED
  BY <1>1, <1>3, <1>4 DEF IdsInv

\* The beginning of a wrapper: the id is a new one.
LEMMA EnterIds ==
  ASSUME Types, IdsInv, NEW t \in team, NEW c \in CallType, Entered(t, c),
         (~c.recorded /\ UNCHANGED <<thr, io>>) \/ EnterRecorded(t, c), UNCHANGED mpiVars
  PROVE  IdsInv'
<1>0. /\ StreamsRight /\ IdsApart /\ CallApart /\ Main \in team
      /\ \A s \in team : thr[s].nextMid \in Nat /\ io[s].open \subseteq Nat
      /\ ~Working(t) /\ c.recorded \in BOOLEAN
  BY MidIsNew, Numbers, MainIs DEF IdsInv, Entered, CallType
<1>1. /\ team' = team /\ call'[t] = c
      /\ \A s \in team : s # t => call'[s] = call[s] /\ (Working(s)' <=> Working(s))
  BY OthersStay DEF Entered
<1>2. /\ \A s \in team : s # t => (Recording(s)' <=> Recording(s)) /\ call'[s] = call[s]
      /\ Recording(t)' => c.recorded
  BY <1>1 DEF Recording
<1>3. \A k : Splitting(k)' <=> Splitting(k)
  BY DEF Splitting, mpiVars
<1>4. CASE ~c.recorded
  <2>1. UNCHANGED <<thr, io>>
    BY <1>4 DEF EnterRecorded
  <2>2. ~Recording(t)'
    BY <1>2, <1>4
  <2> QED
    BY <1>0, <1>1, <1>2, <2>1, <2>2, IdsStay
<1>5. CASE EnterRecorded(t, c)
  <2>1. /\ thr[t].on /\ c.mid = thr[t].nextMid
        /\ \A s \in team : s # t => io'[s] = io[s] /\ thr'[s] = thr[s]
        /\ thr'[t].on = thr[t].on /\ thr'[t].nextMid = thr[t].nextMid + 1
        /\ io'[t].open = io[t].open \cup {thr[t].nextMid} /\ io'[t].last = NoEnd
    BY <1>5 DEF EnterRecorded
  <2>2. \A s \in team : io[s].open \subseteq io'[s].open
    BY <2>1
  <2>3. \A m \in io'[t].open : m < thr'[t].nextMid
    BY <1>0, <2>1 DEF StreamsRight
  <2>4. \A s \in team : Recording(s)' => thr'[s].on /\ call'[s].mid \in io'[s].open
    <3>1. thr'[t].on /\ call'[t].mid \in io'[t].open
      BY <1>1, <2>1
    <3> QED
      BY <1>0, <1>2, <2>1, <3>1 DEF StreamsRight
  <2>5. io'[t].last.matched
    BY <2>1 DEF NoEnd
  <2>6. StreamsRight'
    BY <1>0, <1>1, <2>1, <2>3, <2>4, <2>5 DEF StreamsRight
  <2>7. IdsApart'
    BY <1>0, <1>3, <2>2 DEF IdsApart, mpiVars
  <2>8. CallApart'
    <3>1. CASE t = Main
      <4>1. call'[Main].mid \notin io[Main].open
        BY <1>0, <1>1, <2>1, <3>1, MidIsNew
      <4>2. /\ \A q \in requests : q.mid # call'[Main].mid
            /\ \A k \in DOMAIN fmap : Splitting(k) => fmap[k].split # call'[Main].mid
        BY <1>0, <4>1 DEF IdsApart
      <4> QED
        BY <1>3, <4>2 DEF CallApart, mpiVars
    <3>2. CASE t # Main
      BY <1>0, <1>2, <1>3, <3>2 DEF CallApart, mpiVars
    <3> QED
      BY <3>1, <3>2
  <2> QED
    BY <2>6, <2>7, <2>8 DEF IdsInv
<1> QED
  BY <1>4, <1>5

\* The end of a wrapper: it ends the operation it began.
LEMMA LeaveIds ==
  ASSUME Types, WellFormed, IdsInv, NEW t \in team, LeaveStep(t), UNCHANGED mpiVars
  PROVE  IdsInv'
<1>0. StreamsRight /\ IdsApart /\ CallApart /\ Main \in team /\ thr \in [team -> ThreadType]
  BY MainIs DEF IdsInv
<1>1. PICK file \in AnyFile, mid \in Int, handle \in Nat :
        Leaves(t, file, mid, handle) /\ (call[t].fn # "lockf" => mid = call[t].mid)
  BY LeaveIs
<1>2. /\ team' = team /\ Working(t) /\ End(t, file, mid, handle) /\ program' = program
      /\ call' = [call EXCEPT ![t] = Idle] /\ call[t].fn \in Fns
  BY <1>1 DEF Leaves, Proceeds, Return, Working, team, WellFormed, Formed
<1>3. /\ \A s \in team : s # t => io'[s] = io[s]
      /\ (io'[t] = io[t] /\ ~(call[t].recorded /\ thr[t].on)) \/ EndWritten(t, file, mid)
  BY <1>2, EndIs
<1>4. /\ call'[t] = Idle
      /\ \A s \in team : s # t => call'[s] = call[s] /\ (Working(s)' <=> Working(s))
  BY <1>2, OthersStay
<1>5. /\ \A s \in team : s # t => (Recording(s)' <=> Recording(s)) /\ call'[s] = call[s]
      /\ ~Recording(t)'
  BY <1>4 DEF Recording, Working, Idle
<1>6. \A s \in team : thr'[s].on = thr[s].on /\ thr'[s].nextMid = thr[s].nextMid
  <2>1. CASE UNCHANGED <<table, thr, blind>>
    BY <2>1
  <2>2. CASE Learns(t)
    <3>1. thr' = [thr EXCEPT ![t] = NextHandle(thr[t])]
      BY <2>2 DEF Learns
    <3>2. thr'[t] = NextHandle(thr[t]) /\ \A s \in team : s # t => thr'[s] = thr[s]
      BY <1>0, <3>1
    <3>3. NextHandle(thr[t]).on = thr[t].on /\ NextHandle(thr[t]).nextMid = thr[t].nextMid
      BY <1>0, CountersAre
    <3> QED
      BY <3>2, <3>3
  <2> QED
    BY <2>1, <2>2, LeaveIs
<1>7. \A k : Splitting(k)' <=> Splitting(k)
  BY DEF Splitting, mpiVars
<1>8. /\ io'[t].open = io[t].open \/ (Recording(t) /\ io'[t].open = io[t].open \ {call[t].mid})
      /\ io'[t].last.fn = "lockf" \/ io'[t].last.matched
  <2>1. CASE io'[t] = io[t]
    BY <1>0, <2>1 DEF StreamsRight
  <2>2. CASE EndWritten(t, file, mid)
    <3>1. Recording(t) /\ call[t].mid \in io[t].open
      BY <1>0, <1>2, <2>2 DEF EndWritten, Recording, StreamsRight
    <3>2. CASE call[t].fn = "lockf"
      BY <2>2, <3>2 DEF EndWritten
    <3>3. CASE call[t].fn # "lockf"
      <4>1. mid = call[t].mid
        BY <1>1, <3>3
      <4>2. io'[t].open = io[t].open \ {call[t].mid} /\ io'[t].last.matched
        BY <2>2, <3>1, <3>3, <4>1 DEF EndWritten
      <4> QED
        BY <3>1, <4>2
    <3> QED
      BY <3>2, <3>3
  <2> QED
    BY <1>3, <2>1, <2>2
<1>9. io'[t].open \subseteq io[t].open
  BY <1>8
<1>10. StreamsRight'
  <2>1. \A s \in team : \A m \in io'[s].open : m < thr'[s].nextMid
    BY <1>0, <1>3, <1>6, <1>9 DEF StreamsRight
  <2>2. \A s \in team : Recording(s)' => thr'[s].on /\ call'[s].mid \in io'[s].open
    BY <1>0, <1>3, <1>5, <1>6 DEF StreamsRight
  <2>3. \A s \in team : io'[s].last.fn = "lockf" \/ io'[s].last.matched
    BY <1>0, <1>3, <1>8 DEF StreamsRight
  <2> QED
    BY <1>2, <2>1, <2>2, <2>3 DEF StreamsRight
<1>11. IdsApart'
  <2>1. /\ \A q \in requests : q.mid \in io'[Main].open
        /\ \A k \in DOMAIN fmap : Splitting(k) => fmap[k].split \in io'[Main].open
    <3>1. CASE t = Main
      BY <1>0, <1>8, <3>1 DEF IdsApart, CallApart
    <3>2. CASE t # Main
      BY <1>0, <1>3, <3>2 DEF IdsApart
    <3> QED
      BY <3>1, <3>2
  <2> QED
    BY <1>0, <1>7, <2>1 DEF IdsApart, mpiVars
<1>12. CallApart'
  BY <1>0, <1>5, <1>7 DEF CallApart, mpiVars
<1> QED
  BY <1>10, <1>11, <1>12 DEF IdsInv

\* The streams after a call of MPI-IO that ends nothing, or what is under way.
LEMMA MpiStreams ==
  ASSUME Types, StreamsRight, MpiStep, MainOnly,
         \/ Silent \/ Whole \/ Begins
         \/ \E mid \in io[Main].open : Ends(mid)
  PROVE  StreamsRight'
<1>0. /\ Main \in team /\ team' = team /\ UNCHANGED call /\ ~Working(Main)
      /\ \A s \in team : s # Main => io'[s] = io[s] /\ thr'[s] = thr[s]
      /\ thr'[Main].on = thr[Main].on
      /\ thr[Main].nextMid \in Nat /\ io[Main].open \subseteq Nat
      /\ thr[Main].nextMid \notin io[Main].open
      /\ \A m \in io[Main].open : m < thr[Main].nextMid
  BY MainIs, MidIsNew DEF MpiStep, MainOnly, wrapVars, team, StreamsRight
<1>1. \A s \in team : (Recording(s)' <=> Recording(s)) /\ call'[s] = call[s]
  BY <1>0 DEF Recording, Working
<1>2. ~Recording(Main)
  BY <1>0 DEF Recording
<1>3. (\A m \in io'[Main].open : m < thr'[Main].nextMid)
      /\ (io'[Main].last.fn = "lockf" \/ io'[Main].last.matched)
  <2>1. CASE Silent
    BY <1>0, <2>1 DEF Silent, StreamsRight
  <2>2. CASE Whole
    BY <1>0, <2>2 DEF Whole
  <2>3. CASE Begins
    BY <1>0, <2>3 DEF Begins, NoEnd
  <2>4. CASE \E mid \in io[Main].open : Ends(mid)
    BY <1>0, <2>4 DEF Ends
  <2> QED
    BY <2>1, <2>2, <2>3, <2>4
<1>4. \A s \in team : \A m \in io'[s].open : m < thr'[s].nextMid
  BY <1>0, <1>3 DEF StreamsRight
<1>5. \A s \in team : Recording(s)' => thr'[s].on /\ call'[s].mid \in io'[s].open
  BY <1>0, <1>1, <1>2 DEF StreamsRight
<1>6. \A s \in team : io'[s].last.fn = "lockf" \/ io'[s].last.matched
  BY <1>0, <1>3 DEF StreamsRight
<1> QED
  BY <1>0, <1>4, <1>5, <1>6 DEF StreamsRight

\* A call that is complete, or not recorded, leaves the operations under way.
LEMMA QuietIs ==
  ASSUME Types, StreamsRight, Silent \/ Whole
  PROVE  io'[Main].open = io[Main].open
BY MainIs, MidIsNew DEF Silent, Whole

\* The ids of requests and split collectives after a call of MPI-IO.
LEMMA MpiIds ==
  ASSUME Types, MpiFilesInv, MatchInv, MpiStep, MpiKind
  PROVE  MatchInv'
<1>0. /\ Main \in team /\ ~aborted /\ ~Working(Main) /\ UNCHANGED call
      /\ Null \notin Handles
      /\ \A k \in DOMAIN fmap : fmap[k].fh \in Handles \cup {Null}
      /\ begun \in [Handles -> {"no", "yes", "recorded"}] /\ requests \in SUBSET Request
  <2>1. \A k \in DOMAIN fmap : fmap[k] \in MpiEntry
    BY DEF Types, MpiTypes
  <2>2. \A e \in MpiEntry : e.fh \in Handles \cup {Null}
    BY DEF MpiEntry
  <2> QED
    BY <2>1, <2>2, MainIs, HandlesAssumption DEF Types, MpiTypes, MpiStep, wrapVars
<1>1. MainOnly
  BY <1>0, MpiMain
<1>2. CallApart'
  BY <1>0 DEF CallApart, Recording, Working
<1>3. careless' \in BOOLEAN /\ careless \in BOOLEAN /\ (careless => careless')
  <2>1. CASE SplitEnd
    <3>1. \/ UNCHANGED careless
          \/ \E h \in Handles : careless' = (careless \/ begun[h] = "yes")
      BY <1>0, <2>1, SplitEndIs
    <3> QED
      BY <3>1 DEF Types, MpiTypes
  <2>2. CASE ~SplitEnd
    <3>1. UNCHANGED careless
      BY <1>0, <2>2, OpenIs, CloseIs, WholeCalls, NonblockingIs, WaitIs, SplitBeginIs
         DEF MpiKind, mpiVars
    <3> QED
      BY <3>1 DEF Types, MpiTypes
  <2> QED
    BY <2>1, <2>2
<1>4. SUFFICES ASSUME ~careless', StreamsRight, IdsApart
               PROVE  StreamsRight' /\ IdsApart'
  BY <1>2, <1>3 DEF MatchInv, IdsInv
<1>5. thr[Main].nextMid \notin io[Main].open
  BY <1>0, <1>4, MidIsNew
<1>6. ASSUME Silent \/ Whole
      PROVE  StreamsRight' /\ io'[Main].open = io[Main].open
  BY <1>1, <1>4, <1>6, MpiStreams, QuietIs
<1>7. CASE MPI_File_open
  <2>1. (Silent \/ Whole) /\ UNCHANGED <<begun, requests>>
    BY <1>0, <1>7, OpenIs
  <2>2. PICK file \in Files, h \in Handles \cup {Null} :
          /\ h # Null => mpi[h] = "none"
          /\ \/ UNCHANGED fmap
             \/ fmap' = Append(fmap, [fh |-> h, file |-> file, split |-> 0,
                                      handle |-> thr[Main].nextHandle])
    BY <1>0, <1>7, OpenIs
  <2>3. h # Null => begun[h] = "no"
    BY <1>0, <2>2 DEF MpiFilesInv, OpenFiles
  <2>4. \A k \in DOMAIN fmap' : Splitting(k)' =>
          k \in DOMAIN fmap /\ Splitting(k) /\ fmap'[k] = fmap[k]
    <3>1. CASE UNCHANGED fmap
      BY <2>1, <3>1 DEF Splitting
    <3>2. CASE fmap' = Append(fmap, [fh |-> h, file |-> file, split |-> 0,
                                     handle |-> thr[Main].nextHandle])
      <4>1. PICK e \in MpiEntry : e = [fh |-> h, file |-> file, split |-> 0,
                                       handle |-> thr[Main].nextHandle]
        BY MainIs DEF MpiEntry
      <4>2. e.fh = h
        BY <4>1
      <4>3. PICK n \in Nat :
              /\ DOMAIN fmap = 1 .. n /\ DOMAIN fmap' = 1 .. n + 1 /\ fmap'[n + 1] = e
              /\ \A i \in 1 .. n : fmap'[i] = fmap[i]
        BY <3>2, <4>1, AppendedIs
      <4>4. \A k \in DOMAIN fmap' : k = n + 1 \/ (k \in DOMAIN fmap /\ fmap'[k] = fmap[k])
        BY <4>3
      <4>5. ~Splitting(n + 1)'
        BY <2>1, <2>3, <4>2, <4>3 DEF Splitting
      <4> QED
        BY <2>1, <4>4, <4>5 DEF Splitting
    <3> QED
      BY <2>2, <3>1, <3>2
  <2> QED
    BY <1>4, <1>6, <2>1, <2>4 DEF IdsApart
<1>8. CASE MPI_File_close
  <2>1. (Silent \/ Whole) /\ UNCHANGED <<begun, requests>>
    BY <1>0, <1>8, CloseIs
  <2>2. PICK k \in DOMAIN fmap : Removed(k)
    BY <1>0, <1>8, CloseIs
  <2>3. /\ \A i \in DOMAIN fmap' : From(i, k) \in DOMAIN fmap /\ fmap'[i] = fmap[From(i, k)]
        /\ \A i, j \in DOMAIN fmap' : From(i, k) = From(j, k) => i = j
    BY <2>2, RemovedIs
  <2>4. \A i \in DOMAIN fmap' : Splitting(i)' <=> Splitting(From(i, k))
    BY <2>1, <2>3 DEF Splitting
  <2>5. /\ \A i \in DOMAIN fmap' : Splitting(i)' => fmap'[i].split \in io[Main].open
        /\ \A q \in requests : \A i \in DOMAIN fmap' : Splitting(i)' => q.mid # fmap'[i].split
    BY <1>4, <2>3, <2>4 DEF IdsApart
  <2>6. \A i, j \in DOMAIN fmap' :
          Splitting(i)' /\ Splitting(j)' /\ fmap'[i].split = fmap'[j].split => i = j
    BY <1>4, <2>3, <2>4 DEF IdsApart
  <2> QED
    BY <1>4, <1>6, <2>1, <2>5, <2>6 DEF IdsApart
<1>9. CASE MPI_File_delete \/ Blocking
  <2>1. (Silent \/ Whole) /\ UNCHANGED mpiVars
    BY <1>0, <1>9, WholeCalls
  <2>2. \A k : Splitting(k)' <=> Splitting(k)
    BY <2>1 DEF Splitting, mpiVars
  <2> QED
    BY <1>4, <1>6, <2>1, <2>2 DEF IdsApart, mpiVars
<1>10. CASE Nonblocking
  <2>1. UNCHANGED <<mpi, fmap, begun, careless, aborted>>
    BY <1>0, <1>10, NonblockingIs
  <2>2. \A k : Splitting(k)' <=> Splitting(k)
    BY <2>1 DEF Splitting
  <2>3. CASE (Silent \/ Whole) /\ UNCHANGED requests
    BY <1>4, <1>6, <2>1, <2>2, <2>3 DEF IdsApart
  <2>4. CASE Begins /\ \E q \in Request : /\ q.mid = thr[Main].nextMid
                                          /\ requests' = requests \cup {q}
    <3>1. PICK q : q.mid = thr[Main].nextMid /\ requests' = requests \cup {q}
      BY <2>4
    <3>2. StreamsRight' /\ io'[Main].open = io[Main].open \cup {q.mid} /\ q.mid \notin io[Main].open
      BY <1>1, <1>4, <1>5, <2>4, <3>1, MpiStreams DEF Begins
    <3> QED
      BY <1>4, <2>1, <2>2, <3>1, <3>2 DEF IdsApart
  <2> QED
    BY <1>0, <1>10, <2>3, <2>4, NonblockingIs
<1>11. CASE MPI_Wait
  <2>1. UNCHANGED <<mpi, fmap, begun, careless, aborted>>
    BY <1>0, <1>11, WaitIs
  <2>2. \A k : Splitting(k)' <=> Splitting(k)
    BY <2>1 DEF Splitting
  <2>3. PICK q \in requests : (Silent \/ Ends(q.mid)) /\ requests' = requests \ {q}
    BY <1>0, <1>11, WaitIs
  <2>4. CASE Silent
    BY <1>4, <1>6, <2>1, <2>2, <2>3, <2>4 DEF IdsApart
  <2>5. CASE Ends(q.mid)
    <3>1. q.mid \in io[Main].open
      BY <1>4 DEF IdsApart
    <3>2. StreamsRight' /\ io'[Main].open = io[Main].open \ {q.mid}
      BY <1>1, <1>4, <2>5, <3>1, MpiStreams DEF Ends
    <3> QED
      BY <1>4, <2>1, <2>2, <2>3, <3>2 DEF IdsApart
  <2> QED
    BY <2>3, <2>4, <2>5
<1>12. CASE SplitBegin
  <2>1. UNCHANGED <<mpi, requests, careless, aborted>>
    BY <1>0, <1>12, SplitBeginIs
  <2>2. PICK h \in OpenFiles, k \in DOMAIN fmap :
          /\ h \in Handles /\ h # Null /\ fmap[k].fh = h /\ begun[h] = "no"
          /\ \/ Silent /\ UNCHANGED fmap /\ begun' = [begun EXCEPT ![h] = "no"]
             \/ Silent /\ UNCHANGED fmap /\ begun' = [begun EXCEPT ![h] = "yes"]
             \/ /\ Begins
                /\ begun' = [begun EXCEPT ![h] = "no"]
                   \/ begun' = [begun EXCEPT ![h] = "recorded"]
                /\ fmap' = [fmap EXCEPT ![k] =
                     [fh |-> h, file |-> fmap[k].file, split |-> thr[Main].nextMid,
                      handle |-> fmap[k].handle]]
    BY <1>0, <1>12, SplitBeginIs
  <2>3. \A g \in Handles : g # h => begun'[g] = begun[g]
    BY <1>0, <2>2
  <2>4. CASE Silent /\ UNCHANGED fmap /\ begun'[h] # "recorded"
    <3>1. \A j \in DOMAIN fmap : Splitting(j)' => Splitting(j)
      BY <1>0, <2>2, <2>3, <2>4 DEF Splitting
    <3> QED
      BY <1>4, <1>6, <2>1, <2>4, <3>1 DEF IdsApart
  <2>5. CASE Begins /\ fmap' = [fmap EXCEPT ![k] =
                     [fh |-> h, file |-> fmap[k].file, split |-> thr[Main].nextMid,
                      handle |-> fmap[k].handle]]
    <3>1. /\ DOMAIN fmap' = DOMAIN fmap /\ fmap'[k].split = thr[Main].nextMid
          /\ \A j \in DOMAIN fmap : j # k => fmap'[j] = fmap[j]
      BY <2>5, SplitEntryIs
    <3>2. \A j \in DOMAIN fmap : j # k /\ Splitting(j)' => Splitting(j) /\ fmap'[j] = fmap[j]
      <4>1. \A j \in DOMAIN fmap : j # k => fmap[j].fh # h
        BY <2>2 DEF MpiFilesInv
      <4> QED
        BY <1>0, <2>3, <3>1, <4>1 DEF Splitting
    <3>3. /\ StreamsRight' /\ io'[Main].open = io[Main].open \cup {thr[Main].nextMid}
      BY <1>1, <1>4, <2>5, MpiStreams DEF Begins
    <3>4. \A q \in requests : q.mid \in io[Main].open
      BY <1>4 DEF IdsApart
    <3>5. \A j \in DOMAIN fmap : j # k /\ Splitting(j)' => fmap'[j].split \in io[Main].open
      BY <1>4, <3>2 DEF IdsApart
    <3>6. \A q \in requests : \A j \in DOMAIN fmap : Splitting(j)' => q.mid # fmap'[j].split
      BY <1>4, <1>5, <3>1, <3>2, <3>4 DEF IdsApart
    <3>7. \A i, j \in DOMAIN fmap :
            Splitting(i)' /\ Splitting(j)' /\ fmap'[i].split = fmap'[j].split => i = j
      BY <1>4, <1>5, <3>1, <3>2, <3>5 DEF IdsApart
    <3> QED
      BY <1>4, <2>1, <3>1, <3>3, <3>4, <3>5, <3>6, <3>7 DEF IdsApart
  <2> QED
    BY <1>0, <2>2, <2>4, <2>5
<1>13. CASE SplitEnd
  <2>1. UNCHANGED <<mpi, fmap, requests, aborted>>
    BY <1>0, <1>13, SplitEndIs
  <2>2. PICK h \in OpenFiles, k \in DOMAIN fmap :
          /\ h \in Handles /\ h # Null /\ fmap[k].fh = h /\ begun[h] # "no"
          /\ begun' = [begun EXCEPT ![h] = "no"]
          /\ \/ Silent /\ UNCHANGED careless
             \/ Ends(fmap[k].split) /\ careless' = (careless \/ begun[h] = "yes")
    BY <1>0, <1>13, SplitEndIs
  <2>3. \A j \in DOMAIN fmap : Splitting(j)' => Splitting(j) /\ j # k
    BY <1>0, <2>1, <2>2 DEF Splitting
  <2>4. CASE Silent
    BY <1>4, <1>6, <2>1, <2>3, <2>4 DEF IdsApart
  <2>5. CASE Ends(fmap[k].split) /\ careless' = (careless \/ begun[h] = "yes")
    <3>1. begun[h] = "recorded"
      BY <1>0, <1>4, <2>2, <2>5
    <3>2. Splitting(k) /\ fmap[k].split \in io[Main].open
      BY <1>4, <2>2, <3>1 DEF Splitting, IdsApart
    <3>3. StreamsRight' /\ io'[Main].open = io[Main].open \ {fmap[k].split}
      BY <1>1, <1>4, <2>5, <3>2, MpiStreams DEF Ends
    <3> QED
      BY <1>4, <2>1, <2>3, <3>2, <3>3 DEF IdsApart
  <2> QED
    BY <2>2, <2>4, <2>5
<1> QED
  BY <1>7, <1>8, <1>9, <1>10, <1>11, <1>12, <1>13 DEF MpiStep, MpiKind

\* The operations under way are the ones begun, after every step.
LEMMA MatchNext ==
  ASSUME Types, DescriptorsInv, MpiFilesInv, MatchInv, Next
  PROVE  MatchInv'
<1>0. os[0] = "stdin" /\ WellFormed /\ Main \in team
  BY MainIs DEF DescriptorsInv, Apart
<1>1. CASE MpiStep /\ MpiKind
  BY <1>1, MpiIds
<1>2. ASSUME NEW t \in team, UNCHANGED mpiVars, IdsInv,
             ENTER_IOFUNC(t) \/ CALL_LIBFUNC(t) \/ LeaveStep(t) \/ UntracedStep(t)
      PROVE  IdsInv'
  <2>1. CASE ENTER_IOFUNC(t)
    <3>1. PICK c \in CallType :
            /\ Entered(t, c)
            /\ (~c.recorded /\ UNCHANGED <<thr, io>>) \/ EnterRecorded(t, c)
      BY <1>0, <2>1, EnterIs
    <3> QED
      BY <1>2, <3>1, EnterIds
  <2>2. CASE CALL_LIBFUNC(t)
    <3>1. PICK d \in CallType : Reached(t, d)
      BY <1>0, <2>2, CallLibIs
    <3>2. team' = team /\ UNCHANGED <<io, thr>>
      BY <3>1 DEF Reached, recVars, team
    <3>3. \A s \in team : call'[s] = IF s = t THEN d ELSE call[s]
      BY <3>1 DEF Reached, Types, WrapTypes
    <3>4. \A s \in team : Recording(s)' => Recording(s) /\ call'[s].mid = call[s].mid
      BY <3>1, <3>3 DEF Reached, Recording, Working
    <3> QED
      BY <1>0, <1>2, <3>2, <3>4, IdsStay
  <2>3. CASE LeaveStep(t)
    BY <1>0, <1>2, <2>3, LeaveIds
  <2>4. CASE UntracedStep(t)
    <3>1. team' = team /\ UNCHANGED <<call, thr, io>>
      BY <2>4, UntracedIs DEF team
    <3>2. \A s \in team : Recording(s)' => Recording(s) /\ call'[s].mid = call[s].mid
      BY <3>1 DEF Recording, Working
    <3> QED
      BY <1>0, <1>2, <3>1, <3>2, IdsStay
  <2> QED
    BY <1>2, <2>1, <2>2, <2>3, <2>4
<1>3. ASSUME NEW t \in team, UNCHANGED <<wrapVars, mpiVars>>, ControlStep(t), IdsInv
      PROVE  IdsInv'
  <2>1. team' = team /\ UNCHANGED <<call, io, mpiVars>>
    BY <1>3, ControlIs DEF wrapVars, team
  <2>2. \A s \in team : s # t => thr'[s] = thr[s]
    BY <1>3, ControlIs
  <2>3. thr'[t].nextMid = thr[t].nextMid /\ (thr'[t].on = thr[t].on \/ ~Working(t))
    BY <1>3, ControlIs
  <2>4. \A s \in team : Recording(s)' => Recording(s) /\ call'[s].mid = call[s].mid
    BY <2>1 DEF Recording, Working
  <2>5. \A s \in team : /\ thr'[s].nextMid = thr[s].nextMid
                        /\ thr'[s].on = thr[s].on \/ ~Recording(s)
    BY <2>2, <2>3 DEF Recording
  <2> QED
    BY <1>0, <1>3, <2>1, <2>4, <2>5, IdsStay
<1>4. ASSUME NEW t \in team, UNCHANGED mpiVars,
             \/ ENTER_IOFUNC(t) \/ CALL_LIBFUNC(t) \/ LeaveStep(t) \/ UntracedStep(t)
             \/ UNCHANGED wrapVars /\ ControlStep(t)
      PROVE  MatchInv'
  <2>1. careless' = careless
    BY <1>4 DEF mpiVars
  <2> QED
    BY <1>2, <1>3, <1>4, <2>1 DEF MatchInv
<1> QED
  BY <1>1, <1>4, NextIs

------------------------------------------------------------------------------
(* The invariant. *)

\* Every step of the process, with its threads' calls in any order, keeps the
\* invariant.
LEMMA IInvNext ==
  ASSUME IInv, [Next]_vars
  PROVE  IInv'
<1>0. /\ Types /\ Counted /\ Suspensions /\ DescriptorsInv /\ EndsRight /\ HandlesOnce
      /\ MpiFilesInv /\ MatchInv /\ WellFormed /\ os[0] = "stdin"
  BY DEF IInv, DescriptorsInv, Apart
<1>1. CASE Next
  <2>1. Types'
    BY <1>0, <1>1, TypesNext
  <2>2. Counted' /\ Suspensions'
    BY <1>0, <1>1, <2>1, CountedNext, SuspensionsNext
  <2>3. DescriptorsInv' /\ EndsRight'
    BY <1>0, <1>1, DescriptorsNext, EndsRightNext
  <2>4. HandlesOnce' /\ MatchInv'
    BY <1>0, <1>1, HandlesNext, MatchNext
  <2>5. ~aborted /\ (MpiKind \/ UNCHANGED mpiVars)
    <3>1. UNCHANGED <<wrapVars, mpiVars>> => UNCHANGED mpiVars
      OBVIOUS
    <3> QED
      BY <1>1, <3>1, NextIs, Zenon
  <2>6. ASSUME UNCHANGED mpiVars
        PROVE  MpiFilesInv'
    <3>1. /\ UNCHANGED <<mpi, fmap, begun, requests, aborted>> /\ OpenFiles' = OpenFiles
      BY <2>6 DEF mpiVars, OpenFiles
    <3> QED
      BY <1>0, <3>1 DEF MpiFilesInv
  <2>7. MpiFilesInv'
    BY <1>0, <2>5, <2>6, MpiFilesNext
  <2> QED
    BY <2>1, <2>2, <2>3, <2>4, <2>7 DEF IInv
<1>2. CASE UNCHANGED vars
  <2>1. /\ UNCHANGED recVars /\ UNCHANGED wrapVars /\ UNCHANGED mpiVars /\ team' = team
    BY <1>2 DEF vars, recVars, team
  <2>2. Types' /\ Counted' /\ Suspensions' /\ EndsRight' /\ MpiFilesInv'
    BY <1>0, <2>1 DEF recVars, wrapVars, mpiVars, Types, RecTypes, WrapTypes, MpiTypes, Counted,
       Working, Suspensions, EndsRight, EndRight, MpiFilesInv, OpenFiles, team
  <2>3. DescriptorsInv'
    BY <1>0, <2>1, DescriptorsStay DEF recVars
  <2>4. HandlesOnce'
    BY <1>0, <2>1, HandlesStay DEF recVars, wrapVars, mpiVars
  <2>5. Main \in team
    BY <1>0, MainIs
  <2>6. MatchInv'
    <3>1. \A s \in team : Recording(s)' => Recording(s) /\ call'[s].mid = call[s].mid
      BY <2>1 DEF wrapVars, Recording, Working
    <3>2. IdsInv => IdsInv'
      BY <2>1, <2>5, <3>1, IdsStay DEF recVars
    <3> QED
      BY <1>0, <2>1, <3>2 DEF MatchInv, mpiVars
  <2> QED
    BY <2>2, <2>3, <2>4, <2>6 DEF IInv
<1> QED
  BY <1>1, <1>2

\* vt_iowrap_init and vt_mpifile_init: the standard input has the first handle.
LEMMA InitIInv == Init => IInv
<1> SUFFICES ASSUME Init PROVE IInv
  OBVIOUS
<1>1. /\ program \in Programs
      /\ thr = [t \in team |-> VTThrd_open(IF t = Main THEN 2 ELSE 1)]
      /\ io = [t \in team |-> [open |-> {}, last |-> NoEnd]]
      /\ made = 0 /\ switches = 0
      /\ os = [fd \in Fds |-> IF fd = 0 THEN "stdin" ELSE "none"]
      /\ table = [fd \in Fds |-> IF fd = 0 THEN [file |-> "stdin", handle |-> 1] ELSE NoEntry]
      /\ call = [t \in team |-> Idle] /\ blind = {}
      /\ mpi = [h \in Handles |-> "none"] /\ fmap = << >>
      /\ begun = [h \in Handles |-> "no"] /\ requests = {}
      /\ careless = FALSE /\ aborted = FALSE
  BY DEF Init, InitRecords, vt_iowrap_init, vt_mpifile_init, FirstHandle
<1>2. /\ Main \in team /\ program.calls \in Nat /\ program.suspensions \in Nat /\ 0 \in Fds
  BY <1>1, IoAssumption, FdsAssumption DEF team
<1>3. \A n \in {1, 2} : /\ VTThrd_open(n) \in ThreadType
                        /\ VTThrd_open(n).suspended = 0 /\ VTThrd_open(n).enabled
                        /\ VTThrd_open(n).nextMid = 1 /\ VTThrd_open(n).nextHandle = n
  BY DEF VTThrd_open, ThreadType
<1>4. NoEnd \in EndType /\ NoEnd.matched = TRUE /\ NoEnd.real = "none" /\ NoEnd.file = "none"
  BY DEF NoEnd, EndType, AnyFile, Special
<1>5. \A t \in team : /\ io[t] = [open |-> {}, last |-> NoEnd] /\ call[t] = Idle
                      /\ thr[t] = VTThrd_open(IF t = Main THEN 2 ELSE 1)
  BY <1>1
<1>6. \A t \in team : io[t] \in StreamType /\ io[t].open = {} /\ io[t].last = NoEnd
  <2>1. PICK s : s = [open |-> {}, last |-> NoEnd]
    OBVIOUS
  <2>2. s \in StreamType /\ s.open = {} /\ s.last = NoEnd
    BY <1>4, <2>1 DEF StreamType
  <2> QED
    BY <1>5, <2>1, <2>2
<1>7. \A t \in team : ~Working(t) /\ call[t].at = "idle" /\ Own(t) = {}
  BY <1>5 DEF Working, Idle, Own
<1>8. \A fd \in Fds : /\ os[fd] = IF fd = 0 THEN "stdin" ELSE "none"
                      /\ table[fd] \in TableEntry
                      /\ table[fd].handle = IF fd = 0 THEN 1 ELSE 0
  BY <1>1 DEF NoEntry, TableEntry, AnyFile, Special
<1>9. table[0].file = "stdin"
  BY <1>1, <1>2
<1>10. Types
  <2>1. thr \in [team -> ThreadType]
    BY <1>1, <1>3
  <2>2. io \in [team -> StreamType]
    BY <1>1, <1>6
  <2>3. RecTypes
    <3>1. made \in 0 .. program.calls /\ switches \in Nat /\ program \in Programs
      <4>1. made = 0 /\ switches = 0 /\ program \in Programs
        BY <1>1
      <4> QED
        BY <1>2, <4>1
    <3> QED
      BY <2>1, <2>2, <3>1 DEF RecTypes
  <2>4. os \in [Fds -> AnyFile]
    BY <1>1 DEF AnyFile, Special
  <2>5. table \in [Fds -> TableEntry]
    BY <1>1, <1>8
  <2>6. call \in [team -> CallType]
    BY <1>1, IdleType
  <2>7. WrapTypes
    BY <1>1, <2>4, <2>5, <2>6 DEF WrapTypes
  <2>8. fmap \in Seq(MpiEntry) /\ Len(fmap) <= MaxMpiFiles
    BY <1>1, HandlesAssumption
  <2>9. MpiTypes
    BY <1>1, <2>8 DEF MpiTypes
  <2> QED
    BY <2>3, <2>7, <2>9 DEF Types
<1>11. Counted
  <2>1. \A t \in team : /\ thr[t].suspended = 0 /\ thr[t].nextMid = 1
                        /\ thr[t].nextHandle \in {1, 2}
    BY <1>3, <1>5
  <2> QED
    BY <1>1, <1>2, <1>7, <1>8, <2>1 DEF Counted
<1>12. Suspensions
  <2>1. \A t \in team : thr[t].suspended = 0 /\ thr[t].enabled
    BY <1>3, <1>5
  <2> QED
    BY <2>1 DEF Suspensions
<1>13. DescriptorsInv
  <2>1. Apart /\ WellFormed /\ Worked
    BY <1>2, <1>7, <1>8 DEF Apart, WellFormed, Worked
  <2>2. Named
    <3>1. \A fd \in Fds : Live(fd) => fd = 0
      BY <1>8 DEF Live
    <3> QED
      BY <1>2, <1>8, <1>9, <3>1 DEF Named
  <2> QED
    BY <2>1, <2>2 DEF DescriptorsInv
<1>14. EndsRight
  BY <1>6, NoEndRight DEF EndsRight
<1>15. HandlesOnce
  <2>1. thr[Main].nextHandle = 2
    BY <1>2, <1>3, <1>5
  <2> QED
    BY <1>1, <1>8, <2>1 DEF HandlesOnce
<1>16. MpiFilesInv
  BY <1>1 DEF MpiFilesInv, OpenFiles
<1>17. StreamsRight
  BY <1>4, <1>6, <1>7 DEF StreamsRight, Recording
<1>18. IdsApart /\ CallApart
  BY <1>1 DEF IdsApart, CallApart
<1> QED
  BY <1>10, <1>11, <1>12, <1>13, <1>14, <1>15, <1>16, <1>17, <1>18 DEF IInv, MatchInv, IdsInv

\* The invariant holds in every state of the process.
THEOREM Invariant == Spec => []IInv
<1>1. Init => IInv
  BY InitIInv
<1>2. IInv /\ [Next]_vars => IInv'
  BY IInvNext
<1> QED
  BY <1>1, <1>2, PTL DEF Spec

------------------------------------------------------------------------------
(* What the runs check. *)

\* The tables, counters and records of the wrappers of vt_iowrap.c and
\* vt_mpifile.c have their types, and the calls made bound the ids and handles
\* given out.
THEOREM TypeCorrect == Spec => []TypeOK
<1>1. IInv => TypeOK
  <2> SUFFICES ASSUME IInv PROVE TypeOK
    OBVIOUS
  <2>0. Types /\ Counted
    BY DEF IInv
  <2>1. /\ program \in Programs /\ made \in Nat /\ made <= program.calls
        /\ program.calls \in Nat /\ program.suspensions \in Nat
        /\ thr \in [team -> ThreadType]
    BY <2>0, Basics DEF Types, RecTypes
  <2>2. thr \in [team -> [on : BOOLEAN, enabled : BOOLEAN, state : BOOLEAN,
                          suspended : 0 .. program.suspensions, nextMid : 1 .. program.calls + 1,
                          nextHandle : 1 .. program.calls + FirstHandle]]
    <3>1. \A t \in team : /\ thr[t].suspended <= program.suspensions
                          /\ thr[t].nextMid <= program.calls + 1
                          /\ thr[t].nextHandle <= program.calls + 2
      BY <2>0, <2>1, Numbers DEF Counted
    <3>2. \A th \in ThreadType :
            /\ th = [on |-> th.on, enabled |-> th.enabled, state |-> th.state,
                     suspended |-> th.suspended, nextMid |-> th.nextMid,
                     nextHandle |-> th.nextHandle]
            /\ th.on \in BOOLEAN /\ th.enabled \in BOOLEAN /\ th.state \in BOOLEAN
            /\ th.suspended \in Nat /\ th.nextMid \in Nat \ {0} /\ th.nextHandle \in Nat \ {0}
      BY DEF ThreadType
    <3>3. \A t \in team : /\ thr[t].suspended \in 0 .. program.suspensions
                          /\ thr[t].nextMid \in 1 .. program.calls + 1
                          /\ thr[t].nextHandle \in 1 .. program.calls + 2
      BY <2>1, <3>1, <3>2
    <3> QED
      BY <2>1, <3>2, <3>3 DEF FirstHandle
  <2>3. table \in [Fds -> [file : AnyFile, handle : 0 .. program.calls + FirstHandle]]
    <3>1. table \in [Fds -> TableEntry]
      BY <2>0 DEF Types, WrapTypes
    <3>2. \A fd \in Fds : table[fd].handle \in 0 .. program.calls + 2
      BY <2>0, <2>1, Numbers DEF Counted
    <3>3. \A e \in TableEntry : e = [file |-> e.file, handle |-> e.handle] /\ e.file \in AnyFile
      BY DEF TableEntry
    <3> QED
      BY <3>1, <3>2, <3>3 DEF FirstHandle
  <2>4. \A t \in team : call[t].at \in {"idle", "entered", "returned"}
    BY <2>0, CallIs
  <2>5. \A i \in DOMAIN fmap : fmap[i].fh \in Handles \cup {Null} /\ fmap[i].file \in Files
    <3>1. \A i \in DOMAIN fmap : fmap[i] \in MpiEntry
      BY <2>0 DEF Types, MpiTypes
    <3>2. \A e \in MpiEntry : e.fh \in Handles \cup {Null} /\ e.file \in Files
      BY DEF MpiEntry
    <3> QED
      BY <3>1, <3>2
  <2> QED
    BY <2>0, <2>1, <2>2, <2>3, <2>4, <2>5 DEF TypeOK, Types, WrapTypes, MpiTypes
<1> QED
  BY <1>1, Invariant, PTL

\* Every end of an I/O operation that vt_ioend writes is the end of one that was
\* begun on the thread and had not ended, unless a split collective was begun and
\* ended with different settings of recording.
THEOREM EndsMatch == Spec => []MatchingRight
<1>1. IInv => MatchingRight
  BY DEF IInv, MatchInv, IdsInv, StreamsRight, MatchingRight
<1> QED
  BY <1>1, Invariant, PTL

\* Every end names the file the operation worked on; what a process of one thread
\* has opened has distinct handles (vt_iofile_open, vt_iofile_dupfd, store_id).
THEOREM EndsNameFiles == Spec => []FilesRight
<1>1. IInv => FilesRight
  <2> SUFFICES ASSUME IInv PROVE FilesRight
    OBVIOUS
  <2>0. Types /\ DescriptorsInv /\ EndsRight /\ HandlesOnce
    BY DEF IInv
  <2>1. Main \in team /\ IsFiniteSet(team)
    BY <2>0, Basics DEF Types
  <2>2. Cardinality(team) = 1 <=> team = {Main}
    <3>1. Cardinality({Main}) = 1
      BY FS_Singleton
    <3>2. ASSUME Cardinality(team) = 1 PROVE team = {Main}
      BY <2>1, <3>2, FS_Singleton
    <3> QED
      BY <3>1, <3>2
  <2>3. Cardinality(team) \in Nat /\ Cardinality(team) # 0
    BY <2>1, FS_CardinalityType, FS_EmptySet
  <2>4. \A t \in team :
          LET r == io[t].last IN
          \/ r.file = r.real \/ r.real = "foreign"
          \/ r.fn = "fgets" /\ r.file = "stdin"
          \/ r.fn = "close" /\ Cardinality(team) > 1
    BY <2>0, <2>2, <2>3 DEF EndsRight, EndRight
  <2>5. ASSUME team = {Main}
        PROVE  HandlesDistinct
    <3> DEFINE known == {fd \in Fds : os[fd] \notin {"none", "trace"} /\ fd \notin blind
                                      /\ \A t \in team : call[t].result # fd}
    <3>1. \A f \in known : f \in Fds /\ table[f].handle # 0
      BY <2>0 DEF DescriptorsInv, Named, Live, Pending
    <3>2. Alone(Main)
      BY <2>5 DEF Alone
    <3> QED
      BY <2>0, <3>1, <3>2 DEF HandlesOnce, HandlesDistinct
  <2> QED
    BY <2>2, <2>4, <2>5 DEF FilesRight
<1> QED
  BY <1>1, Invariant, PTL

\* VampirTrace's own I/O is never recorded, and I/O tracing is enabled again when
\* the outermost suspension ends (VT_SUSPEND_IO_TRACING, VT_RESUME_IO_TRACING).
THEOREM OwnIoNeverShows == Spec => []OwnIoHidden
<1>1. IInv => OwnIoHidden
  BY DEF IInv, Suspensions, EndsRight, EndRight, OwnIoHidden
<1> QED
  BY <1>1, Invariant, PTL
==============================================================================
