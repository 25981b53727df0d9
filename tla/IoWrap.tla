------------------------------- MODULE IoWrap -------------------------------
(***************************************************************************)
(* The wrappers of the I/O functions of the C library (vtlib/vt_iowrap.c,  *)
(* vt_iowrap.h, vt_iowrap_helper.c): a table from file descriptors to      *)
(* files and handles, shared by all threads, is kept beside the table of   *)
(* the operating system, which is external.                                *)
(*                                                                         *)
(* A call is three steps: the wrapper up to the library function, the      *)
(* library function, and the rest of the wrapper, which looks the          *)
(* descriptor up. Calls of other threads and VampirTrace's own I/O come in *)
(* between. The program is assumed to use a descriptor only while it is    *)
(* open, or -1 after a failed open.                                        *)
(***************************************************************************)
EXTENDS IoRecords

CONSTANT Fds  \* file descriptors: 0 (the standard input) .. the largest

ASSUME FdsAssumption ==
  0 \in Fds /\ Fds \subseteq Nat /\ \A fd \in Fds : \A g \in 0 .. fd : g \in Fds

VARIABLES
  os,     \* external: the file each descriptor refers to
  table,  \* fd_to_vampirid
  call,   \* the call each thread is in
  blind   \* history: descriptors that were not opened through a traced call

wrapVars == <<os, table, call, blind>>

Idle == [at |-> "idle", fn |-> "none", fd |-> -1, to |-> -1, path |-> "none",
         recorded |-> FALSE, mid |-> 0, result |-> -1, real |-> "none"]

NoEntry == [file |-> "none", handle |-> 0]

\* vt_iowrap_init: the standard input is entered (the output streams, too).
vt_iowrap_init ==
  /\ os = [fd \in Fds |-> IF fd = 0 THEN "stdin" ELSE "none"]
  /\ table = [fd \in Fds |-> IF fd = 0 THEN [file |-> "stdin", handle |-> 1] ELSE NoEntry]
  /\ call = [t \in team |-> Idle]
  /\ blind = {}

FirstHandle == 2

------------------------------------------------------------------------------
(* The table. *)

\* get_vampir_file: a descriptor without a file is the unknown one.
get_vampir_file(fd) ==
  IF table[fd].file = "none" THEN [file |-> "unknown", handle |-> 0] ELSE table[fd]

\* vt_iofile_open and store_vampir_file_id
vt_iofile_open(t, path, fd) ==
  /\ table' = [table EXCEPT ![fd] = [file |-> path, handle |-> thr[t].nextHandle]]
  /\ thr' = [thr EXCEPT ![t] = NextHandle(@)]

\* Mutant: the duplicate keeps the handle of the original.
DupSameHandle(t, oldfd, newfd) ==
  /\ table' = [table EXCEPT ![newfd] = table[oldfd]]
  /\ UNCHANGED thr

\* vt_iofile_dupfd
vt_iofile_dupfd(t, oldfd, newfd) ==
  /\ table' = [table EXCEPT ![newfd] = [table[oldfd] EXCEPT !.handle = thr[t].nextHandle]]
  /\ thr' = [thr EXCEPT ![t] = NextHandle(@)]

------------------------------------------------------------------------------
(* The calls the program makes. *)

\* Descriptors another thread's call is working on; a closed one is free again.
InUse(t) ==
  UNION {{call[s].fd, call[s].to, call[s].result} :
         s \in {s \in team \ {t} : call[s].at # "idle" /\
                                      ~(call[s].fn = "close" /\ call[s].at = "returned")}}

\* Descriptors the program may use, and close.
Usable == {fd \in Fds : os[fd] \notin {"none", "trace"}}
Closable(t) == (Usable \ {0}) \ InUse(t)

OnPath(fn) == [fn : {fn}, fd : {-1}, to : {-1}, path : Files]
On(fn, fds) == [fn : {fn}, fd : fds, to : {-1}, path : {"none"}]

\* open, open64, creat and creat64
open == OnPath("open")

\* fopen and fopen64: the descriptor is the one of the stream.
fopen == open

dup(t) == On("dup", Usable \ InUse(t))

\* Onto a descriptor of its own, which a thread that is not alone has opened.
dup2(t) ==
  [fn : {"dup2"}, fd : Usable \ InUse(t),
   to : Closable(t) \cup (IF team = {t} THEN {fd \in Fds : os[fd] = "none"} ELSE {}),
   path : {"none"}]

close(t) == On("close", Closable(t))
fclose(t) == close(t)

\* lseek, lseek64, read, write, readv and writev may get a descriptor of -1.
read(t) == On("read", (Usable \ InUse(t)) \cup {-1})

\* pread, pread64, pwrite and pwrite64; fsync and fdatasync
pread(t) == read(t)
fsync(t) == read(t)

\* The functions on streams: fseek to fsetpos64; fread to getc; fputc to puts;
\* fscanf and fprintf; flockfile to funlockfile; fdopen, which opens nothing.
fseek(t) == On("read", Usable \ InUse(t))
fread(t) == fseek(t)
fputc(t) == fseek(t)
fscanf(t) == fseek(t)
flockfile(t) == fseek(t)
fdopen(t) == fseek(t)

fgets(t) == On("fgets", Usable \ InUse(t))

unlink == OnPath("unlink")

lockf(t) == On("lockf", Usable \ InUse(t))

sync == On("sync", {-1})

\* Of one stream, or of all.
fflush(t) == fseek(t) \cup sync

Calls(t) ==
  UNION {open, fopen, dup(t), dup2(t), close(t), fclose(t), read(t), pread(t), fsync(t),
         fseek(t), fread(t), fputc(t), fscanf(t), flockfile(t), fdopen(t), fgets(t),
         unlink, lockf(t), sync, fflush(t)}

\* DO_TRACE, as long as VampirTrace is alive and traces all these functions
DO_TRACE(t) == thr[t].enabled

------------------------------------------------------------------------------
(* The library (external). *)

Free == {fd \in Fds : os[fd] = "none"}
Lowest(S) == CHOOSE fd \in S : \A g \in S : fd <= g

\* The descriptors a call may return; -1 is a failure.
Results(c) ==
  CASE c.fn \in {"open", "dup"} -> {-1} \cup (IF Free = {} THEN {} ELSE {Lowest(Free)})
    [] c.fn = "dup2" -> {c.to}
    [] c.fn = "fgets" -> {-1, c.fd}
    [] OTHER -> {c.fd}

\* What the library function does to the descriptors.
Effect(c, result) ==
  IF result = -1 THEN UNCHANGED os
  ELSE os' = CASE c.fn = "open" -> [os EXCEPT ![result] = c.path]
               [] c.fn \in {"dup", "dup2"} -> [os EXCEPT ![result] = os[c.fd]]
               [] c.fn = "close" -> [os EXCEPT ![c.fd] = "none"]
               [] OTHER -> os

\* The file a call truly works on.
Real(c) == IF c.path # "none" THEN c.path
           ELSE IF c.fd = -1 THEN (IF c.fn = "sync" THEN "all" ELSE "invalid")
           ELSE IF c.fd \in blind THEN "foreign" ELSE os[c.fd]

------------------------------------------------------------------------------
(* The wrappers. *)

\* VT_IOWRAP_INIT_IOFUNC and VT_IOWRAP_CHECK_TRACING: while I/O tracing is
\* suspended the library function is called and nothing else is done, so that
\* the table does not learn of a descriptor. Such calls are VampirTrace's own.
Untraced(t) ==
  /\ ~DO_TRACE(t) /\ made < program.calls
  /\ \/ /\ Free # {}
        /\ os' = [os EXCEPT ![Lowest(Free)] = "trace"]
        /\ blind' = blind \cup {Lowest(Free)}
     \/ \E fd \in Fds :
          /\ os[fd] = "trace"
          /\ os' = [os EXCEPT ![fd] = "none"] /\ UNCHANGED blind
  /\ made' = made + 1
  /\ UNCHANGED <<table, call, thr, io, program, switches>>

\* Descriptors also come from functions that are not wrapped (pipe, socket).
OpenElsewhere(t) ==
  /\ call[t].at = "idle" /\ made < program.calls /\ made' = made + 1
  /\ Free # {}
  /\ os' = [os EXCEPT ![Lowest(Free)] = "foreign"]
  /\ blind' = blind \cup {Lowest(Free)}
  /\ UNCHANGED <<table, call, thr, io, program, switches>>

\* VampirTrace's own work within a wrapper is over when the wrapper goes on.
Proceeds(t, at) == call[t].at = at /\ thr[t].suspended = 0

\* VT_IOWRAP_ENTER_IOFUNC
ENTER_IOFUNC(t) ==
  /\ DO_TRACE(t) /\ call[t].at = "idle"
  /\ \E c \in Calls(t), recorded \in Outcomes(thr[t]) :
       /\ Enter(t, recorded)
       /\ call' = [call EXCEPT ![t] =
            [at |-> "entered", fn |-> c.fn, fd |-> c.fd, to |-> c.to, path |-> c.path,
             recorded |-> recorded, mid |-> IF recorded THEN thr[t].nextMid ELSE 0,
             result |-> -1, real |-> "none"]]
  /\ UNCHANGED <<os, table, blind, program, switches>>

\* VT_IOWRAP_CALL_LIBFUNC
CALL_LIBFUNC(t) ==
  /\ Proceeds(t, "entered")
  /\ \E result \in Results(call[t]) :
       /\ Effect(call[t], result)
       /\ call' = [call EXCEPT ![t].at = "returned", ![t].result = result,
                               ![t].real = Real(call[t])]
  /\ UNCHANGED <<table, blind, recVars>>

\* The end of the operation, if its beginning was recorded.
End(t, file, mid, handle) ==
  io' = IF call[t].recorded
        THEN [io EXCEPT ![t] = vt_ioend(@, thr[t], file, mid, handle, call[t].fn, call[t].real)]
        ELSE io

Return(t) == call' = [call EXCEPT ![t] = Idle]

\* VT_IOWRAP_LEAVE_IOFUNC_OPEN: a failed open ends with the path and without a
\* handle; a descriptor is remembered whether or not the call is recorded.
LEAVE_IOFUNC_OPEN(t) ==
  LET c == call[t] IN
  /\ Proceeds(t, "returned") /\ c.fn = "open"
  /\ IF c.result = -1
     THEN End(t, c.path, c.mid, 0) /\ UNCHANGED <<table, thr, blind>>
     ELSE /\ vt_iofile_open(t, c.path, c.result)
          /\ End(t, c.path, c.mid, thr[t].nextHandle)
          /\ blind' = blind \ {c.result}
  /\ Return(t) /\ UNCHANGED <<os, program, made, switches>>

\* VT_IOWRAP_LEAVE_IOFUNC_DUP: the operation is one on the original; the
\* duplicate of an unknown descriptor is unknown.
LEAVE_IOFUNC_DUP(t) ==
  LET c == call[t]
      f == get_vampir_file(c.fd) IN
  /\ Proceeds(t, "returned") /\ c.fn \in {"dup", "dup2"}
  /\ End(t, f.file, c.mid, f.handle)
  /\ IF c.result = -1 THEN UNCHANGED <<table, thr, blind>>
     ELSE /\ vt_iofile_dupfd(t, c.fd, c.result)
          /\ blind' = IF c.fd \in blind THEN blind \cup {c.result} ELSE blind \ {c.result}
  /\ Return(t) /\ UNCHANGED <<os, program, made, switches>>

\* VT_IOWRAP_LEAVE_IOFUNC. A descriptor of -1 has a file of its own; fgets
\* passes 0 when it has read nothing; nothing is taken out of the table when a
\* descriptor is closed.
LEAVE_IOFUNC(t) ==
  LET c == call[t]
      fd == IF c.fn = "fgets" /\ c.result = -1 THEN 0 ELSE c.fd
      f == IF fd = -1 THEN [file |-> "invalid", handle |-> 0] ELSE get_vampir_file(fd) IN
  /\ Proceeds(t, "returned") /\ c.fn \in {"close", "read", "fgets"}
  /\ End(t, f.file, c.mid, f.handle)
  /\ Return(t) /\ UNCHANGED <<os, table, blind, thr, program, made, switches>>

\* VT_IOWRAP_LEAVE_IOFUNC_PATH and VT_IOWRAP_LEAVE_IOFUNC_CUSTOM
LEAVE_IOFUNC_PATH(t) ==
  LET c == call[t] IN
  /\ Proceeds(t, "returned") /\ c.fn \in {"unlink", "sync"}
  /\ End(t, IF c.fn = "sync" THEN "all" ELSE c.path, c.mid, 0)
  /\ Return(t) /\ UNCHANGED <<os, table, blind, thr, program, made, switches>>

\* The end of lockf: it passes the descriptor plus 1 as the matching id, and
\* the matching id as the handle.
LeaveLockf(t) ==
  LET c == call[t] IN
  /\ Proceeds(t, "returned") /\ c.fn = "lockf"
  /\ End(t, get_vampir_file(c.fd).file, c.fd + 1, c.mid)
  /\ Return(t) /\ UNCHANGED <<os, table, blind, thr, program, made, switches>>

WrapNext(t) ==
  \/ Untraced(t)
  \/ OpenElsewhere(t)
  \/ ENTER_IOFUNC(t)
  \/ CALL_LIBFUNC(t)
  \/ LEAVE_IOFUNC_OPEN(t)
  \/ LEAVE_IOFUNC_DUP(t)
  \/ LEAVE_IOFUNC(t)
  \/ LEAVE_IOFUNC_PATH(t)
  \/ LeaveLockf(t)
==============================================================================
