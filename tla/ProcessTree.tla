----------------------------- MODULE ProcessTree -----------------------------
(***************************************************************************)
(* A sequential program that forks, and the vtunify it starts at its end:  *)
(* src/vtlib/vt_fork.c, the fork and exec wrappers of vt_libcwrap.c, and   *)
(* vt_open, vt_reset, vt_close, vt_close_by_signal, write_uctl_file and    *)
(* unify_traces of vt_trc.c.  Every process records a trace of its own;    *)
(* the numbers of the traces come from a file the processes lock.  The     *)
(* first process, the master, waits for its children, tells vtunify what   *)
(* streams there are and starts it.  Processes are signalled and killed.   *)
(***************************************************************************)
EXTENDS Unify

CONSTANTS
  Programs,      \* like Confs, for a vtunify the program starts: size 1, no streams yet,
                 \*   renames: whether rename moves a file to the global directory
                 \*   processes: the number of processes there may be
  MaxProcesses,  \* an upper bound of these numbers
  MaxLost        \* how many of them are stopped at a bad moment

IsProgram(c) ==
  /\ IsConf(c) /\ c.size = 1 /\ c.streams = 0 /\ c.local = {}
  /\ {"renames", "processes"} \subseteq DOMAIN c
  /\ c.renames \in BOOLEAN /\ c.processes \in 1..MaxProcesses

ASSUME ProcessTreeAssumption ==
  MaxProcesses \in Nat \ {0} /\ MaxLost \in Nat /\ \A c \in Programs : IsProgram(c)

VARIABLES
  proc,     \* the processes, in the order of their creation
  idfile,   \* the file that has the name trcid_filename, 0: none
  counter,  \* what is in these files, 0: nothing
  lost,     \* history: processes stopped before they could keep their promises
  late      \* history: processes that took a number after the streams were counted

treeVars == <<proc, idfile, counter, lost, late>>
unifyVars == <<todo, error, inside, status, ctl, starts>>
allVars == <<vars, treeVars>>

Pids == DOMAIN proc
LocalKinds == <<"def", "events">>

\* A mutant: whoever wants the lock gets it.
LockFreeAlways(f) == TRUE

\* A process in "update" has the lock of the file; the system takes the lock
\* away from a dead one.
LockFree(f) == ~ \E p \in Pids : proc[p].at = "update" /\ proc[p].fd = f

\* The first process as vt_open leaves it.
vt_open(p) ==
  [at |-> "user", vt_my_trace |-> 0, init_pid |-> p, rc |-> 0, childv |-> {},
   fork_performed |-> FALSE, fd |-> 0, read |-> 0, left |-> << >>, then |-> "dead"]

Alive(p) == proc[p].at # "dead"
Goto(p, at) == [proc EXCEPT ![p].at = at]
Dead(p) == [proc EXCEPT ![p] = [vt_open(p) EXCEPT !.at = "dead", !.vt_my_trace = proc[p].vt_my_trace,
                                                  !.init_pid = proc[p].init_pid]]

(***************************************************************************)
(* fork.  The parent notes its child once fork has returned; the child is  *)
(* a copy of the parent until it has a number and a trace of its own.      *)
(***************************************************************************)
fork(p) ==
  /\ proc[p].at = "user" /\ Len(proc) < conf.processes
  /\ proc' = Append([proc EXCEPT ![p].at = "forking", ![p].rc = Len(proc) + 1],
                    [proc[p] EXCEPT !.at = "open"])
  /\ UNCHANGED <<conf, disk, idfile, counter, lost, late>>

childv_add(p) ==
  /\ proc[p].at = "forking"
  /\ proc' = [proc EXCEPT ![p].at = "user", ![p].fork_performed = TRUE,
                          ![p].childv = @ \cup {proc[p].rc}, ![p].rc = 0]
  /\ UNCHANGED <<conf, disk, idfile, counter, lost, late>>

\* get_new_trcid: open or create the file, lock and read it, write and unlock it.
OpenIdFile(p) ==
  /\ proc[p].at = "open"
  /\ IF idfile = 0 THEN counter' = Append(counter, 0) /\ idfile' = Len(counter')
     ELSE UNCHANGED <<counter, idfile>>
  /\ proc' = [proc EXCEPT ![p].at = "lock", ![p].fd = idfile']
  /\ UNCHANGED <<conf, disk, lost, late>>

LockIdFile(p) ==
  /\ proc[p].at = "lock" /\ LockFree(proc[p].fd)
  /\ proc' = [proc EXCEPT ![p].at = "update", ![p].read = counter[proc[p].fd]]
  /\ UNCHANGED <<conf, disk, idfile, counter, lost, late>>

\* The streams have been counted when the control file is written.
Counted == conf.streams > 0

UpdateIdFile(p) ==
  /\ proc[p].at = "update"
  /\ counter' = [counter EXCEPT ![proc[p].fd] = proc[p].read + 1]
  /\ proc' = [proc EXCEPT ![p].at = "reset", ![p].vt_my_trace = proc[p].read + 1, ![p].read = 0]
  /\ late' = IF Counted THEN late \cup {p} ELSE late
  /\ UNCHANGED <<conf, disk, idfile, lost>>

\* The child forgets the children of its parent and opens its own trace.
vt_reset(p) ==
  /\ proc[p].at = "reset"
  /\ proc' = [proc EXCEPT ![p].at = "user", ![p].childv = {}, ![p].init_pid = p, ![p].fd = 0]
  /\ UNCHANGED <<conf, disk, idfile, counter, lost, late>>

(***************************************************************************)
(* The end of a process, or of what it records: exit, exec and signals.    *)
(***************************************************************************)
exit(p) ==
  /\ proc[p].at = "user"
  /\ proc' = Goto(p, "close")
  /\ UNCHANGED <<conf, disk, idfile, counter, lost, late>>

exec(p) ==
  /\ proc[p].at = "user"
  /\ proc' = [proc EXCEPT ![p].at = "close", ![p].then = "other"]
  /\ UNCHANGED <<conf, disk, idfile, counter, lost, late>>

\* The program that was executed, or what is left of this one if exec failed,
\* is not traced.
OtherEnds(p) ==
  /\ proc[p].at = "other"
  /\ proc' = Dead(p)
  /\ UNCHANGED <<conf, disk, idfile, counter, lost, late>>

\* A mutant: the copy of the parent closes the parent's trace.
ClosesAnyPid(p) == proc[p].at \in {"user", "forking", "open", "lock", "update", "reset"}

\* vt_close does its work once, and not in the copy of another process.
Closes(p) == proc[p].at \in {"user", "forking"} /\ proc[p].init_pid = p

CanBeLost == Cardinality(lost) < MaxLost

\* The handler calls exit, and thus vt_close unless that is what it interrupts (a
\* signal to the user's code is the same as exit).  A process that is stopped
\* between fork and childv_add does not wait for its child.
vt_close_by_signal(p) ==
  /\ proc[p].at \notin {"user", "dead", "other"} /\ CanBeLost
  /\ proc' = IF Closes(p) THEN Goto(p, "close") ELSE Dead(p)
  /\ lost' = lost \cup {p}
  /\ UNCHANGED <<conf, disk, idfile, counter, late>>

\* SIGKILL, _exit or a crash.
KillProcess(p) ==
  /\ proc[p].at \notin {"dead", "other"} /\ CanBeLost
  /\ proc' = Dead(p)
  /\ lost' = lost \cup {p}
  /\ UNCHANGED <<conf, disk, idfile, counter, late>>

(***************************************************************************)
(* vt_close.                                                               *)
(***************************************************************************)
\* The buffer goes to the files in the local directory.
VTThrd_close(p) ==
  /\ proc[p].at = "close"
  /\ proc' = [proc EXCEPT ![p].at = "wait", ![p].left = LocalKinds]
  /\ UNCHANGED <<conf, disk, idfile, counter, lost, late>>

\* vt_fork_finalize: the children are forgotten.
AfterWait(p) ==
  [proc EXCEPT ![p].childv = {}, ![p].at = IF proc[p].vt_my_trace = 0 THEN "control" ELSE "move"]

\* A mutant: nobody is waited for.
vt_fork_waitchildsNot(p) ==
  /\ proc[p].at = "wait"
  /\ proc' = AfterWait(p)
  /\ UNCHANGED <<conf, disk, idfile, counter, lost, late>>

vt_fork_waitchilds(p) ==
  /\ proc[p].at = "wait"
  /\ \A q \in proc[p].childv : ~Alive(q)
  /\ proc' = AfterWait(p)
  /\ UNCHANGED <<conf, disk, idfile, counter, lost, late>>

\* The number in the file is the number of all processes that were forked.  The
\* file must be there, and somebody must have written it.
vt_fork_get_num_childs_tot(p) == IF proc[p].fork_performed THEN counter[idfile] ELSE 0

write_uctl_file(p) ==
  /\ proc[p].at = "control"
  /\ IF proc[p].fork_performed /\ (idfile = 0 \/ counter[idfile] = 0)
     THEN proc' = Dead(p) /\ UNCHANGED <<conf, disk>>
     ELSE /\ conf' = [conf EXCEPT !.streams = 1 + vt_fork_get_num_childs_tot(p)]
          /\ disk' = Put(disk, Name("in", FALSE, 0, "uctl", FALSE), LocalContent)
          /\ proc' = Goto(p, "remove")
  /\ UNCHANGED <<idfile, counter, lost, late>>

RemoveIdFile(p) ==
  /\ proc[p].at = "remove"
  /\ idfile' = 0
  /\ proc' = Goto(p, "move")
  /\ UNCHANGED <<conf, disk, counter, lost, late>>

\* VTGen_delete moves one file after the other; what cannot be renamed is copied.
Moved(p) == Local(proc[p].vt_my_trace + 1, Head(proc[p].left))

VTGen_delete(p) ==
  /\ proc[p].at \in {"move", "copy"} /\ proc[p].left # << >>
  /\ IF proc[p].at = "move" /\ ~conf.renames
     THEN /\ disk' = Put(disk, Moved(p), Content("partial", << >>))
          /\ proc' = Goto(p, "copy")
     ELSE /\ disk' = Put(disk, Moved(p), LocalContent)
          /\ proc' = [proc EXCEPT ![p].at = "move", ![p].left = Tail(@)]
  /\ UNCHANGED <<conf, idfile, counter, lost, late>>

After(p) == IF proc[p].then = "dead" THEN Dead(p) ELSE Goto(p, "other")

\* The master starts vtunify and waits for it; conf.local is what it finds of the
\* streams it is told of.
Found == {<<f.stream, f.kind>> : f \in {g \in DOMAIN disk : /\ disk[g].state = "local"
                                                           /\ g.stream \in StreamsOf(conf)}}

unify_traces(p) ==
  /\ proc[p].at = "move" /\ proc[p].left = << >> /\ proc[p].vt_my_trace = 0
  /\ StartWith([conf EXCEPT !.local = Found])
  /\ proc' = Goto(p, "unify")
  /\ UNCHANGED <<idfile, counter, lost, late>>

\* If vtunify fails, the process ends before it executes another program.
Unified(p) ==
  /\ proc[p].at = "unify" /\ \A r \in Ranks : ~Running(r)
  /\ proc' = IF \A r \in Ranks : status[r] = "done" THEN After(p) ELSE Dead(p)
  /\ UNCHANGED <<conf, disk, idfile, counter, lost, late>>

Closed(p) ==
  /\ proc[p].at = "move" /\ proc[p].left = << >> /\ proc[p].vt_my_trace # 0
  /\ proc' = After(p)
  /\ UNCHANGED <<conf, disk, idfile, counter, lost, late>>

------------------------------------------------------------------------------
\* What the library does by itself, and what the program and its user do.
Step(p) ==
  \/ unify_traces(p)
  \/ /\ \/ childv_add(p) \/ OpenIdFile(p) \/ LockIdFile(p) \/ UpdateIdFile(p) \/ vt_reset(p)
        \/ VTThrd_close(p) \/ vt_fork_waitchilds(p) \/ write_uctl_file(p) \/ RemoveIdFile(p)
        \/ VTGen_delete(p) \/ Unified(p) \/ Closed(p)
     /\ UNCHANGED unifyVars

Choice(p) ==
  /\ fork(p) \/ exit(p) \/ exec(p) \/ OtherEnds(p) \/ vt_close_by_signal(p) \/ KillProcess(p)
  /\ UNCHANGED unifyVars

UnifyStep ==
  \/ \E r \in Ranks : Work(r) \/ Enter(r) \/ Abort(r)
  \/ syncError \/ Collective \/ Finalize
  \/ Kill
  \/ (\A p \in Pids : ~Alive(p)) /\ Start

TreeInit ==
  /\ \/ Init /\ proc = << >>
     \/ conf \in Programs /\ disk = << >> /\ Idle /\ proc = <<vt_open(1)>>
  /\ idfile = 0 /\ counter = << >> /\ lost = {} /\ late = {}

TreeNext ==
  \/ \E p \in Pids : Step(p) \/ Choice(p)
  \/ UnifyStep /\ UNCHANGED treeVars

\* A process that is in VampirTrace goes on; vtunify goes on.
TreeFairness ==
  /\ Fairness
  /\ \A p \in 1..MaxProcesses : WF_allVars(p \in Pids /\ Step(p))

TreeSpec == TreeInit /\ [][TreeNext]_allVars /\ TreeFairness

------------------------------------------------------------------------------

Stages == {"user", "forking", "open", "lock", "update", "reset", "close", "wait", "control",
           "remove", "move", "copy", "unify", "other", "dead"}

TreeTypeOK ==
  /\ TypeOK
  /\ \A p \in Pids : proc[p].at \in Stages /\ proc[p].childv \subseteq Pids
  /\ idfile \in 0..Len(counter)
  /\ \A f \in DOMAIN counter : counter[f] \in 0..MaxProcesses - 1

\* The processes that record, or have recorded, a trace of their own.
Traced == {p \in Pids : proc[p].init_pid = p}

\* Whoever takes a number before the streams are counted has one of his own and
\* is among the streams vtunify gets (unless the master was stopped before it
\* knew that it had forked).  Nobody comes later unless a process was
\* stopped and left orphans.  If nobody was, vtunify finds every file of every
\* process, and nothing else.
StreamsRight ==
  /\ \A p, q \in Traced : p # q /\ proc[p].vt_my_trace = proc[q].vt_my_trace => {p, q} \cap late # {}
  /\ Counted /\ 1 \notin lost => \A p \in Traced \ late : proc[p].vt_my_trace < conf.streams
  /\ late # {} => lost # {}
  /\ lost = {} /\ proc # << >> /\ starts > 0 =>
       /\ conf.local = {<<proc[p].vt_my_trace + 1, LocalKinds[k]>> : p \in Traced, k \in 1..2}
       /\ conf.streams = Cardinality(Traced)

\* What vtunify found is never lost, unless an orphan took a number that
\* another process has and overwrites its files.
NoTraceLost == late = {} => NothingLost

\* When vtunify reports success, its output is complete, with the same exception.
OutputComplete == late = {} => OutputRight

\* vtunify ends, and so does every process, if the user's code in all of them does.
AllEnd ==
  /\ Ends
  /\ <>[](\A p \in Pids : proc[p].at \notin {"user", "other"}) => <>(\A p \in Pids : ~Alive(p))
=============================================================================
