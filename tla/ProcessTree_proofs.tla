-------------------------- MODULE ProcessTree_proofs --------------------------
(***************************************************************************)
(* Proofs about ProcessTree and the vtunify it composes: the types, that   *)
(* the streams are right, and that no file vtunify found is ever lost.     *)
(* The parts: the processes and their types; the programs of the ranks and *)
(* the types of vtunify; the numbers of the traces, the families of the    *)
(* processes and their files; and, for the last theorem, what is kept on   *)
(* the disk while the ranks go through the parts of their programs, and    *)
(* what a process still owes.                                              *)
(***************************************************************************)
EXTENDS ProcessTree, FiniteSetTheorems, SequenceTheorems, WellFoundedInduction, TLAPS

------------------------------------------------------------------------------
(* The processes.  A process is a record; what a step does to it is stated *)
(* field by field, and the records themselves are not looked at again.     *)

\* What is left to move of the files a process records.
Lefts == {<< >>, <<"events">>, LocalKinds}

Process ==
  [at : Stages, vt_my_trace : Nat, init_pid : Nat, rc : Nat, childv : SUBSET Nat,
   fork_performed : BOOLEAN, fd : Nat, read : Nat, left : Lefts, then : {"dead", "other"}]

\* A step of process p changes no other process.
Only(p) ==
  /\ proc' \in Seq(Process) /\ Len(proc') = Len(proc) /\ DOMAIN proc' = DOMAIN proc
  /\ \A q \in Pids : q # p => proc'[q] = proc[q]

\* A step that sets the record of one process.
LEMMA SetProcess ==
  ASSUME proc \in Seq(Process), NEW p \in Pids, NEW x \in Process, proc' = [proc EXCEPT ![p] = x]
  PROVE  Only(p) /\ proc'[p] = x
BY DEF Only, Pids

\* The fields of a process and what is in them.
LEMMA ProcessFields ==
  ASSUME proc \in Seq(Process), NEW p \in Pids
  PROVE  /\ proc[p] \in Process
         /\ proc[p].at \in Stages /\ proc[p].vt_my_trace \in Nat /\ proc[p].init_pid \in Nat
         /\ proc[p].rc \in Nat /\ proc[p].childv \in SUBSET Nat
         /\ proc[p].fork_performed \in BOOLEAN
         /\ proc[p].fd \in Nat /\ proc[p].read \in Nat /\ proc[p].left \in Lefts
         /\ proc[p].then \in {"dead", "other"}
<1>1. proc[p] \in Process
  BY DEF Pids
<1> QED
  BY <1>1 DEF Process

\* The files are moved in their order, each once.
LEMMA LeftsFacts ==
  ASSUME NEW s \in Lefts
  PROVE  /\ s # << >> => Tail(s) \in Lefts /\ Head(s) \in {"def", "events"}
                         /\ ToSet(s) = {Head(s)} \cup ToSet(Tail(s)) /\ Head(s) \notin ToSet(Tail(s))
         /\ ToSet(s) \subseteq {"def", "events"}
         /\ ToSet(<< >>) = {} /\ ToSet(LocalKinds) = {"def", "events"}
         /\ << >> \in Lefts /\ LocalKinds \in Lefts
<1>1. Tail(LocalKinds) = <<"events">> /\ Head(LocalKinds) = "def" /\ LocalKinds # << >>
  BY DEF LocalKinds
<1>2. Tail(<<"events">>) = << >> /\ Head(<<"events">>) = "events" /\ <<"events">> # << >>
  OBVIOUS
<1>3. ToSet(<< >>) = {} /\ ToSet(<<"events">>) = {"events"}
  BY DEF ToSet
<1>4. ToSet(LocalKinds) = {"def", "events"}
  <2>1. DOMAIN LocalKinds = {1, 2} /\ LocalKinds[1] = "def" /\ LocalKinds[2] = "events"
    BY DEF LocalKinds
  <2> HIDE DEF LocalKinds
  <2> QED
    BY <2>1 DEF ToSet
<1> HIDE DEF LocalKinds
<1>5. s = << >> \/ s = <<"events">> \/ s = LocalKinds
  BY DEF Lefts
<1>6. CASE s = << >>
  BY <1>3, <1>4, <1>6 DEF Lefts
<1>7. CASE s = <<"events">>
  BY <1>2, <1>3, <1>4, <1>7 DEF Lefts
<1>8. CASE s = LocalKinds
  BY <1>1, <1>3, <1>4, <1>8 DEF Lefts
<1> QED
  BY <1>5, <1>6, <1>7, <1>8

\* exit, signals, the steps of vt_close: a process goes to its next stage.
LEMMA GotoEffect ==
  ASSUME proc \in Seq(Process), NEW p \in Pids, NEW a \in Stages, proc' = Goto(p, a)
  PROVE  /\ Only(p)
         /\ proc'[p].at = a /\ proc'[p].vt_my_trace = proc[p].vt_my_trace
         /\ proc'[p].init_pid = proc[p].init_pid /\ proc'[p].rc = proc[p].rc
         /\ proc'[p].childv = proc[p].childv /\ proc'[p].fork_performed = proc[p].fork_performed
         /\ proc'[p].fd = proc[p].fd /\ proc'[p].read = proc[p].read /\ proc'[p].left = proc[p].left
         /\ proc'[p].then = proc[p].then
<1> DEFINE x == proc[p]
           y == [x EXCEPT !.at = a]
<1>1. x \in Process
  BY ProcessFields
<1>2. proc' = [proc EXCEPT ![p] = y]
  BY DEF Goto
<1> HIDE DEF x
<1>3. y \in Process
  BY <1>1 DEF Process, Stages, Lefts
<1>4. /\ y.at = a /\ y.vt_my_trace = x.vt_my_trace /\ y.init_pid = x.init_pid /\ y.rc = x.rc
      /\ y.childv = x.childv /\ y.fork_performed = x.fork_performed /\ y.fd = x.fd
      /\ y.read = x.read /\ y.left = x.left /\ y.then = x.then
  BY <1>1 DEF Process
<1> HIDE DEF y
<1>5. Only(p) /\ proc'[p] = y
  BY <1>2, <1>3, SetProcess
<1> QED
  BY <1>4, <1>5 DEF x

\* The parent notes its child (vt_fork).
LEMMA ChildEffect ==
  ASSUME proc \in Seq(Process), NEW p \in Pids, childv_add(p)
  PROVE  /\ Only(p)
         /\ proc'[p].at = "user" /\ proc'[p].vt_my_trace = proc[p].vt_my_trace
         /\ proc'[p].init_pid = proc[p].init_pid /\ proc'[p].rc = 0
         /\ proc'[p].childv = proc[p].childv \cup {proc[p].rc} /\ proc'[p].fork_performed = TRUE
         /\ proc'[p].fd = proc[p].fd /\ proc'[p].read = proc[p].read /\ proc'[p].left = proc[p].left
         /\ proc'[p].then = proc[p].then
<1> DEFINE x == proc[p]
           y == [x EXCEPT !.at = "user", !.fork_performed = TRUE, !.childv = @ \cup {x.rc}, !.rc = 0]
<1>1. x \in Process
  BY ProcessFields
<1>2. proc' = [proc EXCEPT ![p] = y]
  BY DEF childv_add
<1> HIDE DEF x
<1>3. y \in Process
  BY <1>1 DEF Process, Stages, Lefts
<1>4. /\ y.at = "user" /\ y.vt_my_trace = x.vt_my_trace /\ y.init_pid = x.init_pid /\ y.rc = 0
      /\ y.childv = x.childv \cup {x.rc} /\ y.fork_performed = TRUE /\ y.fd = x.fd
      /\ y.read = x.read /\ y.left = x.left /\ y.then = x.then
  BY <1>1 DEF Process
<1> HIDE DEF y
<1>5. Only(p) /\ proc'[p] = y
  BY <1>2, <1>3, SetProcess
<1> QED
  BY <1>4, <1>5 DEF x

\* A child has the lock and has read the number (get_new_trcid).
LEMMA LockEffect ==
  ASSUME proc \in Seq(Process), NEW p \in Pids, proc[p].fd \in DOMAIN counter, counter \in Seq(Nat), LockIdFile(p)
  PROVE  /\ Only(p)
         /\ proc'[p].at = "update" /\ proc'[p].vt_my_trace = proc[p].vt_my_trace
         /\ proc'[p].init_pid = proc[p].init_pid /\ proc'[p].rc = proc[p].rc
         /\ proc'[p].childv = proc[p].childv /\ proc'[p].fork_performed = proc[p].fork_performed
         /\ proc'[p].fd = proc[p].fd /\ proc'[p].read = counter[proc[p].fd]
         /\ proc'[p].left = proc[p].left /\ proc'[p].then = proc[p].then
<1> DEFINE x == proc[p]
           y == [x EXCEPT !.at = "update", !.read = counter[x.fd]]
<1>0. counter[x.fd] \in Nat
  OBVIOUS
<1>1. x \in Process
  BY ProcessFields
<1>2. proc' = [proc EXCEPT ![p] = y]
  BY DEF LockIdFile
<1> HIDE DEF x
<1>3. y \in Process
  BY <1>1, <1>0 DEF Process, Stages, Lefts
<1>4. /\ y.at = "update" /\ y.vt_my_trace = x.vt_my_trace /\ y.init_pid = x.init_pid
      /\ y.rc = x.rc /\ y.childv = x.childv /\ y.fork_performed = x.fork_performed /\ y.fd = x.fd
      /\ y.read = counter[x.fd] /\ y.left = x.left /\ y.then = x.then
  BY <1>1 DEF Process
<1> HIDE DEF y
<1>5. Only(p) /\ proc'[p] = y
  BY <1>2, <1>3, SetProcess
<1> QED
  BY <1>4, <1>5 DEF x

\* A child opens the file of the numbers, or creates it (get_new_trcid).
LEMMA OpenEffect ==
  ASSUME proc \in Seq(Process), NEW p \in Pids, idfile' \in Nat, OpenIdFile(p)
  PROVE  /\ Only(p)
         /\ proc'[p].at = "lock" /\ proc'[p].vt_my_trace = proc[p].vt_my_trace
         /\ proc'[p].init_pid = proc[p].init_pid /\ proc'[p].rc = proc[p].rc
         /\ proc'[p].childv = proc[p].childv /\ proc'[p].fork_performed = proc[p].fork_performed
         /\ proc'[p].fd = idfile' /\ proc'[p].read = proc[p].read /\ proc'[p].left = proc[p].left
         /\ proc'[p].then = proc[p].then
<1> DEFINE x == proc[p]
           y == [x EXCEPT !.at = "lock", !.fd = idfile']
<1>1. x \in Process
  BY ProcessFields
<1>2. proc' = [proc EXCEPT ![p] = y]
  BY DEF OpenIdFile
<1> HIDE DEF x
<1>3. y \in Process
  BY <1>1 DEF Process, Stages, Lefts
<1>4. /\ y.at = "lock" /\ y.vt_my_trace = x.vt_my_trace /\ y.init_pid = x.init_pid /\ y.rc = x.rc
      /\ y.childv = x.childv /\ y.fork_performed = x.fork_performed /\ y.fd = idfile'
      /\ y.read = x.read /\ y.left = x.left /\ y.then = x.then
  BY <1>1 DEF Process
<1> HIDE DEF y
<1>5. Only(p) /\ proc'[p] = y
  BY <1>2, <1>3, SetProcess
<1> QED
  BY <1>4, <1>5 DEF x

\* A child takes the next number and writes it to the file (get_new_trcid).
LEMMA UpdateEffect ==
  ASSUME proc \in Seq(Process), NEW p \in Pids, UpdateIdFile(p)
  PROVE  /\ Only(p)
         /\ proc'[p].at = "reset" /\ proc'[p].vt_my_trace = proc[p].read + 1
         /\ proc'[p].init_pid = proc[p].init_pid /\ proc'[p].rc = proc[p].rc
         /\ proc'[p].childv = proc[p].childv /\ proc'[p].fork_performed = proc[p].fork_performed
         /\ proc'[p].fd = proc[p].fd /\ proc'[p].read = 0 /\ proc'[p].left = proc[p].left
         /\ proc'[p].then = proc[p].then
<1> DEFINE x == proc[p]
           y == [x EXCEPT !.at = "reset", !.vt_my_trace = x.read + 1, !.read = 0]
<1>0. x.read + 1 \in Nat
  BY ProcessFields
<1>1. x \in Process
  BY ProcessFields
<1>2. proc' = [proc EXCEPT ![p] = y]
  BY DEF UpdateIdFile
<1> HIDE DEF x
<1>3. y \in Process
  BY <1>1, <1>0 DEF Process, Stages, Lefts
<1>4. /\ y.at = "reset" /\ y.vt_my_trace = x.read + 1 /\ y.init_pid = x.init_pid /\ y.rc = x.rc
      /\ y.childv = x.childv /\ y.fork_performed = x.fork_performed /\ y.fd = x.fd /\ y.read = 0
      /\ y.left = x.left /\ y.then = x.then
  BY <1>1 DEF Process
<1> HIDE DEF y
<1>5. Only(p) /\ proc'[p] = y
  BY <1>2, <1>3, SetProcess
<1> QED
  BY <1>4, <1>5 DEF x

\* A child forgets the children of its parent and has a trace of its own (vt_reset).
LEMMA ResetEffect ==
  ASSUME proc \in Seq(Process), NEW p \in Pids, vt_reset(p)
  PROVE  /\ Only(p)
         /\ proc'[p].at = "user" /\ proc'[p].vt_my_trace = proc[p].vt_my_trace
         /\ proc'[p].init_pid = p /\ proc'[p].rc = proc[p].rc /\ proc'[p].childv = {}
         /\ proc'[p].fork_performed = proc[p].fork_performed /\ proc'[p].fd = 0
         /\ proc'[p].read = proc[p].read /\ proc'[p].left = proc[p].left
         /\ proc'[p].then = proc[p].then
<1> DEFINE x == proc[p]
           y == [x EXCEPT !.at = "user", !.childv = {}, !.init_pid = p, !.fd = 0]
<1>0. p \in Nat
  BY DEF Pids
<1>1. x \in Process
  BY ProcessFields
<1>2. proc' = [proc EXCEPT ![p] = y]
  BY DEF vt_reset
<1> HIDE DEF x
<1>3. y \in Process
  BY <1>1, <1>0 DEF Process, Stages, Lefts
<1>4. /\ y.at = "user" /\ y.vt_my_trace = x.vt_my_trace /\ y.init_pid = p /\ y.rc = x.rc
      /\ y.childv = {} /\ y.fork_performed = x.fork_performed /\ y.fd = 0 /\ y.read = x.read
      /\ y.left = x.left /\ y.then = x.then
  BY <1>1 DEF Process
<1> HIDE DEF y
<1>5. Only(p) /\ proc'[p] = y
  BY <1>2, <1>3, SetProcess
<1> QED
  BY <1>4, <1>5 DEF x

\* A process closes its trace and goes on as another program (the exec wrappers).
LEMMA ExecEffect ==
  ASSUME proc \in Seq(Process), NEW p \in Pids, exec(p)
  PROVE  /\ Only(p)
         /\ proc'[p].at = "close" /\ proc'[p].vt_my_trace = proc[p].vt_my_trace
         /\ proc'[p].init_pid = proc[p].init_pid /\ proc'[p].rc = proc[p].rc
         /\ proc'[p].childv = proc[p].childv /\ proc'[p].fork_performed = proc[p].fork_performed
         /\ proc'[p].fd = proc[p].fd /\ proc'[p].read = proc[p].read /\ proc'[p].left = proc[p].left
         /\ proc'[p].then = "other"
<1> DEFINE x == proc[p]
           y == [x EXCEPT !.at = "close", !.then = "other"]
<1>1. x \in Process
  BY ProcessFields
<1>2. proc' = [proc EXCEPT ![p] = y]
  BY DEF exec
<1> HIDE DEF x
<1>3. y \in Process
  BY <1>1 DEF Process, Stages, Lefts
<1>4. /\ y.at = "close" /\ y.vt_my_trace = x.vt_my_trace /\ y.init_pid = x.init_pid /\ y.rc = x.rc
      /\ y.childv = x.childv /\ y.fork_performed = x.fork_performed /\ y.fd = x.fd
      /\ y.read = x.read /\ y.left = x.left /\ y.then = "other"
  BY <1>1 DEF Process
<1> HIDE DEF y
<1>5. Only(p) /\ proc'[p] = y
  BY <1>2, <1>3, SetProcess
<1> QED
  BY <1>4, <1>5 DEF x

\* The buffer is on the local disk; both files are left to be moved.
LEMMA CloseEffect ==
  ASSUME proc \in Seq(Process), NEW p \in Pids, VTThrd_close(p)
  PROVE  /\ Only(p)
         /\ proc'[p].at = "wait" /\ proc'[p].vt_my_trace = proc[p].vt_my_trace
         /\ proc'[p].init_pid = proc[p].init_pid /\ proc'[p].rc = proc[p].rc
         /\ proc'[p].childv = proc[p].childv /\ proc'[p].fork_performed = proc[p].fork_performed
         /\ proc'[p].fd = proc[p].fd /\ proc'[p].read = proc[p].read /\ proc'[p].left = LocalKinds
         /\ proc'[p].then = proc[p].then
<1> DEFINE x == proc[p]
           y == [x EXCEPT !.at = "wait", !.left = LocalKinds]
<1>1. x \in Process
  BY ProcessFields
<1>2. proc' = [proc EXCEPT ![p] = y]
  BY DEF VTThrd_close
<1> HIDE DEF x
<1>3. y \in Process
  BY <1>1 DEF Process, Stages, Lefts
<1>4. /\ y.at = "wait" /\ y.vt_my_trace = x.vt_my_trace /\ y.init_pid = x.init_pid /\ y.rc = x.rc
      /\ y.childv = x.childv /\ y.fork_performed = x.fork_performed /\ y.fd = x.fd
      /\ y.read = x.read /\ y.left = LocalKinds /\ y.then = x.then
  BY <1>1 DEF Process
<1> HIDE DEF y
<1>5. Only(p) /\ proc'[p] = y
  BY <1>2, <1>3, SetProcess
<1> QED
  BY <1>4, <1>5 DEF x

\* The children are dead; the first process counts streams, the others move files.
LEMMA WaitEffect ==
  ASSUME proc \in Seq(Process), NEW p \in Pids, NEW a,
         a = IF proc[p].vt_my_trace = 0 THEN "control" ELSE "move", proc' = AfterWait(p)
  PROVE  /\ Only(p)
         /\ proc'[p].at = a /\ proc'[p].vt_my_trace = proc[p].vt_my_trace
         /\ proc'[p].init_pid = proc[p].init_pid /\ proc'[p].rc = proc[p].rc /\ proc'[p].childv = {}
         /\ proc'[p].fork_performed = proc[p].fork_performed /\ proc'[p].fd = proc[p].fd
         /\ proc'[p].read = proc[p].read /\ proc'[p].left = proc[p].left
         /\ proc'[p].then = proc[p].then
<1> DEFINE x == proc[p]
           y == [x EXCEPT !.childv = {}, !.at = a]
<1>1. x \in Process
  BY ProcessFields
<1>2. proc' = [proc EXCEPT ![p] = y]
  BY DEF AfterWait
<1> HIDE DEF x
<1>3. y \in Process
  BY <1>1 DEF Process, Stages, Lefts
<1>4. /\ y.at = a /\ y.vt_my_trace = x.vt_my_trace /\ y.init_pid = x.init_pid /\ y.rc = x.rc
      /\ y.childv = {} /\ y.fork_performed = x.fork_performed /\ y.fd = x.fd /\ y.read = x.read
      /\ y.left = x.left /\ y.then = x.then
  BY <1>1 DEF Process
<1> HIDE DEF y
<1>5. Only(p) /\ proc'[p] = y
  BY <1>2, <1>3, SetProcess
<1> QED
  BY <1>4, <1>5 DEF x

\* The first of the files that are left has been moved (VTGen_delete).
LEMMA MoveEffect ==
  ASSUME proc \in Seq(Process), NEW p \in Pids, proc[p].left # << >>,
         proc' = [proc EXCEPT ![p].at = "move", ![p].left = Tail(@)]
  PROVE  /\ Only(p)
         /\ proc'[p].at = "move" /\ proc'[p].vt_my_trace = proc[p].vt_my_trace
         /\ proc'[p].init_pid = proc[p].init_pid /\ proc'[p].rc = proc[p].rc
         /\ proc'[p].childv = proc[p].childv /\ proc'[p].fork_performed = proc[p].fork_performed
         /\ proc'[p].fd = proc[p].fd /\ proc'[p].read = proc[p].read
         /\ proc'[p].left = Tail(proc[p].left) /\ proc'[p].then = proc[p].then
<1> DEFINE x == proc[p]
           y == [x EXCEPT !.at = "move", !.left = Tail(@)]
<1>0. Tail(x.left) \in Lefts
  BY ProcessFields, LeftsFacts
<1>1. x \in Process
  BY ProcessFields
<1>2. proc' = [proc EXCEPT ![p] = y]
  OBVIOUS
<1> HIDE DEF x
<1>3. y \in Process
  BY <1>1, <1>0 DEF Process, Stages, Lefts
<1>4. /\ y.at = "move" /\ y.vt_my_trace = x.vt_my_trace /\ y.init_pid = x.init_pid /\ y.rc = x.rc
      /\ y.childv = x.childv /\ y.fork_performed = x.fork_performed /\ y.fd = x.fd
      /\ y.read = x.read /\ y.left = Tail(x.left) /\ y.then = x.then
  BY <1>1 DEF Process
<1> HIDE DEF y
<1>5. Only(p) /\ proc'[p] = y
  BY <1>2, <1>3, SetProcess
<1> QED
  BY <1>4, <1>5 DEF x

\* A process that is dead keeps only its number and its identity.
LEMMA DeadEffect ==
  ASSUME proc \in Seq(Process), NEW p \in Pids, proc' = Dead(p)
  PROVE  /\ Only(p)
         /\ proc'[p].at = "dead" /\ proc'[p].vt_my_trace = proc[p].vt_my_trace
         /\ proc'[p].init_pid = proc[p].init_pid /\ proc'[p].rc = 0 /\ proc'[p].childv = {}
         /\ proc'[p].fork_performed = FALSE /\ proc'[p].fd = 0 /\ proc'[p].read = 0
         /\ proc'[p].left = << >> /\ proc'[p].then = "dead"
<1> DEFINE x == proc[p]
           v == vt_open(p)
           y == [v EXCEPT !.at = "dead", !.vt_my_trace = x.vt_my_trace, !.init_pid = x.init_pid]
<1>1. x.vt_my_trace \in Nat /\ x.init_pid \in Nat /\ p \in Nat
  BY ProcessFields DEF Pids
<1>2. proc' = [proc EXCEPT ![p] = y]
  BY DEF Dead
<1>0. v \in Process
  BY <1>1 DEF vt_open, Process, Stages, Lefts
<1>6. /\ v.rc = 0 /\ v.childv = {} /\ v.fork_performed = FALSE /\ v.fd = 0 /\ v.read = 0
      /\ v.left = << >> /\ v.then = "dead"
  BY DEF vt_open
<1> HIDE DEF x, v
<1>3. y \in Process
  BY <1>0, <1>1 DEF Process, Stages
<1>4. /\ y.at = "dead" /\ y.vt_my_trace = x.vt_my_trace /\ y.init_pid = x.init_pid /\ y.rc = 0
      /\ y.childv = {} /\ y.fork_performed = FALSE /\ y.fd = 0 /\ y.read = 0 /\ y.left = << >>
      /\ y.then = "dead"
  BY <1>0, <1>6 DEF Process
<1> HIDE DEF y
<1>5. Only(p) /\ proc'[p] = y
  BY <1>2, <1>3, SetProcess
<1> QED
  BY <1>4, <1>5 DEF x

\* fork adds a copy of the parent, and changes no other process.
LEMMA ForkEffect ==
  ASSUME proc \in Seq(Process), NEW p \in Pids, fork(p)
  PROVE  /\ proc' \in Seq(Process) /\ Len(proc') = Len(proc) + 1
         /\ DOMAIN proc' = DOMAIN proc \cup {Len(proc) + 1} /\ Len(proc) + 1 \notin DOMAIN proc
         /\ \A q \in Pids : q # p => proc'[q] = proc[q]
         /\ proc'[p].at = "forking" /\ proc'[p].vt_my_trace = proc[p].vt_my_trace
         /\ proc'[p].init_pid = proc[p].init_pid /\ proc'[p].rc = Len(proc) + 1
         /\ proc'[p].childv = proc[p].childv /\ proc'[p].fork_performed = proc[p].fork_performed
         /\ proc'[p].fd = proc[p].fd /\ proc'[p].read = proc[p].read /\ proc'[p].left = proc[p].left
         /\ proc'[p].then = proc[p].then
         /\ proc'[Len(proc) + 1].at = "open"
         /\ proc'[Len(proc) + 1].vt_my_trace = proc[p].vt_my_trace
         /\ proc'[Len(proc) + 1].init_pid = proc[p].init_pid /\ proc'[Len(proc) + 1].rc = proc[p].rc
         /\ proc'[Len(proc) + 1].childv = proc[p].childv
         /\ proc'[Len(proc) + 1].fork_performed = proc[p].fork_performed
         /\ proc'[Len(proc) + 1].fd = proc[p].fd /\ proc'[Len(proc) + 1].read = proc[p].read
         /\ proc'[Len(proc) + 1].left = proc[p].left /\ proc'[Len(proc) + 1].then = proc[p].then
<1> DEFINE n == Len(proc) + 1
           x == proc[p]
           y == [x EXCEPT !.at = "forking", !.rc = n]
           z == [x EXCEPT !.at = "open"]
<1>1. x \in Process /\ n \in Nat
  BY ProcessFields
<1>2. proc' = Append([proc EXCEPT ![p] = y], z)
  BY DEF fork
<1> HIDE DEF x, n
<1>3. y \in Process /\ z \in Process
  BY <1>1 DEF Process, Stages
<1>4. /\ y.at = "forking" /\ y.vt_my_trace = x.vt_my_trace /\ y.init_pid = x.init_pid /\ y.rc = n
      /\ y.childv = x.childv /\ y.fork_performed = x.fork_performed /\ y.fd = x.fd
      /\ y.read = x.read /\ y.left = x.left /\ y.then = x.then
  BY <1>1 DEF Process
<1>5. /\ z.at = "open" /\ z.vt_my_trace = x.vt_my_trace /\ z.init_pid = x.init_pid /\ z.rc = x.rc
      /\ z.childv = x.childv /\ z.fork_performed = x.fork_performed /\ z.fd = x.fd
      /\ z.read = x.read /\ z.left = x.left /\ z.then = x.then
  BY <1>1 DEF Process
<1> HIDE DEF y, z
<1>6. /\ proc' \in Seq(Process) /\ Len(proc') = n /\ DOMAIN proc' = DOMAIN proc \cup {n}
      /\ n \notin DOMAIN proc
      /\ \A q \in Pids : q # p => proc'[q] = proc[q]
      /\ proc'[p] = y /\ proc'[n] = z
  BY <1>2, <1>3 DEF Pids, n
<1> QED
  BY <1>4, <1>5, <1>6 DEF x, n

------------------------------------------------------------------------------
(* The types, and what they need of the order in which a process goes      *)
(* through its stages.                                                     *)

Own == {"user", "forking", "close", "wait", "control", "remove", "move", "copy", "unify", "other"}
Copies == {"open", "lock", "update", "reset"}
Waiting == {"open", "lock", "update"}
Statuses == {"idle", "running", "done", "failed", "killed"}
States == {"local", "unified", "cut", "partial"}
\* A unified file that was written to its end, as far as vtunify noticed.
Completed == {"unified", "cut"}

\* A process that has taken a number, and those that have among all but the first.
Numbered(p) == proc[p].init_pid = p \/ proc[p].at = "reset"
Recorders == {p \in Pids : p # 1 /\ proc[p].at \notin Waiting}

\* The run, and a program's bound on its processes.
ConfOK ==
  /\ IsConf(conf)
  /\ proc # << >> =>
       /\ conf.size = 1 /\ {"renames", "processes"} \subseteq DOMAIN conf
       /\ conf.renames \in BOOLEAN /\ conf.processes \in 1..MaxProcesses
       /\ Len(proc) <= conf.processes

ProcOK == proc \in Seq(Process) /\ \A p \in Pids : proc[p].childv \subseteq Pids

\* A number is given to one process at most.
CounterOK ==
  /\ counter \in Seq(Nat) /\ idfile \in 0..Len(counter)
  /\ \A f \in DOMAIN counter : counter[f] <= Cardinality(Recorders)

\* Whoever holds the lock has read what is in the file.
LockOf(p) ==
  /\ proc[p].at \in {"lock", "update"} => proc[p].fd \in DOMAIN counter
  /\ proc[p].at = "update" =>
       /\ proc[p].read = counter[proc[p].fd]
       /\ \A q \in Pids : proc[q].at = "update" /\ proc[q].fd = proc[p].fd => q = p
LockOK == \A p \in Pids : LockOf(p)

\* A process has its own identity except as the copy of its parent.
StageOf(p) ==
  /\ proc[p].at \in Own => proc[p].init_pid = p
  /\ proc[p].at \in Copies => proc[p].init_pid # p
  /\ p = 1 => proc[p].init_pid = 1 /\ proc[p].vt_my_trace = 0
  /\ Numbered(p) /\ p # 1 => proc[p].vt_my_trace >= 1
  /\ proc[p].at \in {"control", "remove", "unify"} => p = 1
  /\ proc[p].at = "forking" => proc[p].rc \in Pids /\ proc[p].rc > p
  /\ proc[p].fork_performed => Len(proc) >= 2
StageOK == \A p \in Pids : StageOf(p)

\* The streams are counted once by the first process, which starts vtunify later.
MasterOK ==
  proc # << >> =>
    /\ proc[1].at \in {"user", "forking", "close", "wait", "control"} => ~Counted
    /\ proc[1].at \in {"remove", "move", "copy", "unify"} => Counted
    /\ proc[1].at \notin {"unify", "other", "dead"} => starts = 0
    /\ starts = 0 => conf.local = {}

LostOK ==
  /\ late \subseteq Pids /\ lost \subseteq Pids
  /\ proc = << >> => counter = << >>

\* The first process exists from the beginning.
TreeType == ConfOK /\ ProcOK /\ CounterOK /\ LockOK /\ StageOK /\ MasterOK /\ LostOK

------------------------------------------------------------------------------
(* What all steps of one process, p, have in common.                       *)

\* Processes have the numbers 1, 2, ...; there are finitely many.
LEMMA PidsFacts ==
  ASSUME ProcOK
  PROVE  /\ Len(proc) \in Nat /\ Pids = 1..Len(proc) /\ IsFiniteSet(Pids)
         /\ proc # << >> => 1 \in Pids
         /\ \A p \in Pids : p \in Nat /\ proc # << >>
<1>1. Len(proc) \in Nat /\ Pids = 1..Len(proc)
  BY DEF ProcOK, Pids
<1>2. IsFiniteSet(1..Len(proc))
  BY <1>1, FS_Interval
<1>3. proc # << >> => 1 \in Pids
  BY <1>1 DEF ProcOK
<1> QED
  BY <1>1, <1>2, <1>3

\* A process lists only processes as its children.
LEMMA ProcCalm ==
  ASSUME ProcOK, NEW p \in Pids, Only(p), proc'[p].childv \subseteq Pids
  PROVE  ProcOK'
BY DEF ProcOK, Only, Pids

\* The bound on the number of processes is kept.
LEMMA ConfCalm ==
  ASSUME ConfOK, ProcOK, NEW p \in Pids, Only(p), conf' = conf
  PROVE  ConfOK'
<1>1. proc # << >>
  BY PidsFacts
<1> QED
  BY <1>1 DEF ConfOK, Only

\* Who has the lock keeps it when others go on.
LEMMA LockCalm ==
  ASSUME LockOK, NEW p \in Pids, Only(p), counter' = counter, proc'[p].at \notin {"lock", "update"}
  PROVE  LockOK'
BY DEF LockOK, LockOf, Only, Pids

\* The number in the file grows only when a child takes it.
LEMMA CounterCalm ==
  ASSUME ProcOK, CounterOK, NEW p \in Pids, Only(p), counter' = counter, idfile' \in {0, idfile},
         proc'[p].at \in Waiting => proc[p].at \in Waiting
  PROVE  CounterOK'
<1>1. Recorders \subseteq Recorders' /\ IsFiniteSet(Recorders') /\ IsFiniteSet(Recorders)
  <2>1. Recorders \subseteq Recorders' /\ Recorders' \subseteq Pids /\ Recorders \subseteq Pids
    BY DEF Only, Recorders, Pids
  <2> QED
    BY <2>1, PidsFacts, FS_Subset
<1>2. Cardinality(Recorders) <= Cardinality(Recorders')
  BY <1>1, FS_Subset
<1>3. Cardinality(Recorders) \in Nat /\ Cardinality(Recorders') \in Nat
  BY <1>1, FS_CardinalityType
<1>4. \A f \in DOMAIN counter : counter[f] \in Nat
  BY DEF CounterOK
<1> HIDE DEF Recorders
<1>5. ASSUME NEW f \in DOMAIN counter PROVE counter[f] <= Cardinality(Recorders')
  BY <1>2, <1>3, <1>4, <1>5 DEF CounterOK
<1> QED
  BY <1>5 DEF CounterOK

\* The other processes stay in their stages.
LEMMA StageCalm ==
  ASSUME StageOK, NEW p \in Pids, Only(p), StageOf(p)'
  PROVE  StageOK'
BY DEF StageOK, StageOf, Numbered, Only, Pids

\* What another process does says nothing of how far the first one is.
LEMMA MasterCalm ==
  ASSUME MasterOK, NEW p \in Pids, p # 1, Only(p), conf' = conf, starts' = starts, ProcOK
  PROVE  MasterOK'
<1>1. proc # << >> /\ 1 \in Pids
  BY PidsFacts
<1>2. proc'[1] = proc[1]
  BY <1>1 DEF Only
<1> QED
  BY <1>1, <1>2 DEF MasterOK, Counted

\* Only processes that exist are stopped or late.
LEMMA LostCalm ==
  ASSUME LostOK, ProcOK, NEW p \in Pids, Only(p), late' \subseteq late \cup {p}, lost' \subseteq lost \cup {p}
  PROVE  LostOK'
<1>1. proc # << >> /\ Len(proc) \in Nat /\ Len(proc) > 0
  BY PidsFacts DEF ProcOK, Pids
<1>2. proc' # << >>
  BY <1>1 DEF Only
<1> QED
  BY <1>1, <1>2 DEF LostOK, Only, Pids

\* One process goes on, and neither the counter nor the run changes.
LEMMA TypeCalm ==
  ASSUME TreeType, NEW p \in Pids, Only(p), conf' = conf, counter' = counter,
         idfile' \in {0, idfile}, late' \subseteq late \cup {p}, lost' \subseteq lost \cup {p},
         proc'[p].childv \subseteq Pids, proc'[p].at \notin Waiting, StageOf(p)', MasterOK'
  PROVE  TreeType'
<1> USE DEF TreeType
<1>1. ProcOK' /\ ConfOK' /\ StageOK' /\ LostOK'
  BY ProcCalm, ConfCalm, StageCalm, LostCalm
<1>2. LockOK'
  BY LockCalm DEF Waiting
<1>3. CounterOK'
  BY CounterCalm
<1> QED
  BY <1>1, <1>2, <1>3

------------------------------------------------------------------------------
(* The types hold after every step of a process.                           *)

\* What is known of a process that takes a step.
LEMMA TypeHere ==
  ASSUME TreeType, NEW p \in Pids
  PROVE  /\ proc \in Seq(Process) /\ StageOf(p) /\ LockOf(p) /\ proc # << >> /\ 1 \in Pids /\ p \in Nat
         /\ p >= 1 /\ proc[p].childv \subseteq Pids /\ Len(proc) \in Nat /\ p <= Len(proc)
         /\ Pids = 1..Len(proc)
BY PidsFacts DEF TreeType, ProcOK, StageOK, LockOK

\* Most steps: p goes from one stage of its own to another.
LEMMA TypeMoves ==
  ASSUME TreeType, NEW p \in Pids, Only(p), conf' = conf, counter' = counter, starts' = starts,
         idfile' \in {0, idfile}, late' \subseteq late \cup {p}, lost' \subseteq lost \cup {p},
         proc'[p].childv \subseteq Pids, proc[p].at \in Own, proc'[p].at \in Own \cup {"dead"},
         proc'[p].at # "forking",
         proc'[p].at \in {"control", "remove", "unify"} => p = 1,
         proc'[p].init_pid = proc[p].init_pid, proc'[p].vt_my_trace = proc[p].vt_my_trace,
         proc'[p].fork_performed => proc[p].fork_performed,
         p = 1 => MasterOK'
  PROVE  TreeType'
<1>1. StageOf(p) /\ proc # << >>
  BY TypeHere
<1>2. StageOf(p)'
  BY <1>1 DEF StageOf, Numbered, Only, Own, Copies
<1>3. MasterOK'
  BY MasterCalm DEF TreeType
<1>4. proc'[p].at \notin Waiting
  BY DEF Own, Waiting
<1> QED
  BY <1>2, <1>3, <1>4, TypeCalm

\* A process dies.
LEMMA TypeDies ==
  ASSUME TreeType, NEW p \in Pids, proc' = Dead(p), conf' = conf, counter' = counter,
         starts' = starts, idfile' = idfile, late' = late, lost' \subseteq lost \cup {p}
  PROVE  TreeType'
<1>1. StageOf(p) /\ proc \in Seq(Process) /\ proc # << >>
  BY TypeHere
<1>2. /\ Only(p) /\ proc'[p].at = "dead" /\ proc'[p].childv = {} /\ proc'[p].fork_performed = FALSE
      /\ proc'[p].init_pid = proc[p].init_pid /\ proc'[p].vt_my_trace = proc[p].vt_my_trace
  BY <1>1, DeadEffect
<1>3. StageOf(p)'
  BY <1>1, <1>2 DEF StageOf, Numbered, Own, Copies
<1>4. MasterOK'
  <2>1. CASE p # 1
    BY <1>2, <2>1, MasterCalm DEF TreeType
  <2>2. CASE p = 1
    BY <1>1, <1>2, <2>2 DEF TreeType, MasterOK
  <2> QED
    BY <2>1, <2>2
<1> QED
  BY <1>2, <1>3, <1>4, TypeCalm DEF Waiting

\* exit and exec: the end of recording begins.
LEMMA TypeExit ==
  ASSUME TreeType, NEW p \in Pids, exit(p) \/ exec(p), UNCHANGED unifyVars
  PROVE  TreeType'
<1>1. /\ proc[p].at = "user" /\ conf' = conf /\ counter' = counter /\ starts' = starts
      /\ idfile' = idfile /\ late' = late /\ lost' = lost
  BY DEF exit, exec, unifyVars
<1>2. StageOf(p) /\ proc \in Seq(Process) /\ proc # << >> /\ proc[p].childv \subseteq Pids
  BY TypeHere
<1>3. /\ Only(p) /\ proc'[p].at = "close" /\ proc'[p].childv = proc[p].childv
      /\ proc'[p].fork_performed = proc[p].fork_performed
      /\ proc'[p].init_pid = proc[p].init_pid /\ proc'[p].vt_my_trace = proc[p].vt_my_trace
  <2>1. CASE exit(p)
    <3>1. proc' = Goto(p, "close") /\ "close" \in Stages
      BY <2>1 DEF exit, Stages
    <3> QED
      BY <1>2, <3>1, GotoEffect
  <2>2. CASE exec(p)
    BY <1>2, <2>2, ExecEffect
  <2> QED
    BY <2>1, <2>2
<1>4. p = 1 => MasterOK'
  BY <1>1, <1>2, <1>3 DEF TreeType, MasterOK, Counted, Only
<1> QED
  BY <1>1, <1>2, <1>3, <1>4, TypeMoves DEF Own

\* childv_add: the child exists.
LEMMA TypeChild ==
  ASSUME TreeType, NEW p \in Pids, childv_add(p), UNCHANGED unifyVars
  PROVE  TreeType'
<1>1. /\ proc[p].at = "forking" /\ conf' = conf /\ counter' = counter /\ starts' = starts
      /\ idfile' = idfile /\ late' = late /\ lost' = lost
  BY DEF childv_add, unifyVars
<1>2. StageOf(p) /\ proc \in Seq(Process) /\ proc # << >> /\ proc[p].childv \subseteq Pids
  BY TypeHere
<1>3. /\ Only(p) /\ proc'[p].at = "user" /\ proc'[p].childv = proc[p].childv \cup {proc[p].rc}
      /\ proc'[p].init_pid = proc[p].init_pid /\ proc'[p].vt_my_trace = proc[p].vt_my_trace
  BY <1>2, ChildEffect
<1>4. p = 1 => MasterOK'
  BY <1>1, <1>2, <1>3 DEF TreeType, MasterOK, Counted, Only
<1>5. MasterOK'
  BY <1>1, <1>3, <1>4, MasterCalm DEF TreeType
<1>6. proc[p].rc \in Pids /\ proc[p].rc > p /\ Len(proc) >= 2
  BY <1>1, <1>2, TypeHere DEF StageOf
<1>7. StageOf(p)'
  BY <1>1, <1>2, <1>3, <1>6 DEF StageOf, Numbered, Only, Own, Copies
<1> QED
  BY <1>1, <1>2, <1>3, <1>5, <1>6, <1>7, TypeCalm DEF Waiting

\* vt_reset: the child becomes a process of its own.
LEMMA TypeReset ==
  ASSUME TreeType, NEW p \in Pids, vt_reset(p), UNCHANGED unifyVars
  PROVE  TreeType'
<1>1. /\ proc[p].at = "reset" /\ conf' = conf /\ counter' = counter /\ starts' = starts
      /\ idfile' = idfile /\ late' = late /\ lost' = lost
  BY DEF vt_reset, unifyVars
<1>2. StageOf(p) /\ proc \in Seq(Process) /\ proc # << >> /\ proc[p].childv \subseteq Pids
  BY TypeHere
<1>3. /\ Only(p) /\ proc'[p].at = "user" /\ proc'[p].childv = {} /\ proc'[p].init_pid = p
      /\ proc'[p].vt_my_trace = proc[p].vt_my_trace
      /\ proc'[p].fork_performed = proc[p].fork_performed
  BY <1>2, ResetEffect
<1>4. p # 1
  BY <1>1, <1>2 DEF StageOf, Copies
<1>5. MasterOK'
  BY <1>1, <1>3, <1>4, MasterCalm DEF TreeType
<1>6. StageOf(p)'
  BY <1>1, <1>2, <1>3, <1>4 DEF StageOf, Numbered, Only, Own, Copies
<1> QED
  BY <1>1, <1>2, <1>3, <1>5, <1>6, TypeCalm DEF Waiting

\* A program that was executed ends, or a process is killed.
LEMMA TypeEnds ==
  ASSUME TreeType, NEW p \in Pids, OtherEnds(p) \/ KillProcess(p), UNCHANGED unifyVars
  PROVE  TreeType'
<1>1. /\ proc' = Dead(p) /\ conf' = conf /\ counter' = counter /\ starts' = starts
      /\ idfile' = idfile /\ late' = late /\ lost' \subseteq lost \cup {p}
  BY DEF OtherEnds, KillProcess, unifyVars
<1> QED
  BY <1>1, TypeDies

\* A signal: the process closes its trace or dies (vt_close_by_signal).
LEMMA TypeSignal ==
  ASSUME TreeType, NEW p \in Pids, vt_close_by_signal(p), UNCHANGED unifyVars
  PROVE  TreeType'
<1>1. /\ conf' = conf /\ counter' = counter /\ starts' = starts
      /\ idfile' = idfile /\ late' = late /\ lost' = lost \cup {p}
  BY DEF vt_close_by_signal, unifyVars
<1>2. CASE ~Closes(p)
  <2>1. proc' = Dead(p)
    BY <1>2 DEF vt_close_by_signal
  <2> QED
    BY <1>1, <2>1, TypeDies
<1>3. CASE Closes(p)
  <2>1. proc' = Goto(p, "close") /\ "close" \in Stages /\ proc[p].at \in {"user", "forking"}
    BY <1>3 DEF vt_close_by_signal, Closes, Stages
  <2>2. StageOf(p) /\ proc \in Seq(Process) /\ proc # << >> /\ proc[p].childv \subseteq Pids
    BY TypeHere
  <2>3. /\ Only(p) /\ proc'[p].at = "close" /\ proc'[p].childv = proc[p].childv
        /\ proc'[p].fork_performed = proc[p].fork_performed
        /\ proc'[p].init_pid = proc[p].init_pid /\ proc'[p].vt_my_trace = proc[p].vt_my_trace
    BY <2>1, <2>2, GotoEffect
  <2>4. p = 1 => MasterOK'
    BY <1>1, <2>1, <2>2, <2>3 DEF TreeType, MasterOK, Counted, Only
  <2> QED
    BY <1>1, <2>1, <2>2, <2>3, <2>4, TypeMoves DEF Own
<1> QED
  BY <1>2, <1>3

\* VTThrd_close: the buffer goes to the local files.
LEMMA TypeClose ==
  ASSUME TreeType, NEW p \in Pids, VTThrd_close(p), UNCHANGED unifyVars
  PROVE  TreeType'
<1>1. /\ proc[p].at = "close" /\ conf' = conf /\ counter' = counter /\ starts' = starts
      /\ idfile' = idfile /\ late' = late /\ lost' = lost
  BY DEF VTThrd_close, unifyVars
<1>2. StageOf(p) /\ proc \in Seq(Process) /\ proc # << >> /\ proc[p].childv \subseteq Pids
  BY TypeHere
<1>3. /\ Only(p) /\ proc'[p].at = "wait" /\ proc'[p].childv = proc[p].childv
      /\ proc'[p].fork_performed = proc[p].fork_performed
      /\ proc'[p].init_pid = proc[p].init_pid /\ proc'[p].vt_my_trace = proc[p].vt_my_trace
  BY <1>2, CloseEffect
<1>4. p = 1 => MasterOK'
  BY <1>1, <1>2, <1>3 DEF TreeType, MasterOK, Counted, Only
<1> QED
  BY <1>1, <1>2, <1>3, <1>4, TypeMoves DEF Own

\* vt_fork_waitchilds: only the first process goes on to count streams.
LEMMA TypeWait ==
  ASSUME TreeType, NEW p \in Pids, vt_fork_waitchilds(p), UNCHANGED unifyVars
  PROVE  TreeType'
<1>1. /\ proc[p].at = "wait" /\ conf' = conf /\ counter' = counter /\ starts' = starts
      /\ idfile' = idfile /\ late' = late /\ lost' = lost /\ proc' = AfterWait(p)
  BY DEF vt_fork_waitchilds, unifyVars
<1>2. StageOf(p) /\ proc \in Seq(Process) /\ proc # << >>
  BY TypeHere
<1> DEFINE a == IF proc[p].vt_my_trace = 0 THEN "control" ELSE "move"
<1>3. /\ Only(p) /\ proc'[p].at = a /\ proc'[p].childv = {}
      /\ proc'[p].fork_performed = proc[p].fork_performed
      /\ proc'[p].init_pid = proc[p].init_pid /\ proc'[p].vt_my_trace = proc[p].vt_my_trace
  BY <1>1, <1>2, WaitEffect
<1>4. a = "control" => p = 1
  BY <1>1, <1>2 DEF StageOf, Numbered, Own
<1>5. p = 1 => a = "control"
  BY <1>2 DEF StageOf
<1>6. a \in {"control", "move"}
  OBVIOUS
<1> HIDE DEF a
<1>7. p = 1 => MasterOK'
  BY <1>1, <1>2, <1>3, <1>5 DEF TreeType, MasterOK, Counted, Only
<1> QED
  BY <1>1, <1>2, <1>3, <1>4, <1>6, <1>7, TypeMoves DEF Own

\* The file of the numbers is removed by the first process.
LEMMA TypeRemove ==
  ASSUME TreeType, NEW p \in Pids, RemoveIdFile(p), UNCHANGED unifyVars
  PROVE  TreeType'
<1>1. /\ proc[p].at = "remove" /\ conf' = conf /\ counter' = counter /\ starts' = starts
      /\ idfile' = 0 /\ late' = late /\ lost' = lost /\ proc' = Goto(p, "move") /\ "move" \in Stages
  BY DEF RemoveIdFile, unifyVars, Stages
<1>2. StageOf(p) /\ proc \in Seq(Process) /\ proc # << >> /\ proc[p].childv \subseteq Pids
  BY TypeHere
<1>3. /\ Only(p) /\ proc'[p].at = "move" /\ proc'[p].childv = proc[p].childv
      /\ proc'[p].fork_performed = proc[p].fork_performed
      /\ proc'[p].init_pid = proc[p].init_pid /\ proc'[p].vt_my_trace = proc[p].vt_my_trace
  BY <1>1, <1>2, GotoEffect
<1>4. p = 1 => MasterOK'
  BY <1>1, <1>2, <1>3 DEF TreeType, MasterOK, Counted, Only
<1> QED
  BY <1>1, <1>2, <1>3, <1>4, TypeMoves DEF Own

\* What VTGen_delete does to the process.
LEMMA DeleteEffect ==
  ASSUME proc \in Seq(Process), NEW p \in Pids, VTGen_delete(p)
  PROVE  /\ proc[p].at \in {"move", "copy"} /\ proc[p].left # << >>
         /\ Only(p) /\ proc'[p].at \in {"move", "copy"} /\ proc'[p].childv = proc[p].childv
         /\ proc'[p].fork_performed = proc[p].fork_performed
         /\ proc'[p].init_pid = proc[p].init_pid /\ proc'[p].vt_my_trace = proc[p].vt_my_trace
         /\ proc'[p].rc = proc[p].rc /\ proc'[p].then = proc[p].then
         /\ conf' = conf /\ counter' = counter /\ idfile' = idfile /\ late' = late /\ lost' = lost
         /\ \/ /\ disk' = Put(disk, Moved(p), Content("partial", << >>))
               /\ proc'[p].at = "copy" /\ proc'[p].left = proc[p].left
            \/ /\ disk' = Put(disk, Moved(p), LocalContent)
               /\ proc'[p].at = "move" /\ proc'[p].left = Tail(proc[p].left)
<1>1. /\ proc[p].at \in {"move", "copy"} /\ proc[p].left # << >>
      /\ conf' = conf /\ counter' = counter /\ idfile' = idfile /\ late' = late /\ lost' = lost
  BY DEF VTGen_delete
<1>2. CASE proc[p].at = "move" /\ ~conf.renames
  <2>1. /\ disk' = Put(disk, Moved(p), Content("partial", << >>))
        /\ proc' = Goto(p, "copy") /\ "copy" \in Stages
    BY <1>2 DEF VTGen_delete, Stages
  <2> QED
    BY <1>1, <2>1, GotoEffect
<1>3. CASE ~(proc[p].at = "move" /\ ~conf.renames)
  <2>1. /\ disk' = Put(disk, Moved(p), LocalContent)
        /\ proc' = [proc EXCEPT ![p].at = "move", ![p].left = Tail(@)]
    BY <1>3 DEF VTGen_delete
  <2> QED
    BY <1>1, <2>1, MoveEffect
<1> QED
  BY <1>2, <1>3

\* VTGen_delete: a file is moved or copied.
LEMMA TypeDelete ==
  ASSUME TreeType, NEW p \in Pids, VTGen_delete(p), UNCHANGED unifyVars
  PROVE  TreeType'
<1>1. starts' = starts
  BY DEF unifyVars
<1>2. StageOf(p) /\ proc \in Seq(Process) /\ proc # << >> /\ proc[p].childv \subseteq Pids
  BY TypeHere
<1>3. /\ proc[p].at \in {"move", "copy"} /\ proc[p].left # << >>
      /\ Only(p) /\ proc'[p].at \in {"move", "copy"} /\ proc'[p].childv = proc[p].childv
      /\ proc'[p].fork_performed = proc[p].fork_performed
      /\ proc'[p].init_pid = proc[p].init_pid /\ proc'[p].vt_my_trace = proc[p].vt_my_trace
      /\ conf' = conf /\ counter' = counter /\ idfile' = idfile /\ late' = late /\ lost' = lost
  BY <1>2, DeleteEffect
<1>4. p = 1 => MasterOK'
  BY <1>1, <1>2, <1>3 DEF TreeType, MasterOK, Counted, Only
<1> QED
  BY <1>1, <1>2, <1>3, <1>4, TypeMoves DEF Own

\* What Unified and Closed do to the process.
LEMMA AfterEffect ==
  ASSUME proc \in Seq(Process), NEW p \in Pids, proc' \in {After(p), Dead(p)}
  PROVE  \/ proc' = Dead(p)
         \/ /\ proc[p].then # "dead" /\ Only(p) /\ proc'[p].at = "other" /\ proc'[p].childv = proc[p].childv
            /\ proc'[p].fork_performed = proc[p].fork_performed
            /\ proc'[p].init_pid = proc[p].init_pid /\ proc'[p].vt_my_trace = proc[p].vt_my_trace
<1>1. proc' = Dead(p) \/ (proc' = Goto(p, "other") /\ proc[p].then # "dead")
  BY DEF After
<1>2. "other" \in Stages
  BY DEF Stages
<1> QED
  BY <1>1, <1>2, GotoEffect

\* The process ends, or goes on as another program.
LEMMA TypeAfter ==
  ASSUME TreeType, NEW p \in Pids, Unified(p) \/ Closed(p), UNCHANGED unifyVars
  PROVE  TreeType'
<1>1. /\ conf' = conf /\ counter' = counter /\ starts' = starts
      /\ idfile' = idfile /\ late' = late /\ lost' = lost /\ proc' \in {After(p), Dead(p)}
      /\ \/ proc[p].at = "unify"
         \/ proc[p].at = "move" /\ proc[p].vt_my_trace # 0
  BY DEF Unified, Closed, unifyVars
<1>2. StageOf(p) /\ proc \in Seq(Process) /\ proc # << >> /\ proc[p].childv \subseteq Pids
  BY TypeHere
<1>3. CASE proc' = Dead(p)
  BY <1>1, <1>3, TypeDies
<1>4. CASE proc' # Dead(p)
  <2>1. /\ Only(p) /\ proc'[p].at = "other" /\ proc'[p].childv = proc[p].childv
        /\ proc'[p].fork_performed = proc[p].fork_performed
        /\ proc'[p].init_pid = proc[p].init_pid /\ proc'[p].vt_my_trace = proc[p].vt_my_trace
    BY <1>1, <1>2, <1>4, AfterEffect
  <2>2. p = 1 => MasterOK'
    BY <1>1, <1>2, <2>1 DEF TreeType, MasterOK, Counted, Only, StageOf
  <2>3. proc[p].at \in Own
    BY <1>1 DEF Own
  <2> QED
    BY <1>1, <1>2, <2>1, <2>2, <2>3, TypeMoves DEF Own
<1> QED
  BY <1>3, <1>4

\* get_new_trcid: a new file of the numbers has 0 in it.
LEMMA TypeOpen ==
  ASSUME TreeType, NEW p \in Pids, OpenIdFile(p), UNCHANGED unifyVars
  PROVE  TreeType'
<1>1. /\ proc[p].at = "open" /\ conf' = conf /\ starts' = starts /\ late' = late /\ lost' = lost
      /\ \/ counter' = Append(counter, 0) /\ idfile' = Len(counter')
         \/ idfile # 0 /\ counter' = counter /\ idfile' = idfile
  BY DEF OpenIdFile, unifyVars
<1>2. /\ StageOf(p) /\ proc \in Seq(Process) /\ proc # << >> /\ proc[p].childv \subseteq Pids
      /\ LockOK /\ CounterOK /\ ProcOK
  BY TypeHere DEF TreeType
<1>3. /\ counter' \in Seq(Nat) /\ idfile' \in DOMAIN counter' /\ DOMAIN counter \subseteq DOMAIN counter'
      /\ idfile' \in 0..Len(counter') /\ idfile' \in Nat
      /\ \A f \in DOMAIN counter : counter'[f] = counter[f]
      /\ \A f \in DOMAIN counter' : f \in DOMAIN counter \/ counter'[f] = 0
  <2>1. counter \in Seq(Nat) /\ idfile \in 0..Len(counter)
    BY <1>2 DEF CounterOK
  <2>2. CASE counter' = Append(counter, 0) /\ idfile' = Len(counter')
    <3>1. counter' \in Seq(Nat) /\ Len(counter') = Len(counter) + 1 /\ Len(counter) \in Nat
      BY <2>1, <2>2
    <3>2. DOMAIN counter' = DOMAIN counter \cup {Len(counter')} /\ counter'[Len(counter')] = 0
      BY <2>1, <2>2
    <3>3. \A f \in DOMAIN counter : counter'[f] = counter[f]
      BY <2>1, <2>2
    <3> QED
      BY <2>2, <3>1, <3>2, <3>3
  <2>3. CASE idfile # 0 /\ counter' = counter /\ idfile' = idfile
    BY <2>1, <2>3
  <2> QED
    BY <1>1, <2>2, <2>3
<1>4. /\ Only(p) /\ proc'[p].at = "lock" /\ proc'[p].childv = proc[p].childv
      /\ proc'[p].fd = idfile' /\ proc'[p].fork_performed = proc[p].fork_performed
      /\ proc'[p].init_pid = proc[p].init_pid /\ proc'[p].vt_my_trace = proc[p].vt_my_trace
  BY <1>2, <1>3, OpenEffect
<1>5. p # 1
  BY <1>1, <1>2 DEF StageOf, Copies
<1>6. MasterOK' /\ ConfOK' /\ ProcOK' /\ LostOK'
  BY <1>1, <1>2, <1>4, <1>5, MasterCalm, ConfCalm, ProcCalm, LostCalm DEF TreeType
<1>7. StageOf(p)'
  BY <1>1, <1>2, <1>4 DEF StageOf, Numbered, Only, Own, Copies
<1>8. StageOK'
  BY <1>4, <1>7, StageCalm DEF TreeType
<1>9. LockOK'
  <2>1. LockOf(p)'
    BY <1>3, <1>4 DEF LockOf
  <2>2. ASSUME NEW q \in Pids, q # p PROVE LockOf(q)'
    <3>1. LockOf(q) /\ proc'[q] = proc[q]
      BY <1>2, <1>4, <2>2 DEF LockOK, Only
    <3>2. proc[q].at \in {"lock", "update"} => proc[q].fd \in DOMAIN counter
      BY <3>1 DEF LockOf
    <3>3. ASSUME proc[q].at = "update"
          PROVE  \A o \in Pids' : proc'[o].at = "update" /\ proc'[o].fd = proc'[q].fd => o = q
      BY <1>4, <3>1, <3>3 DEF LockOf, Only, Pids
    <3> QED
      BY <1>3, <3>1, <3>2, <3>3 DEF LockOf
  <2> QED
    BY <1>4, <2>1, <2>2 DEF LockOK, Only, Pids
<1>10. CounterOK'
  <2>1. Recorders' = Recorders
    BY <1>1, <1>4 DEF Recorders, Only, Pids, Waiting
  <2>2. Cardinality(Recorders) \in Nat
    <3>1. Recorders \subseteq Pids
      BY DEF Recorders
    <3> QED
      BY <1>2, <3>1, PidsFacts, FS_Subset, FS_CardinalityType
  <2>3. \A f \in DOMAIN counter : counter[f] <= Cardinality(Recorders)
    BY <1>2 DEF CounterOK
  <2> HIDE DEF Recorders
  <2> QED
    BY <1>3, <2>1, <2>2, <2>3 DEF CounterOK
<1> QED
  BY <1>6, <1>8, <1>9, <1>10 DEF TreeType

\* get_new_trcid: nobody else has the lock.
LEMMA TypeLock ==
  ASSUME TreeType, NEW p \in Pids, LockIdFile(p), UNCHANGED unifyVars
  PROVE  TreeType'
<1>1. /\ proc[p].at = "lock" /\ LockFree(proc[p].fd) /\ conf' = conf /\ counter' = counter
      /\ starts' = starts /\ idfile' = idfile /\ late' = late /\ lost' = lost
  BY DEF LockIdFile, unifyVars
<1>2. /\ StageOf(p) /\ LockOf(p) /\ proc \in Seq(Process) /\ proc # << >>
      /\ proc[p].childv \subseteq Pids /\ LockOK /\ CounterOK /\ ProcOK
  BY TypeHere DEF TreeType
<1>3. proc[p].fd \in DOMAIN counter /\ counter \in Seq(Nat)
  BY <1>1, <1>2 DEF LockOf, CounterOK
<1>4. /\ Only(p) /\ proc'[p].at = "update" /\ proc'[p].childv = proc[p].childv
      /\ proc'[p].fd = proc[p].fd /\ proc'[p].read = counter[proc[p].fd]
      /\ proc'[p].fork_performed = proc[p].fork_performed
      /\ proc'[p].init_pid = proc[p].init_pid /\ proc'[p].vt_my_trace = proc[p].vt_my_trace
  BY <1>2, <1>3, LockEffect
<1>5. p # 1
  BY <1>1, <1>2 DEF StageOf, Copies
<1>6. MasterOK' /\ ConfOK' /\ ProcOK' /\ LostOK'
  BY <1>1, <1>2, <1>4, <1>5, MasterCalm, ConfCalm, ProcCalm, LostCalm DEF TreeType
<1>7. StageOf(p)'
  BY <1>1, <1>2, <1>4 DEF StageOf, Numbered, Only, Own, Copies
<1>8. StageOK'
  BY <1>4, <1>7, StageCalm DEF TreeType
<1>9. LockOK'
  <2>1. \A q \in Pids : proc[q].at = "update" => proc[q].fd # proc[p].fd
    BY <1>1 DEF LockFree
  <2>2. LockOf(p)'
    BY <1>1, <1>3, <1>4, <2>1 DEF LockOf, Only, Pids
  <2>3. ASSUME NEW q \in Pids, q # p PROVE LockOf(q)'
    BY <1>1, <1>2, <1>4, <2>1, <2>3 DEF LockOK, LockOf, Only, Pids
  <2> QED
    BY <1>4, <2>2, <2>3 DEF LockOK, Only, Pids
<1>10. CounterOK'
  BY <1>1, <1>2, <1>4, CounterCalm DEF Waiting
<1> QED
  BY <1>6, <1>8, <1>9, <1>10 DEF TreeType

\* get_new_trcid: the number in the file counts the children that took one.
LEMMA TypeUpdate ==
  ASSUME TreeType, NEW p \in Pids, UpdateIdFile(p), UNCHANGED unifyVars
  PROVE  TreeType'
<1>1. /\ proc[p].at = "update" /\ conf' = conf /\ starts' = starts /\ idfile' = idfile
      /\ counter' = [counter EXCEPT ![proc[p].fd] = proc[p].read + 1]
      /\ late' \subseteq late \cup {p} /\ lost' = lost
  BY DEF UpdateIdFile, unifyVars
<1>2. /\ StageOf(p) /\ LockOf(p) /\ proc \in Seq(Process) /\ proc # << >>
      /\ proc[p].childv \subseteq Pids /\ LockOK /\ CounterOK /\ ProcOK
  BY TypeHere DEF TreeType
<1>0. PICK fd : fd = proc[p].fd
  OBVIOUS
<1>3. /\ fd \in DOMAIN counter /\ proc[p].read = counter[fd] /\ counter \in Seq(Nat)
      /\ proc[p].read \in Nat
  BY <1>0, <1>1, <1>2 DEF LockOf, CounterOK
<1>4. /\ Only(p) /\ proc'[p].at = "reset" /\ proc'[p].childv = proc[p].childv
      /\ proc'[p].vt_my_trace = proc[p].read + 1
      /\ proc'[p].fork_performed = proc[p].fork_performed /\ proc'[p].init_pid = proc[p].init_pid
  BY <1>2, UpdateEffect
<1>5. p # 1
  BY <1>1, <1>2 DEF StageOf, Copies
<1>6. MasterOK' /\ ConfOK' /\ ProcOK' /\ LostOK'
  BY <1>1, <1>2, <1>4, <1>5, MasterCalm, ConfCalm, ProcCalm, LostCalm DEF TreeType
<1>7. StageOf(p)'
  BY <1>1, <1>2, <1>3, <1>4 DEF StageOf, Numbered, Only, Own, Copies
<1>8. StageOK'
  BY <1>4, <1>7, StageCalm DEF TreeType
<1>9. /\ counter' \in Seq(Nat) /\ DOMAIN counter' = DOMAIN counter /\ Len(counter') = Len(counter)
      /\ counter'[fd] = counter[fd] + 1
      /\ \A f \in DOMAIN counter : f # fd => counter'[f] = counter[f]
  BY <1>0, <1>1, <1>3
<1>10. LockOK'
  <2>1. \A q \in Pids : proc[q].at = "update" /\ proc[q].fd = fd => q = p
    BY <1>0, <1>1, <1>2 DEF LockOf
  <2>2. LockOf(p)'
    BY <1>4 DEF LockOf
  <2>3. ASSUME NEW q \in Pids, q # p PROVE LockOf(q)'
    <3>1. LockOf(q) /\ proc'[q] = proc[q]
      BY <1>2, <1>4, <2>3 DEF LockOK, Only
    <3>2. proc[q].at = "update" => proc[q].fd # fd
      BY <2>1, <2>3
    <3>3. ASSUME proc[q].at = "update"
          PROVE  \A o \in Pids' : proc'[o].at = "update" /\ proc'[o].fd = proc'[q].fd => o = q
      BY <1>4, <3>1, <3>3 DEF LockOf, Only, Pids
    <3> QED
      BY <1>9, <3>1, <3>2, <3>3 DEF LockOf
  <2> QED
    BY <1>4, <2>2, <2>3 DEF LockOK, Only, Pids
<1>11. CounterOK'
  <2>1. Recorders' = Recorders \cup {p} /\ p \notin Recorders
    BY <1>1, <1>4, <1>5 DEF Recorders, Only, Pids, Waiting
  <2>2. IsFiniteSet(Recorders)
    <3>1. Recorders \subseteq Pids
      BY DEF Recorders
    <3> QED
      BY <1>2, <3>1, PidsFacts, FS_Subset
  <2>3. Cardinality(Recorders') = Cardinality(Recorders) + 1 /\ Cardinality(Recorders) \in Nat
    <3> HIDE DEF Recorders
    <3>1. Cardinality(Recorders \cup {p}) = Cardinality(Recorders) + 1
      BY <2>1, <2>2, FS_AddElement
    <3> QED
      BY <2>1, <2>2, <3>1, FS_CardinalityType
  <2>4. \A f \in DOMAIN counter : counter[f] <= Cardinality(Recorders) /\ counter[f] \in Nat
    BY <1>2 DEF CounterOK
  <2> HIDE DEF Recorders
  <2>5. ASSUME NEW f \in DOMAIN counter PROVE counter'[f] <= Cardinality(Recorders')
    BY <1>3, <1>9, <2>3, <2>4
  <2> QED
    BY <1>1, <1>2, <1>9, <2>5 DEF CounterOK
<1> QED
  BY <1>6, <1>8, <1>10, <1>11 DEF TreeType

\* fork: the copy has the identity of its parent.
LEMMA TypeFork ==
  ASSUME TreeType, NEW p \in Pids, fork(p), UNCHANGED unifyVars
  PROVE  TreeType'
<1>1. /\ proc[p].at = "user" /\ Len(proc) < conf.processes /\ conf' = conf /\ starts' = starts
      /\ idfile' = idfile /\ counter' = counter /\ late' = late /\ lost' = lost
  BY DEF fork, unifyVars
<1>2. /\ StageOf(p) /\ LockOf(p) /\ proc \in Seq(Process) /\ proc # << >>
      /\ proc[p].childv \subseteq Pids /\ LockOK /\ CounterOK /\ ProcOK /\ p \in Nat /\ Len(proc) \in Nat
      /\ Pids = 1..Len(proc) /\ 1 \in Pids /\ ConfOK
  BY TypeHere DEF TreeType
<1>0. PICK n \in Nat : n = Len(proc) + 1
  BY <1>2
<1>3. /\ proc' \in Seq(Process) /\ Len(proc') = n /\ Pids' = Pids \cup {n} /\ n \notin Pids
      /\ \A q \in Pids : q # p => proc'[q] = proc[q]
      /\ proc'[p].at = "forking" /\ proc'[p].rc = n /\ proc'[p].childv = proc[p].childv
      /\ proc'[p].vt_my_trace = proc[p].vt_my_trace /\ proc'[p].init_pid = proc[p].init_pid
      /\ proc'[p].fork_performed = proc[p].fork_performed
      /\ proc'[n].at = "open" /\ proc'[n].childv = proc[p].childv
      /\ proc'[n].vt_my_trace = proc[p].vt_my_trace /\ proc'[n].init_pid = proc[p].init_pid
      /\ proc'[n].fork_performed = proc[p].fork_performed
  BY <1>0, <1>2, ForkEffect DEF Pids
<1>4. n > p /\ n # 1 /\ n # p /\ n \in Nat /\ n >= 2 /\ proc' # << >>
  BY <1>0, <1>2, <1>3
<1>5. ProcOK'
  BY <1>2, <1>3 DEF ProcOK
<1>6. ConfOK'
  <2>1. n <= conf.processes
    BY <1>0, <1>1, <1>2 DEF ConfOK
  <2> QED
    BY <1>1, <1>2, <1>3, <2>1 DEF ConfOK
<1>7. LostOK'
  BY <1>1, <1>3, <1>4 DEF TreeType, LostOK
<1>8. MasterOK'
  <2>1. proc'[1].at = proc[1].at \/ (p = 1 /\ proc'[1].at = "forking")
    BY <1>2, <1>3
  <2> QED
    BY <1>1, <1>2, <2>1 DEF TreeType, MasterOK, Counted
<1>9. StageOK'
  <2>1. StageOf(p)'
    BY <1>1, <1>2, <1>3, <1>4 DEF StageOf, Numbered, Own, Copies
  <2>2. proc[p].init_pid = p
    BY <1>1, <1>2 DEF StageOf, Own
  <2>3. StageOf(n)'
    BY <1>2, <1>3, <1>4, <2>2 DEF StageOf, Numbered, Own, Copies
  <2>4. ASSUME NEW q \in Pids, q # p PROVE StageOf(q)'
    <3>1. StageOf(q) /\ proc'[q] = proc[q]
      BY <1>3, <2>4 DEF TreeType, StageOK
    <3> QED
      BY <1>3, <1>4, <3>1 DEF StageOf, Numbered
  <2> QED
    BY <1>3, <2>1, <2>3, <2>4 DEF StageOK
<1>10. LockOK'
  <2>1. ASSUME NEW q \in Pids', proc'[q].at \in {"lock", "update"}
        PROVE  q \in Pids /\ proc'[q] = proc[q]
    BY <1>3, <2>1
  <2>2. ASSUME NEW q \in Pids' PROVE LockOf(q)'
    <3>1. CASE proc'[q].at \notin {"lock", "update"}
      BY <3>1 DEF LockOf
    <3>2. CASE proc'[q].at \in {"lock", "update"}
      <4>1. q \in Pids /\ proc'[q] = proc[q] /\ LockOf(q)
        BY <1>2, <2>1, <3>2 DEF LockOK
      <4> QED
        BY <1>1, <2>1, <4>1 DEF LockOf
    <3> QED
      BY <3>1, <3>2
  <2> QED
    BY <2>2 DEF LockOK
<1>11. CounterOK'
  <2>1. Recorders' = Recorders
    BY <1>1, <1>3 DEF Recorders, Waiting
  <2> QED
    BY <1>1, <1>2, <2>1 DEF CounterOK
<1> QED
  BY <1>5, <1>6, <1>7, <1>8, <1>9, <1>10, <1>11 DEF TreeType

------------------------------------------------------------------------------
(* The steps that change the run: counting the streams, starting vtunify.  *)

\* The files before vtunify is started, and the states of all files.
DiskOK ==
  /\ \A f \in DOMAIN disk : disk[f].state \in States
  /\ starts = 0 => \A f \in DOMAIN disk : f.stream # 0 => f.kind \in StreamKinds

Changes == {"write", "remove", "rename"}
OpNames == Changes \cup MPI \cup {"parseCommandLine", "openControl", "readControl", "calcSync"}
KindNames == StreamKinds \cup {NONE, "uctl", "otf"}
OpsOf(c) == [op : OpNames, stream : 0..c.streams, kind : KindNames]

\* All ranks are started, end, fail and are killed together.
RanksOK ==
  /\ starts \in 0..MaxStarts
  /\ DOMAIN todo = Ranks /\ \A r \in Ranks : todo[r] \in Seq(OpsOf(conf))
  /\ error \in [Ranks -> BOOLEAN] /\ inside \in [Ranks -> MPI \cup {NONE}]
  /\ status \in [Ranks -> Statuses]
  /\ \A q, r \in Ranks : status[q] = status[r]
  /\ starts = 0 => \A r \in Ranks : status[r] = "idle" /\ todo[r] = << >>

\* The control file tells vtunify the number of streams, and nothing else.
LEMMA ConfStreams ==
  ASSUME NEW c, IsConf(c), c.local = {}, NEW k \in Nat, NEW d, d = [c EXCEPT !.streams = k]
  PROVE  /\ IsConf(d) /\ d.streams = k /\ d.local = {} /\ d.size = c.size /\ d.z = c.z /\ d.same = c.same
         /\ d.doclean = c.doclean /\ d.docompress = c.docompress /\ DOMAIN d = DOMAIN c
         /\ "renames" \in DOMAIN c => d.renames = c.renames
         /\ "processes" \in DOMAIN c => d.processes = c.processes
BY DEF IsConf

WithLocal(c, l) == [c EXCEPT !.local = l]

\* What vtunify finds changes nothing else of the run.
LEMMA ConfLocal ==
  ASSUME NEW c, IsConf(c), NEW l, l \subseteq (1..c.streams) \X StreamKinds, NEW d,
         d = WithLocal(c, l)
  PROVE  /\ IsConf(d) /\ d.local = l /\ d.streams = c.streams /\ d.size = c.size /\ d.z = c.z
         /\ d.same = c.same
         /\ d.doclean = c.doclean /\ d.docompress = c.docompress /\ DOMAIN d = DOMAIN c
         /\ "renames" \in DOMAIN c => d.renames = c.renames
         /\ "processes" \in DOMAIN c => d.processes = c.processes
BY DEF IsConf, WithLocal

\* The master knows of its children, or the file is not there any more.
LEMMA ControlEffect ==
  ASSUME TreeType, NEW p \in Pids, write_uctl_file(p)
  PROVE  /\ p = 1 /\ proc[1].at = "control" /\ starts = 0 /\ conf.local = {} /\ ~Counted
         /\ idfile' = idfile /\ counter' = counter /\ lost' = lost /\ late' = late
         /\ \/ /\ proc[1].fork_performed /\ (idfile = 0 \/ counter[idfile] = 0)
               /\ proc' = Dead(1) /\ conf' = conf /\ disk' = disk
            \/ /\ ~(proc[1].fork_performed /\ (idfile = 0 \/ counter[idfile] = 0))
               /\ vt_fork_get_num_childs_tot(1) \in Nat
               /\ proc' = Goto(1, "remove")
               /\ conf' = [conf EXCEPT !.streams = 1 + vt_fork_get_num_childs_tot(1)]
               /\ disk' = Put(disk, Name("in", FALSE, 0, "uctl", FALSE), LocalContent)
<1>1. /\ StageOf(p) /\ proc \in Seq(Process) /\ proc # << >> /\ CounterOK
  BY TypeHere DEF TreeType
<1>2. /\ proc[p].at = "control" /\ idfile' = idfile /\ counter' = counter /\ lost' = lost /\ late' = late
  BY DEF write_uctl_file
<1>3. p = 1
  BY <1>1, <1>2 DEF StageOf
<1>4. starts = 0 /\ conf.local = {} /\ ~Counted
  BY <1>1, <1>2, <1>3 DEF TreeType, MasterOK
<1>5. CASE proc[1].fork_performed /\ (idfile = 0 \/ counter[idfile] = 0)
  BY <1>2, <1>3, <1>4, <1>5 DEF write_uctl_file
<1>6. CASE ~(proc[1].fork_performed /\ (idfile = 0 \/ counter[idfile] = 0))
  <2>1. vt_fork_get_num_childs_tot(1) \in Nat
    <3>1. CASE ~proc[1].fork_performed
      BY <3>1 DEF vt_fork_get_num_childs_tot
    <3>2. CASE proc[1].fork_performed
      <4>1. idfile \in 1..Len(counter) /\ counter \in Seq(Nat)
        BY <1>1, <1>6, <3>2 DEF CounterOK
      <4> QED
        BY <3>2, <4>1 DEF vt_fork_get_num_childs_tot
    <3> QED
      BY <3>1, <3>2
  <2> QED
    BY <1>2, <1>3, <1>4, <1>6, <2>1 DEF write_uctl_file
<1> QED
  BY <1>5, <1>6

\* write_uctl_file: the streams are counted once.
LEMMA TypeControl ==
  ASSUME TreeType, NEW p \in Pids, write_uctl_file(p), UNCHANGED unifyVars
  PROVE  TreeType' /\ conf'.size = conf.size
<1>1. StageOf(p) /\ proc \in Seq(Process) /\ proc # << >> /\ ConfOK /\ Len(proc) \in Nat
  BY TypeHere DEF TreeType
<1>2. starts' = starts
  BY DEF unifyVars
<1>3. p = 1 /\ proc[1].at = "control" /\ starts = 0 /\ conf.local = {} /\ ~Counted
  BY ControlEffect
<1>4. idfile' = idfile /\ counter' = counter /\ lost' = lost /\ late' = late
  BY ControlEffect
<1>5. CASE proc' = Dead(1) /\ conf' = conf
  BY <1>2, <1>3, <1>4, <1>5, TypeDies
<1>6. CASE ~(proc' = Dead(1) /\ conf' = conf)
  <2>1. PICK k \in Nat : k >= 1 /\ conf' = [conf EXCEPT !.streams = k]
    <3>1. /\ vt_fork_get_num_childs_tot(1) \in Nat
          /\ conf' = [conf EXCEPT !.streams = 1 + vt_fork_get_num_childs_tot(1)]
      BY <1>6, ControlEffect
    <3> QED
      BY <3>1
  <2>2. proc' = Goto(1, "remove") /\ "remove" \in Stages
    BY <1>6, ControlEffect DEF Stages
  <2>3. /\ Only(p) /\ proc'[p].at = "remove" /\ proc'[p].childv = proc[p].childv
        /\ proc'[p].fork_performed = proc[p].fork_performed
        /\ proc'[p].init_pid = proc[p].init_pid /\ proc'[p].vt_my_trace = proc[p].vt_my_trace
    BY <1>1, <1>3, <2>2, GotoEffect
  <2>4. /\ IsConf(conf') /\ conf'.streams = k /\ conf'.local = {} /\ conf'.size = conf.size
        /\ DOMAIN conf' = DOMAIN conf
        /\ "renames" \in DOMAIN conf => conf'.renames = conf.renames
        /\ "processes" \in DOMAIN conf => conf'.processes = conf.processes
    BY <1>1, <1>3, <2>1, ConfStreams DEF ConfOK
  <2>5. ConfOK'
    BY <1>1, <2>3, <2>4 DEF ConfOK, Only
  <2>6. MasterOK'
    BY <1>2, <1>3, <2>1, <2>3, <2>4 DEF MasterOK, Counted
  <2>7. StageOf(p)'
    BY <1>1, <1>3, <2>3 DEF StageOf, Numbered, Only, Own, Copies
  <2>8. ProcOK' /\ StageOK' /\ LostOK' /\ LockOK' /\ CounterOK'
    <3>1. ProcOK' /\ StageOK' /\ LostOK'
      BY <1>1, <1>4, <2>3, <2>7, TypeHere, ProcCalm, StageCalm, LostCalm DEF TreeType
    <3>2. LockOK'
      BY <1>4, <2>3, LockCalm DEF TreeType
    <3>3. CounterOK'
      BY <1>4, <2>3, CounterCalm DEF TreeType, Waiting
    <3> QED
      BY <3>1, <3>2, <3>3
  <2> QED
    BY <2>4, <2>5, <2>6, <2>8 DEF TreeType
<1> QED
  BY <1>5, <1>6

\* vtunify finds files of the streams it was told of.
LEMMA FoundType ==
  ASSUME DiskOK, starts = 0
  PROVE  Found \subseteq (1..conf.streams) \X StreamKinds
<1>1. ASSUME NEW f \in DOMAIN disk, f.stream \in StreamsOf(conf)
      PROVE  <<f.stream, f.kind>> \in (1..conf.streams) \X StreamKinds
  BY <1>1 DEF DiskOK, StreamsOf
<1> QED
  BY <1>1 DEF Found

\* Only the first process starts vtunify, and for the first time (unify_traces).
LEMMA StartEffect ==
  ASSUME TreeType, NEW p \in Pids, unify_traces(p)
  PROVE  /\ p = 1 /\ proc[1].at = "move" /\ proc[1].left = << >> /\ starts = 0 /\ conf.local = {} /\ Counted
         /\ conf' = [conf EXCEPT !.local = Found]
         /\ starts' = starts + 1 /\ starts < MaxStarts
         /\ idfile' = idfile /\ counter' = counter /\ lost' = lost /\ late' = late
         /\ proc' = Goto(1, "unify")
<1>1. /\ StageOf(p) /\ proc # << >>
  BY TypeHere
<1>2. /\ proc[p].at = "move" /\ proc[p].vt_my_trace = 0 /\ proc[p].left = << >>
      /\ conf' = [conf EXCEPT !.local = Found] /\ proc' = Goto(p, "unify")
      /\ starts' = starts + 1 /\ starts < MaxStarts
      /\ idfile' = idfile /\ counter' = counter /\ lost' = lost /\ late' = late
  BY DEF unify_traces, StartWith
<1>3. p = 1
  BY <1>1, <1>2 DEF StageOf, Numbered, Own
<1>4. starts = 0 /\ conf.local = {} /\ Counted
  BY <1>1, <1>2, <1>3 DEF TreeType, MasterOK
<1> QED
  BY <1>2, <1>3, <1>4

\* unify_traces: the first process waits for the vtunify it started.
LEMMA TypeStart ==
  ASSUME TreeType, DiskOK, NEW p \in Pids, unify_traces(p)
  PROVE  TreeType'
<1>1. StageOf(p) /\ proc \in Seq(Process) /\ proc # << >> /\ ConfOK /\ Len(proc) \in Nat
  BY TypeHere DEF TreeType
<1>2. /\ p = 1 /\ proc[1].at = "move" /\ starts = 0 /\ Counted /\ starts' = starts + 1
      /\ conf' = [conf EXCEPT !.local = Found]
      /\ idfile' = idfile /\ counter' = counter /\ lost' = lost /\ late' = late
      /\ proc' = Goto(1, "unify") /\ "unify" \in Stages
  BY StartEffect DEF Stages
<1>3. /\ Only(p) /\ proc'[p].at = "unify" /\ proc'[p].childv = proc[p].childv
      /\ proc'[p].fork_performed = proc[p].fork_performed
      /\ proc'[p].init_pid = proc[p].init_pid /\ proc'[p].vt_my_trace = proc[p].vt_my_trace
  BY <1>1, <1>2, GotoEffect
<1>4. /\ IsConf(conf') /\ conf'.streams = conf.streams /\ conf'.size = conf.size
      /\ DOMAIN conf' = DOMAIN conf
      /\ "renames" \in DOMAIN conf => conf'.renames = conf.renames
      /\ "processes" \in DOMAIN conf => conf'.processes = conf.processes
  <2>1. PICK l : l = Found
    OBVIOUS
  <2>2. l \subseteq (1..conf.streams) \X StreamKinds
    BY <1>2, <2>1, FoundType
  <2>3. conf' = WithLocal(conf, l)
    BY <1>2, <2>1 DEF WithLocal
  <2>4. IsConf(conf)
    BY <1>1 DEF ConfOK
  <2> QED
    BY <2>2, <2>3, <2>4, ConfLocal
<1>5. ConfOK'
  BY <1>1, <1>3, <1>4 DEF ConfOK, Only
<1>6. MasterOK'
  BY <1>2, <1>3, <1>4 DEF MasterOK, Counted
<1>7. StageOf(p)'
  BY <1>1, <1>2, <1>3 DEF StageOf, Numbered, Only, Own, Copies
<1>8. ProcOK' /\ StageOK' /\ LostOK' /\ LockOK' /\ CounterOK'
  <2>1. ProcOK' /\ StageOK' /\ LostOK'
    BY <1>1, <1>2, <1>3, <1>7, TypeHere, ProcCalm, StageCalm, LostCalm DEF TreeType
  <2>2. LockOK'
    BY <1>2, <1>3, LockCalm DEF TreeType
  <2>3. CounterOK'
    BY <1>2, <1>3, CounterCalm DEF TreeType, Waiting
  <2> QED
    BY <2>1, <2>2, <2>3
<1> QED
  BY <1>5, <1>6, <1>8 DEF TreeType

------------------------------------------------------------------------------
(* The program of a rank.                                                  *)

\* Induction over the natural numbers, for a set of them.
LEMMA NaturalsBySet ==
  ASSUME NEW S, 0 \in S, \A n \in Nat : n \in S => n + 1 \in S
  PROVE  Nat \subseteq S
<1> DEFINE T == Nat \ S
<1>1. SUFFICES ASSUME T # {} PROVE FALSE
  OBVIOUS
<1>2. PICK m \in T : \A n \in T : ~(<<n, m>> \in OpToRel(<, Nat))
  BY <1>1, WFMin, NatLessThanWellFounded
<1>3. m \in Nat /\ m # 0 /\ m - 1 \in Nat
  OBVIOUS
<1>4. m - 1 \in T
  BY <1>3
<1>5. <<m - 1, m>> \in OpToRel(<, Nat)
  BY <1>3 DEF OpToRel
<1> QED
  BY <1>2, <1>4, <1>5

\* g[i] is the concatenation of the first i sequences.
Flattens(g, seqs, n) ==
  \A i \in 1..n : g[i] = IF i = 1 THEN seqs[i] ELSE g[i - 1] \o seqs[i]

\* A flattened sequence of sequences is built one after the other.
LEMMA FlattenIs ==
  ASSUME NEW seqs, Len(seqs) \in Nat, Len(seqs) # 0
  PROVE  \E g : Flattens(g, seqs, Len(seqs)) /\ FlattenSeq(seqs) = g[Len(seqs)]
<1> DEFINE L == Len(seqs)
           Eq(F) == F = [i \in 1..Len(seqs) |-> IF i = 1 THEN seqs[i] ELSE F[i - 1] \o seqs[i]]
           C == CHOOSE F : Eq(F)
           S == {n \in Nat : \E g : Flattens(g, seqs, n)}
<1>1. FlattenSeq(seqs) = C[Len(seqs)]
  BY DEF FlattenSeq
<1>2. 0 \in S
  <2>1. Flattens(<< >>, seqs, 0)
    BY DEF Flattens
  <2> QED
    BY <2>1
<1>3. ASSUME NEW n \in Nat, n \in S PROVE n + 1 \in S
  <2>1. PICK g : Flattens(g, seqs, n)
    BY <1>3
  <2> DEFINE h == [i \in 1..n + 1 |-> IF i = n + 1
                                      THEN IF i = 1 THEN seqs[i] ELSE g[n] \o seqs[i] ELSE g[i]]
  <2>2. ASSUME NEW i \in 1..n + 1
        PROVE  h[i] = IF i = 1 THEN seqs[i] ELSE h[i - 1] \o seqs[i]
    <3>1. CASE i = n + 1
      <4>1. CASE i = 1
        BY <3>1, <4>1
      <4>2. CASE i # 1
        <5>1. n \in 1..n + 1 /\ n # n + 1 /\ i - 1 = n
          BY <3>1, <4>2
        <5> QED
          BY <3>1, <4>2, <5>1
      <4> QED
        BY <4>1, <4>2
    <3>2. CASE i # n + 1
      <4>1. i \in 1..n /\ h[i] = g[i]
        BY <3>2
      <4>2. i # 1 => h[i - 1] = g[i - 1]
        <5> SUFFICES ASSUME i # 1 PROVE h[i - 1] = g[i - 1]
          OBVIOUS
        <5>1. i - 1 \in 1..n + 1 /\ i - 1 # n + 1
          BY <4>1
        <5> QED
          BY <5>1
      <4> HIDE DEF h
      <4> QED
        BY <2>1, <4>1, <4>2 DEF Flattens
    <3> QED
      BY <3>1, <3>2
  <2> HIDE DEF h
  <2>3. Flattens(h, seqs, n + 1)
    BY <2>2 DEF Flattens
  <2> QED
    BY <2>3
<1>4. PICK g : Flattens(g, seqs, L)
  <2> HIDE DEF S
  <2>1. Nat \subseteq S
    BY <1>2, <1>3, NaturalsBySet
  <2> QED
    BY <2>1 DEF S
<1> DEFINE G == [i \in 1..L |-> g[i]]
<1>5. Eq(G)
  <2> DEFINE H == [i \in 1..L |-> IF i = 1 THEN seqs[i] ELSE G[i - 1] \o seqs[i]]
  <2>1. ASSUME NEW i \in 1..L PROVE G[i] = H[i]
    <3>1. CASE i = 1
      BY <1>4, <3>1 DEF Flattens
    <3>2. CASE i # 1
      <4>1. i - 1 \in 1..L
        BY <3>2
      <4> QED
        BY <1>4, <3>2, <4>1 DEF Flattens
    <3> QED
      BY <3>1, <3>2
  <2> HIDE DEF L
  <2> QED
    BY <2>1 DEF L
<1>6. Eq(C)
  <2> HIDE DEF Eq, G
  <2> QED
    BY <1>5
<1>7. Flattens(C, seqs, L)
  <2> HIDE DEF C
  <2> QED
    BY <1>6 DEF Flattens
<1> QED
  BY <1>1, <1>7

\* The steps of two parts of a program are steps of both.
LEMMA ConcatType ==
  ASSUME NEW S, NEW s \in Seq(S), NEW t \in Seq(S)
  PROVE  s \o t \in Seq(S)
OBVIOUS

\* The elements of the concatenation are elements of the sequences.
LEMMA FlattenType ==
  ASSUME NEW S, NEW n \in Nat, NEW seqs, Len(seqs) = n, n = 0 => seqs = << >>,
         \A i \in 1..n : seqs[i] \in Seq(S)
  PROVE  FlattenSeq(seqs) \in Seq(S)
<1>1. CASE n = 0
  BY <1>1 DEF FlattenSeq
<1>2. CASE n # 0
  <2>1. PICK g : Flattens(g, seqs, n) /\ FlattenSeq(seqs) = g[n]
    BY <1>2, FlattenIs
  <2> DEFINE T == {i \in Nat : i \in 1..n => g[i] \in Seq(S)}
  <2>2. 0 \in T
    OBVIOUS
  <2>3. ASSUME NEW i \in Nat, i \in T PROVE i + 1 \in T
    <3> SUFFICES ASSUME i + 1 \in 1..n PROVE g[i + 1] \in Seq(S)
      OBVIOUS
    <3>1. g[i + 1] = IF i + 1 = 1 THEN seqs[i + 1] ELSE g[i] \o seqs[i + 1]
      BY <2>1 DEF Flattens
    <3>2. CASE i = 0
      BY <3>1, <3>2
    <3>3. CASE i # 0
      <4>1. g[i] \in Seq(S) /\ seqs[i + 1] \in Seq(S)
        BY <2>3, <3>3
      <4> QED
        BY <3>1, <3>3, <4>1, ConcatType
    <3> QED
      BY <3>2, <3>3
  <2> HIDE DEF T
  <2>4. n \in T
    BY <2>2, <2>3, NaturalsBySet
  <2> QED
    BY <1>2, <2>1, <2>4 DEF T
<1> QED
  BY <1>1, <1>2

\* cleanUp removes files of the streams of the run.
LEMMA EachRemoves ==
  ASSUME NEW S, NEW c, c.streams \in Nat,
         \A s \in 1..c.streams : \A k \in {"def", "events", "marker"} : File("remove", s, k) \in S
  PROVE  Each(c, LAMBDA s : <<File("remove", s, "def"), File("remove", s, "events"),
                              File("remove", s, "marker"), File("remove", s, "marker")>>) \in Seq(S)
<1> DEFINE seqs == [s \in 1..c.streams |->
       <<File("remove", s, "def"), File("remove", s, "events"),
                              File("remove", s, "marker"), File("remove", s, "marker")>>]
<1>1. Len(seqs) = c.streams /\ (c.streams = 0 => seqs = << >>)
  OBVIOUS
<1>2. ASSUME NEW i \in 1..c.streams PROVE seqs[i] \in Seq(S)
  <2>1. /\ File("remove", i, "def") \in S /\ File("remove", i, "events") \in S
        /\ File("remove", i, "marker") \in S
    OBVIOUS
  <2>2. seqs[i] = <<File("remove", i, "def"), File("remove", i, "events"),
                    File("remove", i, "marker"), File("remove", i, "marker")>>
    OBVIOUS
  <2> HIDE DEF seqs
  <2> QED
    BY <2>1, <2>2
<1> HIDE DEF seqs
<1>3. FlattenSeq(seqs) \in Seq(S)
  BY <1>1, <1>2, FlattenType
<1> QED
  BY <1>3 DEF Each, StreamsOf, seqs

\* How many synchronisations of the error are in a sequence of steps.
Sync == Do("syncError")
Level(s) == Cardinality({i \in DOMAIN s : s[i].op = "syncError"})

\* Steps that leave the files alone, that may write, and those of the end.
Reads(c) == {x \in OpsOf(c) : x.op \notin Changes}
Writes(c) == {x \in OpsOf(c) : x.op = "write"}
Uniting(c) == {x \in OpsOf(c) : x.op \notin {"remove", "rename"}}

\* What a step of a program does, and to which file.
LEMMA OpFields ==
  ASSUME NEW op, NEW s, NEW k
  PROVE  /\ Do(op).op = op /\ Do(op).stream = 0 /\ Do(op).kind = NONE
         /\ File(op, s, k).op = op /\ File(op, s, k).stream = s /\ File(op, s, k).kind = k
BY DEF Do, File

\* Steps of a program.
LEMMA OpsType ==
  ASSUME NEW c, c.streams \in Nat, NEW op \in OpNames, NEW s \in 0..c.streams, NEW k \in KindNames
  PROVE  Do(op) \in OpsOf(c) /\ File(op, s, k) \in OpsOf(c)
BY DEF Do, File, OpsOf, KindNames

\* Steps that change no file.
LEMMA ReadsType ==
  ASSUME NEW c, c.streams \in Nat
  PROVE  /\ Do("Barrier") \in Reads(c) /\ Do("Bcast") \in Reads(c) /\ Sync \in Reads(c)
         /\ Do("MPI_Finalize") \in Reads(c) /\ Do("parseCommandLine") \in Reads(c)
         /\ Do("openControl") \in Reads(c) /\ Do("readControl") \in Reads(c)
         /\ Do("calcSync") \in Reads(c)
         /\ Reads(c) \subseteq Uniting(c) /\ Writes(c) \subseteq Uniting(c)
         /\ Uniting(c) \subseteq OpsOf(c)
<1>1. ASSUME NEW op \in OpNames, op \notin Changes PROVE Do(op) \in Reads(c)
  <2>1. 0 \in 0..c.streams /\ NONE \in KindNames
    BY DEF KindNames
  <2> QED
    BY <1>1, <2>1, OpsType, OpFields DEF Reads
<1>2. Reads(c) \subseteq Uniting(c) /\ Writes(c) \subseteq Uniting(c) /\ Uniting(c) \subseteq OpsOf(c)
  BY DEF Reads, Writes, Uniting, Changes
<1> QED
  BY <1>1, <1>2 DEF Changes, Sync, OpNames, MPI

\* The number of error synchronisations in a program.
LEMMA LevelType ==
  ASSUME NEW S, NEW s \in Seq(S)
  PROVE  Level(s) \in Nat /\ IsFiniteSet({i \in DOMAIN s : s[i].op = "syncError"})
<1>1. IsFiniteSet(1..Len(s)) /\ {i \in DOMAIN s : s[i].op = "syncError"} \subseteq 1..Len(s)
  <2>1. Len(s) \in Nat /\ DOMAIN s = 1..Len(s)
    OBVIOUS
  <2>2. IsFiniteSet(1..Len(s))
    BY <2>1, FS_Interval
  <2> QED
    BY <2>1, <2>2
<1>2. IsFiniteSet({i \in DOMAIN s : s[i].op = "syncError"})
  BY <1>1, FS_Subset
<1> QED
  BY <1>2, FS_CardinalityType DEF Level

\* A part without an error synchronisation.
LEMMA LevelZero ==
  ASSUME NEW S, NEW s \in Seq(S), \A x \in S : x.op # "syncError"
  PROVE  Level(s) = 0
<1>1. {i \in DOMAIN s : s[i].op = "syncError"} = {}
  OBVIOUS
<1> QED
  BY <1>1, FS_EmptySet DEF Level

\* A rank with no error synchronisation left comes to none.
LEMMA LevelPositive ==
  ASSUME NEW S, NEW s \in Seq(S), Level(s) = 0
  PROVE  \A i \in DOMAIN s : s[i].op # "syncError"
<1>1. IsFiniteSet({i \in DOMAIN s : s[i].op = "syncError"})
  BY LevelType
<1>2. {i \in DOMAIN s : s[i].op = "syncError"} = {}
  BY <1>1, FS_EmptySet DEF Level
<1> QED
  BY <1>2

\* Error synchronisations of a part and of what follows it.
LEMMA LevelConcat ==
  ASSUME NEW S, NEW s \in Seq(S), NEW t \in Seq(S)
  PROVE  Level(s \o t) = Level(s) + Level(t)
<1> DEFINE A == {i \in DOMAIN s : s[i].op = "syncError"}
           B == {i \in DOMAIN t : t[i].op = "syncError"}
           C == {i \in DOMAIN (s \o t) : (s \o t)[i].op = "syncError"}
           n == Len(s)
           D == {n + i : i \in B}
           f == [i \in B |-> n + i]
<1>1. IsFiniteSet(A) /\ IsFiniteSet(B) /\ IsFiniteSet(C)
  <2>1. s \o t \in Seq(S)
    OBVIOUS
  <2> QED
    BY <2>1, LevelType
<1>2. n \in Nat /\ A \subseteq 1..n /\ B \subseteq 1..Len(t) /\ Len(t) \in Nat
  OBVIOUS
<1>3. C = A \cup D
  <2>1. /\ DOMAIN (s \o t) = 1..(n + Len(t)) /\ \A i \in 1..n : (s \o t)[i] = s[i]
        /\ \A i \in 1..Len(t) : (s \o t)[n + i] = t[i]
    OBVIOUS
  <2>2. ASSUME NEW i \in C PROVE i \in A \cup D
    <3>1. CASE i \in 1..n
      BY <2>1, <3>1
    <3>2. CASE i \notin 1..n
      <4>1. i - n \in 1..Len(t) /\ i = n + (i - n)
        BY <1>2, <2>1, <3>2
      <4>2. t[i - n].op = "syncError"
        BY <2>1, <4>1
      <4> QED
        BY <4>1, <4>2
    <3> QED
      BY <3>1, <3>2
  <2>3. ASSUME NEW i \in A PROVE i \in C
    BY <1>2, <2>1
  <2>4. ASSUME NEW i \in D PROVE i \in C
    BY <1>2, <2>1
  <2> QED
    BY <2>2, <2>3, <2>4
<1>4. A \cap D = {}
  BY <1>2
<1>5. f \in Bijection(B, D)
  <2>1. f \in [B -> D] /\ \A a, b \in B : f[a] = f[b] => a = b
    BY <1>2
  <2>2. \A d \in D : \E b \in B : f[b] = d
    OBVIOUS
  <2> HIDE DEF f, D, B
  <2> QED
    BY <2>1, <2>2 DEF Bijection, Injection, Surjection, IsInjective
<1> HIDE DEF A, B, C, D, f, n
<1>6. IsFiniteSet(D) /\ Cardinality(D) = Cardinality(B)
  BY <1>1, <1>5, FS_Bijection DEF ExistsBijection
<1>7. Cardinality(A \cup D) = Cardinality(A) + Cardinality(D) - Cardinality(A \cap D)
  BY <1>1, <1>6, FS_Union
<1>8. Cardinality(A) \in Nat /\ Cardinality(D) \in Nat /\ Cardinality(A \cap D) = 0
  BY <1>1, <1>4, <1>6, FS_CardinalityType, FS_EmptySet
<1>9. Cardinality(C) = Cardinality(A) + Cardinality(B)
  BY <1>3, <1>4, <1>6, <1>7, <1>8
<1> QED
  BY <1>9 DEF Level, A, B, C

\* One error synchronisation.
LEMMA LevelOne ==
  Level(<<Sync>>) = 1
<1>1. {i \in DOMAIN <<Sync>> : <<Sync>>[i].op = "syncError"} = {1}
  <2>1. Sync.op = "syncError"
    BY OpFields DEF Sync
  <2> QED
    BY <2>1
<1> QED
  BY <1>1, FS_Singleton DEF Level

\* Sharing takes a barrier, broadcasts and the error synchronisation.
LEMMA ShareType ==
  ASSUME NEW c, c.streams \in Nat, NEW n \in Nat
  PROVE  Share(c, n) \in Seq(Reads(c))
<1> DEFINE b == [k \in 1..n |-> Do("Bcast")]
<1>1. /\ <<Do("Barrier")>> \in Seq(Reads(c)) /\ <<Do("syncError")>> \in Seq(Reads(c))
      /\ << >> \in Seq(Reads(c))
  BY ReadsType DEF Sync
<1>2. b \in Seq(Reads(c))
  <2>1. \A k \in 1..n : b[k] \in Reads(c)
    BY ReadsType
  <2> HIDE DEF b
  <2>2. b \in [1..n -> Reads(c)]
    BY <2>1 DEF b
  <2> QED
    BY <2>2
<1> HIDE DEF b
<1>3. <<Do("Barrier")>> \o b \in Seq(Reads(c))
  BY <1>1, <1>2, ConcatType
<1>4. (<<Do("Barrier")>> \o b) \o <<Do("syncError")>> \in Seq(Reads(c))
  BY <1>1, <1>3, ConcatType
<1> QED
  BY <1>1, <1>4 DEF Share, b

\* What only the master does is part of its program.
LEMMA MasterType ==
  ASSUME NEW S, NEW steps \in Seq(S), NEW r
  PROVE  MasterDoes(r, steps) \in Seq(S)
BY DEF MasterDoes

\* A part of a program is made of the steps of the program.
LEMMA SeqSubset ==
  ASSUME NEW S, NEW T, S \subseteq T, NEW s \in Seq(S)
  PROVE  s \in Seq(T)
OBVIOUS

\* The streams of a rank.
LEMMA BlockType ==
  ASSUME NEW c, IsConf(c), NEW r \in RanksOf(c)
  PROVE  Block(c, r)[1] \in Nat /\ Block(c, r)[2] \in Nat /\ Block(c, r)[2] <= c.streams
<1> DEFINE nworker == IF c.size > c.streams THEN c.streams ELSE c.size
           bsize == c.streams \div nworker
<1>1. /\ c.size \in Nat /\ c.size > 0 /\ c.streams \in Nat /\ r \in Nat /\ nworker \in Nat
      /\ nworker <= c.streams
  BY DEF IsConf, RanksOf
<1>2. CASE r >= nworker
  <2>1. Block(c, r) = <<0, 0>>
    <3> HIDE DEF bsize
    <3>1. Block(c, r) = CASE r >= nworker -> <<0, 0>>
                          [] r = nworker - 1 -> <<r * bsize, c.streams>>
                          [] OTHER -> <<r * bsize, (r + 1) * bsize>>
      BY DEF Block, bsize
    <3> HIDE DEF nworker
    <3> QED
      BY <1>1, <1>2, <3>1
  <2> QED
    BY <1>1, <2>1
<1>3. CASE ~(r >= nworker)
  <2>1. nworker > 0 /\ r + 1 <= nworker
    BY <1>1, <1>3
  <2>2. PICK n \in Nat : n = nworker
    BY <1>1
  <2>3. PICK b : b = bsize
    OBVIOUS
  <2>4. b \in Nat /\ b * n <= c.streams
    <3> HIDE DEF nworker
    <3> QED
      BY <1>1, <2>1, <2>2, <2>3
  <2>5. (r + 1) * b <= c.streams /\ r * b \in Nat /\ (r + 1) * b \in Nat
    <3> HIDE DEF nworker, bsize
    <3> QED
      BY <1>1, <2>1, <2>2, <2>4
  <2>6. CASE r = nworker - 1
    <3>1. Block(c, r) = <<r * bsize, c.streams>>
      BY <1>3, <2>6 DEF Block
    <3> HIDE DEF nworker, bsize
    <3> QED
      BY <1>1, <2>3, <2>5, <3>1
  <2>7. CASE r # nworker - 1
    <3>1. Block(c, r) = <<r * bsize, (r + 1) * bsize>>
      BY <1>3, <2>7 DEF Block
    <3> HIDE DEF nworker, bsize
    <3> QED
      BY <1>1, <2>3, <2>5, <3>1
  <2> QED
    BY <2>6, <2>7
<1> QED
  BY <1>2, <1>3

\* The largest natural number of a bounded set.
LEMMA Largest ==
  ASSUME NEW n \in Nat, NEW S, 0 \in S, n \notin S
  PROVE  \E i \in 0..n - 1 : i \in S /\ i + 1 \notin S
<1> SUFFICES ASSUME \A i \in 0..n - 1 : i \in S => i + 1 \in S PROVE FALSE
  OBVIOUS
<1> DEFINE T == {i \in Nat : i \in 0..n => i \in S}
<1>1. 0 \in T
  OBVIOUS
<1>2. ASSUME NEW i \in Nat, i \in T PROVE i + 1 \in T
  BY <1>2
<1> HIDE DEF T
<1>3. n \in T
  BY <1>1, <1>2, NaturalsBySet
<1> QED
  BY <1>3 DEF T

\* Every stream is in the block of some rank.
LEMMA BlockCovers ==
  ASSUME NEW c, IsConf(c), NEW s \in 1..c.streams
  PROVE  \E r \in RanksOf(c) : Block(c, r)[1] < s /\ s <= Block(c, r)[2]
<1> DEFINE nworker == IF c.size > c.streams THEN c.streams ELSE c.size
           bsize == c.streams \div nworker
<1>1. /\ c.size \in Nat /\ c.size > 0 /\ c.streams \in Nat /\ c.streams > 0 /\ nworker \in Nat
      /\ nworker > 0 /\ nworker <= c.size
  BY DEF IsConf
<1>2. PICK n \in Nat : n = nworker
  BY <1>1
<1>3. PICK b : b = bsize
  OBVIOUS
<1>4. b \in Nat
  <2> HIDE DEF nworker
  <2> QED
    BY <1>1, <1>3
<1> DEFINE S == {i \in 0..n - 1 : i * b < s}
<1>5. PICK r \in 0..n - 1 : r \in S /\ r + 1 \notin S
  <2>1. 0 \in S /\ n \notin S
    <3> HIDE DEF nworker, bsize
    <3> QED
      BY <1>1, <1>2, <1>4
  <2> HIDE DEF S
  <2> QED
    BY <2>1, Largest
<1>6. r \in RanksOf(c) /\ ~(r >= nworker) /\ r \in Nat
  BY <1>1, <1>2 DEF RanksOf
<1>7. r * b < s
  BY <1>5
<1>8. CASE r = nworker - 1
  <2>1. Block(c, r) = <<r * bsize, c.streams>>
    BY <1>6, <1>8 DEF Block
  <2> HIDE DEF nworker, bsize
  <2> QED
    BY <1>3, <1>6, <1>7, <2>1
<1>9. CASE r # nworker - 1
  <2>1. Block(c, r) = <<r * bsize, (r + 1) * bsize>>
    BY <1>6, <1>9 DEF Block
  <2>2. r + 1 \in 0..n - 1
    BY <1>1, <1>2, <1>6, <1>9
  <2>3. ~((r + 1) * b < s)
    BY <1>5, <2>2
  <2>4. (r + 1) * b \in Nat
    <3> HIDE DEF nworker, bsize
    <3> QED
      BY <1>4, <1>6
  <2> HIDE DEF nworker, bsize, S
  <2> QED
    BY <1>3, <1>6, <1>7, <2>1, <2>3, <2>4
<1> QED
  BY <1>8, <1>9

\* What a rank writes of the events.
EventWrites(c, r) ==
  [k \in 1..Block(c, r)[2] - Block(c, r)[1] |-> File("write", Block(c, r)[1] + k, "events")]

\* Steps that write a unified file.
LEMMA WriteType ==
  ASSUME NEW c, c.streams \in Nat, NEW s \in 0..c.streams, NEW k \in StreamKinds
  PROVE  File("write", s, k) \in Writes(c)
<1>1. "write" \in OpNames /\ k \in KindNames
  BY DEF OpNames, KindNames, Changes
<1>2. File("write", s, k) \in OpsOf(c)
  BY <1>1, OpsType
<1> QED
  BY <1>2, OpFields DEF Writes

\* A rank writes the events of the streams of its block (EventsC::run).
LEMMA EventWritesType ==
  ASSUME NEW c, IsConf(c), NEW r \in RanksOf(c)
  PROVE  EventWrites(c, r) \in Seq(Writes(c))
<1>1. PICK b1 \in Nat, b2 \in Nat : b1 = Block(c, r)[1] /\ b2 = Block(c, r)[2] /\ b2 <= c.streams
  BY BlockType
<1> DEFINE w == [k \in 1..b2 - b1 |-> File("write", b1 + k, "events")]
<1>2. c.streams \in Nat /\ "events" \in StreamKinds
  BY DEF IsConf, StreamKinds
<1>3. ASSUME NEW k \in 1..b2 - b1 PROVE w[k] \in Writes(c)
  <2>1. b1 + k \in 0..c.streams
    BY <1>1, <1>2
  <2> QED
    BY <1>2, <2>1, WriteType
<1>4. w \in Seq(Writes(c))
  <2> HIDE DEF w
  <2>1. w \in [1..b2 - b1 -> Writes(c)]
    BY <1>3 DEF w
  <2>2. CASE b2 - b1 \in Nat
    BY <2>1, <2>2
  <2>3. CASE b2 - b1 \notin Nat
    <3>1. 1..b2 - b1 = 1..0
      BY <1>1, <2>3
    <3>2. w \in [1..0 -> Writes(c)]
      BY <2>1, <3>1
    <3> QED
      BY <3>2
  <2> QED
    BY <2>2, <2>3
<1> QED
  BY <1>1, <1>4 DEF EventWrites

------------------------------------------------------------------------------
(* The three parts of a program: what is done before the control file is   *)
(* open, the work on the files, and their clean-up.                        *)

OpenPart(r) == MasterDoes(r, <<Do("openControl")>>)
ReadPart(r) == MasterDoes(r, <<Do("readControl")>>)
SyncPart(c) == IF c.etimesync THEN SynchronizationRun(c) \o <<Sync>> ELSE << >>
StatWrites(c) == [s \in 1..c.streams |-> File("write", s, "stats")]
DefWrites(c) == <<File("write", 0, "def"), File("write", 0, "marker")>> \o StatWrites(c)
EndPart(c, r) == MasterDoes(r, writeMasterControl \o cleanUp(c))

Prepare(c, r) == getParams(c, r) \o OpenPart(r)
Unite(c, r) ==
  ((((((ReadPart(r) \o <<Sync>>) \o shareUnifyControls(c)) \o getMinStartTime(c, r)) \o SyncPart(c))
    \o MasterDoes(r, DefWrites(c))) \o <<Sync>>) \o shareTokenTranslations(c) \o EventsRun(c, r)
Finish(c, r) == (EndPart(c, r) \o <<Sync>>) \o <<Do("MPI_Finalize")>>

Renames(c) == {x \in OpsOf(c) : x.op = "rename" /\ x.kind \in StreamKinds \cup {"otf"}}
Removes(c) == {x \in OpsOf(c) : x.op = "remove" /\ x.stream \in 1..c.streams}
RemoveControl == File("remove", 0, "uctl")
WriteControl == File("write", 0, "otf")
Calls(c) == {x \in OpsOf(c) : x.op \in MPI}
Finishing(c) == Calls(c) \cup Renames(c) \cup {WriteControl}
                \cup (IF c.doclean THEN Removes(c) \cup {RemoveControl} ELSE {})

\* One step.
LEMMA SingleType ==
  ASSUME NEW S, NEW x \in S
  PROVE  <<x>> \in Seq(S)
OBVIOUS

\* No step.
LEMMA EmptyType ==
  ASSUME NEW S
  PROVE  << >> \in Seq(S)
OBVIOUS

\* Until the control file is open, no file is changed (getParams, getUnifyControls).
LEMMA PrepareType ==
  ASSUME NEW c, IsConf(c), NEW r
  PROVE  /\ getParams(c, r) \in Seq(Reads(c)) /\ OpenPart(r) \in Seq(Reads(c))
         /\ Prepare(c, r) \in Seq(Reads(c))
<1>1. c.streams \in Nat
  BY DEF IsConf
<1>2. /\ <<Do("parseCommandLine")>> \in Seq(Reads(c)) /\ <<Do("openControl")>> \in Seq(Reads(c))
      /\ <<Do("syncError")>> \in Seq(Reads(c))
  BY <1>1, ReadsType, SingleType DEF Sync
<1>3. MasterDoes(r, <<Do("parseCommandLine")>>) \in Seq(Reads(c)) /\ OpenPart(r) \in Seq(Reads(c))
  BY <1>2, MasterType DEF OpenPart
<1>4. shareParams(c) \in Seq(Reads(c))
  BY <1>1, ShareType DEF shareParams
<1>5. getParams(c, r) \in Seq(Reads(c))
  BY <1>2, <1>3, <1>4, ConcatType DEF getParams
<1> QED
  BY <1>3, <1>5, ConcatType DEF Prepare

\* What is done between opening the control file and the clean-up.
LEMMA UniteParts ==
  ASSUME NEW c, IsConf(c), NEW r \in RanksOf(c)
  PROVE  /\ ReadPart(r) \in Seq(Reads(c)) /\ <<Sync>> \in Seq(Reads(c))
         /\ shareUnifyControls(c) \in Seq(Reads(c)) /\ getMinStartTime(c, r) \in Seq(Reads(c))
         /\ SyncPart(c) \in Seq(Reads(c)) /\ shareTokenTranslations(c) \in Seq(Reads(c))
         /\ BarrierIfParallel(c) \in Seq(Reads(c)) /\ EventWrites(c, r) \in Seq(Writes(c))
         /\ DefWrites(c) \in Seq(Writes(c)) /\ StatWrites(c) \in Seq(Writes(c))
<1>1. c.streams \in Nat
  BY DEF IsConf
<1>2. <<Sync>> \in Seq(Reads(c)) /\ << >> \in Seq(Reads(c)) /\ <<Do("syncError")>> \in Seq(Reads(c))
  BY <1>1, ReadsType, SingleType, EmptyType DEF Sync
<1>3. ReadPart(r) \in Seq(Reads(c))
  BY <1>1, ReadsType, SingleType, MasterType DEF ReadPart
<1>4. shareUnifyControls(c) \in Seq(Reads(c)) /\ shareTokenTranslations(c) \in Seq(Reads(c))
  BY <1>1, ShareType DEF shareUnifyControls, shareTokenTranslations
<1>5. getMinStartTime(c, r) \in Seq(Reads(c))
  <2>1. shareMinStartTime(c, r) \in Seq(Reads(c))
    BY <1>1, ShareType DEF shareMinStartTime
  <2> QED
    BY <1>2, <2>1, ConcatType DEF getMinStartTime
<1>6. BarrierIfParallel(c) \in Seq(Reads(c))
  BY <1>1, <1>2, ReadsType, SingleType DEF BarrierIfParallel
<1>7. SyncPart(c) \in Seq(Reads(c))
  <2>1. <<Do("calcSync")>> \in Seq(Reads(c))
    BY <1>1, ReadsType, SingleType
  <2>2. SynchronizationRun(c) \in Seq(Reads(c))
    BY <1>6, <2>1, ConcatType DEF SynchronizationRun
  <2>3. SynchronizationRun(c) \o <<Sync>> \in Seq(Reads(c))
    BY <1>2, <2>2, ConcatType
  <2> QED
    BY <1>2, <2>3 DEF SyncPart
<1>8. StatWrites(c) \in Seq(Writes(c))
  <2>1. \A s \in 1..c.streams : StatWrites(c)[s] \in Writes(c)
    <3> SUFFICES ASSUME NEW s \in 1..c.streams PROVE StatWrites(c)[s] \in Writes(c)
      OBVIOUS
    <3>1. s \in 0..c.streams /\ "stats" \in StreamKinds
      BY <1>1 DEF StreamKinds
    <3>2. File("write", s, "stats") \in Writes(c)
      BY <1>1, <3>1, WriteType
    <3> QED
      BY <3>2 DEF StatWrites
  <2>2. StatWrites(c) \in [1..c.streams -> Writes(c)]
    BY <2>1 DEF StatWrites
  <2> QED
    BY <1>1, <2>2
<1>9. DefWrites(c) \in Seq(Writes(c))
  <2>1. 0 \in 0..c.streams /\ "def" \in StreamKinds /\ "marker" \in StreamKinds
    BY <1>1 DEF StreamKinds
  <2>2. File("write", 0, "def") \in Writes(c) /\ File("write", 0, "marker") \in Writes(c)
    BY <1>1, <2>1, WriteType
  <2>3. <<File("write", 0, "def"), File("write", 0, "marker")>> \in Seq(Writes(c))
    BY <2>2
  <2> QED
    BY <1>8, <2>3, ConcatType DEF DefWrites
<1> QED
  BY <1>2, <1>3, <1>4, <1>5, <1>6, <1>7, <1>8, <1>9, EventWritesType

\* The events are written between two barriers (EventsC::run).
LEMMA EventsRunIs ==
  ASSUME NEW c, NEW r
  PROVE  EventsRun(c, r) = (BarrierIfParallel(c) \o EventWrites(c, r)) \o BarrierIfParallel(c)
BY DEF EventsRun, EventWrites

\* Between opening the control file and the clean-up, files are only written.
LEMMA UniteType ==
  ASSUME NEW c, IsConf(c), NEW r \in RanksOf(c)
  PROVE  /\ ReadPart(r) \in Seq(Uniting(c)) /\ <<Sync>> \in Seq(Uniting(c))
         /\ shareUnifyControls(c) \in Seq(Uniting(c)) /\ getMinStartTime(c, r) \in Seq(Uniting(c))
         /\ SyncPart(c) \in Seq(Uniting(c)) /\ shareTokenTranslations(c) \in Seq(Uniting(c))
         /\ EventsRun(c, r) \in Seq(Uniting(c)) /\ MasterDoes(r, DefWrites(c)) \in Seq(Uniting(c))
         /\ Unite(c, r) \in Seq(Uniting(c))
<1>1. c.streams \in Nat
  BY DEF IsConf
<1>2. Reads(c) \subseteq Uniting(c) /\ Writes(c) \subseteq Uniting(c)
  BY <1>1, ReadsType
<1>3. /\ ReadPart(r) \in Seq(Uniting(c)) /\ <<Sync>> \in Seq(Uniting(c))
      /\ shareUnifyControls(c) \in Seq(Uniting(c)) /\ getMinStartTime(c, r) \in Seq(Uniting(c))
      /\ SyncPart(c) \in Seq(Uniting(c)) /\ shareTokenTranslations(c) \in Seq(Uniting(c))
      /\ BarrierIfParallel(c) \in Seq(Uniting(c)) /\ EventWrites(c, r) \in Seq(Uniting(c))
      /\ DefWrites(c) \in Seq(Uniting(c))
  BY <1>2, UniteParts, SeqSubset
<1>4. EventsRun(c, r) \in Seq(Uniting(c))
  BY <1>3, EventsRunIs, ConcatType
<1>5. MasterDoes(r, DefWrites(c)) \in Seq(Uniting(c))
  BY <1>3, MasterType
<1>6. Unite(c, r) \in Seq(Uniting(c))
  <2>1. PICK S : S = Uniting(c)
    OBVIOUS
  <2>2. ReadPart(r) \o <<Sync>> \in Seq(S)
    BY <1>3, <2>1, ConcatType
  <2>3. (ReadPart(r) \o <<Sync>>) \o shareUnifyControls(c) \in Seq(S)
    BY <1>3, <2>1, <2>2, ConcatType
  <2>4. ((ReadPart(r) \o <<Sync>>) \o shareUnifyControls(c)) \o getMinStartTime(c, r) \in Seq(S)
    BY <1>3, <2>1, <2>3, ConcatType
  <2>5. (((ReadPart(r) \o <<Sync>>) \o shareUnifyControls(c)) \o getMinStartTime(c, r)) \o SyncPart(c)
        \in Seq(S)
    BY <1>3, <2>1, <2>4, ConcatType
  <2>6. ((((ReadPart(r) \o <<Sync>>) \o shareUnifyControls(c)) \o getMinStartTime(c, r)) \o SyncPart(c))
        \o MasterDoes(r, DefWrites(c)) \in Seq(S)
    BY <1>5, <2>1, <2>5, ConcatType
  <2>7. (((((ReadPart(r) \o <<Sync>>) \o shareUnifyControls(c)) \o getMinStartTime(c, r)) \o SyncPart(c))
         \o MasterDoes(r, DefWrites(c))) \o <<Sync>> \in Seq(S)
    BY <1>3, <2>1, <2>6, ConcatType
  <2>8. ((((((ReadPart(r) \o <<Sync>>) \o shareUnifyControls(c)) \o getMinStartTime(c, r)) \o SyncPart(c))
          \o MasterDoes(r, DefWrites(c))) \o <<Sync>>) \o shareTokenTranslations(c) \in Seq(S)
    BY <1>3, <2>1, <2>7, ConcatType
  <2> QED
    BY <1>4, <2>1, <2>8, ConcatType DEF Unite
<1> QED
  BY <1>3, <1>4, <1>5, <1>6

\* The local files are removed, the unified files renamed.
LocalRemoves(c) == Each(c, LAMBDA s : <<File("remove", s, "def"), File("remove", s, "events"),
                                        File("remove", s, "marker"), File("remove", s, "marker")>>)
UnifiedRenames(c) == Each(c, LAMBDA s : <<File("rename", s, "events"), File("rename", s, "stats")>>)
GlobalRenames == <<File("rename", 0, "def"), File("rename", 0, "marker"), File("rename", 0, "otf")>>
RemovePart(c) == IF c.doclean THEN <<RemoveControl>> \o LocalRemoves(c) ELSE << >>
RenamePart(c) == GlobalRenames \o UnifiedRenames(c)

Cat(s, t) == s \o t

\* Parts of programs are put together in any grouping.
LEMMA CatFacts ==
  ASSUME NEW S
  PROVE  \A s, t, u \in Seq(S) : Cat(s, t) \in Seq(S) /\ Cat(Cat(s, t), u) = Cat(s, Cat(t, u))
BY DEF Cat

\* Each renames two files of every stream.
LEMMA EachRenames ==
  ASSUME NEW S, NEW c, c.streams \in Nat,
         \A s \in 1..c.streams : File("rename", s, "events") \in S /\ File("rename", s, "stats") \in S
  PROVE  UnifiedRenames(c) \in Seq(S)
<1> DEFINE seqs == [s \in 1..c.streams |-> <<File("rename", s, "events"), File("rename", s, "stats")>>]
<1>1. Len(seqs) = c.streams /\ (c.streams = 0 => seqs = << >>)
  OBVIOUS
<1>2. ASSUME NEW i \in 1..c.streams PROVE seqs[i] \in Seq(S)
  <2>1. File("rename", i, "events") \in S /\ File("rename", i, "stats") \in S
    OBVIOUS
  <2>2. seqs[i] = <<File("rename", i, "events"), File("rename", i, "stats")>>
    OBVIOUS
  <2> HIDE DEF seqs
  <2> QED
    BY <2>1, <2>2
<1> HIDE DEF seqs
<1>3. FlattenSeq(seqs) \in Seq(S)
  BY <1>1, <1>2, FlattenType
<1> QED
  BY <1>3 DEF UnifiedRenames, Each, StreamsOf, seqs

\* The clean-up removes files before it renames any, or removes none (cleanUp).
LEMMA CleanUpParts ==
  ASSUME NEW c, IsConf(c)
  PROVE  /\ LocalRemoves(c) \in Seq(Removes(c)) /\ UnifiedRenames(c) \in Seq(Renames(c))
         /\ GlobalRenames \in Seq(Renames(c)) /\ RenamePart(c) \in Seq(Renames(c))
         /\ RemovePart(c) \in Seq(Removes(c) \cup {RemoveControl})
         /\ ~c.doclean => RemovePart(c) = << >>
         /\ c.doclean => RemovePart(c) = <<RemoveControl>> \o LocalRemoves(c)
<1>1. c.streams \in Nat /\ 0 \in 0..c.streams
  BY DEF IsConf
<1>2. /\ "remove" \in OpNames /\ "rename" \in OpNames /\ {"def", "events", "marker", "stats"} = StreamKinds
      /\ StreamKinds \cup {"otf"} \subseteq KindNames
  BY DEF OpNames, Changes, StreamKinds, KindNames
<1>3. ASSUME NEW s \in 1..c.streams, NEW k \in {"def", "events", "marker"}
      PROVE  File("remove", s, k) \in Removes(c)
  <2>1. s \in 0..c.streams /\ k \in KindNames
    BY <1>1, <1>2
  <2> QED
    BY <1>1, <1>2, <2>1, OpsType, OpFields DEF Removes
<1>4. ASSUME NEW s \in 0..c.streams, NEW k \in StreamKinds \cup {"otf"}
      PROVE  File("rename", s, k) \in Renames(c)
  BY <1>1, <1>2, OpsType, OpFields DEF Renames
<1>5. LocalRemoves(c) \in Seq(Removes(c))
  BY <1>1, <1>3, EachRemoves DEF LocalRemoves
<1>6. UnifiedRenames(c) \in Seq(Renames(c))
  <2>1. ASSUME NEW s \in 1..c.streams
        PROVE  File("rename", s, "events") \in Renames(c) /\ File("rename", s, "stats") \in Renames(c)
    BY <1>1, <1>2, <1>4
  <2> QED
    BY <1>1, <2>1, EachRenames
<1>7. GlobalRenames \in Seq(Renames(c))
  <2>1. /\ File("rename", 0, "def") \in Renames(c) /\ File("rename", 0, "marker") \in Renames(c)
        /\ File("rename", 0, "otf") \in Renames(c)
    BY <1>1, <1>2, <1>4
  <2> QED
    BY <2>1 DEF GlobalRenames
<1>8. RemovePart(c) \in Seq(Removes(c) \cup {RemoveControl})
  <2>1. PICK T : T = Removes(c) \cup {RemoveControl}
    OBVIOUS
  <2>2. <<RemoveControl>> \in Seq(T) /\ << >> \in Seq(T) /\ LocalRemoves(c) \in Seq(T)
    BY <1>5, <2>1, SeqSubset, SingleType, EmptyType
  <2> QED
    BY <2>1, <2>2, ConcatType DEF RemovePart
<1>9. RenamePart(c) \in Seq(Renames(c))
  BY <1>6, <1>7, ConcatType DEF RenamePart
<1> QED
  BY <1>5, <1>6, <1>7, <1>8, <1>9 DEF RemovePart

\* The steps of the clean-up and the end.
LEMMA FinishingType ==
  ASSUME NEW c, IsConf(c)
  PROVE  /\ Finishing(c) \subseteq OpsOf(c) /\ Calls(c) \subseteq OpsOf(c)
         /\ RemoveControl \in OpsOf(c) /\ WriteControl \in OpsOf(c)
         /\ Sync \in Calls(c) /\ Do("MPI_Finalize") \in Calls(c)
<1>1. c.streams \in Nat /\ 0 \in 0..c.streams
  BY DEF IsConf
<1>2. /\ "remove" \in OpNames /\ "write" \in OpNames /\ "uctl" \in KindNames /\ "otf" \in KindNames
      /\ "syncError" \in OpNames /\ "MPI_Finalize" \in OpNames /\ NONE \in KindNames
  BY DEF OpNames, Changes, KindNames, MPI
<1>3. RemoveControl \in OpsOf(c) /\ WriteControl \in OpsOf(c)
  BY <1>1, <1>2, OpsType DEF RemoveControl, WriteControl
<1>4. Sync \in Calls(c) /\ Do("MPI_Finalize") \in Calls(c)
  BY <1>1, <1>2, OpsType, OpFields DEF Calls, Sync, MPI
<1> QED
  BY <1>3, <1>4 DEF Finishing, Calls, Renames, Removes

\* The clean-up: first the control file, then the local files go, and only then
\* the unified files get their names.
LEMMA CleanUpIs ==
  ASSUME NEW c, IsConf(c)
  PROVE  cleanUp(c) = RemovePart(c) \o RenamePart(c)
<1>1. PICK T : T = Removes(c) \cup {RemoveControl} \cup Renames(c)
  OBVIOUS
<1>2. RemovePart(c) \in Seq(T) /\ GlobalRenames \in Seq(T) /\ UnifiedRenames(c) \in Seq(T)
  <2>1. PICK R : R = Removes(c) \cup {RemoveControl}
    OBVIOUS
  <2>2. R \subseteq T /\ Renames(c) \subseteq T
    BY <1>1, <2>1
  <2>3. RemovePart(c) \in Seq(R)
    BY <2>1, CleanUpParts
  <2> QED
    BY <2>2, <2>3, CleanUpParts, SeqSubset
<1>3. cleanUp(c) = (RemovePart(c) \o GlobalRenames) \o UnifiedRenames(c)
  BY DEF cleanUp, RemovePart, GlobalRenames, UnifiedRenames, RemoveControl, LocalRemoves
<1> QED
  BY <1>2, <1>3, CatFacts DEF RenamePart, Cat

\* The parts of the clean-up and the end.
LEMMA FinishType ==
  ASSUME NEW c, IsConf(c), NEW r
  PROVE  /\ RemovePart(c) \in Seq(Finishing(c)) /\ RenamePart(c) \in Seq(Finishing(c))
         /\ <<WriteControl>> \in Seq(Finishing(c))
         /\ <<Sync>> \in Seq(Finishing(c)) /\ <<Do("MPI_Finalize")>> \in Seq(Finishing(c))
         /\ EndPart(c, r) \in Seq(Finishing(c)) /\ Finish(c, r) \in Seq(Finishing(c))
         /\ r # 0 => Finish(c, r) \in Seq(Calls(c))
         /\ writeMasterControl \o cleanUp(c) = <<WriteControl>> \o (RemovePart(c) \o RenamePart(c))
<1>1. PICK F : F = Finishing(c)
  OBVIOUS
<1>2. RemovePart(c) \in Seq(F)
  <2>1. CASE c.doclean
    <3>1. Removes(c) \cup {RemoveControl} \subseteq F
      BY <1>1, <2>1 DEF Finishing
    <3> QED
      BY <3>1, CleanUpParts, SeqSubset
  <2>2. CASE ~c.doclean
    BY <2>2, CleanUpParts, EmptyType
  <2> QED
    BY <2>1, <2>2
<1>3. RenamePart(c) \in Seq(F)
  <2>1. Renames(c) \subseteq F
    BY <1>1 DEF Finishing
  <2> QED
    BY <2>1, CleanUpParts, SeqSubset
<1>4. /\ <<WriteControl>> \in Seq(F) /\ <<Sync>> \in Seq(F) /\ <<Do("MPI_Finalize")>> \in Seq(F)
      /\ << >> \in Seq(F)
  BY <1>1, FinishingType, SingleType, EmptyType DEF Finishing
<1>5. writeMasterControl \o cleanUp(c) = <<WriteControl>> \o (RemovePart(c) \o RenamePart(c))
  BY CleanUpIs DEF writeMasterControl, WriteControl
<1>6. writeMasterControl \o cleanUp(c) \in Seq(F)
  <2>1. RemovePart(c) \o RenamePart(c) \in Seq(F)
    BY <1>2, <1>3, ConcatType
  <2> QED
    BY <1>4, <1>5, <2>1, ConcatType
<1>7. EndPart(c, r) \in Seq(F)
  BY <1>6, MasterType, <1>4 DEF EndPart, MasterDoes
<1>8. Finish(c, r) \in Seq(F)
  <2>1. EndPart(c, r) \o <<Sync>> \in Seq(F)
    BY <1>4, <1>7, ConcatType
  <2> QED
    BY <1>4, <2>1, ConcatType DEF Finish
<1>9. r # 0 => Finish(c, r) \in Seq(Calls(c))
  <2> SUFFICES ASSUME r # 0 PROVE Finish(c, r) \in Seq(Calls(c))
    OBVIOUS
  <2>1. EndPart(c, r) = << >>
    BY DEF EndPart, MasterDoes
  <2>2. /\ << >> \in Seq(Calls(c)) /\ <<Sync>> \in Seq(Calls(c))
        /\ <<Do("MPI_Finalize")>> \in Seq(Calls(c))
    BY FinishingType, SingleType, EmptyType
  <2>3. EndPart(c, r) \o <<Sync>> \in Seq(Calls(c))
    BY <2>1, <2>2, ConcatType
  <2> QED
    BY <2>2, <2>3, ConcatType DEF Finish
<1> QED
  BY <1>1, <1>2, <1>3, <1>4, <1>5, <1>7, <1>8, <1>9

\* What is left of a program after its first and after its second part.
AfterUnite(c, r) == <<Sync>> \o Finish(c, r)
AfterPrepare(c, r) == <<Sync>> \o (Unite(c, r) \o AfterUnite(c, r))

\* The parts of the program of a rank.
LEMMA ProgramParts ==
  ASSUME NEW c, IsConf(c), NEW r \in RanksOf(c)
  PROVE  /\ Prepare(c, r) \in Seq(OpsOf(c)) /\ Unite(c, r) \in Seq(OpsOf(c))
         /\ Finish(c, r) \in Seq(OpsOf(c)) /\ <<Sync>> \in Seq(OpsOf(c))
         /\ AfterUnite(c, r) \in Seq(OpsOf(c)) /\ AfterPrepare(c, r) \in Seq(OpsOf(c))
<1>1. PICK S : S = OpsOf(c)
  OBVIOUS
<1>2. Reads(c) \subseteq S /\ Uniting(c) \subseteq S /\ Finishing(c) \subseteq S
  <2>1. c.streams \in Nat
    BY DEF IsConf
  <2> QED
    BY <1>1, <2>1, ReadsType, FinishingType
<1>3. /\ Prepare(c, r) \in Seq(S) /\ Unite(c, r) \in Seq(S) /\ Finish(c, r) \in Seq(S)
      /\ <<Sync>> \in Seq(S)
  BY <1>2, PrepareType, UniteType, FinishType, SeqSubset
<1>4. AfterUnite(c, r) \in Seq(S)
  BY <1>3, ConcatType DEF AfterUnite
<1>5. Unite(c, r) \o AfterUnite(c, r) \in Seq(S)
  BY <1>3, <1>4, ConcatType
<1>6. AfterPrepare(c, r) \in Seq(S)
  BY <1>3, <1>5, ConcatType DEF AfterPrepare
<1> QED
  BY <1>1, <1>3, <1>4, <1>6

\* The program of a rank consists of these parts, in this order.
LEMMA ProgramIs ==
  ASSUME NEW c, IsConf(c), NEW r \in RanksOf(c)
  PROVE  /\ Program(c, r) = Prepare(c, r) \o AfterPrepare(c, r)
         /\ Program(c, r) \in Seq(OpsOf(c))
<1>1. PICK S, T : S = OpsOf(c) /\ T = Seq(S)
  OBVIOUS
<1>2. Reads(c) \subseteq S /\ Uniting(c) \subseteq S /\ Finishing(c) \subseteq S
  <2>1. c.streams \in Nat
    BY DEF IsConf
  <2> QED
    BY <1>1, <2>1, ReadsType, FinishingType
<1>3. PICK a, s, o, x1, x2, x3, x4, x5, x6, x7, e, fin :
        /\ a = getParams(c, r) /\ s = <<Sync>> /\ o = OpenPart(r) /\ x1 = ReadPart(r)
        /\ x2 = shareUnifyControls(c) /\ x3 = getMinStartTime(c, r) /\ x4 = SyncPart(c)
        /\ x5 = MasterDoes(r, DefWrites(c)) /\ x6 = shareTokenTranslations(c)
        /\ x7 = EventsRun(c, r) /\ e = EndPart(c, r) /\ fin = <<Do("MPI_Finalize")>>
  OBVIOUS
<1>4. /\ a \in T /\ s \in T /\ o \in T /\ x1 \in T /\ x2 \in T /\ x3 \in T
      /\ x4 \in T /\ x5 \in T /\ x6 \in T /\ x7 \in T /\ e \in T /\ fin \in T
  <2>1. getParams(c, r) \in Seq(S) /\ OpenPart(r) \in Seq(S)
    BY <1>2, PrepareType, SeqSubset
  <2>2. /\ ReadPart(r) \in Seq(S) /\ <<Sync>> \in Seq(S)
        /\ shareUnifyControls(c) \in Seq(S) /\ getMinStartTime(c, r) \in Seq(S)
        /\ SyncPart(c) \in Seq(S) /\ shareTokenTranslations(c) \in Seq(S)
        /\ EventsRun(c, r) \in Seq(S) /\ MasterDoes(r, DefWrites(c)) \in Seq(S)
    BY <1>2, UniteType, SeqSubset
  <2>3. EndPart(c, r) \in Seq(S) /\ <<Do("MPI_Finalize")>> \in Seq(S)
    BY <1>2, FinishType, SeqSubset
  <2> QED
    BY <1>1, <1>3, <2>1, <2>2, <2>3
<1>5. getUnifyControls(c, r) = Cat(Cat(Cat(Cat(o, s), x1), s), x2)
  BY <1>3 DEF getUnifyControls, OpenPart, ReadPart, Sync, Cat
<1>6. PICK v : v = getUnifyControls(c, r)
  OBVIOUS
<1>7. Program(c, r) = Cat(Cat(Cat(Cat(Cat(Cat(Cat(Cat(Cat(Cat(Cat(a, v), x3), x4), x5), s), x6), x7), s), e), s), fin)
  BY <1>3, <1>6 DEF Program, SyncPart, DefWrites, StatWrites, EndPart, Sync, Cat
<1>8. Prepare(c, r) = Cat(a, o) /\ AfterUnite(c, r) = Cat(s, Cat(Cat(e, s), fin))
  BY <1>3 DEF Prepare, AfterUnite, Finish, Cat
<1>9. PICK u, w : u = Unite(c, r) /\ w = AfterUnite(c, r)
  OBVIOUS
<1>10. u = Cat(Cat(Cat(Cat(Cat(Cat(Cat(Cat(x1, s), x2), x3), x4), x5), s), x6), x7)
  BY <1>3, <1>9 DEF Unite, Cat
<1>11. Prepare(c, r) \o AfterPrepare(c, r) = Cat(Cat(a, o), Cat(s, Cat(u, w)))
  BY <1>3, <1>8, <1>9 DEF AfterPrepare, Cat
<1>12. \A x, y, z \in T : Cat(x, y) \in T /\ Cat(Cat(x, y), z) = Cat(x, Cat(y, z))
  BY <1>1, CatFacts
<1>13. PICK u1, u2, u3, u4, u5, u6, u7 :
         /\ u1 = Cat(x1, s) /\ u2 = Cat(u1, x2) /\ u3 = Cat(u2, x3) /\ u4 = Cat(u3, x4) /\ u5 = Cat(u4, x5)
         /\ u6 = Cat(u5, s) /\ u7 = Cat(u6, x6) /\ u = Cat(u7, x7)
  BY <1>10
<1>14. /\ u1 \in T /\ u2 \in T /\ u3 \in T /\ u4 \in T /\ u5 \in T /\ u6 \in T /\ u7 \in T /\ u \in T
  BY <1>4, <1>12, <1>13
<1>15. PICK p : p = Cat(a, o) /\ p \in T
  BY <1>4, <1>12
<1>16. \A x, y \in T : Cat(Cat(p, Cat(s, x)), y) = Cat(p, Cat(s, Cat(x, y)))
  BY <1>4, <1>12, <1>15
<1>17. Cat(a, v) = Cat(p, Cat(s, u2))
  <2>1. Cat(Cat(Cat(o, s), x1), s) = Cat(o, Cat(s, u1))
    BY <1>4, <1>12, <1>13
  <2>2. v = Cat(o, Cat(s, u2))
    BY <1>4, <1>5, <1>6, <1>12, <1>13, <1>14, <2>1
  <2> QED
    BY <1>4, <1>12, <1>14, <1>15, <2>2
<1>18. Cat(Cat(Cat(Cat(Cat(Cat(Cat(a, v), x3), x4), x5), s), x6), x7) = Cat(p, Cat(s, u))
  BY <1>4, <1>13, <1>14, <1>16, <1>17
<1>19. PICK y1, y2, y3 : y1 = Cat(u, s) /\ y2 = Cat(y1, e) /\ y3 = Cat(y2, s)
  OBVIOUS
<1>20. y1 \in T /\ y2 \in T /\ y3 \in T
  BY <1>4, <1>12, <1>14, <1>19
<1>21. Program(c, r) = Cat(p, Cat(s, Cat(y3, fin)))
  BY <1>4, <1>7, <1>14, <1>16, <1>18, <1>19, <1>20
<1>22. Cat(y3, fin) = Cat(u, w)
  <2>1. w = Cat(Cat(Cat(s, e), s), fin)
    BY <1>4, <1>8, <1>9, <1>12
  <2>2. y2 = Cat(u, Cat(s, e)) /\ Cat(s, e) \in T
    BY <1>4, <1>12, <1>14, <1>19
  <2>3. y3 = Cat(u, Cat(Cat(s, e), s)) /\ Cat(Cat(s, e), s) \in T
    BY <1>4, <1>12, <1>14, <1>19, <2>2
  <2> QED
    BY <1>4, <1>12, <1>14, <2>1, <2>3
<1>23. Program(c, r) = Prepare(c, r) \o AfterPrepare(c, r)
  BY <1>11, <1>15, <1>21, <1>22
<1> QED
  BY <1>23, ProgramParts, ConcatType

------------------------------------------------------------------------------
(* The types hold after every step of vtunify.                             *)

\* A program and what is left of it after its first step.
LEMMA TailFacts ==
  ASSUME NEW S, NEW s \in Seq(S), s # << >>
  PROVE  /\ Tail(s) \in Seq(S) /\ Head(s) \in S /\ s = <<Head(s)>> \o Tail(s)
         /\ Len(s) = Len(Tail(s)) + 1 /\ s[1] = Head(s) /\ 1 \in DOMAIN s
         /\ \A i \in DOMAIN Tail(s) : i + 1 \in DOMAIN s /\ Tail(s)[i] = s[i + 1]
OBVIOUS

\* Rank r does its work, and only its own program and error change.
OnlyRank(r) ==
  /\ DOMAIN todo' = DOMAIN todo /\ DOMAIN error' = DOMAIN error
  /\ todo'[r] = Tail(todo[r])
  /\ \A q \in Ranks : q # r => todo'[q] = todo[q] /\ error'[q] = error[q]

\* A file is put on the disk, removed, or gets another name.
DiskPut(f, content) ==
  /\ DOMAIN disk' = DOMAIN disk \cup {f} /\ disk'[f] = content
  /\ \A x \in DOMAIN disk : x # f => disk'[x] = disk[x]
DiskGone(f) ==
  DOMAIN disk' = DOMAIN disk \ {f} /\ \A x \in DOMAIN disk : x # f => disk'[x] = disk[x]
DiskMoved(f, g) ==
  /\ f \in DOMAIN disk /\ DOMAIN disk' = (DOMAIN disk \ {f}) \cup {g} /\ disk'[g] = disk[f]
  /\ \A x \in DOMAIN disk : x # f /\ x # g => disk'[x] = disk[x]

\* What a step of work does to the disk.
DiskStep ==
  \/ disk' = disk
  \/ \E f, content : DiskPut(f, content) /\ content.state \in States
  \/ \E f : DiskGone(f)
  \/ \E f, g : DiskMoved(f, g)

\* A file is written.
LEMMA DiskPutIs ==
  ASSUME NEW f, NEW content, disk' = Put(disk, f, content)
  PROVE  DiskPut(f, content)
BY DEF Put, DiskPut

\* A file is removed.
LEMMA DiskGoneIs ==
  ASSUME NEW f, disk' = Without(disk, f)
  PROVE  DiskGone(f)
BY DEF Without, DiskGone

\* A file gets another name.
LEMMA DiskMovedIs ==
  ASSUME NEW f \in DOMAIN disk, NEW g, disk' = Put(Without(disk, f), g, disk[f])
  PROVE  DiskMoved(f, g)
BY DEF Put, Without, DiskMoved

\* What is in a file.
LEMMA ContentState ==
  ASSUME NEW state, NEW times
  PROVE  Content(state, times).state = state /\ LocalContent.state = "local"
BY DEF Content, LocalContent

\* The compressed variant of a file, and its final name.
SetZ(f, y) == [f EXCEPT !.z = y]
SetTmp(f, y) == [f EXCEPT !.tmp = y]

\* The compressed variant and the final name of a file.
LEMMA SetIs ==
  ASSUME NEW f
  PROVE  [f EXCEPT !.z = TRUE] = SetZ(f, TRUE) /\ [f EXCEPT !.tmp = FALSE] = SetTmp(f, FALSE)
BY Zenon DEF SetZ, SetTmp

\* The compressed variant and the final name of a file.
LEMMA NameExcept ==
  ASSUME NEW a, NEW b, NEW s, NEW k, NEW z, NEW y
  PROVE  /\ SetZ(Name(a, b, s, k, z), y) = Name(a, b, s, k, y)
         /\ SetTmp(Name(a, b, s, k, z), y) = Name(a, y, s, k, z)
BY DEF Name, SetZ, SetTmp

\* A unified file is not needed, is written, or is written in part and fails.
LEMMA WriteForms ==
  ASSUME NEW r, NEW st, WriteFile(r, st)
  PROVE  \/ UNCHANGED <<disk, ctl, error>> /\ ~Written(r, st)
         \/ \E state, times : state \in Completed /\ DiskPut(Target(st), Content(state, times)) /\ UNCHANGED error
         \/ DiskPut(Target(st), Content("partial", << >>)) /\ error' = [error EXCEPT ![r] = TRUE]
<1>1. PICK new : \/ UNCHANGED <<disk, ctl, error>> /\ ~Written(r, st)
                 \/ /\ disk' = Put(disk, Target(st), Content("unified", new.times))
                    /\ UNCHANGED error
                 \/ /\ disk' = Put(disk, Target(st), Content("cut", << >>))
                    /\ UNCHANGED error
                 \/ /\ disk' = Put(disk, Target(st), Content("partial", << >>))
                    /\ error' = [error EXCEPT ![r] = TRUE]
  BY DEF WriteFile
<1>2. "unified" \in Completed /\ "cut" \in Completed
  BY DEF Completed
<1> QED
  BY <1>1, <1>2, DiskPutIs

\* A local file is removed, or stays, or the control file could not be.
LEMMA RemoveForms ==
  ASSUME NEW r, NEW st, RemoveFile(r, st)
  PROVE  \/ \E z : DiskGone(Name("in", FALSE, st.stream, st.kind, z)) /\ UNCHANGED error
         \/ st.kind # "uctl" /\ UNCHANGED <<disk, error>>
         \/ st.kind = "uctl" /\ error' = [error EXCEPT ![r] = TRUE] /\ UNCHANGED disk
<1>1. PICK plain, zipped : /\ plain = Name("in", FALSE, st.stream, st.kind, FALSE)
                           /\ zipped = [plain EXCEPT !.z = TRUE]
  OBVIOUS
<1>2. \/ disk' = Without(disk, plain) /\ UNCHANGED error
      \/ disk' = Without(disk, zipped) /\ UNCHANGED error
      \/ st.kind # "uctl" /\ UNCHANGED <<disk, error>>
      \/ st.kind = "uctl" /\ error' = [error EXCEPT ![r] = TRUE] /\ UNCHANGED disk
  BY <1>1 DEF RemoveFile
<1>3. PICK yes, no : yes = TRUE /\ no = FALSE
  OBVIOUS
<1>4. plain = Name("in", FALSE, st.stream, st.kind, no)
  BY <1>1, <1>3, Zenon
<1>5. zipped = Name("in", FALSE, st.stream, st.kind, yes)
  <2>1. PICK a, s, k : a = "in" /\ s = st.stream /\ k = st.kind
    OBVIOUS
  <2>2. plain = Name(a, no, s, k, no)
    BY <1>3, <1>4, <2>1, Zenon
  <2>3. SetZ(plain, yes) = Name(a, no, s, k, yes)
    BY <2>2, NameExcept
  <2>4. [plain EXCEPT !.z = TRUE] = SetZ(plain, TRUE)
    BY SetIs, Zenon
  <2> QED
    BY <1>1, <1>3, <2>1, <2>3, <2>4, Zenon
<1> QED
  BY <1>2, <1>4, <1>5, DiskGoneIs

\* A unified file gets its final name, or keeps the first one.
LEMMA RenameForms ==
  ASSUME NEW r, NEW st, RenameFile(r, st)
  PROVE  \/ \E z : /\ UNCHANGED error
                   /\ DiskMoved(Name(OutPrefix, TRUE, st.stream, st.kind, z),
                                Name(OutPrefix, FALSE, st.stream, st.kind, z))
         \/ UNCHANGED <<disk, error>>
         \/ error' = [error EXCEPT ![r] = TRUE] /\ UNCHANGED disk
<1>1. PICK plain, zipped, plain1, zipped1 :
        /\ plain = Name(OutPrefix, TRUE, st.stream, st.kind, FALSE) /\ zipped = [plain EXCEPT !.z = TRUE]
        /\ plain1 = [plain EXCEPT !.tmp = FALSE] /\ zipped1 = [zipped EXCEPT !.tmp = FALSE]
  OBVIOUS
<1>2. PICK yes, no : yes = TRUE /\ no = FALSE
  OBVIOUS
<1>3. /\ plain = Name(OutPrefix, TRUE, st.stream, st.kind, no)
      /\ zipped = Name(OutPrefix, TRUE, st.stream, st.kind, yes)
      /\ plain1 = Name(OutPrefix, FALSE, st.stream, st.kind, no)
      /\ zipped1 = Name(OutPrefix, FALSE, st.stream, st.kind, yes)
  <2>1. PICK a, s, k : a = OutPrefix /\ s = st.stream /\ k = st.kind
    OBVIOUS
  <2>2. plain = Name(a, yes, s, k, no)
    BY <1>1, <1>2, <2>1, Zenon
  <2>3. SetZ(plain, yes) = Name(a, yes, s, k, yes) /\ SetTmp(plain, no) = Name(a, no, s, k, no)
    BY <2>2, NameExcept
  <2>4. zipped = Name(a, yes, s, k, yes) /\ plain1 = Name(a, no, s, k, no)
    <3>1. [plain EXCEPT !.z = TRUE] = SetZ(plain, TRUE) /\ [plain EXCEPT !.tmp = FALSE] = SetTmp(plain, FALSE)
      BY SetIs, Zenon
    <3> QED
      BY <1>1, <1>2, <2>3, <3>1, Zenon
  <2>5. SetTmp(zipped, no) = Name(a, no, s, k, yes)
    BY <2>4, NameExcept
  <2>6. zipped1 = Name(a, no, s, k, yes)
    <3>1. [zipped EXCEPT !.tmp = FALSE] = SetTmp(zipped, FALSE)
      BY SetIs, Zenon
    <3> QED
      BY <1>1, <1>2, <2>5, <3>1, Zenon
  <2> QED
    BY <1>2, <2>1, <2>2, <2>4, <2>6, Zenon
<1>4. PICK f, g : /\ (f = plain /\ g = plain1) \/ (f = zipped /\ g = zipped1)
                  /\ \/ f \in DOMAIN disk /\ UNCHANGED error /\ disk' = Put(Without(disk, f), g, disk[f])
                     \/ UNCHANGED <<disk, error>>
                     \/ error' = [error EXCEPT ![r] = TRUE] /\ UNCHANGED disk
  BY <1>1 DEF RenameFile, HasFile
<1>5. \/ DiskMoved(f, g) /\ UNCHANGED error
      \/ UNCHANGED <<disk, error>>
      \/ error' = [error EXCEPT ![r] = TRUE] /\ UNCHANGED disk
  BY <1>4, DiskMovedIs
<1> QED
  <2>1. CASE f = plain
    BY <1>3, <1>4, <1>5, <2>1
  <2>2. CASE f = zipped
    BY <1>3, <1>4, <1>5, <2>2
  <2> QED
    BY <1>4, <2>1, <2>2

\* Reading changes no file; it may fail.
LEMMA ReadForms ==
  ASSUME NEW r, NEW st, Read(r, st)
  PROVE  disk' = disk /\ error' \in {error, [error EXCEPT ![r] = TRUE]}
BY DEF Read

\* A rank does a step of its own: at most one file changes.
LEMMA WorkEffect ==
  ASSUME RanksOK, NEW r \in Ranks, Work(r)
  PROVE  /\ status[r] = "running" /\ starts # 0 /\ todo[r] # << >> /\ At(r).op \notin MPI
         /\ conf' = conf /\ inside' = inside /\ status' = status /\ starts' = starts
         /\ OnlyRank(r) /\ error' \in {error, [error EXCEPT ![r] = TRUE]} /\ DiskStep
<1>1. /\ status[r] = "running" /\ todo[r] # << >> /\ At(r).op \notin MPI
      /\ conf' = conf /\ inside' = inside /\ status' = status /\ starts' = starts
      /\ todo' = [todo EXCEPT ![r] = Tail(@)]
  BY DEF Work, Running, AtEnd
<1>2. starts # 0
  BY <1>1 DEF RanksOK
<1>3. error' \in {error, [error EXCEPT ![r] = TRUE]} /\ DiskStep
  <2>1. CASE UNCHANGED <<disk, error>>
    BY <2>1 DEF DiskStep
  <2>2. CASE WriteFile(r, At(r))
    <3>1. \A times : /\ \A state \in Completed : Content(state, times).state \in States
                     /\ Content("partial", << >>).state \in States
      BY ContentState DEF States, Completed
    <3> QED
      BY <2>2, <3>1, WriteForms DEF DiskStep
  <2>3. CASE RemoveFile(r, At(r))
    BY <2>3, RemoveForms DEF DiskStep
  <2>4. CASE RenameFile(r, At(r))
    BY <2>4, RenameForms DEF DiskStep
  <2>5. CASE Read(r, At(r))
    BY <2>5, ReadForms DEF DiskStep
  <2> QED
    BY <2>1, <2>2, <2>3, <2>4, <2>5 DEF Work
<1>4. OnlyRank(r)
  <2>1. DOMAIN todo = Ranks /\ error \in [Ranks -> BOOLEAN]
    BY DEF RanksOK
  <2>2. DOMAIN error' = DOMAIN error /\ \A q \in Ranks : q # r => error'[q] = error[q]
    BY <1>3, <2>1
  <2> QED
    BY <1>1, <2>1, <2>2 DEF OnlyRank
<1> QED
  BY <1>1, <1>2, <1>3, <1>4

\* Files are local, unified or written in part.
LEMMA DiskCalm ==
  ASSUME DiskOK, DiskStep, starts # 0, starts' = starts
  PROVE  DiskOK'
<1>1. ASSUME NEW x \in DOMAIN disk' PROVE disk'[x].state \in States
  <2>1. \A y \in DOMAIN disk : disk[y].state \in States
    BY DEF DiskOK
  <2>2. CASE disk' = disk
    BY <1>1, <2>1, <2>2
  <2>3. CASE \E f, content : DiskPut(f, content) /\ content.state \in States
    BY <1>1, <2>1, <2>3 DEF DiskPut
  <2>4. CASE \E f : DiskGone(f)
    BY <1>1, <2>1, <2>4 DEF DiskGone
  <2>5. CASE \E f, g : DiskMoved(f, g)
    BY <1>1, <2>1, <2>5 DEF DiskMoved
  <2> QED
    BY <2>2, <2>3, <2>4, <2>5 DEF DiskStep
<1> QED
  BY <1>1 DEF DiskOK

\* A rank does a step of its own program.
LEMMA RanksWork ==
  ASSUME RanksOK, DiskOK, NEW r \in Ranks, Work(r)
  PROVE  RanksOK' /\ DiskOK'
<1>1. /\ starts # 0 /\ todo[r] # << >> /\ conf' = conf /\ inside' = inside /\ status' = status
      /\ starts' = starts /\ OnlyRank(r) /\ error' \in {error, [error EXCEPT ![r] = TRUE]} /\ DiskStep
  BY WorkEffect
<1>2. error' \in [Ranks -> BOOLEAN]
  BY <1>1 DEF RanksOK
<1>3. \A q \in Ranks : todo'[q] \in Seq(OpsOf(conf))
  <2>1. Tail(todo[r]) \in Seq(OpsOf(conf))
    BY <1>1, TailFacts DEF RanksOK
  <2> QED
    BY <1>1, <2>1 DEF OnlyRank, RanksOK
<1>4. DOMAIN todo' = Ranks
  BY <1>1 DEF OnlyRank, RanksOK
<1>5. Ranks' = Ranks
  BY <1>1 DEF Ranks
<1>6. DiskOK'
  BY <1>1, DiskCalm
<1> QED
  BY <1>1, <1>2, <1>3, <1>4, <1>5, <1>6 DEF RanksOK

\* A rank goes into a collective operation.
LEMMA RanksEnter ==
  ASSUME RanksOK, DiskOK, NEW r \in Ranks, Enter(r)
  PROVE  RanksOK' /\ DiskOK' /\ conf' = conf /\ starts' = starts
<1>1. /\ At(r).op \in MPI /\ inside' = [inside EXCEPT ![r] = At(r).op]
      /\ UNCHANGED <<conf, disk, todo, error, status, ctl, starts>>
  BY DEF Enter
<1>2. inside' \in [Ranks -> MPI \cup {NONE}]
  <2> HIDE DEF MPI
  <2> QED
    BY <1>1 DEF RanksOK
<1>3. Ranks' = Ranks
  BY <1>1 DEF Ranks
<1>4. RanksOK'
  BY <1>1, <1>2, <1>3 DEF RanksOK
<1>5. DiskOK'
  BY <1>1 DEF DiskOK
<1> QED
  BY <1>1, <1>4, <1>5

\* Abort, Finalize and Kill: all ranks stop.
LEMMA RanksStop ==
  ASSUME RanksOK, DiskOK, NEW s \in {"done", "failed", "killed"}, status' = [q \in Ranks |-> s], starts # 0,
         conf' = conf, disk' = disk, todo' = todo, error' = error, starts' = starts,
         inside' \in [Ranks -> MPI \cup {NONE}]
  PROVE  RanksOK' /\ DiskOK'
<1>1. Ranks' = Ranks
  BY DEF Ranks
<1>2. status' \in [Ranks -> Statuses] /\ \A q, r \in Ranks : status'[q] = status'[r]
  BY DEF Statuses
<1>3. RanksOK'
  BY <1>1, <1>2 DEF RanksOK
<1>4. DiskOK'
  BY DEF DiskOK
<1> QED
  BY <1>3, <1>4

\* What the collective operations have in common.
LEMMA MeetEffect ==
  ASSUME RanksOK, ConfOK, NEW op, Meet(op)
  PROVE  /\ 0 \in Ranks /\ \A r \in Ranks : status[r] = "running" /\ inside[r] = op
         /\ starts # 0 /\ inside' = [r \in Ranks |-> NONE] /\ inside' \in [Ranks -> MPI \cup {NONE}]
         /\ conf' = conf /\ disk' = disk /\ ctl' = ctl /\ starts' = starts
<1>1. 0 \in Ranks
  BY DEF ConfOK, IsConf, Ranks, RanksOf
<1>2. /\ \A r \in Ranks : status[r] = "running" /\ inside[r] = op
      /\ inside' = [r \in Ranks |-> NONE] /\ conf' = conf /\ disk' = disk /\ ctl' = ctl /\ starts' = starts
  BY DEF Meet, Running
<1>3. starts # 0
  BY <1>1, <1>2 DEF RanksOK
<1>4. inside' \in [Ranks -> MPI \cup {NONE}]
  BY <1>2
<1> QED
  BY <1>1, <1>2, <1>3, <1>4

\* The first step of every rank is done, or nothing is left of its program.
LEMMA RanksGoOn ==
  ASSUME RanksOK, DiskOK, conf' = conf, disk' = disk, starts' = starts, status' = status, starts # 0,
         inside' \in [Ranks -> MPI \cup {NONE}], error' \in [Ranks -> BOOLEAN],
         DOMAIN todo' = Ranks,
         \A r \in Ranks : todo[r] # << >> /\ todo'[r] \in {<< >>, Tail(todo[r])}
  PROVE  RanksOK' /\ DiskOK'
<1>1. Ranks' = Ranks
  BY DEF Ranks
<1>2. \A r \in Ranks : todo'[r] \in Seq(OpsOf(conf))
  <2> SUFFICES ASSUME NEW r \in Ranks PROVE todo'[r] \in Seq(OpsOf(conf))
    OBVIOUS
  <2>1. Tail(todo[r]) \in Seq(OpsOf(conf)) /\ << >> \in Seq(OpsOf(conf))
    BY TailFacts DEF RanksOK
  <2> QED
    BY <2>1
<1>3. RanksOK'
  BY <1>1, <1>2 DEF RanksOK
<1>4. DiskOK'
  BY DEF DiskOK
<1> QED
  BY <1>3, <1>4

\* A rank that is in a collective operation has it before it.
InsideOK ==
  \A r \in Ranks : inside[r] # NONE => todo[r] # << >> /\ At(r).op = inside[r] /\ inside[r] \in MPI

\* To be in no operation is not to be in one.
LEMMA NoneIsNone ==
  NONE \notin MPI /\ "Barrier" # NONE /\ "Bcast" # NONE /\ "syncError" # NONE /\ "MPI_Finalize" # NONE
BY DEF NONE, MPI

\* The error of one rank is the error of all.
LEMMA SyncErrorEffect ==
  ASSUME RanksOK, DiskOK, ConfOK, InsideOK, syncError
  PROVE  /\ RanksOK' /\ DiskOK' /\ conf' = conf /\ starts' = starts /\ disk' = disk /\ status' = status
         /\ starts # 0 /\ inside' = [r \in Ranks |-> NONE]
         /\ \A r \in Ranks : todo[r] # << >> /\ At(r).op = "syncError"
         /\ \/ (\A r \in Ranks : todo'[r] = << >>) /\ \A r \in Ranks : error'[r]
            \/ /\ \A r \in Ranks : todo'[r] = Tail(todo[r])
               /\ \A r \in Ranks : ~error[r] /\ ~error'[r]
<1>1. Meet("syncError")
  BY DEF syncError
<1>2. /\ 0 \in Ranks /\ starts # 0 /\ inside' \in [Ranks -> MPI \cup {NONE}]
      /\ inside' = [r \in Ranks |-> NONE]
      /\ conf' = conf /\ disk' = disk /\ ctl' = ctl /\ starts' = starts
      /\ \A r \in Ranks : inside[r] = "syncError"
  BY <1>1, MeetEffect
<1>3. PICK b \in BOOLEAN : b <=> \E q \in Ranks : error[q]
  OBVIOUS
<1>4. /\ error' = [r \in Ranks |-> \E q \in Ranks : error[q]]
      /\ todo' = [r \in Ranks |-> IF error'[r] THEN << >> ELSE Tail(todo[r])] /\ status' = status
  BY DEF syncError
<1>5. \A r \in Ranks : error'[r] <=> b
  BY <1>3, <1>4
<1>6. error' \in [Ranks -> BOOLEAN]
  BY <1>4
<1>7. DOMAIN todo' = Ranks /\ \A r \in Ranks : todo'[r] = IF b THEN << >> ELSE Tail(todo[r])
  BY <1>4, <1>5
<1>8. \A r \in Ranks : todo[r] # << >> /\ At(r).op = "syncError"
  BY <1>2, NoneIsNone DEF InsideOK
<1>9. RanksOK' /\ DiskOK'
  BY <1>2, <1>4, <1>6, <1>7, <1>8, RanksGoOn
<1> QED
  BY <1>2, <1>3, <1>4, <1>5, <1>7, <1>8, <1>9

\* All ranks leave a barrier or a broadcast.
LEMMA CollectiveEffect ==
  ASSUME RanksOK, DiskOK, ConfOK, InsideOK, Collective
  PROVE  /\ RanksOK' /\ DiskOK' /\ conf' = conf /\ starts' = starts /\ disk' = disk /\ status' = status
         /\ starts # 0 /\ error' = error /\ inside' = [r \in Ranks |-> NONE]
         /\ \A r \in Ranks : todo[r] # << >> /\ At(r).op \in {"Barrier", "Bcast"} /\ todo'[r] = Tail(todo[r])
<1>1. PICK op : op \in {"Barrier", "Bcast"} /\ Meet(op)
  BY DEF Collective
<1>2. /\ 0 \in Ranks /\ starts # 0 /\ inside' \in [Ranks -> MPI \cup {NONE}]
      /\ inside' = [r \in Ranks |-> NONE]
      /\ conf' = conf /\ disk' = disk /\ ctl' = ctl /\ starts' = starts
      /\ \A r \in Ranks : inside[r] = op
  BY <1>1, MeetEffect
<1>3. todo' = [r \in Ranks |-> Tail(todo[r])] /\ error' = error /\ status' = status
  BY DEF Collective
<1>4. \A r \in Ranks : todo[r] # << >> /\ At(r).op = op
  BY <1>1, <1>2, NoneIsNone DEF InsideOK
<1>5. RanksOK' /\ DiskOK'
  BY <1>2, <1>3, <1>4, RanksGoOn DEF RanksOK
<1> QED
  BY <1>1, <1>2, <1>3, <1>4, <1>5

\* All ranks end together.
LEMMA FinalizeEffect ==
  ASSUME RanksOK, DiskOK, ConfOK, Finalize
  PROVE  /\ RanksOK' /\ DiskOK' /\ conf' = conf /\ starts' = starts /\ disk' = disk /\ starts # 0
         /\ \A r \in Ranks : status'[r] = "done" /\ inside'[r] = NONE
<1>1. Meet("MPI_Finalize")
  BY DEF Finalize
<1>2. /\ starts # 0 /\ inside' \in [Ranks -> MPI \cup {NONE}] /\ inside' = [r \in Ranks |-> NONE]
      /\ conf' = conf /\ disk' = disk /\ ctl' = ctl /\ starts' = starts
  BY <1>1, MeetEffect
<1>3. todo' = todo /\ error' = error /\ status' = [r \in Ranks |-> "done"]
  BY DEF Finalize
<1>4. RanksOK' /\ DiskOK'
  BY <1>2, <1>3, RanksStop
<1> QED
  BY <1>2, <1>3, <1>4

\* Abort of one rank, or Kill.
LEMMA StopEffect ==
  ASSUME RanksOK, DiskOK, (\E r \in Ranks : Abort(r)) \/ Kill
  PROVE  /\ RanksOK' /\ DiskOK' /\ conf' = conf /\ starts' = starts /\ disk' = disk /\ starts # 0
         /\ inside' = inside /\ todo' = todo
         /\ \A r \in Ranks : status'[r] \in {"failed", "killed"}
<1>1. PICK s \in {"failed", "killed"} : status' = [q \in Ranks |-> s]
  BY DEF Abort, Kill
<1>2. UNCHANGED <<conf, disk, todo, error, inside, ctl, starts>>
  BY DEF Abort, Kill
<1>3. \E r \in Ranks : status[r] = "running"
  BY DEF Abort, Kill, Running
<1>4. starts # 0
  BY <1>3 DEF RanksOK
<1>5. inside' \in [Ranks -> MPI \cup {NONE}]
  BY <1>2 DEF RanksOK
<1>6. RanksOK' /\ DiskOK'
  BY <1>1, <1>2, <1>4, <1>5, RanksStop
<1> QED
  BY <1>1, <1>2, <1>4, <1>6

\* vtunify is started.
LEMMA FreshEffect ==
  ASSUME NEW c, IsConf(c), StartWith(c), starts \in 0..MaxStarts, DiskOK
  PROVE  /\ RanksOK' /\ DiskOK' /\ conf' = c /\ starts' = starts + 1 /\ disk' = disk /\ starts' # 0
         /\ \A r \in RanksOf(c) : /\ todo'[r] = Program(c, r) /\ error'[r] = FALSE
                                  /\ inside'[r] = NONE /\ status'[r] = "running"
<1>1. /\ conf' = c /\ starts' = starts + 1 /\ disk' = disk /\ starts < MaxStarts
      /\ todo' = [r \in RanksOf(c) |-> Program(c, r)] /\ error' = [r \in RanksOf(c) |-> FALSE]
      /\ inside' = [r \in RanksOf(c) |-> NONE] /\ status' = [r \in RanksOf(c) |-> "running"]
  BY DEF StartWith, Fresh
<1>2. starts' \in 0..MaxStarts /\ starts' # 0
  BY <1>1, UnifyAssumption
<1>3. Ranks' = RanksOf(c)
  BY <1>1 DEF Ranks
<1>4. \A r \in RanksOf(c) : Program(c, r) \in Seq(OpsOf(c))
  BY ProgramIs
<1>5. RanksOK'
  BY <1>1, <1>2, <1>3, <1>4 DEF RanksOK, Statuses
<1>6. DiskOK'
  BY <1>1, <1>2 DEF DiskOK
<1> QED
  BY <1>1, <1>2, <1>5, <1>6

------------------------------------------------------------------------------
(* All of it: the types of the processes, the ranks and the files.         *)

\* The control file.
Uctl == Name("in", FALSE, 0, "uctl", FALSE)

\* The parts of the name of a local file.
LEMMA LocalFields ==
  ASSUME NEW s, NEW k
  PROVE  Local(s, k).stream = s /\ Local(s, k).kind = k /\ Local(s, k).prefix = "in"
BY DEF Local, Name

\* The parts of the name of the control file.
LEMMA ControlFields ==
  Uctl.stream = 0 /\ Uctl.kind = "uctl" /\ Uctl.prefix = "in" /\ Uctl.tmp = FALSE /\ Uctl.z = FALSE
BY DEF Uctl, Name

AllTypes == TreeType /\ RanksOK /\ DiskOK /\ InsideOK

\* A rank that works is in no collective operation.
LEMMA InsideWork ==
  ASSUME RanksOK, DiskOK, InsideOK, NEW r \in Ranks, Work(r)
  PROVE  InsideOK'
<1>1. /\ At(r).op \notin MPI /\ conf' = conf /\ inside' = inside /\ OnlyRank(r)
  BY WorkEffect
<1>2. inside[r] = NONE
  BY <1>1 DEF InsideOK
<1>3. Ranks' = Ranks
  BY <1>1 DEF Ranks
<1>4. ASSUME NEW q \in Ranks, inside'[q] # NONE
      PROVE  todo'[q] # << >> /\ Head(todo'[q]).op = inside'[q] /\ inside'[q] \in MPI
  BY <1>1, <1>2, <1>4 DEF InsideOK, OnlyRank, At
<1> QED
  BY <1>3, <1>4 DEF InsideOK, At

\* A rank is in the operation its program is at.
LEMMA InsideEnter ==
  ASSUME RanksOK, InsideOK, NEW r \in Ranks, Enter(r)
  PROVE  InsideOK'
<1>1. /\ todo[r] # << >> /\ At(r).op \in MPI /\ inside' = [inside EXCEPT ![r] = At(r).op]
      /\ conf' = conf /\ todo' = todo
  BY DEF Enter, AtEnd
<1>2. PICK op : op = At(r).op
  OBVIOUS
<1>3. inside'[r] = op /\ \A q \in Ranks : q # r => inside'[q] = inside[q]
  BY <1>1, <1>2 DEF RanksOK
<1>4. Ranks' = Ranks
  BY <1>1 DEF Ranks
<1>5. \A q \in Ranks : At(q)' = At(q)
  BY <1>1 DEF At
<1>6. ASSUME NEW q \in Ranks, inside'[q] # NONE
      PROVE  todo[q] # << >> /\ At(q).op = inside'[q] /\ inside'[q] \in MPI
  BY <1>1, <1>2, <1>3, <1>6 DEF InsideOK
<1> QED
  BY <1>1, <1>4, <1>5, <1>6 DEF InsideOK

\* All ranks have left the operation.
LEMMA InsideNone ==
  ASSUME conf'.size = conf.size, \A r \in Ranks : inside'[r] = NONE
  PROVE  InsideOK'
BY DEF InsideOK, Ranks, RanksOf

\* Processes go on while ranks stay where they are.
LEMMA InsideSame ==
  ASSUME InsideOK, conf'.size = conf.size, inside' = inside, todo' = todo
  PROVE  InsideOK'
BY DEF InsideOK, Ranks, RanksOf, At

\* vtunify goes on: the processes stay as they are.
LEMMA TreeCalm ==
  ASSUME TreeType, UNCHANGED treeVars, conf' = conf, starts' = starts
  PROVE  TreeType'
<1>1. /\ proc' = proc /\ idfile' = idfile /\ counter' = counter /\ lost' = lost /\ late' = late
      /\ Pids' = Pids
  BY DEF treeVars, Pids
<1>2. ConfOK' /\ ProcOK' /\ MasterOK' /\ LostOK'
  BY <1>1 DEF TreeType, ConfOK, ProcOK, MasterOK, LostOK, Counted
<1>3. CounterOK' /\ LockOK' /\ StageOK'
  BY <1>1 DEF TreeType, CounterOK, Recorders, LockOK, LockOf, StageOK, StageOf, Numbered
<1> QED
  BY <1>2, <1>3 DEF TreeType

\* The user starts vtunify again when the program is over.
LEMMA TreeStart ==
  ASSUME TreeType, UNCHANGED treeVars, conf' = conf, starts' # 0, \A p \in Pids : ~Alive(p)
  PROVE  TreeType'
<1>1. /\ proc' = proc /\ idfile' = idfile /\ counter' = counter /\ lost' = lost /\ late' = late
      /\ Pids' = Pids
  BY DEF treeVars, Pids
<1>2. ConfOK' /\ ProcOK' /\ LostOK'
  BY <1>1 DEF TreeType, ConfOK, ProcOK, LostOK, Counted
<1>3. CounterOK' /\ LockOK' /\ StageOK'
  BY <1>1 DEF TreeType, CounterOK, Recorders, LockOK, LockOf, StageOK, StageOf, Numbered
<1>4. MasterOK'
  <2> SUFFICES ASSUME proc # << >> PROVE MasterOK'
    BY <1>1 DEF MasterOK
  <2>1. proc[1].at = "dead"
    BY PidsFacts DEF TreeType, Alive
  <2> QED
    BY <1>1, <2>1 DEF MasterOK
<1> QED
  BY <1>2, <1>3, <1>4 DEF TreeType

\* The types hold after every step of vtunify.
LEMMA TypesUnify ==
  ASSUME AllTypes, UnifyStep, UNCHANGED treeVars
  PROVE  AllTypes'
<1>1. RanksOK /\ DiskOK /\ InsideOK /\ TreeType /\ ConfOK
  BY DEF AllTypes, TreeType
<1>2. ASSUME NEW r \in Ranks, Work(r) PROVE AllTypes'
  <2>1. conf' = conf /\ starts' = starts
    BY <1>1, <1>2, WorkEffect
  <2> QED
    BY <1>1, <1>2, <2>1, RanksWork, InsideWork, TreeCalm DEF AllTypes
<1>3. ASSUME NEW r \in Ranks, Enter(r) PROVE AllTypes'
  BY <1>1, <1>3, RanksEnter, InsideEnter, TreeCalm DEF AllTypes
<1>4. CASE syncError
  BY <1>1, <1>4, SyncErrorEffect, InsideNone, TreeCalm DEF AllTypes
<1>5. CASE Collective
  BY <1>1, <1>5, CollectiveEffect, InsideNone, TreeCalm DEF AllTypes
<1>6. CASE Finalize
  BY <1>1, <1>6, FinalizeEffect, InsideNone, TreeCalm DEF AllTypes
<1>7. CASE (\E r \in Ranks : Abort(r)) \/ Kill
  BY <1>1, <1>7, StopEffect, InsideSame, TreeCalm DEF AllTypes
<1>8. CASE (\A p \in Pids : ~Alive(p)) /\ Start
  <2>1. IsConf(conf) /\ StartWith(conf) /\ starts \in 0..MaxStarts
    BY <1>1, <1>8 DEF ConfOK, RanksOK, Start
  <2>2. /\ RanksOK' /\ DiskOK' /\ conf' = conf /\ starts' # 0
        /\ \A r \in RanksOf(conf) : inside'[r] = NONE
    BY <1>1, <2>1, FreshEffect
  <2>3. InsideOK'
    BY <2>2, InsideNone DEF Ranks
  <2> QED
    BY <1>1, <1>8, <2>2, <2>3, TreeStart DEF AllTypes
<1> QED
  BY <1>2, <1>3, <1>4, <1>5, <1>6, <1>7, <1>8 DEF UnifyStep

\* A step of a process that leaves the run, the ranks and the files alone.
LEMMA RanksCalm ==
  ASSUME RanksOK, DiskOK, InsideOK, UNCHANGED unifyVars, UNCHANGED <<conf, disk>>
  PROVE  RanksOK' /\ DiskOK' /\ InsideOK'
<1>1. /\ todo' = todo /\ error' = error /\ inside' = inside /\ status' = status /\ ctl' = ctl
      /\ starts' = starts /\ conf' = conf /\ disk' = disk /\ Ranks' = Ranks
  BY DEF unifyVars, Ranks
<1>2. RanksOK'
  BY <1>1 DEF RanksOK
<1>3. DiskOK'
  BY <1>1 DEF DiskOK
<1> QED
  BY <1>1, <1>2, <1>3, InsideSame

\* VTGen_delete changes one file, and nothing of vtunify.
LEMMA RanksDelete ==
  ASSUME TreeType, RanksOK, DiskOK, InsideOK, NEW p \in Pids, VTGen_delete(p), UNCHANGED unifyVars
  PROVE  RanksOK' /\ DiskOK' /\ InsideOK'
<1>1. /\ todo' = todo /\ error' = error /\ inside' = inside /\ status' = status /\ ctl' = ctl
      /\ starts' = starts
  BY DEF unifyVars
<1>2. proc \in Seq(Process)
  BY TypeHere
<1>3. /\ proc[p].left # << >> /\ conf' = conf
      /\ \/ disk' = Put(disk, Moved(p), Content("partial", << >>))
         \/ disk' = Put(disk, Moved(p), LocalContent)
  BY <1>2, DeleteEffect
<1>4. Ranks' = Ranks
  BY <1>3 DEF Ranks
<1>5. RanksOK'
  BY <1>1, <1>3, <1>4 DEF RanksOK
<1>6. InsideOK'
  BY <1>1, <1>3, InsideSame
<1>7. DiskOK'
  <2>1. PICK f, content : f = Moved(p) /\ content.state \in States /\ DiskPut(f, content)
    <3>1. Content("partial", << >>).state \in States /\ LocalContent.state \in States
      BY ContentState DEF States
    <3> QED
      BY <1>3, <3>1, DiskPutIs
  <2>2. f.kind \in StreamKinds
    <3>1. Head(proc[p].left) \in StreamKinds
      BY <1>2, <1>3, ProcessFields, LeftsFacts DEF StreamKinds
    <3> QED
      BY <2>1, <3>1, LocalFields DEF Moved
  <2> QED
    BY <1>1, <2>1, <2>2 DEF DiskPut, DiskOK
<1> QED
  BY <1>5, <1>6, <1>7

\* write_uctl_file writes the control file before vtunify is started.
LEMMA RanksControl ==
  ASSUME TreeType, RanksOK, DiskOK, InsideOK, NEW p \in Pids, write_uctl_file(p), UNCHANGED unifyVars
  PROVE  RanksOK' /\ DiskOK' /\ InsideOK'
<1>1. /\ todo' = todo /\ error' = error /\ inside' = inside /\ status' = status /\ ctl' = ctl
      /\ starts' = starts
  BY DEF unifyVars
<1>2. starts = 0 /\ conf'.size = conf.size
  BY ControlEffect, TypeControl
<1>3. Ranks' = Ranks
  BY <1>2 DEF Ranks, RanksOf
<1>4. \A r \in Ranks : todo[r] = << >> /\ << >> \in Seq(OpsOf(conf)')
  BY <1>2 DEF RanksOK
<1>5. RanksOK'
  BY <1>1, <1>2, <1>3, <1>4 DEF RanksOK
<1>6. InsideOK'
  BY <1>1, <1>2, InsideSame
<1>7. DiskOK'
  <2>1. CASE disk' = disk
    BY <1>1, <2>1 DEF DiskOK
  <2>2. CASE disk' # disk
    <3>1. PICK f, content : /\ f = Name("in", FALSE, 0, "uctl", FALSE) /\ content = LocalContent
                            /\ disk' = Put(disk, f, content)
      BY <2>2, ControlEffect
    <3>2. DiskPut(f, content)
      BY <3>1, DiskPutIs
    <3>3. f.stream = 0 /\ content.state \in States
      BY <3>1, ControlFields, ContentState DEF States, Uctl
    <3> QED
      BY <1>1, <3>2, <3>3 DEF DiskPut, DiskOK
  <2> QED
    BY <2>1, <2>2
<1> QED
  BY <1>5, <1>6, <1>7

\* unify_traces starts all ranks at the beginning of their programs.
LEMMA RanksStart ==
  ASSUME TreeType, RanksOK, DiskOK, InsideOK, NEW p \in Pids, unify_traces(p)
  PROVE  RanksOK' /\ DiskOK' /\ InsideOK'
<1>1. PICK c : c = [conf EXCEPT !.local = Found] /\ StartWith(c)
  BY DEF unify_traces
<1>2. conf' = c
  BY <1>1 DEF StartWith
<1>3. TreeType'
  BY TypeStart
<1>4. IsConf(c) /\ c = conf'
  BY <1>2, <1>3 DEF TreeType, ConfOK
<1>5. starts \in 0..MaxStarts
  BY DEF RanksOK
<1>6. RanksOK' /\ DiskOK' /\ \A r \in RanksOf(c) : inside'[r] = NONE
  BY <1>1, <1>4, <1>5, FreshEffect
<1>7. InsideOK'
  BY <1>4, <1>6 DEF InsideOK, Ranks
<1> QED
  BY <1>6, <1>7

\* The types hold after every step of a process.
LEMMA TypesStep ==
  ASSUME AllTypes, NEW p \in Pids, Step(p) \/ Choice(p)
  PROVE  AllTypes'
<1>1. RanksOK /\ DiskOK /\ InsideOK /\ TreeType
  BY DEF AllTypes
<1>2. CASE unify_traces(p)
  BY <1>1, <1>2, TypeStart, RanksStart DEF AllTypes
<1>3. CASE write_uctl_file(p) /\ UNCHANGED unifyVars
  BY <1>1, <1>3, TypeControl, RanksControl DEF AllTypes
<1>4. CASE VTGen_delete(p) /\ UNCHANGED unifyVars
  BY <1>1, <1>4, TypeDelete, RanksDelete DEF AllTypes
<1>5. CASE /\ UNCHANGED unifyVars
           /\ childv_add(p) \/ OpenIdFile(p) \/ LockIdFile(p) \/ UpdateIdFile(p) \/ vt_reset(p)
  <2>1. TreeType'
    BY <1>1, <1>5, TypeChild, TypeOpen, TypeLock, TypeUpdate, TypeReset
  <2>2. UNCHANGED <<conf, disk>>
    BY <1>5 DEF childv_add, OpenIdFile, LockIdFile, UpdateIdFile, vt_reset
  <2> QED
    BY <1>1, <1>5, <2>1, <2>2, RanksCalm DEF AllTypes
<1>6. CASE /\ UNCHANGED unifyVars
           /\ VTThrd_close(p) \/ vt_fork_waitchilds(p) \/ RemoveIdFile(p) \/ Unified(p) \/ Closed(p)
  <2>1. TreeType'
    BY <1>1, <1>6, TypeClose, TypeWait, TypeRemove, TypeAfter
  <2>2. UNCHANGED <<conf, disk>>
    BY <1>6 DEF VTThrd_close, vt_fork_waitchilds, RemoveIdFile, Unified, Closed
  <2> QED
    BY <1>1, <1>6, <2>1, <2>2, RanksCalm DEF AllTypes
<1>7. CASE Choice(p)
  <2>1. UNCHANGED unifyVars
    BY <1>7 DEF Choice
  <2>2. TreeType'
    BY <1>1, <1>7, <2>1, TypeFork, TypeExit, TypeEnds, TypeSignal DEF Choice
  <2>3. UNCHANGED <<conf, disk>>
    BY <1>7 DEF Choice, fork, exit, exec, OtherEnds, vt_close_by_signal, KillProcess
  <2> QED
    BY <1>1, <2>1, <2>2, <2>3, RanksCalm DEF AllTypes
<1> QED
  BY <1>2, <1>3, <1>4, <1>5, <1>6, <1>7 DEF Step

\* The types hold if nothing happens.
LEMMA TypesStutter ==
  ASSUME AllTypes, UNCHANGED allVars
  PROVE  AllTypes'
<1>1. UNCHANGED unifyVars /\ UNCHANGED <<conf, disk>> /\ UNCHANGED treeVars /\ starts' = starts
  BY DEF allVars, vars, unifyVars
<1> QED
  BY <1>1, RanksCalm, TreeCalm DEF AllTypes

\* The name of a local file that vtunify has found.
LEMMA LocalNames ==
  ASSUME IsConf(conf), NEW x \in conf.local
  PROVE  Local(x[1], x[2]).stream = x[1] /\ Local(x[1], x[2]).kind = x[2] /\ x[2] \in StreamKinds
<1>1. x[1] \in 1..conf.streams /\ x[2] \in StreamKinds
  BY DEF IsConf
<1>2. PICK s, k : s = x[1] /\ k = x[2]
  OBVIOUS
<1>3. Local(s, k).stream = s /\ Local(s, k).kind = k
  BY LocalFields
<1> QED
  BY <1>1, <1>2, <1>3

\* The types hold in the beginning.
LEMMA TypesInit ==
  ASSUME TreeInit
  PROVE  AllTypes
<1>1. Idle /\ idfile = 0 /\ counter = << >> /\ lost = {} /\ late = {}
  BY DEF TreeInit, Init
<1>2. IsConf(conf)
  BY UnifyAssumption, ProcessTreeAssumption DEF TreeInit, Init, IsProgram
<1>3. starts = 0 /\ 0 \in 0..MaxStarts
  BY <1>1, UnifyAssumption DEF Idle
<1>4. RanksOK
  <2>1. \A r \in Ranks : << >> \in Seq(OpsOf(conf))
    OBVIOUS
  <2> QED
    BY <1>1, <1>3, <2>1 DEF RanksOK, Idle, Statuses
<1>5. InsideOK
  BY <1>1 DEF Idle, InsideOK
<1>6. CASE Init /\ proc = << >>
  <2>1. Pids = {} /\ Len(proc) = 0 /\ proc \in Seq(Process)
    BY <1>6 DEF Pids
  <2>2. counter \in Seq(Nat) /\ DOMAIN counter = {} /\ 0 \in 0..Len(counter)
    BY <1>1
  <2>3. TreeType
    BY <1>1, <1>2, <1>6, <2>1, <2>2
       DEF TreeType, ConfOK, ProcOK, CounterOK, LockOK, StageOK, MasterOK, LostOK
  <2>4. DiskOK
    <3>1. disk = [f \in {Local(x[1], x[2]) : x \in conf.local}
                         \cup {Name("in", FALSE, 0, "uctl", FALSE)} |-> LocalContent]
      BY <1>6 DEF Init
    <3>2. ASSUME NEW f \in DOMAIN disk PROVE disk[f].state \in States /\ (f.stream # 0 => f.kind \in StreamKinds)
      <4>1. disk[f] = LocalContent
        BY <3>1
      <4>2. disk[f].state \in States
        BY <4>1, ContentState DEF States
      <4>3. CASE f \in {Local(x[1], x[2]) : x \in conf.local}
        BY <1>2, <4>2, <4>3, LocalNames
      <4>4. CASE f = Name("in", FALSE, 0, "uctl", FALSE)
        BY <4>2, <4>4, ControlFields DEF Uctl
      <4> QED
        BY <3>1, <4>3, <4>4
    <3> QED
      BY <3>2 DEF DiskOK
  <2> QED
    BY <1>4, <1>5, <2>3, <2>4 DEF AllTypes
<1>7. CASE conf \in Programs /\ disk = << >> /\ proc = <<vt_open(1)>>
  <2>1. /\ IsProgram(conf) /\ Pids = {1} /\ Len(proc) = 1 /\ proc[1] = vt_open(1)
        /\ MaxProcesses \in Nat
    BY <1>7, ProcessTreeAssumption DEF Pids
  <2>2. vt_open(1) \in Process
    BY DEF vt_open, Process, Stages, Lefts
  <2>3. /\ vt_open(1).at = "user" /\ vt_open(1).init_pid = 1 /\ vt_open(1).vt_my_trace = 0
        /\ vt_open(1).childv = {} /\ vt_open(1).fork_performed = FALSE
    BY DEF vt_open
  <2> HIDE DEF vt_open
  <2>4. ProcOK
    BY <1>7, <2>1, <2>2, <2>3 DEF ProcOK
  <2>5. ConfOK
    BY <1>2, <2>1 DEF ConfOK, IsProgram
  <2>6. CounterOK
    <3>1. counter \in Seq(Nat) /\ DOMAIN counter = {} /\ 0 \in 0..Len(counter)
      BY <1>1
    <3> QED
      BY <1>1, <3>1 DEF CounterOK
  <2>7. LockOK
    BY <2>1, <2>3 DEF LockOK, LockOf
  <2>8. StageOK
    BY <2>1, <2>3 DEF StageOK, StageOf, Numbered, Own, Copies
  <2>9. MasterOK /\ LostOK
    BY <1>1, <1>3, <2>1, <2>3 DEF MasterOK, LostOK, Counted, IsProgram
  <2>10. DiskOK
    BY <1>7 DEF DiskOK
  <2> QED
    BY <1>4, <1>5, <2>4, <2>5, <2>6, <2>7, <2>8, <2>9, <2>10 DEF AllTypes, TreeType
<1> QED
  BY <1>6, <1>7 DEF TreeInit

\* A number is at most the number of processes that have one.
LEMMA RecordersFew ==
  ASSUME TreeType, proc # << >>
  PROVE  Cardinality(Recorders) \in 0..MaxProcesses - 1
<1>1. IsFiniteSet(Pids) /\ Pids = 1..Len(proc) /\ Len(proc) \in Nat /\ 1 \in Pids
  BY PidsFacts DEF TreeType
<1>2. Recorders \subseteq Pids \ {1} /\ Pids \ {1} \subseteq Pids
  BY DEF Recorders
<1>3. Cardinality(Pids) = Len(proc)
  BY <1>1, FS_Interval
<1>4. IsFiniteSet(Pids \ {1}) /\ Cardinality(Pids \ {1}) = Len(proc) - 1
  BY <1>1, <1>3, FS_RemoveElement
<1>5. Cardinality(Recorders) <= Len(proc) - 1 /\ Cardinality(Recorders) \in Nat
  BY <1>2, <1>4, FS_Subset, FS_CardinalityType
<1>6. Len(proc) <= MaxProcesses /\ MaxProcesses \in Nat
  BY <1>1, ProcessTreeAssumption DEF TreeType, ConfOK
<1> HIDE DEF Recorders
<1> QED
  BY <1>1, <1>5, <1>6

\* The types of the run are among these.
LEMMA TypesImply ==
  ASSUME AllTypes
  PROVE  TreeTypeOK
<1>1. TreeType /\ RanksOK /\ DiskOK
  BY DEF AllTypes
<1>2. TypeOK
  <2>1. ASSUME NEW r \in Ranks
        PROVE  /\ error[r] \in BOOLEAN /\ inside[r] \in MPI \cup {NONE} /\ status[r] \in Statuses
               /\ \A n \in DOMAIN todo[r] : todo[r][n].stream \in 0..conf.streams
    <3>1. error[r] \in BOOLEAN /\ inside[r] \in MPI \cup {NONE} /\ status[r] \in Statuses
      BY <1>1 DEF RanksOK
    <3>2. todo[r] \in Seq(OpsOf(conf))
      BY <1>1 DEF RanksOK
    <3>3. ASSUME NEW n \in DOMAIN todo[r] PROVE todo[r][n].stream \in 0..conf.streams
      <4>1. todo[r][n] \in OpsOf(conf)
        BY <3>2
      <4> QED
        BY <4>1 DEF OpsOf
    <3> QED
      BY <3>1, <3>3
  <2>2. starts \in 0..MaxStarts
    BY <1>1 DEF RanksOK
  <2>3. \A f \in DOMAIN disk : disk[f].state \in {"local", "unified", "cut", "partial"}
    BY <1>1 DEF DiskOK, States
  <2> QED
    BY <2>1, <2>2, <2>3 DEF TypeOK, Statuses
<1>3. \A p \in Pids : proc[p].at \in Stages /\ proc[p].childv \subseteq Pids
  BY <1>1, ProcessFields DEF TreeType, ProcOK
<1>4. idfile \in 0..Len(counter)
  BY <1>1 DEF TreeType, CounterOK
<1>5. ASSUME NEW f \in DOMAIN counter PROVE counter[f] \in 0..MaxProcesses - 1
  <2>1. proc # << >>
    BY <1>1, <1>5 DEF TreeType, LostOK
  <2>2. counter[f] \in Nat /\ counter[f] <= Cardinality(Recorders)
    BY <1>1 DEF TreeType, CounterOK
  <2>3. Cardinality(Recorders) \in 0..MaxProcesses - 1
    BY <1>1, <2>1, RecordersFew
  <2>4. MaxProcesses \in Nat
    BY ProcessTreeAssumption
  <2> HIDE DEF Recorders
  <2> QED
    BY <2>2, <2>3, <2>4
<1> QED
  BY <1>2, <1>3, <1>4, <1>5 DEF TreeTypeOK

\* The processes, the file of their numbers, the ranks of vtunify and the files
\* have their types whatever forks, is signalled, killed or fails; what is read
\* from the file of the numbers is less than the number of processes
\* (vt_fork.c, vt_trc.c, vt_unify.cc).
THEOREM TreeTypes == TreeSpec => []TreeTypeOK
<1>1. TreeInit => AllTypes
  BY TypesInit
<1>2. AllTypes /\ [TreeNext]_allVars => AllTypes'
  <2> SUFFICES ASSUME AllTypes, [TreeNext]_allVars PROVE AllTypes'
    OBVIOUS
  <2> QED
    BY TypesStep, TypesUnify, TypesStutter DEF TreeNext
<1>3. AllTypes => TreeTypeOK
  BY TypesImply
<1> QED
  BY <1>1, <1>2, <1>3, PTL DEF TreeSpec

------------------------------------------------------------------------------
(* The numbers.  Whoever takes one before the streams are counted has one  *)
(* of his own, and vtunify is told of enough streams.                      *)

\* There is one file until the first process has removed it.
FileIdOK == ~Counted => Len(counter) <= 1 /\ idfile = Len(counter)

\* A first process that knows of no child has none, unless it was stopped
\* between fork and childv_add.
Open == {"user", "close", "wait", "control"}
AloneOK ==
  proc # << >> /\ 1 \notin lost /\ proc[1].at \in Open /\ ~proc[1].fork_performed => Len(proc) = 1

\* The numbers come from the first file, each once.
GivenOK ==
  \A p \in Pids \ late : Numbered(p) /\ p # 1 => 1 \in DOMAIN counter /\ proc[p].vt_my_trace <= counter[1]
DistinctOK ==
  \A p, q \in Pids \ late :
    Numbered(p) /\ Numbered(q) /\ proc[p].vt_my_trace = proc[q].vt_my_trace => p = q
ToldOK ==
  Counted /\ 1 \notin lost => \A p \in Pids \ late : Numbered(p) => proc[p].vt_my_trace < conf.streams

Numbers == FileIdOK /\ AloneOK /\ GivenOK /\ DistinctOK /\ ToldOK

\* Most steps give no number.
LEMMA NumbersCalm ==
  ASSUME TreeType, Numbers, NEW p \in Pids, Only(p), counter' = counter, idfile' = idfile \/ Counted,
         conf'.streams = conf.streams, late' = late, lost \subseteq lost',
         proc'[p].vt_my_trace = proc[p].vt_my_trace, Numbered(p)' => Numbered(p),
         p = 1 /\ 1 \notin lost' /\ proc'[1].at \in Open /\ ~proc'[1].fork_performed
           => proc[1].at \in Open /\ ~proc[1].fork_performed
  PROVE  Numbers'
<1>1. proc # << >> /\ 1 \in Pids /\ Pids' = Pids /\ Len(proc') = Len(proc) /\ (Counted' <=> Counted)
  BY TypeHere DEF Only, Pids, Counted
<1>2. \A q \in Pids : (Numbered(q)' => Numbered(q)) /\ proc'[q].vt_my_trace = proc[q].vt_my_trace
  BY DEF Only, Numbered
<1>3. FileIdOK'
  BY <1>1 DEF Numbers, FileIdOK
<1>4. AloneOK'
  BY <1>1 DEF Numbers, AloneOK, Only
<1>5. GivenOK'
  BY <1>1, <1>2 DEF Numbers, GivenOK
<1>6. DistinctOK'
  BY <1>1, <1>2 DEF Numbers, DistinctOK
<1>7. ToldOK'
  BY <1>1, <1>2 DEF Numbers, ToldOK
<1> QED
  BY <1>3, <1>4, <1>5, <1>6, <1>7 DEF Numbers

\* vtunify goes on or is started again.
LEMMA NumbersSame ==
  ASSUME Numbers, UNCHANGED treeVars, conf' = conf
  PROVE  Numbers'
BY DEF Numbers, treeVars, FileIdOK, AloneOK, GivenOK, DistinctOK, ToldOK, Counted, Numbered, Pids

\* fork: the child has no number yet.
LEMMA NumbersFork ==
  ASSUME TreeType, Numbers, NEW p \in Pids, fork(p)
  PROVE  Numbers'
<1>1. /\ proc[p].at = "user" /\ conf' = conf /\ counter' = counter
      /\ idfile' = idfile /\ late' = late /\ lost' = lost
  BY DEF fork
<1>2. StageOf(p) /\ proc \in Seq(Process) /\ proc # << >> /\ 1 \in Pids /\ late \subseteq Pids /\ Len(proc) >= p /\ Len(proc) \in Nat
  BY TypeHere DEF TreeType, LostOK
<1>3. PICK n : n = Len(proc) + 1
  OBVIOUS
<1>4. /\ Len(proc') = n /\ DOMAIN proc' = DOMAIN proc \cup {n} /\ n \notin DOMAIN proc
      /\ \A q \in Pids : q # p => proc'[q] = proc[q]
      /\ proc'[p].at = "forking" /\ proc'[p].vt_my_trace = proc[p].vt_my_trace
      /\ proc'[p].init_pid = proc[p].init_pid
      /\ proc'[n].at = "open" /\ proc'[n].init_pid = proc[p].init_pid
  BY <1>2, <1>3, ForkEffect
<1>5. proc[p].init_pid = p /\ n # p
  BY <1>1, <1>2, <1>3 DEF StageOf, Own
<1>6. ~Numbered(n)'
  BY <1>4, <1>5 DEF Numbered
<1>7. \A q \in Pids : (Numbered(q)' => Numbered(q)) /\ proc'[q].vt_my_trace = proc[q].vt_my_trace
  BY <1>1, <1>4 DEF Numbered
<1>8. Pids' = Pids \cup {n} /\ (Counted' <=> Counted)
  BY <1>1, <1>4 DEF Pids, Counted
<1>9. FileIdOK'
  BY <1>1, <1>8 DEF Numbers, FileIdOK
<1>10. AloneOK'
  <2>1. CASE p = 1
    BY <1>4, <2>1 DEF AloneOK, Open
  <2>2. CASE p # 1
    <3>1. Len(proc) # 1 /\ proc'[1] = proc[1]
      BY <1>2, <1>4, <2>2 DEF Pids
    <3> QED
      BY <1>1, <1>2, <3>1 DEF Numbers, AloneOK
  <2> QED
    BY <2>1, <2>2
<1>11. GivenOK'
  BY <1>1, <1>6, <1>7, <1>8 DEF Numbers, GivenOK
<1>12. DistinctOK'
  BY <1>1, <1>6, <1>7, <1>8 DEF Numbers, DistinctOK
<1>13. ToldOK'
  BY <1>1, <1>6, <1>7, <1>8 DEF Numbers, ToldOK
<1> QED
  BY <1>9, <1>10, <1>11, <1>12, <1>13 DEF Numbers

\* get_new_trcid opens or creates the file.
LEMMA NumbersOpen ==
  ASSUME TreeType, Numbers, NEW p \in Pids, OpenIdFile(p)
  PROVE  Numbers'
<1>1. proc[p].at = "open" /\ conf' = conf /\ late' = late /\ lost' = lost
  BY DEF OpenIdFile
<1>2. StageOf(p) /\ proc \in Seq(Process) /\ proc # << >> /\ 1 \in Pids /\ counter \in Seq(Nat) /\ idfile \in Nat
  BY TypeHere DEF TreeType, CounterOK
<1>3. \/ idfile = 0 /\ counter' = Append(counter, 0) /\ idfile' = Len(counter')
      \/ counter' = counter /\ idfile' = idfile
  BY DEF OpenIdFile
<1>4. idfile' \in Nat
  BY <1>2, <1>3
<1>5. /\ Only(p) /\ proc'[p].at = "lock" /\ proc'[p].vt_my_trace = proc[p].vt_my_trace
      /\ proc'[p].init_pid = proc[p].init_pid
  BY <1>2, <1>4, OpenEffect
<1>6. p # 1 /\ ~Numbered(p)'
  BY <1>1, <1>2, <1>5 DEF StageOf, Numbered, Copies
<1>7. Pids' = Pids /\ (Counted' <=> Counted) /\ Len(proc') = Len(proc)
  BY <1>1, <1>5 DEF Only, Pids, Counted
<1>8. \A q \in Pids : (Numbered(q)' => Numbered(q)) /\ proc'[q].vt_my_trace = proc[q].vt_my_trace
  BY <1>5, <1>6 DEF Only, Numbered
<1>9. FileIdOK'
  <2>1. CASE idfile = 0 /\ counter' = Append(counter, 0) /\ idfile' = Len(counter')
    <3>1. ~Counted => Len(counter) = 0
      BY <2>1 DEF Numbers, FileIdOK
    <3>2. Len(counter') = Len(counter) + 1
      BY <1>2, <2>1
    <3> QED
      BY <1>7, <2>1, <3>1, <3>2 DEF FileIdOK
  <2>2. CASE counter' = counter /\ idfile' = idfile
    BY <1>7, <2>2 DEF Numbers, FileIdOK
  <2> QED
    BY <1>3, <2>1, <2>2
<1>10. AloneOK'
  BY <1>1, <1>2, <1>5, <1>6, <1>7 DEF Numbers, AloneOK, Only
<1>11. 1 \in DOMAIN counter => 1 \in DOMAIN counter' /\ counter'[1] = counter[1]
  BY <1>2, <1>3
<1>12. GivenOK'
  BY <1>1, <1>7, <1>8, <1>11 DEF Numbers, GivenOK
<1>13. DistinctOK'
  BY <1>1, <1>7, <1>8 DEF Numbers, DistinctOK
<1>14. ToldOK'
  BY <1>1, <1>7, <1>8 DEF Numbers, ToldOK
<1> QED
  BY <1>9, <1>10, <1>12, <1>13, <1>14 DEF Numbers

\* get_new_trcid writes the number it takes.
LEMMA NumbersUpdate ==
  ASSUME TreeType, Numbers, NEW p \in Pids, UpdateIdFile(p)
  PROVE  Numbers'
<1>1. PICK f, n : f = proc[p].fd /\ n = proc[p].read
  OBVIOUS
<1>2. /\ proc[p].at = "update" /\ conf' = conf /\ lost' = lost /\ idfile' = idfile
      /\ counter' = [counter EXCEPT ![f] = n + 1]
      /\ late' = IF Counted THEN late \cup {p} ELSE late
  BY <1>1 DEF UpdateIdFile
<1>3. /\ StageOf(p) /\ proc \in Seq(Process) /\ proc # << >> /\ 1 \in Pids /\ counter \in Seq(Nat)
      /\ f \in DOMAIN counter /\ n = counter[f] /\ n \in Nat
  BY <1>1, <1>2, TypeHere DEF TreeType, CounterOK, LockOf
<1>4. /\ Only(p) /\ proc'[p].at = "reset" /\ proc'[p].vt_my_trace = n + 1
      /\ proc'[p].init_pid = proc[p].init_pid
  BY <1>1, <1>3, UpdateEffect
<1>5. p # 1
  BY <1>2, <1>3 DEF StageOf, Copies
<1>6. Pids' = Pids /\ (Counted' <=> Counted) /\ Len(proc') = Len(proc)
  BY <1>2, <1>4 DEF Only, Pids, Counted
<1>7. \A q \in Pids : q # p => (Numbered(q)' <=> Numbered(q)) /\ proc'[q].vt_my_trace = proc[q].vt_my_trace
  BY <1>4 DEF Only, Numbered
<1>8. /\ DOMAIN counter' = DOMAIN counter /\ Len(counter') = Len(counter)
      /\ 1 \in DOMAIN counter => counter[1] \in Nat /\ counter'[1] \in Nat /\ counter[1] <= counter'[1]
  BY <1>2, <1>3
<1>9. ~Counted => f = 1 /\ 1 \in DOMAIN counter /\ n = counter[1] /\ counter'[1] = n + 1
  <2> SUFFICES ASSUME ~Counted PROVE f = 1 /\ n = counter[1] /\ counter'[1] = n + 1
    BY <1>3
  <2>1. Len(counter) <= 1 /\ f \in 1..Len(counter) /\ Len(counter) \in Nat
    BY <1>3 DEF Numbers, FileIdOK
  <2>2. f = 1
    BY <2>1
  <2> QED
    BY <1>2, <1>3, <2>2
<1>10. \A q \in Pids' \ late' : q # p => q \in Pids \ late
  BY <1>2, <1>6
<1>11. p \in Pids' \ late' => ~Counted
  BY <1>2
<1>12. FileIdOK'
  BY <1>2, <1>6, <1>8 DEF Numbers, FileIdOK
<1>13. AloneOK'
  BY <1>2, <1>3, <1>4, <1>5, <1>6 DEF Numbers, AloneOK, Only
<1>14. \A q \in Pids : proc[q].vt_my_trace \in Nat
  BY <1>3, ProcessFields
<1>15. \A q \in Pids \ late : Numbered(q) => q = 1 \/ (1 \in DOMAIN counter /\ proc[q].vt_my_trace <= counter[1])
  BY DEF Numbers, GivenOK
<1>16. GivenOK'
  <2> SUFFICES ASSUME NEW q \in Pids' \ late', Numbered(q)', q # 1
               PROVE  1 \in DOMAIN counter' /\ proc'[q].vt_my_trace <= counter'[1]
    BY DEF GivenOK
  <2>1. CASE q = p
    BY <1>3, <1>4, <1>8, <1>9, <1>11, <2>1
  <2>2. CASE q # p
    <3>1. 1 \in DOMAIN counter /\ proc[q].vt_my_trace <= counter[1] /\ proc'[q].vt_my_trace = proc[q].vt_my_trace
      BY <1>6, <1>7, <1>10, <1>15, <2>2
    <3> QED
      BY <1>6, <1>8, <1>14, <3>1
  <2> QED
    BY <2>1, <2>2
<1>17. \A q \in Pids \ late : Numbered(q) /\ ~Counted => proc[q].vt_my_trace # n + 1
  <2> SUFFICES ASSUME NEW q \in Pids \ late, Numbered(q), ~Counted PROVE proc[q].vt_my_trace # n + 1
    OBVIOUS
  <2>1. CASE q = 1
    <3>1. proc[1].vt_my_trace = 0
      BY <1>3 DEF TreeType, StageOK, StageOf
    <3> QED
      BY <1>3, <2>1, <3>1
  <2>2. CASE q # 1
    <3>1. proc[q].vt_my_trace <= n /\ proc[q].vt_my_trace \in Nat
      BY <1>9, <1>14, <1>15, <2>2
    <3> QED
      BY <1>3, <3>1
  <2> QED
    BY <2>1, <2>2
<1>18. DistinctOK'
  <2> SUFFICES ASSUME NEW q \in Pids' \ late', NEW r \in Pids' \ late', Numbered(q)', Numbered(r)',
                      proc'[q].vt_my_trace = proc'[r].vt_my_trace, q # r
               PROVE  FALSE
    BY DEF DistinctOK
  <2>1. CASE q = p
    BY <1>4, <1>6, <1>7, <1>10, <1>11, <1>17, <2>1
  <2>2. CASE r = p
    BY <1>4, <1>6, <1>7, <1>10, <1>11, <1>17, <2>2
  <2>3. CASE q # p /\ r # p
    BY <1>6, <1>7, <1>10, <2>3 DEF Numbers, DistinctOK
  <2> QED
    BY <2>1, <2>2, <2>3
<1>19. ToldOK'
  BY <1>2, <1>6, <1>7, <1>10, <1>11 DEF Numbers, ToldOK
<1> QED
  BY <1>12, <1>13, <1>16, <1>18, <1>19 DEF Numbers

\* A sequence of one number.
LEMMA OneInDomain ==
  ASSUME NEW s \in Seq(Nat), Len(s) = 1
  PROVE  1 \in DOMAIN s
OBVIOUS

\* write_uctl_file counts the streams.
LEMMA NumbersControl ==
  ASSUME TreeType, Numbers, NEW p \in Pids, write_uctl_file(p)
  PROVE  Numbers'
<1>1. /\ p = 1 /\ proc[1].at = "control" /\ starts = 0 /\ conf.local = {} /\ ~Counted
      /\ idfile' = idfile /\ counter' = counter /\ lost' = lost /\ late' = late
  BY ControlEffect
<1>2. /\ StageOf(1) /\ proc \in Seq(Process) /\ proc # << >> /\ 1 \in Pids /\ IsConf(conf)
      /\ Len(counter) <= 1 /\ idfile = Len(counter) /\ counter \in Seq(Nat) /\ Pids = 1..Len(proc)
  BY <1>1, TypeHere DEF TreeType, CounterOK, Numbers, FileIdOK, ConfOK
<1>5. idfile = 1 => 1 \in DOMAIN counter
  BY <1>2, OneInDomain
<1>3. CASE proc' = Dead(1) /\ conf' = conf
  <2>1. /\ Only(1) /\ proc'[1].at = "dead" /\ proc'[1].vt_my_trace = proc[1].vt_my_trace
        /\ proc'[1].init_pid = proc[1].init_pid
    BY <1>2, <1>3, DeadEffect
  <2>2. Numbered(1)' => Numbered(1)
    BY <2>1 DEF Numbered
  <2> QED
    BY <1>1, <1>2, <1>3, <2>1, <2>2, NumbersCalm DEF Open
<1>4. CASE /\ ~(proc[1].fork_performed /\ (idfile = 0 \/ counter[idfile] = 0))
           /\ vt_fork_get_num_childs_tot(1) \in Nat
           /\ proc' = Goto(1, "remove")
           /\ conf' = [conf EXCEPT !.streams = 1 + vt_fork_get_num_childs_tot(1)]
  <2>1. PICK k : k = vt_fork_get_num_childs_tot(1)
    OBVIOUS
  <2>2. k \in Nat /\ conf' = [conf EXCEPT !.streams = 1 + k] /\ 1 + k \in Nat
    BY <1>4, <2>1
  <2>3. conf'.streams = 1 + k /\ Counted'
    BY <1>1, <1>2, <2>2, ConfStreams DEF Counted
  <2>4. /\ Only(1) /\ proc'[1].at = "remove" /\ proc'[1].vt_my_trace = proc[1].vt_my_trace
        /\ proc'[1].init_pid = proc[1].init_pid
    <3>1. "remove" \in Stages
      BY DEF Stages
    <3> QED
      BY <1>2, <1>4, <3>1, GotoEffect
  <2>5. Pids' = Pids /\ \A q \in Pids : (Numbered(q)' => Numbered(q)) /\ proc'[q].vt_my_trace = proc[q].vt_my_trace
    BY <2>4 DEF Only, Numbered, Pids
  <2>6. FileIdOK' /\ AloneOK'
    BY <2>3, <2>4 DEF FileIdOK, AloneOK, Open
  <2>7. GivenOK'
    BY <1>1, <2>5 DEF Numbers, GivenOK
  <2>8. DistinctOK'
    BY <1>1, <2>5 DEF Numbers, DistinctOK
  <2>9. ToldOK'
    <3> SUFFICES ASSUME 1 \notin lost, NEW q \in Pids \ late, Numbered(q)
                 PROVE  proc[q].vt_my_trace < 1 + k
      BY <1>1, <2>3, <2>5 DEF ToldOK
    <3>1. CASE q = 1
      BY <1>2, <2>2, <3>1 DEF StageOf
    <3>2. CASE q # 1
      <4>1. Len(proc) # 1
        BY <1>2, <3>2
      <4>2. proc[1].fork_performed
        BY <1>1, <1>2, <4>1 DEF Numbers, AloneOK, Open
      <4>3. idfile = 1 /\ k = counter[1] /\ 1 \in DOMAIN counter
        <5>1. idfile = 1
          BY <1>2, <1>4, <4>2
        <5>2. k = counter[idfile]
          BY <2>1, <4>2 DEF vt_fork_get_num_childs_tot
        <5> QED
          BY <1>5, <5>1, <5>2
      <4>4. proc[q].vt_my_trace <= counter[1] /\ proc[q].vt_my_trace \in Nat
        BY <1>2, <3>2, ProcessFields DEF Numbers, GivenOK
      <4> QED
        BY <2>2, <4>3, <4>4
    <3> QED
      BY <3>1, <3>2
  <2> QED
    BY <2>6, <2>7, <2>8, <2>9 DEF Numbers
<1> QED
  BY <1>3, <1>4, ControlEffect

------------------------------------------------------------------------------
(* The families.  If nobody is stopped, every process that runs has a      *)
(* parent that will wait for it, so that the first process is the last.    *)

Promising == {"user", "forking", "close", "wait"}

\* q is going to wait for p.
Waits(q, p) ==
  /\ q < p /\ proc[q].init_pid = q /\ proc[q].at \in Promising
  /\ p \in proc[q].childv \/ (proc[q].at = "forking" /\ p = proc[q].rc)

WaitedOK == \A p \in Pids : Alive(p) /\ p # 1 => \E q \in Pids : Waits(q, p)
DeadOK == \A p \in Pids : ~Alive(p) => proc[p].init_pid = p

Families == lost = {} => WaitedOK /\ DeadOK /\ late = {}

\* vtunify changes no process.
LEMMA FamiliesSame ==
  ASSUME Families, UNCHANGED treeVars
  PROVE  Families'
BY DEF Families, treeVars, WaitedOK, DeadOK, Waits, Alive, Pids

\* Once the first process has stopped waiting, all others are dead.
LEMMA OthersDead ==
  ASSUME TreeType, Families, lost = {}, proc # << >>, proc[1].at \notin Promising
  PROVE  \A p \in Pids : p # 1 => ~Alive(p)
<1> DEFINE S == {n \in Nat : n \in Pids /\ n # 1 /\ Alive(n)}
<1>1. SUFFICES ASSUME S # {} PROVE FALSE
  BY PidsFacts DEF TreeType
<1>2. PICK m \in S : \A n \in S : ~(<<n, m>> \in OpToRel(<, Nat))
  BY <1>1, WFMin, NatLessThanWellFounded
<1>3. PICK q \in Pids : Waits(q, m)
  BY <1>2 DEF Families, WaitedOK
<1>4. q < m /\ proc[q].at \in Promising /\ q \in Nat /\ m \in Nat
  BY <1>2, <1>3, PidsFacts DEF Waits, TreeType
<1>5. q # 1 /\ Alive(q)
  BY <1>4 DEF Promising, Alive
<1>6. q \in S
  BY <1>4, <1>5
<1>7. <<q, m>> \in OpToRel(<, Nat)
  BY <1>4 DEF OpToRel
<1> QED
  BY <1>2, <1>6, <1>7

\* Most steps leave it to p to wait for its children.
LEMMA FamiliesCalm ==
  ASSUME TreeType, Families, NEW p \in Pids, Only(p), late' = late, lost \subseteq lost',
         lost' = {} => /\ Alive(p) \/ p = 1
                       /\ ~Alive(p)' => proc'[p].init_pid = p
                       /\ \A x \in Pids : Waits(p, x) => Waits(p, x)' \/ ~Alive(x)
  PROVE  Families'
<1> SUFFICES ASSUME lost' = {} PROVE WaitedOK' /\ DeadOK' /\ late = {}
  BY DEF Families
<1>1. lost = {} /\ WaitedOK /\ DeadOK /\ late = {} /\ Pids' = Pids
  BY DEF Families, Only, Pids
<1>2. DeadOK'
  BY <1>1 DEF DeadOK, Only, Alive
<1>3. WaitedOK'
  <2> SUFFICES ASSUME NEW x \in Pids, Alive(x)', x # 1 PROVE \E q \in Pids : Waits(q, x)'
    BY <1>1 DEF WaitedOK
  <2>1. Alive(x)
    BY DEF Only, Alive
  <2>2. PICK q \in Pids : Waits(q, x)
    BY <1>1, <2>1 DEF WaitedOK
  <2>3. Waits(q, x)'
    BY <2>1, <2>2 DEF Only, Waits
  <2> QED
    BY <2>3
<1> QED
  BY <1>1, <1>2, <1>3

\* Once somebody was stopped, nothing is promised.
LEMMA FamiliesLost ==
  ASSUME lost' # {}
  PROVE  Families'
BY DEF Families

\* fork: the parent waits for the child from the beginning.
LEMMA FamiliesFork ==
  ASSUME TreeType, Families, NEW p \in Pids, fork(p)
  PROVE  Families'
<1>1. proc[p].at = "user" /\ late' = late /\ lost' = lost
  BY DEF fork
<1>2. StageOf(p) /\ proc \in Seq(Process) /\ Len(proc) \in Nat /\ p \in Nat /\ p <= Len(proc)
  BY TypeHere
<1>3. PICK n : n = Len(proc) + 1
  OBVIOUS
<1>4. /\ DOMAIN proc' = DOMAIN proc \cup {n} /\ n \notin DOMAIN proc
      /\ \A q \in Pids : q # p => proc'[q] = proc[q]
      /\ proc'[p].at = "forking" /\ proc'[p].rc = n /\ proc'[p].childv = proc[p].childv
      /\ proc'[p].init_pid = proc[p].init_pid /\ proc'[n].at = "open"
  BY <1>2, <1>3, ForkEffect
<1>5. proc[p].init_pid = p
  BY <1>1, <1>2 DEF StageOf, Own
<1>6. Pids' = Pids \cup {n}
  BY <1>4 DEF Pids
<1> SUFFICES ASSUME lost = {} PROVE WaitedOK' /\ DeadOK' /\ late = {}
  BY <1>1 DEF Families
<1>7. WaitedOK /\ DeadOK /\ late = {}
  BY DEF Families
<1>8. Waits(p, n)'
  BY <1>2, <1>3, <1>4, <1>5 DEF Waits, Promising
<1>9. WaitedOK'
  <2> SUFFICES ASSUME NEW x \in Pids, Alive(x)', x # 1 PROVE \E q \in Pids : Waits(q, x)'
    BY <1>6, <1>8 DEF WaitedOK
  <2>1. Alive(x)
    BY <1>1, <1>4 DEF Alive
  <2>2. PICK q \in Pids : Waits(q, x)
    BY <1>7, <2>1 DEF WaitedOK
  <2>3. Waits(q, x)'
    BY <1>1, <1>4, <1>5, <2>2 DEF Waits, Promising
  <2> QED
    BY <2>3
<1>10. DeadOK'
  BY <1>1, <1>4, <1>6, <1>7 DEF DeadOK, Alive
<1> QED
  BY <1>7, <1>9, <1>10

\* Nobody takes a number late unless a process was stopped.
LEMMA FamiliesUpdate ==
  ASSUME TreeType, Families, NEW p \in Pids, UpdateIdFile(p)
  PROVE  Families'
<1>1. /\ proc[p].at = "update" /\ lost' = lost
      /\ late' = IF Counted THEN late \cup {p} ELSE late
  BY DEF UpdateIdFile
<1>2. StageOf(p) /\ proc \in Seq(Process) /\ proc # << >>
  BY TypeHere
<1>3. /\ Only(p) /\ proc'[p].at = "reset" /\ proc'[p].init_pid = proc[p].init_pid
  BY <1>2, UpdateEffect
<1>4. p # 1 /\ Alive(p) /\ Alive(p)'
  BY <1>1, <1>2, <1>3 DEF StageOf, Copies, Alive
<1> SUFFICES ASSUME lost = {} PROVE Families'
  BY <1>1, FamiliesLost
<1>5. ~Counted
  <2>1. proc[1].at \in Promising
    BY <1>2, <1>4, OthersDead
  <2> QED
    BY <1>2, <2>1 DEF TreeType, MasterOK, Promising
<1>6. late' = late
  BY <1>1, <1>5
<1>7. \A x \in Pids : ~Waits(p, x)
  BY <1>1 DEF Waits, Promising
<1> QED
  BY <1>1, <1>3, <1>4, <1>6, <1>7, FamiliesCalm

\* The number of the processes, and of all but the first.
LEMMA PidsCount ==
  ASSUME ProcOK, proc # << >>
  PROVE  /\ IsFiniteSet(Pids) /\ Cardinality(Pids) = Len(proc)
         /\ IsFiniteSet(Pids \ {1}) /\ Cardinality(Pids \ {1}) = Len(proc) - 1
<1>1. IsFiniteSet(Pids) /\ Pids = 1..Len(proc) /\ Len(proc) \in Nat /\ 1 \in Pids
  BY PidsFacts
<1>2. Cardinality(Pids) = Len(proc)
  BY <1>1, FS_Interval
<1> QED
  BY <1>1, <1>2, FS_RemoveElement

\* With no process stopped, the number in the file is the number of children.
LEMMA AllCounted ==
  ASSUME TreeType, Numbers, Families, lost = {}, proc # << >>, proc[1].at = "control"
  PROVE  /\ ~(proc[1].fork_performed /\ (idfile = 0 \/ counter[idfile] = 0))
         /\ vt_fork_get_num_childs_tot(1) + 1 = Len(proc)
<1>1. /\ late = {} /\ DeadOK /\ ~Counted /\ proc \in Seq(Process) /\ 1 \in Pids /\ Len(proc) \in Nat
      /\ Pids = 1..Len(proc) /\ counter \in Seq(Nat) /\ Len(counter) <= 1 /\ idfile = Len(counter)
      /\ StageOf(1)
  BY PidsFacts DEF Families, TreeType, MasterOK, ProcOK, CounterOK, Numbers, FileIdOK, StageOK
<1>2. \A p \in Pids : p # 1 => proc[p].init_pid = p
  BY <1>1, OthersDead DEF DeadOK, Promising
<1>3. CASE Len(proc) = 1
  <2>1. ~proc[1].fork_performed
    BY <1>1, <1>3 DEF StageOf
  <2> QED
    BY <1>3, <2>1 DEF vt_fork_get_num_childs_tot
<1>4. CASE Len(proc) # 1
  <2>1. proc[1].fork_performed
    BY <1>4 DEF Numbers, AloneOK, Open
  <2>0. Pids = 1..Len(proc) /\ Len(proc) \in Nat /\ 1 \in Pids
    BY <1>1
  <2>2. 2 \in Pids
    BY <1>4, <2>0
  <2>3. \A p \in Pids : p # 1 => 1 \in DOMAIN counter /\ proc[p].vt_my_trace \in 1..counter[1]
    <3> SUFFICES ASSUME NEW p \in Pids, p # 1 PROVE 1 \in DOMAIN counter /\ proc[p].vt_my_trace \in 1..counter[1]
      OBVIOUS
    <3>1. Numbered(p)
      BY <1>2 DEF Numbered
    <3>2. proc[p].vt_my_trace \in Nat /\ proc[p].vt_my_trace >= 1
      BY <1>1, <3>1, ProcessFields DEF TreeType, StageOK, StageOf
    <3>3. 1 \in DOMAIN counter /\ proc[p].vt_my_trace <= counter[1]
      BY <1>1, <3>1 DEF Numbers, GivenOK
    <3>4. counter[1] \in Nat
      BY <1>1, <3>3
    <3> QED
      BY <3>2, <3>3, <3>4
  <2>4. 1 \in DOMAIN counter /\ counter[1] \in Nat /\ counter[1] # 0 /\ idfile = 1
    <3>1. 1 \in DOMAIN counter /\ proc[2].vt_my_trace \in 1..counter[1]
      BY <2>2, <2>3
    <3> QED
      BY <1>1, <3>1
  <2> DEFINE S == Pids \ {1}
             f == [p \in S |-> proc[p].vt_my_trace]
  <2>5. IsFiniteSet(S) /\ Cardinality(S) = Len(proc) - 1
    BY PidsCount DEF TreeType
  <2>6. IsFiniteSet(1..counter[1]) /\ Cardinality(1..counter[1]) = counter[1]
    BY <2>4, FS_Interval
  <2>7. f \in Injection(S, 1..counter[1])
    <3>1. f \in [S -> 1..counter[1]]
      BY <2>3
    <3>2. ASSUME NEW p \in S, NEW q \in S, f[p] = f[q] PROVE p = q
      BY <1>1, <1>2, <3>2 DEF Numbers, DistinctOK, Numbered
    <3> QED
      BY <3>1, <3>2 DEF Injection, IsInjective
  <2>8. Len(proc) - 1 <= counter[1]
    <3> HIDE DEF S, f
    <3> QED
      BY <2>5, <2>6, <2>7, FS_Injection
  <2>9. counter[1] <= Len(proc) - 1
    <3>1. counter[1] <= Cardinality(Recorders)
      BY <2>4 DEF TreeType, CounterOK
    <3>2. Recorders \subseteq S
      BY DEF Recorders
    <3>3. Cardinality(Recorders) <= Cardinality(S) /\ Cardinality(Recorders) \in Nat
      <4> HIDE DEF S, Recorders
      <4> QED
        BY <2>5, <3>2, FS_Subset, FS_CardinalityType
    <3> HIDE DEF S, Recorders
    <3> QED
      BY <1>1, <2>4, <2>5, <3>1, <3>3
  <2>10. counter[1] = Len(proc) - 1
    BY <1>1, <2>4, <2>8, <2>9
  <2> QED
    BY <1>1, <2>1, <2>4, <2>10 DEF vt_fork_get_num_childs_tot
<1> QED
  BY <1>3, <1>4

------------------------------------------------------------------------------
(* The files.  If nobody is stopped, vtunify finds those of every process  *)
(* and no others.                                                          *)

Told == {"remove", "move", "copy", "unify", "other", "dead"}
Ended == {"unify", "other", "dead"}
TwoKinds == {"def", "events"}

StreamFile(p, k) == Local(proc[p].vt_my_trace + 1, k)
IsLocal(f) == f \in DOMAIN disk /\ disk[f].state = "local"

\* Process p has still to move its file of kind k.
Due(p, k) ==
  \/ proc[p].at \in {"user", "forking", "close"}
  \/ proc[p].at \in {"wait", "control", "remove", "move", "copy", "unify"} /\ k \in ToSet(proc[p].left)

Listed == {<<proc[p].vt_my_trace + 1, LocalKinds[k]>> : p \in Traced, k \in 1..2}

NamesOK ==
  proc # << >> /\ starts = 0 =>
    \A f \in DOMAIN disk : f = Uctl \/ \E p \in Traced : \E k \in TwoKinds : f = StreamFile(p, k)
MovedOK ==
  lost = {} /\ starts = 0 => \A p \in Traced : \A k \in TwoKinds : ~Due(p, k) => IsLocal(StreamFile(p, k))
CountOK == lost = {} /\ proc # << >> /\ proc[1].at \in Told => conf.streams = Len(proc)
FoundOK == lost = {} /\ proc # << >> /\ proc[1].at \in Ended => starts # 0 /\ conf.local = Listed

Files == NamesOK /\ MovedOK /\ CountOK /\ FoundOK

\* Most steps leave the files alone.
LEMMA FilesCalm ==
  ASSUME TreeType, Families, Files, NEW p \in Pids, Only(p), Alive(p), conf' = conf, disk' = disk,
         starts' = starts, lost \subseteq lost',
         p \in Traced => proc'[p].init_pid = p /\ proc'[p].vt_my_trace = proc[p].vt_my_trace,
         lost' = {} =>
           /\ p = 1 /\ proc'[p].at \in Told => proc[p].at \in Told
           /\ p = 1 /\ proc'[p].at \in Ended => proc[p].at \in Ended
           /\ starts = 0 /\ proc'[p].init_pid = p =>
                \A k \in TwoKinds : ~Due(p, k)' => p \in Traced /\ ~Due(p, k)
  PROVE  Files'
<1>1. /\ proc # << >> /\ 1 \in Pids /\ Pids' = Pids /\ Len(proc') = Len(proc) /\ StageOf(1)
      /\ lost' = {} => lost = {}
  BY TypeHere DEF Only, Pids
<1>2. \A q \in Traced : q \in Traced' /\ proc'[q].vt_my_trace = proc[q].vt_my_trace
  BY <1>1 DEF Only, Traced
<1>3. \A q \in Traced, k \in TwoKinds : StreamFile(q, k)' = StreamFile(q, k)
  BY <1>2 DEF StreamFile, Local
<1>0. Uctl' = Uctl
  BY DEF Uctl
<1>4. NamesOK'
  BY <1>0, <1>1, <1>2, <1>3 DEF Files, NamesOK
<1>5. MovedOK'
  <2> SUFFICES ASSUME lost' = {}, starts = 0, NEW q \in Traced', NEW k \in TwoKinds, ~Due(q, k)'
               PROVE  IsLocal(StreamFile(q, k))'
    BY DEF MovedOK
  <2>1. q \in Traced /\ ~Due(q, k)
    <3>1. CASE q = p
      BY <3>1 DEF Traced
    <3>2. CASE q # p
      BY <1>1, <3>2 DEF Only, Traced, Due
    <3> QED
      BY <3>1, <3>2
  <2>2. IsLocal(StreamFile(q, k))
    BY <1>1, <2>1 DEF Files, MovedOK
  <2> QED
    BY <1>3, <2>1, <2>2 DEF IsLocal
<1>6. CountOK'
  BY <1>1 DEF Files, CountOK, Only
<1>7. FoundOK'
  <2> SUFFICES ASSUME lost' = {}, proc'[1].at \in Ended PROVE starts # 0 /\ conf.local = Listed'
    BY DEF FoundOK
  <2>1. proc[1].at \in Ended
    BY <1>1 DEF Only
  <2>2. p = 1
    BY <1>1, <2>1, OthersDead DEF Ended, Promising
  <2>3. 1 \in Traced
    BY <1>1 DEF StageOf, Traced
  <2>4. Traced' = Traced
    BY <1>1, <1>2, <2>2, <2>3 DEF Traced, Only
  <2>5. Listed' = Listed
    BY <1>2, <2>4 DEF Listed
  <2> QED
    BY <1>1, <2>1, <2>5 DEF Files, FoundOK
<1> QED
  BY <1>4, <1>5, <1>6, <1>7 DEF Files

\* vtunify goes on, or is started again.
LEMMA FilesSame ==
  ASSUME Files, UNCHANGED treeVars, conf' = conf, starts' # 0
  PROVE  Files'
<1>1. /\ proc' = proc /\ lost' = lost /\ Traced' = Traced /\ Listed' = Listed
  BY DEF treeVars, Traced, Pids, Listed
<1>2. NamesOK' /\ MovedOK' /\ CountOK' /\ FoundOK'
  BY <1>1 DEF Files, NamesOK, MovedOK, CountOK, FoundOK
<1> QED
  BY <1>2 DEF Files

\* fork: the copy has no files.
LEMMA FilesFork ==
  ASSUME TreeType, Families, Files, NEW p \in Pids, fork(p), starts' = starts
  PROVE  Files'
<1>1. proc[p].at = "user" /\ lost' = lost /\ conf' = conf /\ disk' = disk
  BY DEF fork
<1>2. /\ StageOf(p) /\ proc \in Seq(Process) /\ Len(proc) \in Nat /\ p \in Nat /\ p <= Len(proc)
      /\ proc # << >> /\ 1 \in Pids
  BY TypeHere
<1>3. PICK n : n = Len(proc) + 1
  OBVIOUS
<1>4. /\ DOMAIN proc' = DOMAIN proc \cup {n} /\ n \notin DOMAIN proc
      /\ \A q \in Pids : q # p => proc'[q] = proc[q]
      /\ proc'[p].at = "forking" /\ proc'[p].vt_my_trace = proc[p].vt_my_trace
      /\ proc'[p].init_pid = proc[p].init_pid /\ proc'[n].init_pid = proc[p].init_pid
  BY <1>2, <1>3, ForkEffect
<1>5. proc[p].init_pid = p /\ Pids' = Pids \cup {n} /\ n # p
  BY <1>1, <1>2, <1>3, <1>4 DEF StageOf, Own, Pids
<1>6. Traced' = Traced /\ \A q \in Pids : proc'[q].vt_my_trace = proc[q].vt_my_trace
  BY <1>4, <1>5 DEF Traced
<1>7. \A q \in Traced, k \in TwoKinds : StreamFile(q, k)' = StreamFile(q, k) /\ (Due(q, k)' <=> Due(q, k))
  BY <1>1, <1>4, <1>6 DEF StreamFile, Local, Traced, Due
<1>0. Uctl' = Uctl
  BY DEF Uctl
<1>8. NamesOK'
  BY <1>0, <1>1, <1>2, <1>6, <1>7 DEF Files, NamesOK
<1>9. MovedOK'
  BY <1>1, <1>6, <1>7 DEF Files, MovedOK, IsLocal
<1>10. lost' = {} => proc'[1].at \notin Told \cup Ended
  <2>1. CASE p = 1
    BY <1>4, <2>1 DEF Told, Ended
  <2>2. CASE p # 1
    <3>1. lost = {} => proc[1].at \in Promising
      BY <1>1, <1>2, <2>2, OthersDead DEF Alive
    <3> QED
      BY <1>1, <1>2, <1>4, <2>2, <3>1 DEF Told, Ended, Promising
  <2> QED
    BY <2>1, <2>2
<1> QED
  BY <1>8, <1>9, <1>10 DEF Files, CountOK, FoundOK

\* The files of a stream have its number, the control file has none.
LEMMA StreamNames ==
  ASSUME TreeType, NEW p \in Pids, NEW k
  PROVE  /\ StreamFile(p, k).stream = proc[p].vt_my_trace + 1 /\ StreamFile(p, k).kind = k
         /\ StreamFile(p, k) # Uctl /\ proc[p].vt_my_trace + 1 \in Nat \ {0}
<1>1. proc[p].vt_my_trace \in Nat
  BY TypeHere, ProcessFields
<1>2. StreamFile(p, k).stream = proc[p].vt_my_trace + 1 /\ StreamFile(p, k).kind = k
  BY LocalFields DEF StreamFile
<1> QED
  BY <1>1, <1>2, ControlFields

\* write_uctl_file: if nobody was stopped, all processes are counted.
LEMMA FilesControl ==
  ASSUME TreeType, Numbers, Families, Files, NEW p \in Pids, write_uctl_file(p), starts' = starts
  PROVE  Files'
<1>1. /\ p = 1 /\ proc[1].at = "control" /\ starts = 0 /\ ~Counted
      /\ idfile' = idfile /\ counter' = counter /\ lost' = lost /\ late' = late
  BY ControlEffect
<1>2. proc \in Seq(Process) /\ proc # << >> /\ 1 \in Pids /\ IsConf(conf) /\ conf.local = {}
  BY <1>1, TypeHere, ControlEffect DEF TreeType, ConfOK
<1>3. CASE /\ proc[1].fork_performed /\ (idfile = 0 \/ counter[idfile] = 0)
           /\ proc' = Dead(1) /\ conf' = conf /\ disk' = disk
  <2>1. lost # {}
    BY <1>1, <1>2, <1>3, AllCounted
  <2>2. /\ Only(1) /\ proc'[1].vt_my_trace = proc[1].vt_my_trace
        /\ proc'[1].init_pid = proc[1].init_pid
    BY <1>2, <1>3, DeadEffect
  <2>3. Alive(1)
    BY <1>1 DEF Alive
  <2> QED
    BY <1>1, <1>2, <1>3, <2>1, <2>2, <2>3, FilesCalm DEF Traced
<1>4. CASE /\ vt_fork_get_num_childs_tot(1) \in Nat
           /\ proc' = Goto(1, "remove")
           /\ conf' = [conf EXCEPT !.streams = 1 + vt_fork_get_num_childs_tot(1)]
           /\ disk' = Put(disk, Name("in", FALSE, 0, "uctl", FALSE), LocalContent)
  <2>1. PICK k : k = 1 + vt_fork_get_num_childs_tot(1) /\ k \in Nat
    BY <1>4
  <2>2. conf' = [conf EXCEPT !.streams = k]
    BY <1>4, <2>1
  <2>3. conf'.streams = k /\ conf'.z = conf.z
    BY <1>2, <2>1, <2>2, ConfStreams
  <2>4. /\ Only(1) /\ proc'[1].at = "remove" /\ proc'[1].vt_my_trace = proc[1].vt_my_trace
        /\ proc'[1].init_pid = proc[1].init_pid /\ proc'[1].left = proc[1].left
    <3>1. "remove" \in Stages
      BY DEF Stages
    <3> QED
      BY <1>2, <1>4, <3>1, GotoEffect
  <2>5. /\ Pids' = Pids /\ Len(proc') = Len(proc) /\ Traced' = Traced
        /\ \A q \in Pids : proc'[q].vt_my_trace = proc[q].vt_my_trace
        /\ \A q \in Pids : \A x \in TwoKinds : Due(q, x)' <=> Due(q, x)
    BY <1>1, <2>4 DEF Only, Pids, Traced, Due
  <2>6. \A q \in Pids, x \in TwoKinds : StreamFile(q, x)' = StreamFile(q, x)
    BY <2>3, <2>5 DEF StreamFile, Local
  <2>7. PICK f, content : f = Uctl /\ content = LocalContent /\ disk' = Put(disk, f, content)
    BY <1>4 DEF Uctl
  <2>8. DiskPut(f, content)
    BY <2>7, DiskPutIs
  <2>9. Uctl' = Uctl
    BY DEF Uctl
  <2>10. NamesOK'
    BY <1>1, <1>2, <2>5, <2>6, <2>7, <2>8, <2>9 DEF Files, NamesOK, DiskPut, Traced
  <2>11. MovedOK'
    <3> SUFFICES ASSUME lost = {}, NEW q \in Traced, NEW x \in TwoKinds, ~Due(q, x)
                 PROVE  IsLocal(StreamFile(q, x))'
      BY <1>1, <2>5 DEF MovedOK, Traced
    <3>1. q \in Pids /\ IsLocal(StreamFile(q, x)) /\ StreamFile(q, x) # f
      BY <1>1, <2>7, StreamNames DEF Files, MovedOK, Traced
    <3> QED
      BY <2>6, <2>8, <3>1 DEF IsLocal, DiskPut
  <2>12. CountOK'
    <3>1. lost = {} => k = Len(proc)
      <4>1. vt_fork_get_num_childs_tot(1) \in Nat
        BY <1>4
      <4> HIDE DEF vt_fork_get_num_childs_tot
      <4> QED
        BY <1>1, <1>2, <2>1, <4>1, AllCounted
    <3> QED
      BY <1>1, <2>3, <2>5, <3>1 DEF CountOK
  <2>13. FoundOK'
    BY <2>4 DEF FoundOK, Ended
  <2> QED
    BY <2>10, <2>11, <2>12, <2>13 DEF Files
<1> QED
  BY <1>3, <1>4, ControlEffect

\* VTGen_delete moves or copies one of p's own files.
LEMMA FilesDelete ==
  ASSUME TreeType, Numbers, Families, Files, NEW p \in Pids, VTGen_delete(p), starts' = starts
  PROVE  Files'
<1>1. proc \in Seq(Process) /\ proc # << >> /\ 1 \in Pids /\ StageOf(p)
  BY TypeHere
<1>2. PICK h, t : h = Head(proc[p].left) /\ t = Tail(proc[p].left)
  OBVIOUS
<1>3. /\ proc[p].at \in {"move", "copy"} /\ proc[p].left # << >>
      /\ Only(p) /\ proc'[p].at \in {"move", "copy"}
      /\ proc'[p].init_pid = proc[p].init_pid /\ proc'[p].vt_my_trace = proc[p].vt_my_trace
      /\ conf' = conf /\ late' = late /\ lost' = lost
      /\ \/ /\ disk' = Put(disk, Moved(p), Content("partial", << >>))
            /\ proc'[p].left = proc[p].left
         \/ /\ disk' = Put(disk, Moved(p), LocalContent)
            /\ proc'[p].left = t
  BY <1>1, <1>2, DeleteEffect
<1>4. ToSet(proc[p].left) = {h} \cup ToSet(t) /\ h \in TwoKinds
  BY <1>1, <1>2, <1>3, ProcessFields, LeftsFacts DEF TwoKinds
<1>5. p \in Traced
  BY <1>1, <1>3 DEF StageOf, Own, Traced
<1>6. /\ Pids' = Pids /\ Len(proc') = Len(proc) /\ Traced' = Traced
      /\ \A q \in Pids : proc'[q].vt_my_trace = proc[q].vt_my_trace
      /\ Listed' = Listed
  <2>1. /\ Pids' = Pids /\ Len(proc') = Len(proc) /\ Traced' = Traced
        /\ \A q \in Pids : proc'[q].vt_my_trace = proc[q].vt_my_trace
    BY <1>3 DEF Only, Pids, Traced
  <2> QED
    BY <2>1 DEF Listed, Traced
<1>7. \A q \in Pids, x \in TwoKinds : StreamFile(q, x)' = StreamFile(q, x)
  BY <1>3, <1>6 DEF StreamFile, Local
<1>8. Moved(p) = StreamFile(p, h)
  BY <1>2 DEF Moved, StreamFile
<1>9. PICK f, content : /\ f = StreamFile(p, h) /\ DiskPut(f, content)
                        /\ proc'[p].left = proc[p].left \/ (content.state = "local" /\ proc'[p].left = t)
  BY <1>3, <1>8, DiskPutIs, ContentState
<1>10. NamesOK'
  BY <1>1, <1>3, <1>4, <1>5, <1>6, <1>7, <1>9 DEF Files, NamesOK, DiskPut, Traced, Uctl
<1>11. MovedOK'
  <2> SUFFICES ASSUME lost = {}, starts = 0, NEW q \in Traced, NEW x \in TwoKinds, ~Due(q, x)'
               PROVE  IsLocal(StreamFile(q, x))'
    BY <1>3, <1>6 DEF MovedOK, Traced
  <2>1. q \in Pids
    BY DEF Traced
  <2>2. CASE StreamFile(q, x) = f
    <3>1. x = h
      BY <1>9, <2>1, <2>2, StreamNames
    <3>2. q = p
      <4>1. proc[q].vt_my_trace = proc[p].vt_my_trace
        <5>1. proc[q].vt_my_trace + 1 = proc[p].vt_my_trace + 1
          BY <1>9, <2>1, <2>2, StreamNames
        <5>2. proc[q].vt_my_trace \in Nat /\ proc[p].vt_my_trace \in Nat
          BY <1>1, <2>1, ProcessFields
        <5> QED
          BY <5>1, <5>2
      <4>2. late = {} /\ Numbered(p) /\ Numbered(q)
        BY <1>5 DEF Families, Traced, Numbered
      <4> QED
        BY <2>1, <4>1, <4>2 DEF Numbers, DistinctOK
    <3>3. proc'[p].left # proc[p].left
      BY <1>3, <1>4, <3>1, <3>2 DEF Due
    <3> QED
      BY <1>7, <1>9, <2>1, <2>2, <3>3 DEF IsLocal, DiskPut
  <2>3. CASE StreamFile(q, x) # f
    <3>1. ~Due(q, x)
      <4>1. CASE q # p
        BY <1>3, <2>1, <4>1 DEF Only, Due
      <4>2. CASE q = p
        <5>1. x # h
          BY <1>9, <2>3, <4>2
        <5> QED
          BY <1>3, <1>4, <1>9, <4>2, <5>1 DEF Due
      <4> QED
        BY <4>1, <4>2
    <3>2. IsLocal(StreamFile(q, x))
      BY <3>1 DEF Files, MovedOK
    <3> QED
      BY <1>7, <1>9, <2>1, <2>3, <3>2 DEF IsLocal, DiskPut
  <2> QED
    BY <2>2, <2>3
<1>12. CountOK'
  BY <1>1, <1>3, <1>6 DEF Files, CountOK, Only, Told
<1>13. FoundOK'
  BY <1>1, <1>3, <1>6 DEF Files, FoundOK, Only, Ended
<1> QED
  BY <1>10, <1>11, <1>12, <1>13 DEF Files

\* vtunify is started when all files have been moved.
LEMMA FilesStart ==
  ASSUME TreeType, Numbers, Families, Files, NEW p \in Pids, unify_traces(p)
  PROVE  Files'
<1>1. PICK l : l = Found
  OBVIOUS
<1>2. /\ p = 1 /\ proc[1].at = "move" /\ proc[1].left = << >> /\ starts = 0 /\ Counted
      /\ conf' = [conf EXCEPT !.local = l] /\ starts' = starts + 1
      /\ lost' = lost /\ late' = late /\ proc' = Goto(1, "unify")
  BY <1>1, StartEffect
<1>3. /\ proc \in Seq(Process) /\ proc # << >> /\ 1 \in Pids /\ IsConf(conf) /\ StageOf(1)
      /\ "unify" \in Stages
  BY <1>2, TypeHere DEF TreeType, ConfOK, Stages
<1>4. /\ Only(1) /\ proc'[1].at = "unify" /\ proc'[1].vt_my_trace = proc[1].vt_my_trace
      /\ proc'[1].init_pid = proc[1].init_pid
  BY <1>2, <1>3, GotoEffect
<1>5. starts' # 0
  BY <1>2
<1>6. conf'.local = l /\ conf'.streams = conf.streams
  BY <1>2, <1>3 DEF IsConf
<1>7. Traced' = Traced /\ Len(proc') = Len(proc) /\ Listed' = Listed
  <2>1. /\ Pids' = Pids /\ Len(proc') = Len(proc) /\ Traced' = Traced
        /\ \A q \in Pids : proc'[q].vt_my_trace = proc[q].vt_my_trace
    BY <1>4 DEF Only, Pids, Traced
  <2> QED
    BY <2>1 DEF Listed, Traced
<1>8. NamesOK' /\ MovedOK'
  BY <1>5 DEF NamesOK, MovedOK
<1>9. CountOK'
  BY <1>2, <1>3, <1>6, <1>7 DEF Files, CountOK, Told
<1>10. ASSUME lost = {} PROVE l = Listed
  <2>1. \A q \in Pids : q # 1 => proc[q].at = "dead"
    BY <1>2, <1>3, <1>10, OthersDead DEF Promising, Alive
  <2>2. \A q \in Pids, k \in TwoKinds : ~Due(q, k)
    <3>1. ToSet(<< >>) = {}
      BY DEF ToSet
    <3> QED
      BY <1>2, <2>1, <3>1 DEF Due
  <2>3. LocalKinds[1] = "def" /\ LocalKinds[2] = "events"
    BY DEF LocalKinds
  <2>4. ASSUME NEW f \in DOMAIN disk, f.stream \in StreamsOf(conf) PROVE <<f.stream, f.kind>> \in Listed
    <3>1. f # Uctl
      BY <1>3, <2>4, ControlFields DEF StreamsOf, IsConf
    <3>2. PICK q \in Traced : \E k \in TwoKinds : f = StreamFile(q, k)
      BY <1>2, <1>3, <3>1 DEF Files, NamesOK
    <3>3. PICK k \in TwoKinds : f = StreamFile(q, k)
      BY <3>2
    <3>4. f.stream = proc[q].vt_my_trace + 1 /\ f.kind = k
      BY <3>3, StreamNames DEF Traced
    <3>5. \E i \in 1..2 : k = LocalKinds[i]
      BY <2>3 DEF TwoKinds
    <3> QED
      BY <3>4, <3>5 DEF Listed
  <2>5. ASSUME NEW q \in Traced, NEW i \in 1..2
        PROVE  <<proc[q].vt_my_trace + 1, LocalKinds[i]>> \in l
    <3>1. PICK k : k = LocalKinds[i] /\ k \in TwoKinds
      BY <2>3 DEF TwoKinds
    <3>2. q \in Pids /\ IsLocal(StreamFile(q, k))
      BY <1>2, <1>10, <2>2, <3>1 DEF Files, MovedOK, Traced
    <3>3. PICK f : f = StreamFile(q, k)
      OBVIOUS
    <3>4. f \in DOMAIN disk /\ disk[f].state = "local" /\ f.stream = proc[q].vt_my_trace + 1 /\ f.kind = k
      BY <3>2, <3>3, StreamNames DEF IsLocal
    <3>5. proc[q].vt_my_trace < conf.streams /\ proc[q].vt_my_trace \in Nat
      <4>1. q \in Pids \ late /\ Numbered(q)
        BY <1>10, <3>2 DEF Families, Numbered, Traced
      <4> QED
        BY <1>2, <1>3, <1>10, <3>2, <4>1, ProcessFields DEF Numbers, ToldOK
    <3>6. f.stream \in StreamsOf(conf)
      BY <1>3, <3>4, <3>5 DEF StreamsOf, IsConf
    <3>7. <<f.stream, f.kind>> \in l
      BY <1>1, <3>4, <3>6 DEF Found
    <3> QED
      BY <3>1, <3>4, <3>7
  <2>6. l \subseteq Listed
    <3> SUFFICES ASSUME NEW x \in l PROVE x \in Listed
      OBVIOUS
    <3>1. PICK f \in DOMAIN disk : f.stream \in StreamsOf(conf) /\ x = <<f.stream, f.kind>>
      BY <1>1 DEF Found
    <3> QED
      BY <2>4, <3>1
  <2>7. Listed \subseteq l
    <3> SUFFICES ASSUME NEW x \in Listed PROVE x \in l
      OBVIOUS
    <3>1. PICK q \in Traced, i \in 1..2 : x = <<proc[q].vt_my_trace + 1, LocalKinds[i]>>
      BY DEF Listed
    <3> QED
      BY <2>5, <3>1
  <2> QED
    BY <2>6, <2>7
<1>11. FoundOK'
  BY <1>2, <1>5, <1>6, <1>7, <1>10 DEF FoundOK
<1> QED
  BY <1>8, <1>9, <1>11 DEF Files

------------------------------------------------------------------------------
(* The streams are right after every step.                                 *)

Right == Numbers /\ Families /\ Files

\* Most steps: p goes on, gives no number and changes no file.
LEMMA RightMoves ==
  ASSUME TreeType, Right, NEW p \in Pids, Only(p), Alive(p), counter' = counter,
         idfile' = idfile \/ Counted, conf' = conf, disk' = disk, starts' = starts, late' = late,
         lost \subseteq lost', proc'[p].vt_my_trace = proc[p].vt_my_trace,
         proc'[p].init_pid = proc[p].init_pid, proc'[p].at # "reset",
         p = 1 /\ 1 \notin lost' /\ proc'[1].at \in Open /\ ~proc'[1].fork_performed
           => proc[1].at \in Open /\ ~proc[1].fork_performed,
         lost' = {} =>
           /\ ~Alive(p)' => proc[p].init_pid = p
           /\ \A x \in Pids : Waits(p, x) => Waits(p, x)' \/ ~Alive(x)
           /\ p = 1 /\ proc'[p].at \in Told => proc[p].at \in Told
           /\ p = 1 /\ proc'[p].at \in Ended => proc[p].at \in Ended
           /\ starts = 0 /\ p \in Traced => \A k \in TwoKinds : ~Due(p, k)' => ~Due(p, k)
  PROVE  Right'
<1>1. Numbered(p)' => Numbered(p)
  BY DEF Numbered
<1>2. p \in Traced <=> proc'[p].init_pid = p
  BY DEF Traced
<1>3. Numbers'
  BY <1>1, NumbersCalm DEF Right
<1>4. Families'
  BY FamiliesCalm DEF Right
<1>5. Files'
  BY <1>2, FilesCalm DEF Right
<1> QED
  BY <1>3, <1>4, <1>5 DEF Right

\* exit, exec: the children are still waited for.
LEMMA RightExit ==
  ASSUME TreeType, Right, NEW p \in Pids, exit(p) \/ exec(p), UNCHANGED unifyVars
  PROVE  Right'
<1>1. /\ proc[p].at = "user" /\ conf' = conf /\ counter' = counter /\ starts' = starts
      /\ idfile' = idfile /\ late' = late /\ lost' = lost /\ disk' = disk
  BY DEF exit, exec, unifyVars
<1>2. proc \in Seq(Process) /\ "close" \in Stages
  BY TypeHere DEF Stages
<1>3. /\ Only(p) /\ proc'[p].at = "close" /\ proc'[p].childv = proc[p].childv
      /\ proc'[p].fork_performed = proc[p].fork_performed
      /\ proc'[p].init_pid = proc[p].init_pid /\ proc'[p].vt_my_trace = proc[p].vt_my_trace
  <2>1. CASE exit(p)
    BY <1>2, <2>1, GotoEffect DEF exit
  <2>2. CASE exec(p)
    BY <1>2, <2>2, ExecEffect
  <2> QED
    BY <2>1, <2>2
<1>4. Alive(p) /\ Alive(p)'
  BY <1>1, <1>3 DEF Alive
<1>5. \A x \in Pids : Waits(p, x) => Waits(p, x)'
  BY <1>1, <1>3 DEF Waits, Promising
<1>6. proc[p].at \in Open /\ proc'[p].at \notin Told \cup Ended
  BY <1>1, <1>3 DEF Open, Told, Ended
<1>7. \A k : Due(p, k)'
  BY <1>3 DEF Due
<1> QED
  BY <1>1, <1>3, <1>4, <1>5, <1>6, <1>7, RightMoves

\* childv_add: the child is on the list.
LEMMA RightChild ==
  ASSUME TreeType, Right, NEW p \in Pids, childv_add(p), UNCHANGED unifyVars
  PROVE  Right'
<1>1. /\ proc[p].at = "forking" /\ conf' = conf /\ counter' = counter /\ starts' = starts
      /\ idfile' = idfile /\ late' = late /\ lost' = lost /\ disk' = disk
  BY DEF childv_add, unifyVars
<1>2. proc \in Seq(Process)
  BY TypeHere
<1>3. /\ Only(p) /\ proc'[p].at = "user" /\ proc'[p].childv = proc[p].childv \cup {proc[p].rc}
      /\ proc'[p].fork_performed = TRUE
      /\ proc'[p].init_pid = proc[p].init_pid /\ proc'[p].vt_my_trace = proc[p].vt_my_trace
  BY <1>2, ChildEffect
<1>4. Alive(p) /\ Alive(p)'
  BY <1>1, <1>3 DEF Alive
<1>5. \A x \in Pids : Waits(p, x) => Waits(p, x)'
  BY <1>1, <1>3 DEF Waits, Promising
<1>6. proc'[p].at \notin Told \cup Ended
  BY <1>3 DEF Told, Ended
<1>7. \A k : Due(p, k)'
  BY <1>3 DEF Due
<1> QED
  BY <1>1, <1>3, <1>4, <1>5, <1>6, <1>7, RightMoves

\* get_new_trcid waits for the lock.
LEMMA RightLock ==
  ASSUME TreeType, Right, NEW p \in Pids, LockIdFile(p), UNCHANGED unifyVars
  PROVE  Right'
<1>1. /\ proc[p].at = "lock" /\ conf' = conf /\ counter' = counter /\ starts' = starts
      /\ idfile' = idfile /\ late' = late /\ lost' = lost /\ disk' = disk
  BY DEF LockIdFile, unifyVars
<1>2. proc \in Seq(Process) /\ StageOf(p) /\ proc[p].fd \in DOMAIN counter /\ counter \in Seq(Nat)
  BY <1>1, TypeHere DEF LockOf, TreeType, CounterOK
<1>3. /\ Only(p) /\ proc'[p].at = "update" /\ proc'[p].childv = proc[p].childv
      /\ proc'[p].fork_performed = proc[p].fork_performed
      /\ proc'[p].init_pid = proc[p].init_pid /\ proc'[p].vt_my_trace = proc[p].vt_my_trace
  BY <1>2, LockEffect
<1>4. Alive(p) /\ Alive(p)' /\ p # 1 /\ p \notin Traced
  BY <1>1, <1>2, <1>3 DEF Alive, StageOf, Copies, Traced
<1>5. \A x \in Pids : ~Waits(p, x)
  BY <1>1 DEF Waits, Promising
<1> QED
  BY <1>1, <1>3, <1>4, <1>5, RightMoves

\* get_new_trcid opens the file or creates it.
LEMMA RightOpen ==
  ASSUME TreeType, Right, NEW p \in Pids, OpenIdFile(p), UNCHANGED unifyVars
  PROVE  Right'
<1>1. proc[p].at = "open" /\ conf' = conf /\ late' = late /\ lost' = lost /\ disk' = disk /\ starts' = starts
  BY DEF OpenIdFile, unifyVars
<1>2. StageOf(p) /\ proc \in Seq(Process) /\ counter \in Seq(Nat) /\ idfile \in Nat
  BY TypeHere DEF TreeType, CounterOK
<1>3. \/ idfile = 0 /\ counter' = Append(counter, 0) /\ idfile' = Len(counter')
      \/ counter' = counter /\ idfile' = idfile
  BY DEF OpenIdFile
<1>4. idfile' \in Nat
  BY <1>2, <1>3
<1>5. /\ Only(p) /\ proc'[p].at = "lock" /\ proc'[p].vt_my_trace = proc[p].vt_my_trace
      /\ proc'[p].init_pid = proc[p].init_pid
  BY <1>2, <1>4, OpenEffect
<1>6. p # 1 /\ p \notin Traced /\ proc'[p].init_pid # p /\ Alive(p) /\ Alive(p)'
  BY <1>1, <1>2, <1>5 DEF StageOf, Traced, Copies, Alive
<1>7. \A x \in Pids : ~Waits(p, x)
  BY <1>1 DEF Waits, Promising
<1>8. Families'
  BY <1>1, <1>5, <1>6, <1>7, FamiliesCalm DEF Right
<1>9. Files'
  BY <1>1, <1>5, <1>6, FilesCalm DEF Right
<1> QED
  BY <1>8, <1>9, NumbersOpen DEF Right

\* get_new_trcid gives the next number.
LEMMA RightUpdate ==
  ASSUME TreeType, Right, NEW p \in Pids, UpdateIdFile(p), UNCHANGED unifyVars
  PROVE  Right'
<1>1. /\ proc[p].at = "update" /\ lost' = lost /\ conf' = conf /\ disk' = disk /\ starts' = starts
  BY DEF UpdateIdFile, unifyVars
<1>2. StageOf(p) /\ proc \in Seq(Process)
  BY TypeHere
<1>3. /\ Only(p) /\ proc'[p].at = "reset" /\ proc'[p].init_pid = proc[p].init_pid
  BY <1>2, UpdateEffect
<1>4. p # 1 /\ p \notin Traced /\ proc'[p].init_pid # p /\ Alive(p)
  BY <1>1, <1>2, <1>3 DEF StageOf, Traced, Copies, Alive
<1>5. Files'
  BY <1>1, <1>3, <1>4, FilesCalm DEF Right
<1> QED
  BY <1>5, NumbersUpdate, FamiliesUpdate DEF Right

\* vt_reset: the child has become a process with a trace of its own.
LEMMA RightReset ==
  ASSUME TreeType, Right, NEW p \in Pids, vt_reset(p), UNCHANGED unifyVars
  PROVE  Right'
<1>1. /\ proc[p].at = "reset" /\ conf' = conf /\ counter' = counter /\ starts' = starts
      /\ idfile' = idfile /\ late' = late /\ lost' = lost /\ disk' = disk
  BY DEF vt_reset, unifyVars
<1>2. StageOf(p) /\ proc \in Seq(Process)
  BY TypeHere
<1>3. /\ Only(p) /\ proc'[p].at = "user" /\ proc'[p].vt_my_trace = proc[p].vt_my_trace
      /\ proc'[p].init_pid = p
  BY <1>2, ResetEffect
<1>4. p # 1 /\ p \notin Traced /\ Alive(p) /\ Alive(p)' /\ Numbered(p)
  BY <1>1, <1>2, <1>3 DEF StageOf, Traced, Copies, Alive, Numbered
<1>5. (\A x \in Pids : ~Waits(p, x)) /\ \A k : Due(p, k)'
  BY <1>1, <1>3 DEF Waits, Promising, Due
<1>6. Numbers'
  BY <1>1, <1>3, <1>4, NumbersCalm DEF Right
<1>7. Families'
  BY <1>1, <1>3, <1>4, <1>5, FamiliesCalm DEF Right
<1>8. Files'
  BY <1>1, <1>3, <1>4, <1>5, FilesCalm DEF Right
<1> QED
  BY <1>6, <1>7, <1>8 DEF Right

\* The buffer goes to the local files, which have yet to be moved.
LEMMA RightClose ==
  ASSUME TreeType, Right, NEW p \in Pids, VTThrd_close(p), UNCHANGED unifyVars
  PROVE  Right'
<1>1. /\ proc[p].at = "close" /\ conf' = conf /\ counter' = counter /\ starts' = starts
      /\ idfile' = idfile /\ late' = late /\ lost' = lost /\ disk' = disk
  BY DEF VTThrd_close, unifyVars
<1>2. proc \in Seq(Process)
  BY TypeHere
<1>3. /\ Only(p) /\ proc'[p].at = "wait" /\ proc'[p].childv = proc[p].childv
      /\ proc'[p].fork_performed = proc[p].fork_performed
      /\ proc'[p].init_pid = proc[p].init_pid /\ proc'[p].vt_my_trace = proc[p].vt_my_trace
  BY <1>2, CloseEffect
<1>4. Alive(p) /\ Alive(p)'
  BY <1>1, <1>3 DEF Alive
<1>5. \A x \in Pids : Waits(p, x) => Waits(p, x)'
  BY <1>1, <1>3 DEF Waits, Promising
<1>6. proc[p].at \in Open /\ proc'[p].at \notin Told \cup Ended
  BY <1>1, <1>3 DEF Open, Told, Ended
<1>7. \A k \in TwoKinds : Due(p, k)'
  <2>1. LocalKinds \in Lefts /\ ToSet(LocalKinds) = TwoKinds
    <3>1. LocalKinds \in Lefts
      BY DEF Lefts
    <3> QED
      BY <3>1, LeftsFacts DEF TwoKinds
  <2>2. proc'[p].left = LocalKinds
    BY <1>2, CloseEffect
  <2> QED
    BY <1>3, <2>1, <2>2 DEF Due
<1> QED
  BY <1>1, <1>3, <1>4, <1>5, <1>6, <1>7, RightMoves

\* vt_fork_waitchilds: the children are dead.
LEMMA RightWait ==
  ASSUME TreeType, Right, NEW p \in Pids, vt_fork_waitchilds(p), UNCHANGED unifyVars
  PROVE  Right'
<1>1. /\ proc[p].at = "wait" /\ conf' = conf /\ counter' = counter /\ starts' = starts
      /\ idfile' = idfile /\ late' = late /\ lost' = lost /\ disk' = disk
      /\ \A x \in proc[p].childv : ~Alive(x)
  BY DEF vt_fork_waitchilds, unifyVars
<1>2. proc \in Seq(Process) /\ StageOf(p)
  BY TypeHere
<1>3. PICK a : a = IF proc[p].vt_my_trace = 0 THEN "control" ELSE "move"
  OBVIOUS
<1>4. /\ Only(p) /\ proc'[p].at = a
      /\ proc'[p].fork_performed = proc[p].fork_performed /\ proc'[p].left = proc[p].left
      /\ proc'[p].init_pid = proc[p].init_pid /\ proc'[p].vt_my_trace = proc[p].vt_my_trace
  BY <1>2, <1>3, WaitEffect DEF vt_fork_waitchilds
<1>5. Alive(p) /\ Alive(p)'
  BY <1>1, <1>3, <1>4 DEF Alive
<1>6. \A x \in Pids : Waits(p, x) => ~Alive(x)
  BY <1>1 DEF Waits
<1>7. \A k : Due(p, k)' <=> Due(p, k)
  BY <1>1, <1>3, <1>4 DEF Due
<1>8. p = 1 => a = "control"
  BY <1>2, <1>3 DEF StageOf
<1>9. proc[p].at \in Open /\ (p = 1 => proc'[p].at \notin Told \cup Ended) /\ a # "reset"
  BY <1>1, <1>3, <1>4, <1>8 DEF Open, Told, Ended
<1> QED
  BY <1>1, <1>4, <1>5, <1>6, <1>7, <1>9, RightMoves

\* The file of the numbers is removed when the streams are counted.
LEMMA RightRemove ==
  ASSUME TreeType, Right, NEW p \in Pids, RemoveIdFile(p), UNCHANGED unifyVars
  PROVE  Right'
<1>1. /\ proc[p].at = "remove" /\ conf' = conf /\ counter' = counter /\ starts' = starts
      /\ idfile' = 0 /\ late' = late /\ lost' = lost /\ disk' = disk
  BY DEF RemoveIdFile, unifyVars
<1>2. proc \in Seq(Process) /\ StageOf(p) /\ "move" \in Stages /\ proc # << >>
  BY TypeHere DEF Stages
<1>3. /\ Only(p) /\ proc'[p].at = "move"
      /\ proc'[p].fork_performed = proc[p].fork_performed /\ proc'[p].left = proc[p].left
      /\ proc'[p].init_pid = proc[p].init_pid /\ proc'[p].vt_my_trace = proc[p].vt_my_trace
  BY <1>2, GotoEffect DEF RemoveIdFile
<1>4. Alive(p) /\ Alive(p)' /\ Counted
  BY <1>1, <1>2, <1>3 DEF Alive, StageOf, TreeType, MasterOK
<1>5. \A x \in Pids : ~Waits(p, x)
  BY <1>1 DEF Waits, Promising
<1>6. \A k : Due(p, k)' <=> Due(p, k)
  BY <1>1, <1>3 DEF Due
<1>7. proc[p].at \in Told /\ proc'[p].at \notin Open \cup Ended
  BY <1>1, <1>3 DEF Open, Told, Ended
<1> QED
  BY <1>1, <1>3, <1>4, <1>5, <1>6, <1>7, RightMoves

\* A process ends, or what it records does, when nothing is left to move.
LEMMA RightAfter ==
  ASSUME TreeType, Right, NEW p \in Pids, Unified(p) \/ Closed(p), UNCHANGED unifyVars
  PROVE  Right'
<1>1. /\ conf' = conf /\ counter' = counter /\ starts' = starts
      /\ idfile' = idfile /\ late' = late /\ lost' = lost /\ disk' = disk
      /\ proc' \in {After(p), Dead(p)}
      /\ \/ proc[p].at = "unify"
         \/ proc[p].at = "move" /\ proc[p].left = << >> /\ proc[p].vt_my_trace # 0
  BY DEF Unified, Closed, unifyVars
<1>2. proc \in Seq(Process) /\ StageOf(p) /\ proc # << >>
  BY TypeHere
<1>3. /\ Only(p) /\ proc'[p].at \in {"dead", "other"}
      /\ proc'[p].init_pid = proc[p].init_pid /\ proc'[p].vt_my_trace = proc[p].vt_my_trace
  BY <1>1, <1>2, AfterEffect, DeadEffect
<1>4. Alive(p) /\ proc[p].init_pid = p /\ (p = 1 => proc[p].at = "unify")
  BY <1>1, <1>2 DEF Alive, StageOf, Own
<1>5. \A x \in Pids : ~Waits(p, x)
  BY <1>1 DEF Waits, Promising
<1>6. p = 1 => proc[p].at \in Told /\ proc[p].at \in Ended
  BY <1>4 DEF Told, Ended
<1>7. lost = {} /\ starts = 0 => \A k : ~Due(p, k)
  <2> SUFFICES ASSUME lost = {}, starts = 0 PROVE \A k : ~Due(p, k)
    OBVIOUS
  <2>1. proc[p].at # "unify"
    BY <1>2 DEF StageOf, Right, Files, FoundOK, Ended
  <2> QED
    <3>1. ToSet(<< >>) = {}
      BY DEF ToSet
    <3> QED
      BY <1>1, <2>1, <3>1 DEF Due
<1>8. proc'[p].at \notin Open /\ proc'[p].at # "reset"
  BY <1>3 DEF Open
<1> QED
  BY <1>1, <1>3, <1>4, <1>5, <1>6, <1>7, <1>8, RightMoves

\* A program that was executed ends.
LEMMA RightEnds ==
  ASSUME TreeType, Right, NEW p \in Pids, OtherEnds(p), UNCHANGED unifyVars
  PROVE  Right'
<1>1. /\ proc[p].at = "other" /\ conf' = conf /\ counter' = counter /\ starts' = starts
      /\ idfile' = idfile /\ late' = late /\ lost' = lost /\ disk' = disk /\ proc' = Dead(p)
  BY DEF OtherEnds, unifyVars
<1>2. proc \in Seq(Process) /\ StageOf(p)
  BY TypeHere
<1>3. /\ Only(p) /\ proc'[p].at = "dead"
      /\ proc'[p].init_pid = proc[p].init_pid /\ proc'[p].vt_my_trace = proc[p].vt_my_trace
  BY <1>1, <1>2, DeadEffect
<1>4. Alive(p) /\ proc[p].init_pid = p
  BY <1>1, <1>2 DEF Alive, StageOf, Own
<1>5. (\A x \in Pids : ~Waits(p, x)) /\ \A k : ~Due(p, k)
  BY <1>1 DEF Waits, Promising, Due
<1>6. proc[p].at \in Told \cap Ended /\ proc'[p].at \notin Open
  BY <1>1, <1>3 DEF Told, Ended, Open
<1> QED
  BY <1>1, <1>3, <1>4, <1>5, <1>6, RightMoves

\* A signal or a kill: somebody was stopped, and nothing is promised any more.
LEMMA RightStopped ==
  ASSUME TreeType, Right, NEW p \in Pids, vt_close_by_signal(p) \/ KillProcess(p), UNCHANGED unifyVars
  PROVE  Right'
<1>1. /\ proc[p].at \notin {"dead", "other"} /\ conf' = conf /\ counter' = counter /\ starts' = starts
      /\ idfile' = idfile /\ late' = late /\ lost' = lost \cup {p} /\ disk' = disk
      /\ proc' \in {Goto(p, "close"), Dead(p)}
  BY DEF vt_close_by_signal, KillProcess, unifyVars
<1>2. proc \in Seq(Process) /\ "close" \in Stages
  BY TypeHere DEF Stages
<1>3. /\ Only(p) /\ proc'[p].at \in {"dead", "close"}
      /\ proc'[p].init_pid = proc[p].init_pid /\ proc'[p].vt_my_trace = proc[p].vt_my_trace
  BY <1>1, <1>2, DeadEffect, GotoEffect
<1>4. Alive(p)
  BY <1>1 DEF Alive
<1> QED
  BY <1>1, <1>3, <1>4, RightMoves

\* The streams are right after every step of a process.
LEMMA RightStep ==
  ASSUME TreeType, Right, NEW p \in Pids, Step(p) \/ Choice(p)
  PROVE  Right'
<1>1. CASE unify_traces(p)
  <2>1. /\ p = 1 /\ proc[1].at = "move" /\ lost' = lost /\ late' = late /\ proc' = Goto(1, "unify")
        /\ idfile' = idfile /\ counter' = counter
    BY <1>1, StartEffect
  <2>2. conf' = [conf EXCEPT !.local = Found] /\ IsConf(conf)
    BY <1>1, StartEffect DEF TreeType, ConfOK
  <2>3. PICK l : l = Found
    OBVIOUS
  <2>4. conf'.streams = conf.streams
    BY <2>2, <2>3 DEF IsConf
  <2>5. proc \in Seq(Process) /\ StageOf(1) /\ "unify" \in Stages
    BY <2>1, TypeHere DEF Stages
  <2>6. /\ Only(1) /\ proc'[1].at = "unify" /\ proc'[1].vt_my_trace = proc[1].vt_my_trace
        /\ proc'[1].init_pid = proc[1].init_pid
    BY <2>1, <2>5, GotoEffect
  <2>7. Numbered(1)' => Numbered(1)
    BY <2>6 DEF Numbered
  <2>8. Alive(1) /\ Alive(1)' /\ proc'[1].at \notin Open /\ \A x \in Pids : ~Waits(1, x)
    BY <2>1, <2>6 DEF Alive, Open, Waits, Promising
  <2>9. Numbers'
    BY <2>1, <2>4, <2>6, <2>7, <2>8, NumbersCalm DEF Right
  <2>10. Families'
    BY <2>1, <2>6, <2>8, FamiliesCalm DEF Right
  <2> QED
    BY <1>1, <2>9, <2>10, FilesStart DEF Right
<1>2. CASE write_uctl_file(p) /\ UNCHANGED unifyVars
  <2>1. /\ p = 1 /\ proc[1].at = "control" /\ lost' = lost /\ late' = late /\ starts' = starts
        /\ proc' \in {Goto(1, "remove"), Dead(1)}
    BY <1>2, ControlEffect DEF unifyVars
  <2>2. proc \in Seq(Process) /\ StageOf(1) /\ "remove" \in Stages
    BY <2>1, TypeHere DEF Stages
  <2>3. /\ Only(1) /\ proc'[1].init_pid = proc[1].init_pid
    <3>1. CASE proc' = Goto(1, "remove")
      BY <2>1, <2>2, <3>1, GotoEffect
    <3>2. CASE proc' = Dead(1)
      BY <2>1, <2>2, <3>2, DeadEffect
    <3> QED
      BY <2>1, <3>1, <3>2
  <2>4. Alive(1) /\ proc[1].init_pid = 1 /\ \A x \in Pids : ~Waits(1, x)
    BY <2>1, <2>2 DEF Alive, Waits, Promising, StageOf
  <2>5. Families'
    BY <2>1, <2>3, <2>4, FamiliesCalm DEF Right
  <2> QED
    BY <1>2, <2>1, <2>5, NumbersControl, FilesControl DEF Right
<1>3. CASE VTGen_delete(p) /\ UNCHANGED unifyVars
  <2>1. proc \in Seq(Process) /\ starts' = starts
    BY <1>3, TypeHere DEF unifyVars
  <2>2. /\ proc[p].at \in {"move", "copy"} /\ Only(p) /\ proc'[p].at \in {"move", "copy"}
        /\ proc'[p].init_pid = proc[p].init_pid /\ proc'[p].vt_my_trace = proc[p].vt_my_trace
        /\ conf' = conf /\ counter' = counter /\ idfile' = idfile /\ late' = late /\ lost' = lost
    BY <1>3, <2>1, DeleteEffect
  <2>3. /\ Alive(p) /\ Alive(p)' /\ (Numbered(p)' => Numbered(p)) /\ proc'[p].at \notin Open
        /\ \A x \in Pids : ~Waits(p, x)
    BY <2>2 DEF Alive, Numbered, Open, Waits, Promising
  <2>4. Numbers'
    BY <2>2, <2>3, NumbersCalm DEF Right
  <2>5. Families'
    BY <2>2, <2>3, FamiliesCalm DEF Right
  <2> QED
    BY <1>3, <2>1, <2>4, <2>5, FilesDelete DEF Right
<1>4. CASE fork(p) /\ UNCHANGED unifyVars
  <2>1. starts' = starts
    BY <1>4 DEF unifyVars
  <2> QED
    BY <1>4, <2>1, NumbersFork, FamiliesFork, FilesFork DEF Right
<1>5. CASE /\ UNCHANGED unifyVars
           /\ childv_add(p) \/ OpenIdFile(p) \/ LockIdFile(p) \/ UpdateIdFile(p) \/ vt_reset(p)
  BY <1>5, RightChild, RightOpen, RightLock, RightUpdate, RightReset
<1>6. CASE /\ UNCHANGED unifyVars
           /\ VTThrd_close(p) \/ vt_fork_waitchilds(p) \/ RemoveIdFile(p) \/ Unified(p) \/ Closed(p)
  BY <1>6, RightClose, RightWait, RightRemove, RightAfter
<1>7. CASE Choice(p)
  BY <1>4, <1>7, RightExit, RightEnds, RightStopped DEF Choice
<1> QED
  BY <1>1, <1>2, <1>3, <1>5, <1>6, <1>7 DEF Step

\* vtunify goes on or is started again; what it was told stays.
LEMMA UnifyRuns ==
  ASSUME RanksOK, DiskOK, InsideOK, ConfOK, UnifyStep
  PROVE  conf' = conf /\ starts' # 0
<1>1. ASSUME NEW r \in Ranks, Work(r) \/ Enter(r) PROVE conf' = conf /\ starts' # 0
  <2>1. CASE Work(r)
    BY <2>1, WorkEffect
  <2>2. CASE Enter(r)
    <3>1. status[r] # "idle"
      BY <2>2 DEF Enter, Running
    <3> QED
      BY <2>2, <3>1, RanksEnter DEF RanksOK
  <2> QED
    BY <1>1, <2>1, <2>2
<1>2. CASE syncError \/ Collective \/ Finalize
  BY <1>2, SyncErrorEffect, CollectiveEffect, FinalizeEffect
<1>3. CASE (\E r \in Ranks : Abort(r)) \/ Kill
  BY <1>3, StopEffect
<1>4. CASE Start
  BY <1>4, FreshEffect DEF Start, ConfOK, RanksOK
<1> QED
  BY <1>1, <1>2, <1>3, <1>4 DEF UnifyStep

\* The streams are right after every step of vtunify.
LEMMA RightUnify ==
  ASSUME AllTypes, Right, UnifyStep, UNCHANGED treeVars
  PROVE  Right'
<1>1. conf' = conf /\ starts' # 0
  BY UnifyRuns DEF AllTypes, TreeType
<1> QED
  BY <1>1, NumbersSame, FamiliesSame, FilesSame DEF Right

\* The streams are right if nothing happens.
LEMMA RightStutter ==
  ASSUME Right, UNCHANGED allVars
  PROVE  Right'
<1>1. /\ UNCHANGED treeVars /\ conf' = conf /\ disk' = disk /\ starts' = starts
      /\ proc' = proc /\ lost' = lost /\ Traced' = Traced /\ Listed' = Listed
  BY DEF allVars, vars, treeVars, Traced, Pids, Listed
<1>2. \A p, k : StreamFile(p, k)' = StreamFile(p, k) /\ (Due(p, k)' <=> Due(p, k))
  BY <1>1 DEF StreamFile, Local, Due
<1>3. Uctl' = Uctl /\ \A f : IsLocal(f)' <=> IsLocal(f)
  BY <1>1 DEF Uctl, IsLocal
<1>4. NamesOK' /\ MovedOK' /\ CountOK' /\ FoundOK'
  BY <1>1, <1>2, <1>3 DEF Right, Files, NamesOK, MovedOK, CountOK, FoundOK
<1> QED
  BY <1>1, <1>4, NumbersSame, FamiliesSame DEF Right, Files

\* The streams are right in the beginning.
LEMMA RightInit ==
  ASSUME TreeInit
  PROVE  Right
<1>1. Idle /\ idfile = 0 /\ counter = << >> /\ lost = {} /\ late = {} /\ starts = 0
  BY DEF TreeInit, Init, Idle
<1>2. Len(counter) = 0 /\ FileIdOK
  BY <1>1 DEF FileIdOK
<1>3. CASE Init /\ proc = << >>
  <2>1. Pids = {} /\ Traced = {}
    BY <1>3 DEF Pids, Traced
  <2>2. Numbers
    BY <1>2, <1>3, <2>1 DEF Numbers, AloneOK, GivenOK, DistinctOK, ToldOK
  <2>3. Families
    BY <1>1, <2>1 DEF Families, WaitedOK, DeadOK
  <2>4. Files
    BY <1>3, <2>1 DEF Files, NamesOK, MovedOK, CountOK, FoundOK
  <2> QED
    BY <2>2, <2>3, <2>4 DEF Right
<1>4. CASE conf \in Programs /\ disk = << >> /\ proc = <<vt_open(1)>>
  <2>1. /\ IsProgram(conf) /\ Pids = {1} /\ Len(proc) = 1 /\ proc[1] = vt_open(1)
    BY <1>4, ProcessTreeAssumption DEF Pids
  <2>2. /\ vt_open(1).at = "user" /\ vt_open(1).init_pid = 1 /\ vt_open(1).vt_my_trace = 0
        /\ ~Counted
    BY <2>1 DEF vt_open, Counted, IsProgram
  <2> HIDE DEF vt_open
  <2>3. Numbers
    BY <1>1, <1>2, <2>1, <2>2 DEF Numbers, AloneOK, GivenOK, DistinctOK, ToldOK
  <2>4. Families
    BY <1>1, <2>1, <2>2 DEF Families, WaitedOK, DeadOK, Alive
  <2>5. Files
    <3>1. DOMAIN disk = {}
      BY <1>4
    <3>2. \A p \in Traced : \A k : Due(p, k)
      BY <2>1, <2>2 DEF Traced, Due
    <3> QED
      BY <2>1, <2>2, <3>1, <3>2 DEF Files, NamesOK, MovedOK, CountOK, FoundOK, Told, Ended
  <2> QED
    BY <2>3, <2>4, <2>5 DEF Right
<1> QED
  BY <1>3, <1>4 DEF TreeInit

\* What is promised of the streams follows.
LEMMA RightImplies ==
  ASSUME TreeType, Right
  PROVE  StreamsRight
<1>1. ASSUME NEW p \in Traced, NEW q \in Traced, p # q, proc[p].vt_my_trace = proc[q].vt_my_trace
      PROVE  {p, q} \cap late # {}
  <2>1. Numbered(p) /\ Numbered(q) /\ p \in Pids /\ q \in Pids
    BY DEF Numbered, Traced
  <2>2. p \in late \/ q \in late
    BY <1>1, <2>1 DEF Right, Numbers, DistinctOK
  <2> QED
    BY <2>2
<1>2. Counted /\ 1 \notin lost => \A p \in Traced \ late : proc[p].vt_my_trace < conf.streams
  BY DEF Right, Numbers, ToldOK, Numbered, Traced
<1>3. late # {} => lost # {}
  BY DEF Right, Families
<1>4. ASSUME lost = {}, proc # << >>, starts > 0
      PROVE  conf.local = Listed /\ conf.streams = Cardinality(Traced)
  <2>1. 1 \in Pids /\ Pids = 1..Len(proc) /\ Len(proc) \in Nat /\ StageOf(1)
    BY <1>4, PidsFacts DEF TreeType, StageOK
  <2>2. proc[1].at \in Ended
    BY <1>4 DEF TreeType, MasterOK, Ended
  <2>3. \A p \in Pids : p # 1 => ~Alive(p)
    BY <1>4, <2>2, OthersDead DEF Right, Ended, Promising
  <2>4. Traced = Pids
    <3>1. proc[1].init_pid = 1
      BY <2>1 DEF StageOf
    <3> QED
      BY <1>4, <2>3, <3>1 DEF Right, Families, DeadOK, Traced
  <2>5. Cardinality(Traced) = Len(proc)
    BY <2>1, <2>4, FS_Interval
  <2>6. conf.streams = Len(proc)
    BY <1>4, <2>2 DEF Right, Files, CountOK, Ended, Told
  <2>7. conf.local = Listed
    BY <1>4, <2>2 DEF Right, Files, FoundOK
  <2> QED
    BY <2>5, <2>6, <2>7
<1> QED
  BY <1>1, <1>2, <1>3, <1>4 DEF StreamsRight, Listed

\* Every process that takes its number in time has one of its own and is among the
\* streams vtunify is told of; if no process is stopped, nobody is late, and vtunify
\* finds the files of exactly these processes (vt_fork.c, write_uctl_file).
THEOREM StreamsAlwaysRight == TreeSpec => []StreamsRight
<1>1. TreeInit => AllTypes /\ Right
  BY TypesInit, RightInit
<1>2. AllTypes /\ Right /\ [TreeNext]_allVars => AllTypes' /\ Right'
  <2> SUFFICES ASSUME AllTypes, Right, [TreeNext]_allVars PROVE AllTypes' /\ Right'
    OBVIOUS
  <2>1. TreeType
    BY DEF AllTypes
  <2> QED
    BY <2>1, TypesStep, TypesUnify, TypesStutter, RightStep, RightUnify, RightStutter DEF TreeNext
<1>3. AllTypes /\ Right => StreamsRight
  BY RightImplies DEF AllTypes
<1> QED
  BY <1>1, <1>2, <1>3, PTL DEF TreeSpec

------------------------------------------------------------------------------
(* What the programs of the ranks have in common, and what is in them.     *)

\* The steps of two parts.
LEMMA ToSetConcat ==
  ASSUME NEW S, NEW s \in Seq(S), NEW t \in Seq(S)
  PROVE  ToSet(s \o t) = ToSet(s) \cup ToSet(t)
<1>1. /\ Len(s) \in Nat /\ Len(t) \in Nat /\ DOMAIN s = 1..Len(s) /\ DOMAIN t = 1..Len(t)
      /\ DOMAIN (s \o t) = 1..(Len(s) + Len(t))
      /\ \A i \in 1..Len(s) : (s \o t)[i] = s[i]
      /\ \A i \in 1..Len(t) : (s \o t)[Len(s) + i] = t[i]
  OBVIOUS
<1>2. ASSUME NEW i \in 1..(Len(s) + Len(t)) PROVE (s \o t)[i] \in ToSet(s) \cup ToSet(t)
  <2>1. CASE i \in 1..Len(s)
    BY <1>1, <2>1 DEF ToSet
  <2>2. CASE i \notin 1..Len(s)
    <3>1. i - Len(s) \in 1..Len(t) /\ Len(s) + (i - Len(s)) = i
      BY <1>1, <2>2
    <3>2. (s \o t)[i] = t[i - Len(s)]
      BY <1>1, <3>1
    <3> QED
      BY <1>1, <3>1, <3>2 DEF ToSet
  <2> QED
    BY <2>1, <2>2
<1>3. ASSUME NEW i \in 1..Len(s) PROVE s[i] \in ToSet(s \o t)
  <2>1. i \in DOMAIN (s \o t) /\ (s \o t)[i] = s[i]
    BY <1>1
  <2> QED
    BY <2>1 DEF ToSet
<1>4. ASSUME NEW i \in 1..Len(t) PROVE t[i] \in ToSet(s \o t)
  <2>1. Len(s) + i \in DOMAIN (s \o t) /\ (s \o t)[Len(s) + i] = t[i]
    BY <1>1
  <2> QED
    BY <2>1 DEF ToSet
<1> QED
  BY <1>1, <1>2, <1>3, <1>4 DEF ToSet

\* The steps of short parts.
LEMMA ToSetFacts ==
  /\ \A S : \A s \in Seq(S) : ToSet(s) \subseteq S
  /\ \A x : ToSet(<<x>>) = {x}
  /\ \A x, y : ToSet(<<x, y>>) = {x, y}
BY DEF ToSet

\* What a rank has of its program after its next step.
LEMMA NextOf ==
  ASSUME NEW S, NEW T, NEW q \in Seq(S), NEW t \in Seq(T), q # << >>
  PROVE  /\ q \o t # << >> /\ Head(q \o t) = Head(q) /\ Tail(q \o t) = Tail(q) \o t
         /\ Tail(q) \in Seq(S) /\ Head(q) \in S
         /\ ToSet(q) = {Head(q)} \cup ToSet(Tail(q))
<1>1. PICK U : U = S \cup T
  OBVIOUS
<1>2. q \in Seq(U) /\ t \in Seq(U)
  BY <1>1
<1>3. q \o t # << >> /\ Head(q \o t) = Head(q) /\ Tail(q \o t) = Tail(q) \o t
  BY <1>2
<1>4. Tail(q) \in Seq(S) /\ Head(q) \in S /\ q = <<Head(q)>> \o Tail(q)
  BY TailFacts
<1>5. <<Head(q)>> \in Seq(S)
  BY <1>4, SingleType
<1>6. ToSet(q) = {Head(q)} \cup ToSet(Tail(q))
  <2>1. ToSet(<<Head(q)>> \o Tail(q)) = ToSet(<<Head(q)>>) \cup ToSet(Tail(q))
    BY <1>4, <1>5, ToSetConcat
  <2>2. ToSet(<<Head(q)>>) = {Head(q)}
    BY ToSetFacts
  <2> QED
    BY <1>4, <2>1, <2>2
<1> QED
  BY <1>3, <1>4, <1>6

\* After a part that is empty comes the next one.
LEMMA NextAlone ==
  ASSUME NEW S, NEW t \in Seq(S)
  PROVE  << >> \o t = t
OBVIOUS

\* After a part of one step comes the next one.
LEMMA NextSingle ==
  ASSUME NEW S, NEW t \in Seq(S), NEW x \in S
  PROVE  /\ <<x>> \o t # << >> /\ Head(<<x>> \o t) = x /\ Tail(<<x>> \o t) = t
OBVIOUS

\* A step counts once for the level if it synchronises the error.
LEMMA LevelTail ==
  ASSUME NEW S, NEW s \in Seq(S), s # << >>
  PROVE  Level(s) = Level(Tail(s)) + (IF Head(s).op = "syncError" THEN 1 ELSE 0)
<1>1. Tail(s) \in Seq(S) /\ Head(s) \in S /\ s = <<Head(s)>> \o Tail(s)
  BY TailFacts
<1>2. <<Head(s)>> \in Seq(S)
  BY <1>1, SingleType
<1>3. Level(s) = Level(<<Head(s)>>) + Level(Tail(s))
  BY <1>1, <1>2, LevelConcat
<1>4. Level(<<Head(s)>>) = IF Head(s).op = "syncError" THEN 1 ELSE 0
  <2>1. PICK h : h = Head(s)
    OBVIOUS
  <2>2. DOMAIN <<h>> = {1} /\ <<h>>[1] = h
    OBVIOUS
  <2>3. {i \in DOMAIN <<h>> : <<h>>[i].op = "syncError"} = IF h.op = "syncError" THEN {1} ELSE {}
    BY <2>2
  <2>4. Level(<<h>>) = IF h.op = "syncError" THEN 1 ELSE 0
    BY <2>3, FS_Singleton, FS_EmptySet DEF Level
  <2> QED
    BY <2>1, <2>4
<1>5. Level(Tail(s)) \in Nat /\ Level(<<Head(s)>>) \in Nat
  BY <1>1, <1>2, LevelType
<1> QED
  BY <1>3, <1>4, <1>5

\* What only the master does has no error synchronisation.
LEMMA LevelQuiet ==
  ASSUME NEW S, NEW steps \in Seq(S), \A x \in S : x.op # "syncError", NEW r
  PROVE  Level(MasterDoes(r, steps)) = 0
<1>1. << >> \in Seq(S)
  OBVIOUS
<1>2. Level(steps) = 0 /\ Level(<< >>) = 0
  BY <1>1, LevelZero
<1> QED
  BY <1>2 DEF MasterDoes

\* The first part synchronises the error as often in every rank, and so do the others.
LEMMA PrepareLevel ==
  ASSUME NEW c, IsConf(c), NEW r
  PROVE  Level(Prepare(c, r)) = 1 + Level(shareParams(c)) /\ Level(shareParams(c)) \in Nat
<1>1. PICK S : S = Reads(c)
  OBVIOUS
<1>2. c.streams \in Nat
  BY DEF IsConf
<1>3. shareParams(c) \in Seq(S)
  BY <1>1, <1>2, ShareType DEF shareParams
<1>4. PICK parse, open : parse = <<Do("parseCommandLine")>> /\ open = <<Do("openControl")>>
  OBVIOUS
<1>5. Level(MasterDoes(r, parse)) = 0 /\ Level(MasterDoes(r, open)) = 0
  <2>1. PICK P : P = {Do("parseCommandLine"), Do("openControl")}
    OBVIOUS
  <2>2. \A x \in P : x.op # "syncError"
    BY <2>1, OpFields
  <2>3. parse \in Seq(P) /\ open \in Seq(P)
    BY <1>4, <2>1
  <2> QED
    BY <2>2, <2>3, LevelQuiet
<1>6. /\ MasterDoes(r, parse) \in Seq(S) /\ MasterDoes(r, open) \in Seq(S) /\ <<Sync>> \in Seq(S)
  <2>1. parse \in Seq(S) /\ open \in Seq(S) /\ <<Sync>> \in Seq(S)
    BY <1>1, <1>2, <1>4, ReadsType, SingleType
  <2> QED
    BY <2>1, MasterType
<1>7. getParams(c, r) = (MasterDoes(r, parse) \o <<Sync>>) \o shareParams(c)
  BY <1>4 DEF getParams, Sync
<1>8. MasterDoes(r, parse) \o <<Sync>> \in Seq(S)
  BY <1>6, ConcatType
<1>9. Level(MasterDoes(r, parse) \o <<Sync>>) = 0 + 1
  BY <1>5, <1>6, LevelConcat, LevelOne
<1>10. Level(getParams(c, r)) = 0 + 1 + Level(shareParams(c)) /\ getParams(c, r) \in Seq(S)
  BY <1>3, <1>7, <1>8, <1>9, LevelConcat, ConcatType
<1>11. Prepare(c, r) = getParams(c, r) \o MasterDoes(r, open)
  BY <1>4 DEF Prepare, OpenPart
<1>12. Level(Prepare(c, r)) = 0 + 1 + Level(shareParams(c)) + 0
  BY <1>5, <1>6, <1>10, <1>11, LevelConcat
<1>13. Level(shareParams(c)) \in Nat
  BY <1>3, LevelType
<1> QED
  BY <1>12, <1>13

\* The error synchronisations do not depend on the rank.
LEMMA UniteLevel ==
  ASSUME NEW c, IsConf(c), NEW r \in RanksOf(c)
  PROVE  Level(Unite(c, r)) = Level(shareUnifyControls(c)) + Level(getMinStartTime(c, 0)) + Level(SyncPart(c))
                              + Level(shareTokenTranslations(c)) + 2
<1>1. PICK S : S = Uniting(c)
  OBVIOUS
<1>2. PICK x1, x2, x3, x4, x5, s, x6, x7 :
        /\ x1 = ReadPart(r) /\ x2 = shareUnifyControls(c) /\ x3 = getMinStartTime(c, r) /\ x4 = SyncPart(c)
        /\ x5 = MasterDoes(r, DefWrites(c)) /\ s = <<Sync>> /\ x6 = shareTokenTranslations(c)
        /\ x7 = EventsRun(c, r)
  OBVIOUS
<1>3. /\ x1 \in Seq(S) /\ x2 \in Seq(S) /\ x3 \in Seq(S) /\ x4 \in Seq(S) /\ x5 \in Seq(S) /\ s \in Seq(S)
      /\ x6 \in Seq(S) /\ x7 \in Seq(S)
  BY <1>1, <1>2, UniteType
<1>4. PICK W : W = Writes(c)
  OBVIOUS
<1>5. \A x \in W : x.op # "syncError"
  BY <1>4 DEF Writes
<1>6. Level(x1) = 0
  <2>1. PICK P : P = {Do("readControl")}
    OBVIOUS
  <2>2. (\A x \in P : x.op # "syncError") /\ <<Do("readControl")>> \in Seq(P)
    BY <2>1, OpFields
  <2> QED
    BY <1>2, <2>2, LevelQuiet DEF ReadPart
<1>7. Level(x5) = 0
  <2>1. DefWrites(c) \in Seq(W)
    BY <1>4, UniteParts
  <2> QED
    BY <1>2, <1>5, <2>1, LevelQuiet
<1>8. Level(x7) = 0
  <2>1. PICK b, e : b = BarrierIfParallel(c) /\ e = EventWrites(c, r)
    OBVIOUS
  <2>2. PICK R : R = Reads(c)
    OBVIOUS
  <2>3. PICK d, B : d = Do("Barrier") /\ B = {d}
    OBVIOUS
  <2>4. b \in Seq(B) /\ \A x \in B : x.op # "syncError"
    <3>1. d.op = "Barrier"
      BY <2>3, OpFields
    <3>2. b = <<d>> \/ b = << >>
      BY <2>1, <2>3 DEF BarrierIfParallel
    <3>3. <<d>> \in Seq(B) /\ << >> \in Seq(B)
      BY <2>3
    <3> QED
      BY <2>3, <3>1, <3>2, <3>3
  <2>5. e \in Seq(W)
    BY <1>4, <2>1, UniteParts
  <2>6. Level(b) = 0 /\ Level(e) = 0
    BY <1>5, <2>4, <2>5, LevelZero
  <2>7. PICK U : U = B \cup W
    OBVIOUS
  <2>8. b \in Seq(U) /\ e \in Seq(U)
    BY <2>4, <2>5, <2>7, SeqSubset
  <2>9. b \o e \in Seq(U) /\ Level(b \o e) = 0 + 0
    BY <2>6, <2>8, ConcatType, LevelConcat
  <2>10. Level((b \o e) \o b) = 0 + 0 + 0
    BY <2>6, <2>8, <2>9, LevelConcat
  <2>11. x7 = (b \o e) \o b
    BY <1>2, <2>1, EventsRunIs
  <2> QED
    BY <2>10, <2>11
<1>9. PICK u1, u2, u3, u4, u5, u6, u7 :
        /\ u1 = x1 \o s /\ u2 = u1 \o x2 /\ u3 = u2 \o x3 /\ u4 = u3 \o x4 /\ u5 = u4 \o x5
        /\ u6 = u5 \o s /\ u7 = u6 \o x6 /\ Unite(c, r) = u7 \o x7
  BY <1>2 DEF Unite
<1>10. u1 \in Seq(S)
  BY <1>3, <1>9, ConcatType
<1>11. u2 \in Seq(S)
  BY <1>3, <1>9, <1>10, ConcatType
<1>12. u3 \in Seq(S)
  BY <1>3, <1>9, <1>11, ConcatType
<1>13. u4 \in Seq(S)
  BY <1>3, <1>9, <1>12, ConcatType
<1>14. u5 \in Seq(S)
  BY <1>3, <1>9, <1>13, ConcatType
<1>15. u6 \in Seq(S)
  BY <1>3, <1>9, <1>14, ConcatType
<1>16. u7 \in Seq(S)
  BY <1>3, <1>9, <1>15, ConcatType
<1>17. Level(s) = 1
  BY <1>2, LevelOne
<1>18. PICK n2, n3, n4, n6 : n2 = Level(x2) /\ n3 = Level(x3) /\ n4 = Level(x4) /\ n6 = Level(x6)
  OBVIOUS
<1>19. n2 \in Nat /\ n3 \in Nat /\ n4 \in Nat /\ n6 \in Nat
  BY <1>3, <1>18, LevelType
<1>20. Level(u1) = 1
  BY <1>3, <1>6, <1>9, <1>17, <1>19, LevelConcat
<1>21. Level(u2) = 1 + n2
  BY <1>3, <1>9, <1>10, <1>18, <1>20, LevelConcat
<1>22. Level(u3) = 1 + n2 + n3
  BY <1>3, <1>9, <1>11, <1>18, <1>21, LevelConcat
<1>23. Level(u4) = 1 + n2 + n3 + n4
  BY <1>3, <1>9, <1>12, <1>18, <1>22, LevelConcat
<1>24. PICK m : m = 1 + n2 + n3 + n4 /\ m \in Nat
  BY <1>19
<1>25. Level(u5) = m
  <2>1. Level(u4 \o x5) = Level(u4) + Level(x5)
    BY <1>3, <1>13, LevelConcat
  <2> QED
    BY <1>7, <1>9, <1>23, <1>24, <2>1
<1>26. Level(u6) = m + 1
  <2>1. Level(u5 \o s) = Level(u5) + Level(s)
    BY <1>3, <1>9, <1>14, LevelConcat
  <2> QED
    BY <1>9, <1>17, <1>24, <1>25, <2>1
<1>27. Level(u7) = m + 1 + n6
  BY <1>3, <1>9, <1>15, <1>18, <1>26, LevelConcat
<1>29. m + 1 + n6 \in Nat
  BY <1>19, <1>24
<1>30. Level(Unite(c, r)) = m + 1 + n6
  <2>1. Level(u7 \o x7) = Level(u7) + Level(x7)
    BY <1>3, <1>16, LevelConcat
  <2> QED
    BY <1>8, <1>9, <1>27, <1>29, <2>1
<1>28. getMinStartTime(c, r) = getMinStartTime(c, 0)
  BY DEF getMinStartTime, shareMinStartTime
<1> QED
  BY <1>2, <1>18, <1>19, <1>24, <1>28, <1>30

\* From the clean-up on there are two error synchronisations.
LEMMA FinishLevel ==
  ASSUME NEW c, IsConf(c), NEW r \in RanksOf(c)
  PROVE  Level(AfterUnite(c, r)) = 2
<1>1. PICK S, T : S = OpsOf(c) /\ T = {WriteControl} \cup (Removes(c) \cup {RemoveControl}) \cup Renames(c)
  OBVIOUS
<1>2. \A x \in T : x.op # "syncError"
  BY <1>1, OpFields DEF WriteControl, RemoveControl, Removes, Renames
<1>3. <<WriteControl>> \in Seq(T) /\ RemovePart(c) \in Seq(T) /\ RenamePart(c) \in Seq(T)
  <2>1. PICK R : R = Removes(c) \cup {RemoveControl}
    OBVIOUS
  <2>2. R \subseteq T /\ Renames(c) \subseteq T /\ WriteControl \in T
    BY <1>1, <2>1
  <2>3. RemovePart(c) \in Seq(R) /\ RenamePart(c) \in Seq(Renames(c))
    BY <2>1, CleanUpParts
  <2> QED
    BY <2>2, <2>3, SeqSubset, SingleType
<1>4. PICK steps : steps = writeMasterControl \o cleanUp(c)
  OBVIOUS
<1>5. steps \in Seq(T)
  <2>1. RemovePart(c) \o RenamePart(c) \in Seq(T)
    BY <1>3, ConcatType
  <2>2. <<WriteControl>> \o (RemovePart(c) \o RenamePart(c)) \in Seq(T)
    BY <1>3, <2>1, ConcatType
  <2> QED
    BY <1>4, <2>2, FinishType
<1>6. Level(EndPart(c, r)) = 0
  BY <1>2, <1>4, <1>5, LevelQuiet DEF EndPart
<1>7. PICK F : F = Finishing(c)
  OBVIOUS
<1>8. /\ EndPart(c, r) \in Seq(F) /\ <<Sync>> \in Seq(F) /\ <<Do("MPI_Finalize")>> \in Seq(F)
      /\ Finish(c, r) \in Seq(F)
  BY <1>7, FinishType
<1>9. Level(<<Do("MPI_Finalize")>>) = 0
  <2>1. PICK d, D : d = Do("MPI_Finalize") /\ D = {d}
    OBVIOUS
  <2>2. <<d>> \in Seq(D) /\ \A x \in D : x.op # "syncError"
    BY <2>1, OpFields
  <2> QED
    BY <2>1, <2>2, LevelZero
<1>10. EndPart(c, r) \o <<Sync>> \in Seq(F) /\ Level(EndPart(c, r) \o <<Sync>>) = 0 + 1
  BY <1>6, <1>8, LevelOne, LevelConcat, ConcatType
<1>11. Level(Finish(c, r)) = 0 + 1 + 0
  BY <1>8, <1>9, <1>10, LevelConcat DEF Finish
<1>12. Level(<<Sync>> \o Finish(c, r)) = 1 + 1
  <2>1. Level(<<Sync>> \o Finish(c, r)) = Level(<<Sync>>) + Level(Finish(c, r))
    BY <1>8, LevelConcat
  <2> QED
    BY <1>11, <2>1, LevelOne
<1> QED
  BY <1>12 DEF AfterUnite

\* All ranks have as many error synchronisations before them.
LEMMA EqualLevels ==
  ASSUME NEW c, IsConf(c), NEW r \in RanksOf(c)
  PROVE  /\ 0 \in RanksOf(c)
         /\ Level(AfterUnite(c, r)) = Level(AfterUnite(c, 0)) /\ Level(AfterUnite(c, r)) \in Nat
         /\ Level(AfterPrepare(c, r)) = Level(AfterPrepare(c, 0)) /\ Level(AfterPrepare(c, r)) \in Nat
         /\ Level(Program(c, r)) = Level(Program(c, 0)) /\ Level(Program(c, r)) \in Nat
<1>1. 0 \in RanksOf(c)
  BY DEF IsConf, RanksOf
<1>2. PICK S : S = OpsOf(c)
  OBVIOUS
<1>3. ASSUME NEW q \in RanksOf(c)
      PROVE  /\ Level(AfterUnite(c, q)) = 2
             /\ Level(AfterPrepare(c, q)) = 1 + (Level(Unite(c, q)) + 2)
             /\ Level(Program(c, q)) = Level(Prepare(c, q)) + Level(AfterPrepare(c, q))
  <2>1. /\ Prepare(c, q) \in Seq(S) /\ Unite(c, q) \in Seq(S) /\ <<Sync>> \in Seq(S)
        /\ AfterUnite(c, q) \in Seq(S) /\ AfterPrepare(c, q) \in Seq(S)
    BY <1>2, ProgramParts
  <2>2. Level(AfterUnite(c, q)) = 2
    BY FinishLevel
  <2>3. Level(Unite(c, q) \o AfterUnite(c, q)) = Level(Unite(c, q)) + 2
    BY <2>1, <2>2, LevelConcat
  <2>4. Unite(c, q) \o AfterUnite(c, q) \in Seq(S)
    BY <2>1, ConcatType
  <2>5. Level(<<Sync>> \o (Unite(c, q) \o AfterUnite(c, q))) = Level(<<Sync>>) + Level(Unite(c, q) \o AfterUnite(c, q))
    BY <2>1, <2>4, LevelConcat
  <2>6. Level(Prepare(c, q) \o AfterPrepare(c, q)) = Level(Prepare(c, q)) + Level(AfterPrepare(c, q))
    BY <2>1, LevelConcat
  <2> QED
    BY <2>2, <2>3, <2>5, <2>6, LevelOne, ProgramIs DEF AfterPrepare
<1>4. Level(Unite(c, r)) = Level(Unite(c, 0)) /\ Level(Prepare(c, r)) = Level(Prepare(c, 0))
  BY <1>1, UniteLevel, PrepareLevel
<1>5. Level(Unite(c, 0)) \in Nat /\ Level(Prepare(c, 0)) \in Nat
  BY <1>1, ProgramParts, LevelType
<1> QED
  BY <1>1, <1>3, <1>4, <1>5

\* The control file is opened in the first part.
LEMMA OpensControl ==
  ASSUME NEW c, IsConf(c)
  PROVE  Do("openControl") \in ToSet(Prepare(c, 0))
<1>1. PICK d : d = Do("openControl")
  OBVIOUS
<1>2. OpenPart(0) = <<d>>
  BY <1>1 DEF OpenPart, MasterDoes
<1>3. ToSet(Prepare(c, 0)) = ToSet(getParams(c, 0)) \cup ToSet(OpenPart(0))
  BY PrepareType, ToSetConcat DEF Prepare
<1>4. ToSet(<<d>>) = {d}
  BY ToSetFacts
<1> QED
  BY <1>1, <1>2, <1>3, <1>4

\* Where a unified file goes: definitions and markers are those of all streams.
Key(x) == IF x[2] \in {"def", "marker"} THEN 0 ELSE x[1]
WriteOf(x) == File("write", Key(x), x[2])

\* The writing of events and definitions is in this part.
LEMMA UniteWrites ==
  ASSUME NEW c, IsConf(c), NEW r \in RanksOf(c)
  PROVE  ToSet(EventWrites(c, r)) \cup ToSet(MasterDoes(r, DefWrites(c))) \subseteq ToSet(Unite(c, r))
<1>1. PICK S : S = Uniting(c)
  OBVIOUS
<1>2. PICK x1, x2, x3, x4, x5, s, x6, x7 :
        /\ x1 = ReadPart(r) /\ x2 = shareUnifyControls(c) /\ x3 = getMinStartTime(c, r) /\ x4 = SyncPart(c)
        /\ x5 = MasterDoes(r, DefWrites(c)) /\ s = <<Sync>> /\ x6 = shareTokenTranslations(c)
        /\ x7 = EventsRun(c, r)
  OBVIOUS
<1>3. /\ x1 \in Seq(S) /\ x2 \in Seq(S) /\ x3 \in Seq(S) /\ x4 \in Seq(S) /\ x5 \in Seq(S) /\ s \in Seq(S)
      /\ x6 \in Seq(S) /\ x7 \in Seq(S)
  BY <1>1, <1>2, UniteType
<1>4. PICK T : T = Seq(S)
  OBVIOUS
<1>5. \A a, b \in T : Cat(a, b) \in T /\ ToSet(Cat(a, b)) = ToSet(a) \cup ToSet(b)
  BY <1>4, ConcatType, ToSetConcat DEF Cat
<1>6. PICK u4 : u4 = Cat(Cat(Cat(Cat(x1, s), x2), x3), x4) /\ u4 \in T
  <2>1. Cat(Cat(Cat(Cat(x1, s), x2), x3), x4) \in T
    BY <1>3, <1>4, <1>5
  <2> QED
    BY <2>1
<1>7. Unite(c, r) = Cat(Cat(Cat(Cat(u4, x5), s), x6), x7)
  BY <1>2, <1>6 DEF Unite, Cat
<1>8. ToSet(x5) \subseteq ToSet(Cat(Cat(Cat(Cat(u4, x5), s), x6), x7))
  BY <1>3, <1>4, <1>5, <1>6
<1>9. ToSet(x7) \subseteq ToSet(Cat(Cat(Cat(Cat(u4, x5), s), x6), x7))
  BY <1>3, <1>4, <1>5, <1>6
<1>10. ToSet(EventWrites(c, r)) \subseteq ToSet(x7)
  <2>1. PICK b, e : b = BarrierIfParallel(c) /\ e = EventWrites(c, r)
    OBVIOUS
  <2>2. b \in Seq(S) /\ e \in Seq(S)
    <3>1. b \in Seq(Reads(c)) /\ e \in Seq(Writes(c)) /\ Reads(c) \subseteq S /\ Writes(c) \subseteq S
      BY <1>1, <2>1, UniteParts, ReadsType DEF IsConf
    <3> QED
      BY <3>1, SeqSubset
  <2>3. x7 = Cat(Cat(b, e), b)
    BY <1>2, <2>1, EventsRunIs DEF Cat
  <2>4. ToSet(e) \subseteq ToSet(Cat(Cat(b, e), b))
    BY <1>4, <1>5, <2>2
  <2> QED
    BY <2>1, <2>3, <2>4
<1> QED
  BY <1>2, <1>7, <1>8, <1>9, <1>10

\* Every local file has a unified one that some rank writes.
LEMMA Covered ==
  ASSUME NEW c, IsConf(c), NEW x \in c.local
  PROVE  \E r \in RanksOf(c) : WriteOf(x) \in ToSet(Unite(c, r))
<1>1. PICK s, k : s = x[1] /\ k = x[2]
  OBVIOUS
<1>2. s \in 1..c.streams /\ k \in StreamKinds /\ c.streams \in Nat /\ 0 \in RanksOf(c)
  BY <1>1 DEF IsConf, RanksOf
<1>3. MasterDoes(0, DefWrites(c)) = DefWrites(c)
  BY DEF MasterDoes
<1>4. PICK W : W = Writes(c)
  OBVIOUS
<1>5. PICK d, m : d = File("write", 0, "def") /\ m = File("write", 0, "marker")
  OBVIOUS
<1>6. ToSet(DefWrites(c)) = {d, m} \cup ToSet(StatWrites(c))
  <2>1. StatWrites(c) \in Seq(W) /\ <<d, m>> \in Seq(W)
    <3>1. d \in W /\ m \in W
      <4>1. 0 \in 0..c.streams /\ "def" \in StreamKinds /\ "marker" \in StreamKinds
        BY <1>2 DEF StreamKinds
      <4> QED
        BY <1>2, <1>4, <1>5, <4>1, WriteType
    <3> QED
      BY <1>4, <3>1, UniteParts, <1>2
  <2>2. ToSet(<<d, m>> \o StatWrites(c)) = ToSet(<<d, m>>) \cup ToSet(StatWrites(c))
    BY <2>1, ToSetConcat
  <2>3. ToSet(<<d, m>>) = {d, m}
    BY ToSetFacts
  <2> QED
    BY <1>5, <2>2, <2>3 DEF DefWrites
<1>7. CASE k \in {"def", "marker"}
  <2>1. WriteOf(x) \in {d, m}
    BY <1>1, <1>5, <1>7 DEF WriteOf, Key
  <2> QED
    BY <1>2, <1>3, <1>6, <2>1, UniteWrites
<1>8. CASE k = "stats"
  <2>1. WriteOf(x) = StatWrites(c)[s]
    BY <1>1, <1>2, <1>8 DEF WriteOf, Key, StatWrites
  <2>2. WriteOf(x) \in ToSet(StatWrites(c))
    BY <1>2, <2>1 DEF ToSet, StatWrites
  <2> QED
    BY <1>2, <1>3, <1>6, <2>2, UniteWrites
<1>9. CASE k = "events"
  <2>1. PICK r \in RanksOf(c) : Block(c, r)[1] < s /\ s <= Block(c, r)[2]
    BY <1>2, BlockCovers
  <2>2. PICK a, b : a = Block(c, r)[1] /\ b = Block(c, r)[2]
    OBVIOUS
  <2>3. a \in Nat /\ b \in Nat /\ s - a \in 1..b - a /\ a + (s - a) = s
    BY <1>2, <2>1, <2>2, BlockType
  <2>4. EventWrites(c, r)[s - a] = File("write", s, "events") /\ s - a \in DOMAIN EventWrites(c, r)
    BY <2>2, <2>3 DEF EventWrites
  <2>5. WriteOf(x) = File("write", s, "events")
    BY <1>1, <1>9 DEF WriteOf, Key
  <2>6. WriteOf(x) \in ToSet(EventWrites(c, r))
    BY <2>4, <2>5 DEF ToSet
  <2> QED
    BY <2>6, UniteWrites
<1> QED
  BY <1>2, <1>7, <1>8, <1>9 DEF StreamKinds

\* What the first rank does after the local files are removed.
AfterRemove(c) == RenamePart(c) \o (<<Sync>> \o <<Do("MPI_Finalize")>>)
Closing(c) == Calls(c) \cup Renames(c)

\* The master writes the control, removes and renames (cleanUp).
LEMMA MasterFinish ==
  ASSUME NEW c, IsConf(c)
  PROVE  /\ AfterRemove(c) \in Seq(Closing(c)) /\ AfterRemove(c) \in Seq(OpsOf(c))
         /\ RemovePart(c) \o AfterRemove(c) \in Seq(OpsOf(c)) /\ RemovePart(c) \in Seq(OpsOf(c))
         /\ Finish(c, 0) = <<WriteControl>> \o (RemovePart(c) \o AfterRemove(c))
<1>1. PICK S, T : S = OpsOf(c) /\ T = Seq(S)
  OBVIOUS
<1>2. Finishing(c) \subseteq S /\ Closing(c) \subseteq S /\ Calls(c) \subseteq Closing(c) /\ Renames(c) \subseteq Closing(c)
  BY <1>1, FinishingType DEF Closing, Calls, Renames
<1>3. PICK w, a, b, s, m : /\ w = <<WriteControl>> /\ a = RemovePart(c) /\ b = RenamePart(c) /\ s = <<Sync>>
                           /\ m = <<Do("MPI_Finalize")>>
  OBVIOUS
<1>4. w \in T /\ a \in T /\ b \in T /\ s \in T /\ m \in T
  BY <1>1, <1>2, <1>3, FinishType, SeqSubset
<1>5. AfterRemove(c) \in Seq(Closing(c))
  <2>1. <<Sync>> \in Seq(Closing(c)) /\ <<Do("MPI_Finalize")>> \in Seq(Closing(c)) /\ RenamePart(c) \in Seq(Closing(c))
    BY <1>2, FinishingType, SingleType, CleanUpParts, SeqSubset
  <2>2. <<Sync>> \o <<Do("MPI_Finalize")>> \in Seq(Closing(c))
    BY <2>1, ConcatType
  <2> QED
    BY <2>1, <2>2, ConcatType DEF AfterRemove
<1>6. \A x, y, z \in T : Cat(x, y) \in T /\ Cat(Cat(x, y), z) = Cat(x, Cat(y, z))
  BY <1>1, CatFacts
<1>7. AfterRemove(c) = Cat(b, Cat(s, m))
  BY <1>3 DEF AfterRemove, Cat
<1>8. EndPart(c, 0) = Cat(w, Cat(a, b))
  BY <1>3, FinishType DEF EndPart, MasterDoes, Cat
<1>9. Finish(c, 0) = Cat(Cat(EndPart(c, 0), s), m)
  BY <1>3 DEF Finish, Cat
<1>10. Cat(Cat(Cat(w, Cat(a, b)), s), m) = Cat(w, Cat(a, Cat(b, Cat(s, m))))
  BY <1>4, <1>6
<1>11. Finish(c, 0) = <<WriteControl>> \o (RemovePart(c) \o AfterRemove(c))
  BY <1>3, <1>7, <1>8, <1>9, <1>10 DEF Cat
<1>12. RemovePart(c) \o AfterRemove(c) \in Seq(OpsOf(c)) /\ AfterRemove(c) \in Seq(OpsOf(c))
  BY <1>1, <1>2, <1>3, <1>4, <1>5, SeqSubset, ConcatType
<1> QED
  BY <1>1, <1>3, <1>4, <1>5, <1>11, <1>12

\* The unified files are written before.
LEMMA WrittenBefore ==
  ASSUME NEW c, IsConf(c), NEW r \in RanksOf(c), NEW x \in c.local
  PROVE  WriteOf(x) \notin ToSet(AfterUnite(c, r))
<1>1. PICK F : F = Finishing(c)
  OBVIOUS
<1>2. AfterUnite(c, r) \in Seq(F)
  BY <1>1, FinishType, ConcatType DEF AfterUnite
<1>3. ToSet(AfterUnite(c, r)) \subseteq F
  BY <1>2, ToSetFacts
<1>4. x[2] \in StreamKinds
  BY DEF IsConf
<1>5. WriteOf(x).op = "write" /\ WriteOf(x).kind \in StreamKinds
  BY <1>4, OpFields DEF WriteOf
<1>6. WriteControl.kind = "otf" /\ RemoveControl.op = "remove" /\ "otf" \notin StreamKinds
  BY OpFields DEF WriteControl, RemoveControl, StreamKinds
<1>7. WriteOf(x) \notin F
  BY <1>1, <1>5, <1>6 DEF Finishing, Calls, Renames, Removes, MPI
<1> QED
  BY <1>3, <1>7

------------------------------------------------------------------------------
(* What is kept on the disk: a local file until its unified one is complete *)
(* and the control file is gone, then the unified one, under its first or  *)
(* its final name.                                                         *)

IsUnified(f) == f \in DOMAIN disk /\ disk[f].state \in Completed
Output(x, tmp, z) == Name(OutPrefix, tmp, Key(x), x[2], z)
Ready(x) == IsUnified(Tmp(Key(x), x[2]))
AllReady == \A x \in conf.local : Ready(x)

LocalsKept ==
  Uctl \in DOMAIN disk \/ ~conf.doclean => \A x \in conf.local : IsLocal(Local(x[1], x[2]))
UnifiedKept ==
  Uctl \notin DOMAIN disk /\ conf.doclean =>
    \A x \in conf.local : \E tmp, z \in BOOLEAN : IsUnified(Output(x, tmp, z))
TmpOK == \A f \in DOMAIN disk : f.tmp = TRUE => f.z = conf.docompress \/ f.kind = "otf"
Kept == LocalsKept /\ UnifiedKept /\ TmpOK

\* What of a file's name tells it from others.
LEMMA KeptNames ==
  /\ \A s, k : /\ Tmp(s, k).tmp = TRUE /\ Tmp(s, k).stream = s /\ Tmp(s, k).kind = k /\ Tmp(s, k).z = conf.docompress
               /\ Local(s, k).tmp = FALSE /\ Local(s, k).prefix = "in" /\ Local(s, k).stream = s /\ Local(s, k).kind = k
  /\ \A x, z : \A tmp \in BOOLEAN : /\ Output(x, tmp, z).tmp = tmp /\ Output(x, tmp, z).stream = Key(x)
                                    /\ Output(x, tmp, z).kind = x[2] /\ Output(x, tmp, z).prefix = OutPrefix
<1>1. ASSUME NEW s, NEW k
      PROVE  /\ Tmp(s, k).tmp = TRUE /\ Tmp(s, k).stream = s /\ Tmp(s, k).kind = k /\ Tmp(s, k).z = conf.docompress
             /\ Local(s, k).tmp = FALSE /\ Local(s, k).prefix = "in" /\ Local(s, k).stream = s /\ Local(s, k).kind = k
  BY DEF Tmp, Local, Name
<1>2. ASSUME NEW x, NEW z, NEW tmp \in BOOLEAN
      PROVE  /\ Output(x, tmp, z).tmp = tmp /\ Output(x, tmp, z).stream = Key(x)
             /\ Output(x, tmp, z).kind = x[2] /\ Output(x, tmp, z).prefix = OutPrefix
  BY DEF Output, Name
<1> QED
  BY <1>1, <1>2

\* What the run says of the names.
LEMMA KeptConf ==
  ASSUME IsConf(conf)
  PROVE  /\ ~conf.doclean => OutPrefix = "out"
         /\ conf.docompress \in BOOLEAN /\ conf.doclean \in BOOLEAN
         /\ \A x \in conf.local : /\ x[1] \in 1..conf.streams /\ x[2] \in StreamKinds /\ conf.streams \in Nat
                                  /\ Key(x) \in 0..conf.streams
<1>1. ~conf.doclean => OutPrefix = "out"
  BY DEF IsConf, OutPrefix
<1>2. ASSUME NEW x \in conf.local
      PROVE  /\ x[1] \in 1..conf.streams /\ x[2] \in StreamKinds /\ conf.streams \in Nat
             /\ Key(x) \in 0..conf.streams
  BY DEF IsConf, Key
<1> QED
  BY <1>1, <1>2 DEF IsConf

\* What is kept on the disk is kept if nothing changes.
LEMMA KeptSame ==
  ASSUME Kept, conf' = conf, disk' = disk
  PROVE  /\ Kept'
         /\ Uctl' = Uctl /\ \A x : Ready(x)' <=> Ready(x)
<1>1. Uctl' = Uctl
  BY DEF Uctl
<1> QED
  BY <1>1 DEF Kept, LocalsKept, UnifiedKept, TmpOK, IsLocal, Local, Output, OutPrefix, IsUnified, Ready, Tmp

\* The names of the files depend on the run only.
LEMMA NamesSame ==
  ASSUME conf' = conf
  PROVE  /\ Uctl' = Uctl /\ OutPrefix' = OutPrefix
         /\ \A s, k : Local(s, k)' = Local(s, k) /\ Tmp(s, k)' = Tmp(s, k)
         /\ \A x, tmp, z : Output(x, tmp, z)' = Output(x, tmp, z)
BY DEF Uctl, OutPrefix, Local, Tmp, Output

\* A unified file is written while the local ones are there.
LEMMA KeptWrite ==
  ASSUME IsConf(conf), Kept, conf' = conf, NEW f, NEW content, DiskPut(f, content), f.tmp = TRUE,
         f.z = conf.docompress \/ f.kind = "otf", Uctl \in DOMAIN disk \/ ~conf.doclean
  PROVE  /\ Kept' /\ (Uctl \in DOMAIN disk' <=> Uctl \in DOMAIN disk)
         /\ content.state \in Completed \/ f.kind = "otf" =>
              \A x \in conf.local : Ready(x) => Ready(x)'
<1>1. Uctl # f /\ \A s, k : Local(s, k) # f
  BY ControlFields, KeptNames
<1>2. Uctl \in DOMAIN disk' <=> Uctl \in DOMAIN disk
  BY <1>1 DEF DiskPut
<1>3. LocalsKept'
  BY <1>1, <1>2, NamesSame DEF Kept, LocalsKept, IsLocal, DiskPut
<1>4. UnifiedKept'
  BY <1>2, NamesSame DEF UnifiedKept
<1>5. TmpOK'
  BY DEF Kept, TmpOK, DiskPut
<1>6. ASSUME content.state \in Completed \/ f.kind = "otf", NEW x \in conf.local, Ready(x) PROVE Ready(x)'
  <2>1. PICK g : g = Tmp(Key(x), x[2])
    OBVIOUS
  <2>2. g \in DOMAIN disk /\ disk[g].state \in Completed /\ g.kind # "otf"
    BY <1>6, <2>1, KeptNames, KeptConf DEF Ready, IsUnified, StreamKinds
  <2>3. g \in DOMAIN disk' /\ disk'[g].state \in Completed
    BY <1>6, <2>2 DEF DiskPut
  <2>4. Tmp(Key(x), x[2])' = g
    BY <2>1, NamesSame
  <2> QED
    BY <2>3, <2>4 DEF Ready, IsUnified
<1> QED
  BY <1>2, <1>3, <1>4, <1>5, <1>6 DEF Kept

\* A file of a stream that vtunify has not found is moved.
LEMMA KeptMove ==
  ASSUME IsConf(conf), Kept, conf' = conf, NEW s \in Nat \ {0}, NEW k, NEW content,
         DiskPut(Local(s, k), content), <<s, k>> \notin conf.local,
         conf.local \subseteq (1..conf.streams) \X StreamKinds
  PROVE  /\ Kept' /\ (Uctl \in DOMAIN disk' <=> Uctl \in DOMAIN disk)
         /\ \A x \in conf.local : (Ready(x)' <=> Ready(x)) /\ (Tmp(Key(x), x[2]) \in DOMAIN disk' <=> Tmp(Key(x), x[2]) \in DOMAIN disk)
<1>1. PICK f : f = Local(s, k)
  OBVIOUS
<1>2. Uctl # f /\ f.tmp = FALSE /\ f.stream = s /\ f.kind = k /\ f.prefix = "in"
  BY <1>1, ControlFields, KeptNames
<1>3. Uctl \in DOMAIN disk' <=> Uctl \in DOMAIN disk
  BY <1>1, <1>2 DEF DiskPut
<1>4. \A x \in conf.local : x[1] # s \/ x[2] # k
  BY DEF IsConf
<1>5. LocalsKept'
  <2>1. ASSUME NEW x \in conf.local PROVE Local(x[1], x[2]) # f
    BY <1>2, <1>4, KeptNames
  <2> QED
    BY <1>1, <1>3, <2>1, NamesSame DEF Kept, LocalsKept, IsLocal, DiskPut
<1>6. UnifiedKept'
  <2>1. ASSUME NEW x \in conf.local, NEW tmp \in BOOLEAN, NEW z \in BOOLEAN PROVE Output(x, tmp, z) # f
    <3>1. Key(x) # s \/ x[2] # k
      BY <1>4 DEF Key
    <3> QED
      BY <1>2, <3>1, KeptNames
  <2> QED
    BY <1>1, <1>3, <2>1, NamesSame DEF Kept, UnifiedKept, IsUnified, DiskPut
<1>7. TmpOK'
  BY <1>1, <1>2 DEF Kept, TmpOK, DiskPut
<1>8. ASSUME NEW x \in conf.local
      PROVE  (Ready(x)' <=> Ready(x)) /\ (Tmp(Key(x), x[2]) \in DOMAIN disk' <=> Tmp(Key(x), x[2]) \in DOMAIN disk)
  <2>1. PICK g : g = Tmp(Key(x), x[2])
    OBVIOUS
  <2>2. g # f
    BY <1>2, <2>1, KeptNames
  <2>3. Tmp(Key(x), x[2])' = g
    BY <2>1, NamesSame
  <2> QED
    BY <1>1, <2>1, <2>2, <2>3 DEF Ready, IsUnified, DiskPut
<1> QED
  BY <1>3, <1>5, <1>6, <1>7, <1>8 DEF Kept

\* The control file, and then a local file, is removed when all is unified.
LEMMA KeptRemove ==
  ASSUME IsConf(conf), Kept, conf' = conf, NEW f, DiskGone(f), f.tmp = FALSE, AllReady, conf.doclean,
         f = Uctl \/ Uctl \notin DOMAIN disk
  PROVE  Kept' /\ AllReady' /\ Uctl \notin DOMAIN disk'
<1>1. Uctl \notin DOMAIN disk'
  BY DEF DiskGone
<1>2. ASSUME NEW x \in conf.local PROVE Ready(x)'
  <2>1. PICK g : g = Tmp(Key(x), x[2])
    OBVIOUS
  <2>2. g # f /\ g \in DOMAIN disk /\ disk[g].state \in Completed
    BY <2>1, KeptNames DEF AllReady, Ready, IsUnified
  <2>3. Tmp(Key(x), x[2])' = g
    BY <2>1, NamesSame
  <2> QED
    BY <2>2, <2>3 DEF Ready, IsUnified, DiskGone
<1>3. LocalsKept'
  BY <1>1, NamesSame DEF LocalsKept
<1>4. UnifiedKept'
  <2>1. ASSUME NEW x \in conf.local PROVE IsUnified(Output(x, TRUE, conf.docompress))'
    <3>1. PICK g : g = Tmp(Key(x), x[2])
      OBVIOUS
    <3>2. Output(x, TRUE, conf.docompress)' = Tmp(Key(x), x[2])'
      BY Zenon DEF Output, Tmp
    <3>3. IsUnified(Tmp(Key(x), x[2]))'
      BY <1>2 DEF Ready
    <3> QED
      BY <3>2, <3>3, Zenon DEF IsUnified
  <2>2. conf.docompress \in BOOLEAN
    BY KeptConf
  <2> QED
    BY <2>1, <2>2 DEF UnifiedKept
<1>5. TmpOK'
  BY DEF Kept, TmpOK, DiskGone
<1> QED
  BY <1>1, <1>2, <1>3, <1>4, <1>5 DEF Kept, AllReady

\* What is unified under its first name is complete.
Sound == \A x \in conf.local : Tmp(Key(x), x[2]) \in DOMAIN disk => Ready(x)

\* A unified file gets its final name.
LEMMA KeptRename ==
  ASSUME IsConf(conf), Kept, conf' = conf, NEW s, NEW k \in StreamKinds \cup {"otf"}, NEW z, NEW f, NEW g,
         f = Name(OutPrefix, TRUE, s, k, z), g = Name(OutPrefix, FALSE, s, k, z), DiskMoved(f, g),
         conf.doclean => Uctl \notin DOMAIN disk /\ Sound
  PROVE  Kept' /\ (conf.doclean => Uctl \notin DOMAIN disk' /\ Sound')
<1>1. /\ f.tmp = TRUE /\ f.prefix = OutPrefix /\ f.stream = s /\ f.kind = k /\ f.z = z
      /\ g.tmp = FALSE /\ g.prefix = OutPrefix /\ g.stream = s /\ g.kind = k
  BY DEF Name
<1>2. f # g /\ Uctl # f /\ Uctl # g
  <2>1. k # "uctl"
    BY DEF StreamKinds
  <2> QED
    BY <1>1, <2>1, ControlFields
<1>3. z = conf.docompress \/ k = "otf"
  BY <1>1 DEF Kept, TmpOK, DiskMoved
<1>4. conf.doclean => Uctl \notin DOMAIN disk'
  BY <1>2 DEF DiskMoved
<1>5. LocalsKept'
  <2>1. CASE conf.doclean
    BY <1>4, <2>1, NamesSame DEF LocalsKept
  <2>2. CASE ~conf.doclean
    <3> SUFFICES ASSUME NEW x \in conf.local PROVE IsLocal(Local(x[1], x[2]))'
      BY NamesSame DEF LocalsKept
    <3>1. PICK l : l = Local(x[1], x[2])
      OBVIOUS
    <3>2. l \in DOMAIN disk /\ disk[l].state = "local" /\ Local(x[1], x[2])' = l
      BY <2>2, <3>1, NamesSame DEF Kept, LocalsKept, IsLocal
    <3>3. l.prefix = "in" /\ OutPrefix = "out"
      BY <2>2, <3>1, KeptNames, KeptConf
    <3> QED
      BY <1>1, <3>2, <3>3 DEF IsLocal, DiskMoved
  <2> QED
    BY <2>1, <2>2
<1>6. conf.doclean => Sound'
  <2> SUFFICES ASSUME conf.doclean, NEW x \in conf.local, (Tmp(Key(x), x[2]) \in DOMAIN disk)' PROVE Ready(x)'
    BY DEF Sound
  <2>1. PICK h : h = Tmp(Key(x), x[2])
    OBVIOUS
  <2>2. Tmp(Key(x), x[2])' = h /\ h.tmp = TRUE
    BY <2>1, NamesSame, KeptNames
  <2>3. h \in DOMAIN disk /\ h # f /\ h # g
    BY <1>1, <1>2, <2>2 DEF DiskMoved
  <2>4. disk[h].state \in Completed
    BY <2>1, <2>3 DEF Sound, Ready, IsUnified
  <2> QED
    BY <2>2, <2>3, <2>4 DEF Ready, IsUnified, DiskMoved
<1>7. UnifiedKept'
  <2> SUFFICES ASSUME conf.doclean, NEW x \in conf.local
               PROVE  \E t, y \in BOOLEAN : IsUnified(Output(x, t, y))'
    BY DEF UnifiedKept
  <2>1. PICK t \in BOOLEAN, y \in BOOLEAN : IsUnified(Output(x, t, y))
    BY DEF Kept, UnifiedKept
  <2>2. PICK h : h = Output(x, t, y)
    OBVIOUS
  <2>3. h \in DOMAIN disk /\ disk[h].state \in Completed /\ Output(x, t, y)' = h
    BY <2>1, <2>2, NamesSame DEF IsUnified
  <2>4. CASE h # f /\ h # g
    BY <2>3, <2>4 DEF IsUnified, DiskMoved
  <2>5. CASE ~(h # f /\ h # g)
    <3>1. Key(x) = s /\ x[2] = k /\ k # "otf"
      <4>1. Key(x) = s /\ x[2] = k
        <5>1. h.stream = Key(x) /\ h.kind = x[2]
          BY <2>2, KeptNames
        <5> QED
          BY <1>1, <2>5, <5>1
      <4> QED
        BY <4>1, KeptConf DEF StreamKinds
    <3>2. z = conf.docompress /\ z \in BOOLEAN
      BY <1>3, <3>1, KeptConf
    <3>3. f = Tmp(Key(x), x[2])
      BY <3>1, <3>2, Zenon DEF Tmp
    <3>4. f \in DOMAIN disk /\ disk[f].state \in Completed
      BY <3>3 DEF Sound, Ready, IsUnified, DiskMoved
    <3>5. g \in DOMAIN disk' /\ disk'[g].state \in Completed
      BY <3>4 DEF DiskMoved
    <3>6. PICK no : no = FALSE
      OBVIOUS
    <3>7. Output(x, no, z) = g
      BY <3>1, <3>6, Zenon DEF Output
    <3>8. Output(x, no, z)' = g
      BY <3>7, NamesSame
    <3>9. no \in BOOLEAN
      BY <3>6
    <3> QED
      BY <3>2, <3>5, <3>8, <3>9 DEF IsUnified
  <2> QED
    BY <2>4, <2>5
<1>8. TmpOK'
  BY <1>1 DEF Kept, TmpOK, DiskMoved
<1> QED
  BY <1>4, <1>5, <1>6, <1>7, <1>8 DEF Kept

------------------------------------------------------------------------------
(* How far the ranks are.  They leave a part of their programs together,   *)
(* when all have done the synchronisation of the error that ends it.       *)

NoError == \A r \in Ranks : ~error[r]
Good == ~error[0] /\ conf.doclean

Prepares(r) ==
  \E q \in Seq(Reads(conf)) :
    /\ todo[r] = q \o AfterPrepare(conf, r)
    /\ r = 0 => error[0] \/ Uctl \in DOMAIN disk \/ Do("openControl") \in ToSet(q)
InPrepare == \A r \in Ranks : Prepares(r)

Unites(r) == \E q \in Seq(Uniting(conf)) : todo[r] = q \o AfterUnite(conf, r)
Assured ==
  NoError => \A x \in conf.local : Ready(x) \/ \E r \in Ranks : WriteOf(x) \in ToSet(todo[r])
InUnite == Uctl \in DOMAIN disk /\ Assured /\ \A r \in Ranks : Unites(r)

WritesControl ==
  /\ todo[0] = <<WriteControl>> \o (RemovePart(conf) \o AfterRemove(conf))
  /\ Good => Uctl \in DOMAIN disk /\ AllReady
RemovesControl ==
  /\ conf.doclean /\ todo[0] = RemovePart(conf) \o AfterRemove(conf)
  /\ Good => Uctl \in DOMAIN disk /\ AllReady
RemovesLocals ==
  /\ conf.doclean /\ \E q \in Seq(Removes(conf)) : todo[0] = q \o AfterRemove(conf)
  /\ Good => Uctl \notin DOMAIN disk /\ AllReady
Closes0 ==
  /\ todo[0] \in Seq(Closing(conf))
  /\ Good => Uctl \notin DOMAIN disk /\ Sound
InFinish ==
  /\ \A r \in Ranks \ {0} : todo[r] \in Seq(Calls(conf))
  /\ WritesControl \/ RemovesControl \/ RemovesLocals \/ Closes0

GivenUp == \A r \in Ranks : todo[r] = << >>
Staged == InPrepare \/ InUnite \/ InFinish \/ GivenUp
EqualOK == \A q, r \in Ranks : Level(todo[q]) = Level(todo[r])

\* While the ranks run.
Works == status[0] = "running" => EqualOK /\ Staged

\* How far the ranks are depends on their programs, their errors and these files.
LEMMA StagedSame ==
  ASSUME conf' = conf, todo' = todo, error' = error, Uctl \in DOMAIN disk' <=> Uctl \in DOMAIN disk,
         \A x \in conf.local :
           /\ Ready(x)' <=> Ready(x)
           /\ Tmp(Key(x), x[2]) \in DOMAIN disk' <=> Tmp(Key(x), x[2]) \in DOMAIN disk
  PROVE  Staged => Staged'
<1>1. Uctl' = Uctl /\ Ranks' = Ranks /\ \A s, k : Tmp(s, k)' = Tmp(s, k)
  BY NamesSame DEF Ranks
<1>2. (Good' <=> Good) /\ (NoError' <=> NoError) /\ (AllReady' <=> AllReady) /\ (Sound' <=> Sound)
  BY <1>1 DEF Good, NoError, AllReady, Sound
<1>3. InPrepare => InPrepare'
  BY <1>1 DEF InPrepare, Prepares
<1>4. InUnite => InUnite'
  BY <1>1, <1>2 DEF InUnite, Unites, Assured
<1>5. /\ WritesControl => WritesControl'
      /\ RemovesControl => RemovesControl'
      /\ RemovesLocals => RemovesLocals'
      /\ Closes0 => Closes0'
  BY <1>1, <1>2 DEF WritesControl, RemovesControl, RemovesLocals, Closes0
<1>6. InFinish => InFinish'
  BY <1>1, <1>5 DEF InFinish
<1>7. GivenUp => GivenUp'
  BY <1>1 DEF GivenUp
<1> QED
  BY <1>3, <1>4, <1>6, <1>7 DEF Staged

\* Each part ends with an error synchronisation.
LEMMA AfterHeads ==
  ASSUME NEW c, IsConf(c), NEW r \in RanksOf(c)
  PROVE  /\ AfterPrepare(c, r) # << >> /\ Head(AfterPrepare(c, r)).op = "syncError"
         /\ Tail(AfterPrepare(c, r)) = Unite(c, r) \o AfterUnite(c, r)
         /\ AfterUnite(c, r) # << >> /\ Head(AfterUnite(c, r)).op = "syncError"
         /\ Tail(AfterUnite(c, r)) = Finish(c, r)
<1>1. PICK S : S = OpsOf(c)
  OBVIOUS
<1>2. Unite(c, r) \o AfterUnite(c, r) \in Seq(S) /\ Finish(c, r) \in Seq(S) /\ Sync \in S
  BY <1>1, ProgramParts, ConcatType, FinishingType DEF Calls
<1>3. Sync.op = "syncError"
  BY OpFields DEF Sync
<1>4. \A t \in Seq(S) : <<Sync>> \o t # << >> /\ Head(<<Sync>> \o t) = Sync /\ Tail(<<Sync>> \o t) = t
  BY <1>2, NextSingle
<1> QED
  BY <1>2, <1>3, <1>4 DEF AfterPrepare, AfterUnite

\* The next step of a rank in a part of its program.
LEMMA PreparesTail ==
  ASSUME IsConf(conf), NEW r \in Ranks, NEW q \in Seq(Reads(conf)), q # << >>,
         todo[r] = q \o AfterPrepare(conf, r), conf' = conf, todo'[r] = Tail(todo[r]),
         r = 0 => /\ error[0] \/ Uctl \in DOMAIN disk \/ Do("openControl") \in ToSet(q)
                  /\ error[0] => error'[0]
                  /\ Uctl \in DOMAIN disk => Uctl \in DOMAIN disk'
                  /\ At(0) = Do("openControl") => error'[0] \/ Uctl \in DOMAIN disk'
  PROVE  Prepares(r)' /\ At(r) \in Reads(conf)
<1>1. r \in RanksOf(conf) /\ Uctl' = Uctl
  BY NamesSame DEF Ranks
<1>2. AfterPrepare(conf, r) \in Seq(OpsOf(conf))
  BY <1>1, ProgramParts
<1>3. /\ At(r) = Head(q) /\ todo'[r] = Tail(q) \o AfterPrepare(conf, r)
      /\ Tail(q) \in Seq(Reads(conf)) /\ Head(q) \in Reads(conf)
      /\ ToSet(q) = {Head(q)} \cup ToSet(Tail(q))
  <2>1. PICK t : t = AfterPrepare(conf, r) /\ t \in Seq(OpsOf(conf))
    BY <1>2
  <2>2. /\ Head(q \o t) = Head(q) /\ Tail(q \o t) = Tail(q) \o t
        /\ Tail(q) \in Seq(Reads(conf)) /\ Head(q) \in Reads(conf)
        /\ ToSet(q) = {Head(q)} \cup ToSet(Tail(q))
    BY <2>1, NextOf
  <2> QED
    BY <2>1, <2>2 DEF At
<1>4. r = 0 => error'[0] \/ Uctl \in DOMAIN disk' \/ Do("openControl") \in ToSet(Tail(q))
  BY <1>3
<1>5. Prepares(r)'
  BY <1>1, <1>3, <1>4 DEF Prepares
<1> QED
  BY <1>3, <1>5

\* A step before the control file is open.
LEMMA PreparesNext ==
  ASSUME IsConf(conf), NEW r \in Ranks, Prepares(r), conf' = conf,
         At(r).op # "syncError", todo'[r] = Tail(todo[r]),
         r = 0 => /\ error[0] => error'[0]
                  /\ Uctl \in DOMAIN disk => Uctl \in DOMAIN disk'
                  /\ At(0) = Do("openControl") => error'[0] \/ Uctl \in DOMAIN disk'
  PROVE  Prepares(r)' /\ At(r) \in Reads(conf)
<1>1. PICK q \in Seq(Reads(conf)) :
        /\ todo[r] = q \o AfterPrepare(conf, r)
        /\ r = 0 => error[0] \/ Uctl \in DOMAIN disk \/ Do("openControl") \in ToSet(q)
  BY DEF Prepares
<1>2. r \in RanksOf(conf)
  BY DEF Ranks
<1>3. PICK t : t = AfterPrepare(conf, r) /\ t \in Seq(OpsOf(conf)) /\ Head(t).op = "syncError"
  BY <1>2, ProgramParts, AfterHeads
<1>4. q # << >>
  <2>1. SUFFICES ASSUME q = << >> PROVE FALSE
    OBVIOUS
  <2>2. todo[r] = t
    BY <1>1, <1>3, <2>1, NextAlone
  <2> QED
    BY <1>3, <2>2 DEF At
<1> QED
  BY <1>1, <1>4, PreparesTail

\* A step of the work on the files.
LEMMA UnitesTail ==
  ASSUME IsConf(conf), NEW r \in Ranks, NEW q \in Seq(Uniting(conf)), q # << >>,
         todo[r] = q \o AfterUnite(conf, r), conf' = conf, todo'[r] = Tail(todo[r])
  PROVE  Unites(r)' /\ At(r) \in Uniting(conf) /\ ToSet(todo[r]) = {At(r)} \cup ToSet(todo'[r])
<1>1. r \in RanksOf(conf)
  BY DEF Ranks
<1>2. AfterUnite(conf, r) \in Seq(OpsOf(conf))
  BY <1>1, ProgramParts
<1>3. /\ At(r) = Head(q) /\ todo'[r] = Tail(q) \o AfterUnite(conf, r)
      /\ Tail(q) \in Seq(Uniting(conf)) /\ Head(q) \in Uniting(conf)
      /\ ToSet(q) = {Head(q)} \cup ToSet(Tail(q))
  <2>1. PICK t : t = AfterUnite(conf, r) /\ t \in Seq(OpsOf(conf))
    BY <1>2
  <2>2. /\ Head(q \o t) = Head(q) /\ Tail(q \o t) = Tail(q) \o t
        /\ Tail(q) \in Seq(Uniting(conf)) /\ Head(q) \in Uniting(conf)
        /\ ToSet(q) = {Head(q)} \cup ToSet(Tail(q))
    BY <2>1, NextOf
  <2> QED
    BY <2>1, <2>2 DEF At
<1>4. Unites(r)'
  BY <1>3 DEF Unites
<1>5. ToSet(todo[r]) = {At(r)} \cup ToSet(todo'[r])
  <2>1. Uniting(conf) \subseteq OpsOf(conf)
    BY ReadsType DEF IsConf
  <2>2. q \in Seq(OpsOf(conf)) /\ Tail(q) \in Seq(OpsOf(conf))
    BY <1>3, <2>1, SeqSubset
  <2>3. PICK t, u, S : t = AfterUnite(conf, r) /\ u = Tail(q) /\ S = OpsOf(conf)
    OBVIOUS
  <2>4. q \in Seq(S) /\ u \in Seq(S) /\ t \in Seq(S)
    BY <1>2, <2>2, <2>3
  <2>5. ToSet(q \o t) = ToSet(q) \cup ToSet(t) /\ ToSet(u \o t) = ToSet(u) \cup ToSet(t)
    BY <2>4, ToSetConcat
  <2>6. ToSet(todo[r]) = ToSet(q \o t) /\ ToSet(todo'[r]) = ToSet(u \o t)
    BY <1>3, <2>3
  <2> QED
    BY <1>3, <2>3, <2>5, <2>6
<1> QED
  BY <1>3, <1>4, <1>5

\* A rank stays in the work on the files until the error synchronisation.
LEMMA UnitesNext ==
  ASSUME IsConf(conf), NEW r \in Ranks, Unites(r), conf' = conf,
         At(r).op # "syncError", todo'[r] = Tail(todo[r])
  PROVE  Unites(r)' /\ At(r) \in Uniting(conf) /\ ToSet(todo[r]) = {At(r)} \cup ToSet(todo'[r])
<1>1. PICK q \in Seq(Uniting(conf)) : todo[r] = q \o AfterUnite(conf, r)
  BY DEF Unites
<1>2. r \in RanksOf(conf)
  BY DEF Ranks
<1>3. PICK t : t = AfterUnite(conf, r) /\ t \in Seq(OpsOf(conf)) /\ Head(t).op = "syncError"
  BY <1>2, ProgramParts, AfterHeads
<1>4. q # << >>
  <2>1. SUFFICES ASSUME q = << >> PROVE FALSE
    OBVIOUS
  <2>2. todo[r] = t
    BY <1>1, <1>3, <2>1, NextAlone
  <2> QED
    BY <1>3, <2>2 DEF At
<1> QED
  BY <1>1, <1>4, UnitesTail

------------------------------------------------------------------------------
(* The ranks work: what is on the disk is kept, and they stay in their part. *)

\* A rank that has failed does nothing; the others do one step.
LEMMA WorkForms ==
  ASSUME RanksOK, NEW r \in Ranks, Work(r)
  PROVE  /\ \/ error[r] /\ disk' = disk /\ error' = error
            \/ ~error[r] /\ At(r).op = "write" /\ WriteFile(r, At(r))
            \/ ~error[r] /\ At(r).op = "remove" /\ RemoveFile(r, At(r))
            \/ ~error[r] /\ At(r).op = "rename" /\ RenameFile(r, At(r))
            \/ ~error[r] /\ At(r).op \notin Changes /\ Read(r, At(r))
         /\ error[r] => error'[r]
         /\ error' = error \/ error'[r]
         /\ NoError' => NoError /\ error' = error
<1>1. /\ \/ error[r] /\ disk' = disk /\ error' = error
         \/ ~error[r] /\ At(r).op = "write" /\ WriteFile(r, At(r))
         \/ ~error[r] /\ At(r).op = "remove" /\ RemoveFile(r, At(r))
         \/ ~error[r] /\ At(r).op = "rename" /\ RenameFile(r, At(r))
         \/ ~error[r] /\ At(r).op \notin Changes /\ Read(r, At(r))
  BY DEF Work, Changes
<1>2. error' \in {error, [error EXCEPT ![r] = TRUE]} /\ error \in [Ranks -> BOOLEAN] /\ conf' = conf
  BY WorkEffect DEF RanksOK
<1>3. (error' = error \/ error'[r]) /\ (error[r] => error'[r])
  BY <1>2
<1>4. NoError' => NoError /\ error' = error
  BY <1>2, <1>3 DEF NoError, Ranks
<1> QED
  BY <1>1, <1>3, <1>4

\* Before the control file is open, a rank only reads.
LEMMA PreparesHead ==
  ASSUME IsConf(conf), NEW r \in Ranks, Prepares(r), At(r).op # "syncError"
  PROVE  At(r) \in Reads(conf)
<1>1. PICK q \in Seq(Reads(conf)) : todo[r] = q \o AfterPrepare(conf, r)
  BY DEF Prepares
<1>2. r \in RanksOf(conf)
  BY DEF Ranks
<1>3. PICK t : t = AfterPrepare(conf, r) /\ t \in Seq(OpsOf(conf)) /\ Head(t).op = "syncError"
  BY <1>2, ProgramParts, AfterHeads
<1>4. CASE q = << >>
  <2>1. todo[r] = t
    BY <1>1, <1>3, <1>4, NextAlone
  <2> QED
    BY <1>3, <2>1 DEF At
<1>5. CASE q # << >>
  <2>1. Head(q \o t) = Head(q) /\ Head(q) \in Reads(conf)
    BY <1>3, <1>5, NextOf
  <2> QED
    BY <1>1, <1>3, <2>1 DEF At
<1> QED
  BY <1>4, <1>5

\* Getting parameters and opening the control file keeps what is on the disk.
LEMMA WorkPrepare ==
  ASSUME RanksOK, IsConf(conf), Kept, InPrepare, NEW r \in Ranks, Work(r)
  PROVE  InPrepare' /\ Kept'
<1>1. /\ At(r).op \notin MPI /\ conf' = conf /\ OnlyRank(r)
  BY WorkEffect
<1>2. At(r).op # "syncError"
  BY <1>1 DEF MPI
<1>3. At(r).op \notin Changes
  BY <1>2, PreparesHead DEF InPrepare, Reads
<1>4. disk' = disk
  BY <1>3, WorkForms, ReadForms DEF Changes
<1>5. Kept' /\ Uctl' = Uctl
  BY <1>1, <1>4, KeptSame
<1>6. ASSUME r = 0, At(0) = Do("openControl") PROVE error'[0] \/ Uctl \in DOMAIN disk'
  <2>1. At(r).op = "openControl"
    BY <1>6, OpFields
  <2>2. error[r] \/ Read(r, At(r))
    BY <2>1, WorkForms
  <2>3. Uctl \in DOMAIN disk \/ error' # error \/ error[r]
    <3>1. CASE Read(r, At(r))
      <4>1. HasFile(Uctl) \/ error' = [error EXCEPT ![r] = TRUE]
        BY <2>1, <3>1 DEF Read, Uctl
      <4> QED
        BY <4>1 DEF HasFile, RanksOK
    <3> QED
      BY <2>2, <3>1
  <2> QED
    BY <1>4, <1>6, <2>3, WorkForms
<1>7. Prepares(r)'
  BY <1>1, <1>2, <1>4, <1>6, PreparesNext, WorkForms DEF InPrepare, OnlyRank
<1>8. ASSUME NEW q \in Ranks, q # r PROVE Prepares(q)'
  <2>1. todo'[q] = todo[q] /\ error'[q] = error[q] /\ Prepares(q)
    BY <1>1, <1>8 DEF OnlyRank, InPrepare
  <2> QED
    BY <1>1, <1>4, <1>5, <2>1 DEF Prepares
<1>9. Ranks' = Ranks
  BY <1>1 DEF Ranks
<1> QED
  BY <1>5, <1>7, <1>8, <1>9 DEF InPrepare

\* The name of the unified file a step writes.
LEMMA TargetIs ==
  ASSUME NEW st
  PROVE  /\ st.kind # "otf" => Target(st) = Tmp(st.stream, st.kind)
         /\ Target(st).tmp = TRUE /\ Target(st).kind = st.kind
         /\ Target(st).z = conf.docompress \/ Target(st).kind = "otf"
<1>1. CASE st.kind = "otf"
  <2>1. PICK f : f = Name(OutPrefix, TRUE, 0, "otf", FALSE)
    OBVIOUS
  <2>2. Target(st) = f
    BY <1>1, <2>1, Zenon DEF Target
  <2>3. f.tmp = TRUE /\ f.kind = "otf"
    BY <2>1 DEF Name
  <2> QED
    BY <1>1, <2>2, <2>3
<1>2. CASE st.kind # "otf"
  <2>1. Target(st) = Tmp(st.stream, st.kind)
    BY <1>2, Zenon DEF Target
  <2> QED
    BY <1>2, <2>1, KeptNames
<1> QED
  BY <1>1, <1>2

\* The local file of what is to be written is there.
LEMMA WriteIsDone ==
  ASSUME IsConf(conf), NEW x \in conf.local, IsLocal(Local(x[1], x[2])), NEW r
  PROVE  Written(r, WriteOf(x)) /\ Target(WriteOf(x)) = Tmp(Key(x), x[2])
<1>1. WriteOf(x).stream = Key(x) /\ WriteOf(x).kind = x[2]
  BY OpFields DEF WriteOf
<1>2. x[1] \in 1..conf.streams /\ x[2] \in StreamKinds
  BY KeptConf
<1>3. x[1] \in LocalFiles(x[2])
  BY <1>2 DEF LocalFiles, HasFile, IsLocal, StreamsOf
<1>4. Written(r, WriteOf(x))
  <2>1. CASE x[2] = "def"
    BY <1>1, <2>1 DEF Written
  <2>2. CASE x[2] = "marker"
    BY <1>1, <1>3, <2>2 DEF Written
  <2>3. CASE x[2] \in {"events", "stats"}
    <3>1. Key(x) = x[1]
      BY <2>3 DEF Key
    <3> QED
      BY <1>1, <1>3, <2>3, <3>1 DEF Written
  <2> QED
    BY <1>2, <2>1, <2>2, <2>3 DEF StreamKinds
<1>5. x[2] # "otf"
  BY <1>2 DEF StreamKinds
<1> QED
  BY <1>1, <1>4, <1>5, TargetIs

\* Writing unified files keeps the local ones.
LEMMA WorkUnite ==
  ASSUME RanksOK, IsConf(conf), Kept, InUnite, NEW r \in Ranks, Work(r)
  PROVE  InUnite' /\ Kept'
<1>1. /\ At(r).op \notin MPI /\ conf' = conf /\ OnlyRank(r)
  BY WorkEffect
<1>2. Ranks' = Ranks /\ At(r).op # "syncError"
  BY <1>1 DEF Ranks, MPI
<1>3. Unites(r)' /\ At(r) \in Uniting(conf) /\ ToSet(todo[r]) = {At(r)} \cup ToSet(todo'[r])
  BY <1>1, <1>2, UnitesNext DEF InUnite, OnlyRank
<1>4. \/ error[r] /\ disk' = disk /\ error' = error
      \/ ~error[r] /\ At(r).op = "write" /\ WriteFile(r, At(r))
      \/ ~error[r] /\ At(r).op \notin Changes /\ disk' = disk
  BY <1>3, WorkForms, ReadForms DEF Uniting
<1>5. \/ disk' = disk
      \/ \E content : DiskPut(Target(At(r)), content) /\ (content.state \in Completed \/ error'[r])
  <2>1. CASE WriteFile(r, At(r))
    <3>1. \A times : \A state \in Completed : Content(state, times).state \in Completed
      BY ContentState
    <3>2. ASSUME error' = [error EXCEPT ![r] = TRUE] PROVE error'[r]
      BY <3>2 DEF RanksOK
    <3> QED
      BY <2>1, <3>1, <3>2, WriteForms
  <2> QED
    BY <1>4, <2>1
<1>6. /\ Kept' /\ Uctl' \in DOMAIN disk'
      /\ NoError' => \A x \in conf.local : Ready(x) => Ready(x)'
  <2>1. CASE disk' = disk
    BY <1>1, <2>1, KeptSame DEF InUnite
  <2>2. ASSUME NEW content, DiskPut(Target(At(r)), content), content.state \in Completed \/ error'[r]
        PROVE  /\ Kept' /\ Uctl' \in DOMAIN disk'
               /\ NoError' => \A x \in conf.local : Ready(x) => Ready(x)'
    <3>1. PICK f : f = Target(At(r)) /\ f.tmp = TRUE /\ (f.z = conf.docompress \/ f.kind = "otf")
      BY TargetIs
    <3>2. Uctl \in DOMAIN disk
      BY DEF InUnite
    <3>3. /\ Kept' /\ (Uctl \in DOMAIN disk' <=> Uctl \in DOMAIN disk)
          /\ content.state \in Completed => \A x \in conf.local : Ready(x) => Ready(x)'
      BY <1>1, <2>2, <3>1, <3>2, KeptWrite
    <3> QED
      BY <1>1, <1>2, <2>2, <3>2, <3>3, NamesSame DEF NoError
  <2> QED
    BY <1>5, <2>1, <2>2
<1>7. ASSUME NoError', NEW x \in conf.local, At(r) = WriteOf(x) PROVE Ready(x)'
  <2>1. ~error[r] /\ error' = error
    BY <1>7, WorkForms DEF NoError
  <2>2. At(r).op = "write"
    BY <1>7, OpFields DEF WriteOf
  <2>3. WriteFile(r, At(r)) /\ ~error'[r]
    BY <1>4, <2>1, <2>2 DEF Changes
  <2>4. IsLocal(Local(x[1], x[2]))
    BY DEF InUnite, Kept, LocalsKept
  <2>5. Written(r, At(r)) /\ Target(At(r)) = Tmp(Key(x), x[2])
    BY <1>7, <2>4, WriteIsDone
  <2>6. PICK state, times : state \in Completed /\ DiskPut(Target(At(r)), Content(state, times))
    <3>1. error' = [error EXCEPT ![r] = TRUE] => error'[r]
      BY DEF RanksOK
    <3> QED
      BY <2>3, <2>5, <3>1, WriteForms
  <2>7. Content(state, times).state \in Completed
    BY <2>6, ContentState
  <2>8. Tmp(Key(x), x[2])' = Tmp(Key(x), x[2])
    BY <1>1, NamesSame
  <2> QED
    BY <2>5, <2>6, <2>7, <2>8 DEF Ready, IsUnified, DiskPut
<1>8. Assured'
  <2> SUFFICES ASSUME NoError', NEW x \in conf.local
               PROVE  Ready(x)' \/ \E q \in Ranks : WriteOf(x) \in ToSet(todo'[q])
    BY <1>1, <1>2 DEF Assured
  <2>1. NoError
    BY WorkForms
  <2>2. CASE Ready(x)
    BY <1>6, <2>2
  <2>3. ASSUME NEW q \in Ranks, WriteOf(x) \in ToSet(todo[q])
        PROVE  Ready(x)' \/ WriteOf(x) \in ToSet(todo'[q])
    <3>1. CASE q = r
      BY <1>3, <1>7, <2>3, <3>1
    <3>2. CASE q # r
      BY <1>1, <2>3, <3>2 DEF OnlyRank
    <3> QED
      BY <3>1, <3>2
  <2> QED
    BY <2>1, <2>2, <2>3 DEF InUnite, Assured
<1>9. ASSUME NEW q \in Ranks, q # r PROVE Unites(q)'
  <2>1. todo'[q] = todo[q] /\ Unites(q)
    BY <1>1, <1>9 DEF OnlyRank, InUnite
  <2> QED
    BY <1>1, <2>1 DEF Unites
<1> QED
  BY <1>2, <1>3, <1>6, <1>8, <1>9 DEF InUnite

\* The first rank's steps at the end.
LEMMA FinishHeads ==
  ASSUME IsConf(conf), todo[0] # << >>
  PROVE  /\ WritesControl => At(0) = WriteControl /\ Tail(todo[0]) = RemovePart(conf) \o AfterRemove(conf)
         /\ RemovesControl => At(0) = RemoveControl /\ Tail(todo[0]) = LocalRemoves(conf) \o AfterRemove(conf)
         /\ RemovesLocals => \/ Closes0
                             \/ /\ At(0) \in Removes(conf)
                                /\ \E q \in Seq(Removes(conf)) : Tail(todo[0]) = q \o AfterRemove(conf)
         /\ Closes0 => At(0) \in Closing(conf) /\ Tail(todo[0]) \in Seq(Closing(conf))
<1>1. PICK S, a, t : S = OpsOf(conf) /\ a = AfterRemove(conf) /\ t = RemovePart(conf) \o AfterRemove(conf)
  OBVIOUS
<1>2. a \in Seq(S) /\ a \in Seq(Closing(conf)) /\ t \in Seq(S)
  BY <1>1, MasterFinish
<1>3. WriteControl \in S /\ RemoveControl \in S
  BY <1>1, FinishingType
<1>4. WritesControl => At(0) = WriteControl /\ Tail(todo[0]) = t
  <2>1. Head(<<WriteControl>> \o t) = WriteControl /\ Tail(<<WriteControl>> \o t) = t
    BY <1>2, <1>3, NextSingle
  <2> QED
    BY <1>1, <2>1 DEF WritesControl, At
<1>5. RemovesControl => At(0) = RemoveControl /\ Tail(todo[0]) = LocalRemoves(conf) \o a
  <2> SUFFICES ASSUME RemovesControl PROVE At(0) = RemoveControl /\ Tail(todo[0]) = LocalRemoves(conf) \o a
    OBVIOUS
  <2>1. PICK l : l = LocalRemoves(conf)
    OBVIOUS
  <2>2. RemovePart(conf) = <<RemoveControl>> \o l /\ todo[0] = RemovePart(conf) \o a
    BY <1>1, <2>1, CleanUpParts DEF RemovesControl
  <2>3. l \in Seq(S)
    <3>1. Removes(conf) \subseteq S
      BY <1>1 DEF Removes
    <3> QED
      BY <2>1, <3>1, CleanUpParts, SeqSubset
  <2>4. l \o a \in Seq(S)
    BY <1>2, <2>3, ConcatType
  <2>5. PICK R : R = RemoveControl /\ R \in S
    BY <1>3
  <2>6. (<<R>> \o l) \o a = <<R>> \o (l \o a)
    BY <1>2, <2>3, <2>5
  <2>7. Head(<<R>> \o (l \o a)) = R /\ Tail(<<R>> \o (l \o a)) = l \o a
    BY <2>4, <2>5, NextSingle
  <2> QED
    BY <2>1, <2>2, <2>5, <2>6, <2>7 DEF At
<1>6. RemovesLocals => \/ Closes0
                       \/ /\ At(0) \in Removes(conf)
                          /\ \E q \in Seq(Removes(conf)) : Tail(todo[0]) = q \o a
  <2> SUFFICES ASSUME RemovesLocals
               PROVE  \/ Closes0
                      \/ /\ At(0) \in Removes(conf)
                         /\ \E q \in Seq(Removes(conf)) : Tail(todo[0]) = q \o a
    OBVIOUS
  <2>1. PICK q \in Seq(Removes(conf)) : todo[0] = q \o a
    BY <1>1 DEF RemovesLocals
  <2>2. CASE q = << >>
    <3>1. todo[0] = a
      BY <1>2, <2>1, <2>2, NextAlone
    <3>2. Good => Sound
      BY DEF RemovesLocals, AllReady, Sound
    <3> QED
      BY <1>2, <3>1, <3>2 DEF Closes0, RemovesLocals
  <2>3. CASE q # << >>
    <3>1. Head(q \o a) = Head(q) /\ Tail(q \o a) = Tail(q) \o a /\ Head(q) \in Removes(conf) /\ Tail(q) \in Seq(Removes(conf))
      BY <1>2, <2>3, NextOf
    <3> QED
      BY <2>1, <3>1 DEF At
  <2> QED
    BY <2>2, <2>3
<1>7. Closes0 => At(0) \in Closing(conf) /\ Tail(todo[0]) \in Seq(Closing(conf))
  BY TailFacts DEF Closes0, At
<1> QED
  BY <1>1, <1>4, <1>5, <1>6, <1>7

\* The control file is removed, or the master has failed.
LEMMA ControlGone ==
  ASSUME RanksOK, NEW r \in Ranks, RemoveFile(r, RemoveControl), Uctl \in DOMAIN disk
  PROVE  DiskGone(Uctl) \/ (disk' = disk /\ error'[r])
<1>1. RemoveControl.stream = 0 /\ RemoveControl.kind = "uctl"
  BY OpFields DEF RemoveControl
<1>2. PICK st : st = RemoveControl
  OBVIOUS
<1>3. Name("in", FALSE, st.stream, st.kind, FALSE) = Uctl
  BY <1>1, <1>2, Zenon DEF Uctl
<1>4. \/ disk' = Without(disk, Uctl)
      \/ error' = [error EXCEPT ![r] = TRUE] /\ disk' = disk
  <2>1. st.kind = "uctl" /\ RemoveFile(r, st)
    BY <1>1, <1>2
  <2> QED
    BY <1>3, <2>1 DEF RemoveFile
<1>5. error' = [error EXCEPT ![r] = TRUE] => error'[r]
  BY DEF RanksOK
<1> QED
  BY <1>4, <1>5, DiskGoneIs

\* Nothing changes on the disk.
LEMMA SoundSame ==
  ASSUME conf' = conf, disk' = disk
  PROVE  /\ Good' => (error[0] \/ Good)
         /\ (AllReady' <=> AllReady) /\ (Sound' <=> Sound)
<1>1. \A s, k : Tmp(s, k)' = Tmp(s, k)
  BY NamesSame
<1> QED
  BY <1>1 DEF Good, AllReady, Sound, Ready, IsUnified

\* The last part: only the first rank has something to do on the disk.
LEMMA WorkFinish ==
  ASSUME RanksOK, IsConf(conf), Kept, InFinish, NEW r \in Ranks, Work(r)
  PROVE  InFinish' /\ Kept'
<1>1. /\ At(r).op \notin MPI /\ conf' = conf /\ OnlyRank(r) /\ todo[r] # << >>
  BY WorkEffect
<1>2. r = 0
  <2>1. SUFFICES ASSUME r # 0 PROVE FALSE
    OBVIOUS
  <2>2. todo[r] \in Seq(Calls(conf))
    BY <2>1 DEF InFinish
  <2>3. At(r) \in Calls(conf)
    BY <1>1, <2>2, TailFacts DEF At
  <2> QED
    BY <1>1, <2>3 DEF Calls
<1>3. Ranks' = Ranks /\ todo'[0] = Tail(todo[0]) /\ todo[0] # << >> /\ At(0).op \notin MPI
  BY <1>1, <1>2 DEF Ranks, OnlyRank
<1>4. \A q \in Ranks \ {0} : todo'[q] \in Seq(Calls(conf))
  BY <1>1, <1>2 DEF OnlyRank, InFinish
<1>5. /\ \/ error[0] /\ disk' = disk /\ error' = error
         \/ ~error[0] /\ At(0).op = "write" /\ WriteFile(0, At(0))
         \/ ~error[0] /\ At(0).op = "remove" /\ RemoveFile(0, At(0))
         \/ ~error[0] /\ At(0).op = "rename" /\ RenameFile(0, At(0))
         \/ ~error[0] /\ At(0).op \notin Changes /\ Read(0, At(0))
      /\ error[0] => error'[0]
      /\ error' = [error EXCEPT ![0] = TRUE] => error'[0]
  <2>1. error' = [error EXCEPT ![0] = TRUE] => error'[0]
    BY <1>2 DEF RanksOK
  <2> QED
    BY <1>2, <2>1, WorkForms
<1>6. (Good' => Good) /\ (~error[0] /\ conf.doclean => Good)
  BY <1>1, <1>5 DEF Good
<1>7. conf.doclean \in BOOLEAN
  BY KeptConf
<1>8. CASE WritesControl
  <2>1. At(0) = WriteControl /\ Tail(todo[0]) = RemovePart(conf) \o AfterRemove(conf)
    BY <1>3, <1>8, FinishHeads
  <2>2. At(0).op = "write" /\ At(0).kind = "otf"
    BY <2>1, OpFields DEF WriteControl
  <2>3. disk' = disk \/ (~error[0] /\ \E content : DiskPut(Target(At(0)), content))
    BY <1>5, <2>2, WriteForms DEF Changes
  <2>4. Kept' /\ (Good' => Uctl' \in DOMAIN disk' /\ AllReady')
    <3>1. CASE disk' = disk
      <4>1. AllReady' <=> AllReady
        BY <1>1, <3>1, SoundSame
      <4> QED
        BY <1>1, <1>6, <1>8, <3>1, <4>1, KeptSame DEF WritesControl
    <3>2. ASSUME ~error[0], NEW content, DiskPut(Target(At(0)), content)
          PROVE  Kept' /\ (Good' => Uctl' \in DOMAIN disk' /\ AllReady')
      <4>1. PICK f : f = Target(At(0)) /\ f.tmp = TRUE /\ f.kind = "otf"
        <5>1. PICK st : st = At(0)
          OBVIOUS
        <5>2. Target(st).tmp = TRUE /\ Target(st).kind = st.kind
          BY TargetIs
        <5> QED
          BY <2>2, <5>1, <5>2
      <4>2. Uctl \in DOMAIN disk \/ ~conf.doclean
        BY <1>6, <1>8, <3>2 DEF WritesControl
      <4>3. /\ Kept' /\ (Uctl \in DOMAIN disk' <=> Uctl \in DOMAIN disk)
            /\ \A x \in conf.local : Ready(x) => Ready(x)'
        BY <1>1, <3>2, <4>1, <4>2, KeptWrite
      <4> QED
        BY <1>1, <1>6, <1>8, <4>3, NamesSame DEF WritesControl, AllReady
    <3> QED
      BY <2>3, <3>1, <3>2
  <2>5. CASE conf.doclean
    <3>1. RemovesControl'
      BY <1>1, <1>3, <2>1, <2>4, <2>5 DEF RemovesControl
    <3> QED
      BY <1>1, <1>3, <1>4, <2>4, <3>1 DEF InFinish
  <2>6. CASE ~conf.doclean
    <3>1. RemovePart(conf) = << >> /\ AfterRemove(conf) \in Seq(Closing(conf))
      BY <2>6, CleanUpParts, MasterFinish
    <3>2. todo'[0] \in Seq(Closing(conf))
      <4>1. PICK a : a = AfterRemove(conf) /\ a \in Seq(Closing(conf))
        BY <3>1
      <4>2. << >> \o a = a
        BY <4>1, NextAlone
      <4> QED
        BY <1>3, <2>1, <3>1, <4>1, <4>2
    <3>3. Closes0'
      BY <1>1, <2>6, <3>2 DEF Closes0, Good
    <3> QED
      BY <1>1, <1>3, <1>4, <2>4, <3>3 DEF InFinish
  <2> QED
    BY <2>5, <2>6
<1>9. CASE RemovesControl
  <2>1. At(0) = RemoveControl /\ Tail(todo[0]) = LocalRemoves(conf) \o AfterRemove(conf) /\ conf.doclean
    BY <1>3, <1>9, FinishHeads DEF RemovesControl
  <2>2. At(0).op = "remove"
    BY <2>1, OpFields DEF RemoveControl
  <2>3. (error[0] /\ disk' = disk) \/ (~error[0] /\ RemoveFile(0, RemoveControl))
    BY <1>5, <2>1, <2>2 DEF Changes
  <2>4. Kept' /\ (Good' => Uctl' \notin DOMAIN disk' /\ AllReady')
    <3>1. CASE disk' = disk /\ error'[0]
      BY <1>1, <3>1, KeptSame DEF Good
    <3>2. CASE ~error[0] /\ RemoveFile(0, RemoveControl)
      <4>1. Uctl \in DOMAIN disk /\ AllReady
        BY <1>6, <1>9, <2>1, <3>2 DEF RemovesControl
      <4>2. CASE DiskGone(Uctl)
        <5>1. Kept' /\ AllReady' /\ Uctl \notin DOMAIN disk'
          BY <1>1, <2>1, <4>1, <4>2, KeptRemove, ControlFields
        <5> QED
          BY <1>1, <5>1, NamesSame
      <4> QED
        BY <1>2, <3>1, <3>2, <4>1, <4>2, ControlGone
    <3> QED
      BY <1>5, <2>3, <3>1, <3>2
  <2>5. LocalRemoves(conf) \in Seq(Removes(conf))
    BY CleanUpParts
  <2>6. RemovesLocals'
    BY <1>1, <1>3, <2>1, <2>4, <2>5 DEF RemovesLocals
  <2> QED
    BY <1>1, <1>3, <1>4, <2>4, <2>6 DEF InFinish
<1>10. CASE Closes0
  <2>1. At(0) \in Closing(conf) /\ Tail(todo[0]) \in Seq(Closing(conf))
    BY <1>3, <1>10, FinishHeads
  <2>2. At(0) \in Renames(conf)
    BY <1>3, <2>1 DEF Closing, Calls
  <2>3. At(0).op = "rename" /\ At(0).kind \in StreamKinds \cup {"otf"}
    BY <2>2 DEF Renames
  <2>4. Kept' /\ (Good' => Uctl' \notin DOMAIN disk' /\ Sound')
    <3>1. CASE disk' = disk
      <4>1. Sound' <=> Sound
        BY <1>1, <3>1, SoundSame
      <4> QED
        BY <1>1, <1>6, <1>10, <3>1, <4>1, KeptSame DEF Closes0
    <3>2. ASSUME ~error[0], NEW z,
                 DiskMoved(Name(OutPrefix, TRUE, At(0).stream, At(0).kind, z),
                           Name(OutPrefix, FALSE, At(0).stream, At(0).kind, z))
          PROVE  Kept' /\ (Good' => Uctl' \notin DOMAIN disk' /\ Sound')
      <4>1. PICK s, k, f, g : /\ s = At(0).stream /\ k = At(0).kind
                              /\ f = Name(OutPrefix, TRUE, s, k, z) /\ g = Name(OutPrefix, FALSE, s, k, z)
        OBVIOUS
      <4>2. DiskMoved(f, g) /\ k \in StreamKinds \cup {"otf"}
        BY <2>3, <3>2, <4>1
      <4>3. conf.doclean => Uctl \notin DOMAIN disk /\ Sound
        BY <1>6, <1>10, <3>2 DEF Closes0
      <4>4. Kept' /\ (conf.doclean => Uctl \notin DOMAIN disk' /\ Sound')
        BY <1>1, <4>1, <4>2, <4>3, KeptRename
      <4> QED
        BY <1>1, <4>4, NamesSame DEF Good
    <3>3. disk' = disk \/ (~error[0] /\ RenameFile(0, At(0)))
      BY <1>5, <2>3 DEF Changes
    <3> QED
      BY <3>1, <3>2, <3>3, RenameForms
  <2>5. Closes0'
    BY <1>1, <1>3, <2>1, <2>4 DEF Closes0
  <2> QED
    BY <1>1, <1>3, <1>4, <2>4, <2>5 DEF InFinish
<1>11. CASE RemovesLocals
  <2>1. \/ Closes0
        \/ /\ At(0) \in Removes(conf)
           /\ \E q \in Seq(Removes(conf)) : Tail(todo[0]) = q \o AfterRemove(conf)
    BY <1>3, <1>11, FinishHeads
  <2>2. CASE At(0) \in Removes(conf) /\ \E q \in Seq(Removes(conf)) : Tail(todo[0]) = q \o AfterRemove(conf)
    <3>1. At(0).op = "remove" /\ conf.doclean
      BY <1>11, <2>2 DEF Removes, RemovesLocals
    <3>2. (error[0] /\ disk' = disk) \/ (~error[0] /\ RemoveFile(0, At(0)))
      BY <1>5, <3>1 DEF Changes
    <3>3. Kept' /\ (Good' => Uctl' \notin DOMAIN disk' /\ AllReady')
      <4>1. CASE disk' = disk /\ error'[0]
        BY <1>1, <4>1, KeptSame DEF Good
      <4>2. ASSUME ~error[0], NEW z, DiskGone(Name("in", FALSE, At(0).stream, At(0).kind, z))
            PROVE  Kept' /\ (Good' => Uctl' \notin DOMAIN disk' /\ AllReady')
        <5>1. PICK f : f = Name("in", FALSE, At(0).stream, At(0).kind, z) /\ f.tmp = FALSE
          <6>1. \A s, k : Name("in", FALSE, s, k, z).tmp = FALSE
            BY DEF Name
          <6> QED
            BY <6>1
        <5>2. Uctl \notin DOMAIN disk /\ AllReady
          BY <1>6, <1>11, <3>1, <4>2 DEF RemovesLocals
        <5>3. Kept' /\ AllReady' /\ Uctl \notin DOMAIN disk'
          BY <1>1, <3>1, <4>2, <5>1, <5>2, KeptRemove
        <5> QED
          BY <1>1, <5>3, NamesSame
      <4>3. CASE disk' = disk /\ error' = error
        <5>1. AllReady' <=> AllReady
          BY <1>1, <4>3, SoundSame
        <5> QED
          BY <1>1, <1>6, <1>11, <4>3, <5>1, KeptSame DEF RemovesLocals
      <4>4. CASE ~error[0] /\ RemoveFile(0, At(0))
        BY <1>5, <4>1, <4>2, <4>3, <4>4, RemoveForms
      <4> QED
        BY <1>5, <3>2, <4>1, <4>4
    <3>4. RemovesLocals'
      BY <1>1, <1>3, <2>2, <3>1, <3>3 DEF RemovesLocals
    <3> QED
      BY <1>1, <1>3, <1>4, <3>3, <3>4 DEF InFinish
  <2> QED
    BY <1>10, <2>1, <2>2
<1> QED
  BY <1>8, <1>9, <1>10, <1>11 DEF InFinish

------------------------------------------------------------------------------
(* The ranks end a part of their programs together.                        *)

\* A step of a rank and the error synchronisations it has before it.
LEMMA LevelsNext ==
  ASSUME RanksOK, NEW r \in Ranks, todo[r] # << >>
  PROVE  /\ Level(Tail(todo[r])) \in Nat
         /\ At(r).op # "syncError" => Level(todo[r]) = Level(Tail(todo[r]))
         /\ At(r).op = "syncError" => Level(todo[r]) = Level(Tail(todo[r])) + 1
<1>1. PICK S : S = OpsOf(conf)
  OBVIOUS
<1>2. todo[r] \in Seq(S)
  BY <1>1 DEF RanksOK
<1>3. Tail(todo[r]) \in Seq(S)
  BY <1>2, TailFacts
<1>4. Level(Tail(todo[r])) \in Nat
  BY <1>3, LevelType
<1>5. Level(todo[r]) = Level(Tail(todo[r])) + (IF At(r).op = "syncError" THEN 1 ELSE 0)
  BY <1>2, LevelTail DEF At
<1> QED
  BY <1>4, <1>5

\* If one rank has ended a part, the other cannot be before its last synchronisation.
LEMMA Together ==
  ASSUME NEW S, NEW p \in Seq(S), NEW q \in Seq(S), NEW a \in Seq(S), NEW b \in Seq(S),
         Level(a) = Level(b), Level(p \o a) = Level(q \o b), p # << >>, Head(p).op = "syncError"
  PROVE  q # << >>
<1>1. SUFFICES ASSUME q = << >> PROVE FALSE
  OBVIOUS
<1>2. Level(q \o b) = Level(b)
  BY <1>1, NextAlone
<1>3. Level(p \o a) = Level(p) + Level(a)
  BY LevelConcat
<1>4. Level(p) \in Nat /\ Level(a) \in Nat
  BY LevelType
<1>5. Level(p) = 0
  BY <1>2, <1>3, <1>4
<1>6. 1 \in DOMAIN p /\ p[1] = Head(p)
  BY TailFacts
<1> QED
  BY <1>5, <1>6, LevelPositive

\* All ranks are at an error synchronisation: all of them have prepared, or none has.
LEMMA TogetherPrepared ==
  ASSUME RanksOK, IsConf(conf), EqualOK, InPrepare, \A r \in Ranks : todo[r] # << >> /\ At(r).op = "syncError"
  PROVE  \/ /\ \A r \in Ranks : todo[r] = AfterPrepare(conf, r)
            /\ error[0] \/ Uctl \in DOMAIN disk
         \/ \A r \in Ranks : \E q \in Seq(Reads(conf)) :
              /\ q # << >> /\ todo[r] = q \o AfterPrepare(conf, r)
              /\ r = 0 => error[0] \/ Uctl \in DOMAIN disk \/ Do("openControl") \in ToSet(q)
<1>1. PICK S : S = OpsOf(conf)
  OBVIOUS
<1>2. Reads(conf) \subseteq S
  BY <1>1, ReadsType DEF IsConf
<1>3. \A r \in Ranks : AfterPrepare(conf, r) \in Seq(S)
  BY <1>1, ProgramParts DEF Ranks
<1>4. 0 \in Ranks
  BY DEF IsConf, Ranks, RanksOf
<1>5. PICK q0 \in Seq(Reads(conf)) :
        /\ todo[0] = q0 \o AfterPrepare(conf, 0)
        /\ error[0] \/ Uctl \in DOMAIN disk \/ Do("openControl") \in ToSet(q0)
  BY <1>4 DEF InPrepare, Prepares
<1>6. PICK a0 : a0 = AfterPrepare(conf, 0) /\ a0 \in Seq(S)
  BY <1>3, <1>4
<1>7. q0 \in Seq(S)
  BY <1>2, SeqSubset
<1>8. q0 # << >> => Head(q0).op = "syncError"
  <2>1. q0 # << >> => Head(q0 \o a0) = Head(q0)
    BY <1>6, <1>7, NextOf
  <2> QED
    BY <1>4, <1>5, <1>6, <2>1 DEF At
<1>9. ASSUME NEW r \in Ranks, NEW q \in Seq(Reads(conf)), todo[r] = q \o AfterPrepare(conf, r)
      PROVE  q = << >> <=> q0 = << >>
  <2>1. PICK a : a = AfterPrepare(conf, r) /\ a \in Seq(S)
    BY <1>3
  <2>2. q \in Seq(S)
    BY <1>2, SeqSubset
  <2>3. q # << >> => Head(q).op = "syncError"
    <3>1. q # << >> => Head(q \o a) = Head(q)
      BY <2>1, <2>2, NextOf
    <3> QED
      BY <1>9, <2>1, <3>1 DEF At
  <2>4. Level(a) = Level(a0)
    BY <1>6, <2>1, EqualLevels DEF Ranks
  <2>5. Level(q \o a) = Level(q0 \o a0)
    BY <1>4, <1>5, <1>6, <1>9, <2>1 DEF EqualOK
  <2>6. q # << >> => q0 # << >>
    BY <1>6, <1>7, <2>1, <2>2, <2>3, <2>4, <2>5, Together
  <2>7. q0 # << >> => q # << >>
    BY <1>6, <1>7, <1>8, <2>1, <2>2, <2>4, <2>5, Together
  <2> QED
    BY <2>6, <2>7
<1>10. CASE q0 = << >>
  <2>1. ASSUME NEW r \in Ranks PROVE todo[r] = AfterPrepare(conf, r)
    <3>1. PICK q \in Seq(Reads(conf)) : todo[r] = q \o AfterPrepare(conf, r)
      BY DEF InPrepare, Prepares
    <3>2. q = << >>
      BY <1>9, <1>10, <3>1
    <3>3. PICK a : a = AfterPrepare(conf, r) /\ a \in Seq(S)
      BY <1>3
    <3>4. << >> \o a = a
      BY <3>3, NextAlone
    <3> QED
      BY <3>1, <3>2, <3>3, <3>4
  <2>2. ToSet(q0) = {}
    BY <1>10 DEF ToSet
  <2> QED
    BY <1>5, <2>1, <2>2
<1>11. CASE q0 # << >>
  <2> SUFFICES ASSUME NEW r \in Ranks
               PROVE  \E q \in Seq(Reads(conf)) :
                        /\ q # << >> /\ todo[r] = q \o AfterPrepare(conf, r)
                        /\ r = 0 => error[0] \/ Uctl \in DOMAIN disk \/ Do("openControl") \in ToSet(q)
    OBVIOUS
  <2>1. PICK q \in Seq(Reads(conf)) :
          /\ todo[r] = q \o AfterPrepare(conf, r)
          /\ r = 0 => error[0] \/ Uctl \in DOMAIN disk \/ Do("openControl") \in ToSet(q)
    BY DEF InPrepare, Prepares
  <2>2. q # << >>
    BY <1>9, <1>11, <2>1
  <2> QED
    BY <2>1, <2>2
<1> QED
  BY <1>10, <1>11

\* All ranks are at an error synchronisation: all of them have written, or none has.
LEMMA TogetherUnited ==
  ASSUME RanksOK, IsConf(conf), EqualOK, InUnite, \A r \in Ranks : todo[r] # << >> /\ At(r).op = "syncError"
  PROVE  \/ \A r \in Ranks : todo[r] = AfterUnite(conf, r)
         \/ \A r \in Ranks : \E q \in Seq(Uniting(conf)) : q # << >> /\ todo[r] = q \o AfterUnite(conf, r)
<1>1. PICK S : S = OpsOf(conf)
  OBVIOUS
<1>2. Uniting(conf) \subseteq S
  BY <1>1, ReadsType DEF IsConf
<1>3. \A r \in Ranks : AfterUnite(conf, r) \in Seq(S)
  BY <1>1, ProgramParts DEF Ranks
<1>4. 0 \in Ranks
  BY DEF IsConf, Ranks, RanksOf
<1>5. PICK q0 \in Seq(Uniting(conf)) : todo[0] = q0 \o AfterUnite(conf, 0)
  BY <1>4 DEF InUnite, Unites
<1>6. PICK a0 : a0 = AfterUnite(conf, 0) /\ a0 \in Seq(S)
  BY <1>3, <1>4
<1>7. q0 \in Seq(S)
  BY <1>2, SeqSubset
<1>8. q0 # << >> => Head(q0).op = "syncError"
  <2>1. q0 # << >> => Head(q0 \o a0) = Head(q0)
    BY <1>6, <1>7, NextOf
  <2> QED
    BY <1>4, <1>5, <1>6, <2>1 DEF At
<1>9. ASSUME NEW r \in Ranks, NEW q \in Seq(Uniting(conf)), todo[r] = q \o AfterUnite(conf, r)
      PROVE  q = << >> <=> q0 = << >>
  <2>1. PICK a : a = AfterUnite(conf, r) /\ a \in Seq(S)
    BY <1>3
  <2>2. q \in Seq(S)
    BY <1>2, SeqSubset
  <2>3. q # << >> => Head(q).op = "syncError"
    <3>1. q # << >> => Head(q \o a) = Head(q)
      BY <2>1, <2>2, NextOf
    <3> QED
      BY <1>9, <2>1, <3>1 DEF At
  <2>4. Level(a) = Level(a0)
    BY <1>6, <2>1, EqualLevels DEF Ranks
  <2>5. Level(q \o a) = Level(q0 \o a0)
    BY <1>4, <1>5, <1>6, <1>9, <2>1 DEF EqualOK
  <2>6. q # << >> => q0 # << >>
    BY <1>6, <1>7, <2>1, <2>2, <2>3, <2>4, <2>5, Together
  <2>7. q0 # << >> => q # << >>
    BY <1>6, <1>7, <1>8, <2>1, <2>2, <2>4, <2>5, Together
  <2> QED
    BY <2>6, <2>7
<1>10. CASE q0 = << >>
  <2>1. ASSUME NEW r \in Ranks PROVE todo[r] = AfterUnite(conf, r)
    <3>1. PICK q \in Seq(Uniting(conf)) : todo[r] = q \o AfterUnite(conf, r)
      BY DEF InUnite, Unites
    <3>2. q = << >>
      BY <1>9, <1>10, <3>1
    <3>3. PICK a : a = AfterUnite(conf, r) /\ a \in Seq(S)
      BY <1>3
    <3>4. << >> \o a = a
      BY <3>3, NextAlone
    <3> QED
      BY <3>1, <3>2, <3>3, <3>4
  <2> QED
    BY <2>1
<1>11. CASE q0 # << >>
  <2> SUFFICES ASSUME NEW r \in Ranks
               PROVE  \E q \in Seq(Uniting(conf)) : q # << >> /\ todo[r] = q \o AfterUnite(conf, r)
    OBVIOUS
  <2>1. PICK q \in Seq(Uniting(conf)) : todo[r] = q \o AfterUnite(conf, r)
    BY DEF InUnite, Unites
  <2>2. q # << >>
    BY <1>9, <1>11, <2>1
  <2> QED
    BY <2>1, <2>2
<1> QED
  BY <1>10, <1>11

------------------------------------------------------------------------------
(* Every step of vtunify keeps what is on the disk.                        *)

\* A rank does a step of its own.
LEMMA WorksWork ==
  ASSUME RanksOK, IsConf(conf), Kept, Works, NEW r \in Ranks, Work(r)
  PROVE  Works' /\ Kept'
<1>1. /\ At(r).op \notin MPI /\ conf' = conf /\ OnlyRank(r) /\ todo[r] # << >>
      /\ status[r] = "running" /\ status' = status
  BY WorkEffect
<1>2. 0 \in Ranks /\ Ranks' = Ranks
  BY <1>1 DEF IsConf, Ranks, RanksOf
<1>3. status[0] = "running" /\ At(r).op # "syncError"
  BY <1>1, <1>2 DEF RanksOK, MPI
<1>4. EqualOK /\ Staged
  BY <1>3 DEF Works
<1>5. Level(todo'[r]) = Level(todo[r])
  BY <1>1, <1>3, LevelsNext DEF OnlyRank
<1>6. EqualOK'
  <2>1. \A q \in Ranks : Level(todo'[q]) = Level(todo[q])
    BY <1>1, <1>5 DEF OnlyRank
  <2> QED
    BY <1>2, <1>4, <2>1 DEF EqualOK
<1>7. ~GivenUp
  BY <1>1 DEF GivenUp
<1>8. Staged' /\ Kept'
  BY <1>4, <1>7, WorkPrepare, WorkUnite, WorkFinish DEF Staged
<1> QED
  BY <1>6, <1>8 DEF Works

\* A barrier or a broadcast ends no part.
LEMMA WorksCollective ==
  ASSUME RanksOK, DiskOK, ConfOK, InsideOK, Kept, Works, Collective
  PROVE  Works' /\ Kept'
<1>1. /\ conf' = conf /\ disk' = disk /\ status' = status /\ error' = error /\ IsConf(conf)
      /\ \A r \in Ranks : todo[r] # << >> /\ At(r).op \in {"Barrier", "Bcast"} /\ todo'[r] = Tail(todo[r])
  BY CollectiveEffect DEF ConfOK
<1>2. 0 \in Ranks /\ Ranks' = Ranks /\ Uctl' = Uctl
  BY <1>1, NamesSame DEF IsConf, Ranks, RanksOf
<1>3. status[0] = "running"
  <2>1. PICK op : Meet(op)
    BY DEF Collective
  <2> QED
    BY <2>1, MeetEffect
<1>4. EqualOK /\ Staged
  BY <1>3 DEF Works
<1>5. Kept' /\ (Good' <=> Good) /\ (NoError' <=> NoError) /\ \A x : Ready(x)' <=> Ready(x)
  BY <1>1, <1>2, KeptSame DEF Good, NoError
<1>6. EqualOK'
  <2>1. \A q \in Ranks : Level(todo'[q]) = Level(todo[q])
    BY <1>1, LevelsNext
  <2> QED
    BY <1>2, <1>4, <2>1 DEF EqualOK
<1>7. CASE InPrepare
  <2>1. ASSUME NEW r \in Ranks PROVE Prepares(r)'
    <3>1. At(r).op # "syncError" /\ At(r) # Do("openControl")
      BY <1>1, OpFields
    <3> QED
      BY <1>1, <1>7, <3>1, PreparesNext DEF InPrepare
  <2> QED
    BY <1>2, <1>5, <1>6, <2>1 DEF InPrepare, Staged, Works
<1>8. CASE InUnite
  <2>1. ASSUME NEW r \in Ranks PROVE Unites(r)' /\ ToSet(todo[r]) = {At(r)} \cup ToSet(todo'[r])
    <3>1. At(r).op # "syncError"
      BY <1>1
    <3> QED
      BY <1>1, <1>8, <3>1, UnitesNext DEF InUnite
  <2>2. Assured'
    <3>1. \A x, r : r \in Ranks => At(r) # WriteOf(x)
      <4>1. \A x : WriteOf(x).op = "write"
        BY OpFields DEF WriteOf
      <4> QED
        BY <1>1, <4>1
    <3> QED
      BY <1>1, <1>2, <1>5, <1>8, <2>1, <3>1 DEF InUnite, Assured
  <2> QED
    BY <1>1, <1>2, <1>5, <1>6, <1>8, <2>1, <2>2 DEF InUnite, Staged, Works
<1>9. CASE InFinish
  <2>1. \A r \in Ranks \ {0} : todo'[r] \in Seq(Calls(conf))
    BY <1>1, <1>9, TailFacts DEF InFinish
  <2>2. At(0).op \in {"Barrier", "Bcast"} /\ todo[0] # << >>
    BY <1>1, <1>2
  <2>3. At(0) # WriteControl /\ At(0) # RemoveControl /\ At(0) \notin Removes(conf)
    BY <2>2, OpFields DEF WriteControl, RemoveControl, Removes
  <2>4. Closes0
    BY <1>1, <1>9, <2>2, <2>3, FinishHeads DEF InFinish
  <2>5. todo'[0] \in Seq(Closing(conf))
    BY <1>1, <1>2, <2>2, <2>4, FinishHeads
  <2>6. Sound' <=> Sound
    BY <1>1, SoundSame
  <2>7. Closes0'
    BY <1>1, <1>2, <1>5, <2>4, <2>5, <2>6 DEF Closes0
  <2> QED
    BY <1>1, <1>2, <1>5, <1>6, <2>1, <2>7 DEF InFinish, Staged, Works
<1>10. ~GivenUp
  BY <1>1, <1>2 DEF GivenUp
<1> QED
  BY <1>4, <1>5, <1>6, <1>7, <1>8, <1>9, <1>10 DEF Staged, Works

\* The error synchronisation: all ranks go on, or all give up.
LEMMA WorksSync ==
  ASSUME RanksOK, DiskOK, ConfOK, InsideOK, Kept, Works, syncError
  PROVE  Works' /\ Kept'
<1>1. /\ conf' = conf /\ disk' = disk /\ status' = status /\ IsConf(conf)
      /\ \A r \in Ranks : todo[r] # << >> /\ At(r).op = "syncError"
      /\ \/ (\A r \in Ranks : todo'[r] = << >>) /\ \A r \in Ranks : error'[r]
         \/ /\ \A r \in Ranks : todo'[r] = Tail(todo[r])
            /\ \A r \in Ranks : ~error[r] /\ ~error'[r]
  BY SyncErrorEffect DEF ConfOK
<1>2. 0 \in Ranks /\ Ranks' = Ranks /\ Uctl' = Uctl
  BY <1>1, NamesSame DEF IsConf, Ranks, RanksOf
<1>3. status[0] = "running"
  <2>1. Meet("syncError")
    BY DEF syncError
  <2> QED
    BY <2>1, MeetEffect
<1>4. EqualOK /\ Staged
  BY <1>3 DEF Works
<1>5. Kept' /\ \A x : Ready(x)' <=> Ready(x)
  BY <1>1, KeptSame
<1>6. CASE \A r \in Ranks : todo'[r] = << >>
  BY <1>2, <1>5, <1>6 DEF GivenUp, Staged, EqualOK, Works
<1>7. CASE /\ \A r \in Ranks : todo'[r] = Tail(todo[r])
           /\ \A r \in Ranks : ~error[r] /\ ~error'[r]
  <2>1. EqualOK'
    <3>1. \A q \in Ranks : Level(todo[q]) = Level(todo'[q]) + 1 /\ Level(todo'[q]) \in Nat
      BY <1>1, <1>7, LevelsNext
    <3>2. ASSUME NEW q \in Ranks, NEW r \in Ranks PROVE Level(todo'[q]) = Level(todo'[r])
      <4>1. PICK m, n : m = Level(todo'[q]) /\ n = Level(todo'[r])
        OBVIOUS
      <4>2. m + 1 = n + 1 /\ m \in Nat /\ n \in Nat
        BY <1>4, <3>1, <4>1 DEF EqualOK
      <4> QED
        BY <4>1, <4>2
    <3> QED
      BY <1>2, <3>2 DEF EqualOK
  <2>2. Good' => Good
    BY <1>1, <1>2, <1>7 DEF Good
  <2>3. CASE InPrepare
    <3>1. CASE \A r \in Ranks : \E q \in Seq(Reads(conf)) :
                 /\ q # << >> /\ todo[r] = q \o AfterPrepare(conf, r)
                 /\ r = 0 => error[0] \/ Uctl \in DOMAIN disk \/ Do("openControl") \in ToSet(q)
      <4>1. ASSUME NEW r \in Ranks PROVE Prepares(r)'
        <5>1. At(r) # Do("openControl")
          BY <1>1, OpFields
        <5>2. PICK q \in Seq(Reads(conf)) :
                /\ q # << >> /\ todo[r] = q \o AfterPrepare(conf, r)
                /\ r = 0 => error[0] \/ Uctl \in DOMAIN disk \/ Do("openControl") \in ToSet(q)
          BY <3>1
        <5> QED
          BY <1>1, <1>2, <1>7, <5>1, <5>2, PreparesTail
      <4> QED
        BY <1>2, <1>5, <2>1, <4>1 DEF InPrepare, Staged, Works
    <3>2. CASE /\ \A r \in Ranks : todo[r] = AfterPrepare(conf, r)
               /\ error[0] \/ Uctl \in DOMAIN disk
      <4>1. Uctl \in DOMAIN disk
        BY <1>2, <1>7, <3>2
      <4>2. ASSUME NEW r \in Ranks
            PROVE  Unites(r)' /\ ToSet(Unite(conf, r)) \subseteq ToSet(todo'[r])
        <5>1. r \in RanksOf(conf)
          BY DEF Ranks
        <5>2. PICK u, a, S : u = Unite(conf, r) /\ a = AfterUnite(conf, r) /\ S = OpsOf(conf)
          OBVIOUS
        <5>3. todo'[r] = u \o a
          BY <1>1, <1>7, <3>2, <5>1, <5>2, AfterHeads
        <5>4. u \in Seq(Uniting(conf)) /\ u \in Seq(S) /\ a \in Seq(S)
          BY <1>1, <5>1, <5>2, UniteType, ProgramParts
        <5>5. ToSet(u \o a) = ToSet(u) \cup ToSet(a)
          BY <5>4, ToSetConcat
        <5> QED
          BY <1>1, <5>2, <5>3, <5>4, <5>5 DEF Unites
      <4>3. Assured'
        <5>1. ASSUME NEW x \in conf.local PROVE \E r \in Ranks : WriteOf(x) \in ToSet(todo'[r])
          <6>1. PICK r \in RanksOf(conf) : WriteOf(x) \in ToSet(Unite(conf, r))
            BY <1>1, Covered
          <6> QED
            BY <4>2, <6>1 DEF Ranks
        <5> QED
          BY <1>1, <1>2, <5>1 DEF Assured
      <4> QED
        BY <1>1, <1>2, <1>5, <2>1, <4>1, <4>2, <4>3 DEF InUnite, Staged, Works
    <3> QED
      BY <1>1, <1>4, <2>3, <3>1, <3>2, TogetherPrepared
  <2>4. CASE InUnite
    <3>1. CASE \A r \in Ranks : \E q \in Seq(Uniting(conf)) : q # << >> /\ todo[r] = q \o AfterUnite(conf, r)
      <4>1. ASSUME NEW r \in Ranks PROVE Unites(r)' /\ ToSet(todo[r]) = {At(r)} \cup ToSet(todo'[r])
        BY <1>1, <1>7, <3>1, UnitesTail
      <4>2. Assured'
        <5>1. \A x, r : r \in Ranks => At(r) # WriteOf(x)
          <6>1. \A x : WriteOf(x).op = "write"
            BY OpFields DEF WriteOf
          <6> QED
            BY <1>1, <6>1
        <5>2. NoError
          BY <1>7 DEF NoError
        <5> QED
          BY <1>1, <1>2, <1>5, <2>4, <4>1, <5>1, <5>2 DEF InUnite, Assured
      <4> QED
        BY <1>1, <1>2, <1>5, <2>1, <2>4, <4>1, <4>2 DEF InUnite, Staged, Works
    <3>2. CASE \A r \in Ranks : todo[r] = AfterUnite(conf, r)
      <4>1. ASSUME NEW r \in Ranks PROVE todo'[r] = Finish(conf, r)
        <5>1. r \in RanksOf(conf)
          BY DEF Ranks
        <5> QED
          BY <1>1, <1>7, <3>2, <5>1, AfterHeads
      <4>2. \A r \in Ranks \ {0} : todo'[r] \in Seq(Calls(conf))
        BY <1>1, <4>1, FinishType
      <4>3. AllReady
        <5>1. NoError
          BY <1>7 DEF NoError
        <5>2. ASSUME NEW x \in conf.local, NEW r \in Ranks PROVE WriteOf(x) \notin ToSet(todo[r])
          BY <1>1, <3>2, WrittenBefore DEF Ranks
        <5> QED
          BY <2>4, <5>1, <5>2 DEF InUnite, Assured, AllReady
      <4>4. AllReady'
        BY <1>1, <1>5, <4>3 DEF AllReady
      <4>5. WritesControl'
        <5>1. todo'[0] = <<WriteControl>> \o (RemovePart(conf) \o AfterRemove(conf))
          BY <1>1, <1>2, <4>1, MasterFinish
        <5> QED
          BY <1>1, <1>2, <2>4, <4>4, <5>1 DEF WritesControl, InUnite
      <4> QED
        BY <1>1, <1>2, <1>5, <2>1, <4>2, <4>5 DEF InFinish, Staged, Works
    <3> QED
      BY <1>1, <1>4, <2>4, <3>1, <3>2, TogetherUnited
  <2>5. CASE InFinish
    <3>1. \A r \in Ranks \ {0} : todo'[r] \in Seq(Calls(conf))
      BY <1>1, <1>7, <2>5, TailFacts DEF InFinish
    <3>2. At(0).op = "syncError" /\ todo[0] # << >>
      BY <1>1, <1>2
    <3>3. At(0) # WriteControl /\ At(0) # RemoveControl /\ At(0) \notin Removes(conf)
      BY <3>2, OpFields DEF WriteControl, RemoveControl, Removes
    <3>4. Closes0
      BY <1>1, <2>5, <3>2, <3>3, FinishHeads DEF InFinish
    <3>5. todo'[0] \in Seq(Closing(conf))
      BY <1>1, <1>2, <1>7, <3>2, <3>4, FinishHeads
    <3>6. Sound' <=> Sound
      BY <1>1, SoundSame
    <3>7. Closes0'
      BY <1>1, <1>2, <2>2, <3>4, <3>5, <3>6 DEF Closes0
    <3> QED
      BY <1>1, <1>2, <1>5, <2>1, <3>1, <3>7 DEF InFinish, Staged, Works
  <2>6. ~GivenUp
    BY <1>1, <1>2 DEF GivenUp
  <2> QED
    BY <1>4, <2>3, <2>4, <2>5, <2>6 DEF Staged
<1> QED
  BY <1>1, <1>6, <1>7

\* A rank goes into a collective operation, or all ranks stop.
LEMMA WorksCalm ==
  ASSUME RanksOK, IsConf(conf), Kept, Works, conf' = conf, disk' = disk,
         \/ todo' = todo /\ error' = error /\ status' = status
         \/ status'[0] # "running"
  PROVE  Works' /\ Kept'
<1>1. Kept' /\ Uctl' = Uctl /\ \A x : Ready(x)' <=> Ready(x)
  BY KeptSame
<1>2. CASE todo' = todo /\ error' = error /\ status' = status
  <2>1. Staged => Staged'
    BY <1>1, <1>2, StagedSame
  <2>2. EqualOK => EqualOK'
    BY <1>2 DEF EqualOK, Ranks
  <2> QED
    BY <1>1, <1>2, <2>1, <2>2 DEF Works
<1>3. CASE status'[0] # "running"
  BY <1>1, <1>3 DEF Works
<1> QED
  BY <1>2, <1>3

\* vtunify begins: it opens the control file, or fails.
LEMMA WorksFresh ==
  ASSUME IsConf(conf'), \A r \in Ranks' : todo'[r] = Program(conf', r)
  PROVE  Works'
<1>1. PICK c : c = conf' /\ IsConf(c) /\ Ranks' = RanksOf(c)
  BY DEF Ranks
<1>2. 0 \in RanksOf(c)
  BY <1>1 DEF IsConf, RanksOf
<1>3. ASSUME NEW r \in RanksOf(c)
      PROVE  /\ todo'[r] = Prepare(c, r) \o AfterPrepare(c, r) /\ Prepare(c, r) \in Seq(Reads(c))
             /\ Level(todo'[r]) = Level(Program(c, 0))
  BY <1>1, ProgramIs, PrepareType, EqualLevels
<1>4. EqualOK'
  BY <1>1, <1>3 DEF EqualOK
<1>5. ASSUME NEW r \in RanksOf(c) PROVE Prepares(r)'
  BY <1>1, <1>3, OpensControl DEF Prepares
<1>6. InPrepare'
  BY <1>1, <1>5 DEF InPrepare
<1> QED
  BY <1>4, <1>6 DEF Works, Staged

\* Every step of vtunify keeps what is on the disk.
LEMMA WorksUnify ==
  ASSUME AllTypes, Kept, Works, UnifyStep
  PROVE  Works' /\ Kept'
<1>1. RanksOK /\ DiskOK /\ InsideOK /\ ConfOK /\ IsConf(conf) /\ 0 \in Ranks
  BY DEF AllTypes, TreeType, ConfOK, IsConf, Ranks, RanksOf
<1>2. ASSUME NEW r \in Ranks, Work(r) PROVE Works' /\ Kept'
  BY <1>1, <1>2, WorksWork
<1>3. ASSUME NEW r \in Ranks, Enter(r) PROVE Works' /\ Kept'
  BY <1>1, <1>3, WorksCalm DEF Enter
<1>4. CASE syncError
  BY <1>1, <1>4, WorksSync
<1>5. CASE Collective
  BY <1>1, <1>5, WorksCollective
<1>6. CASE Finalize
  <2>1. conf' = conf /\ disk' = disk /\ status'[0] = "done"
    BY <1>1, <1>6, FinalizeEffect
  <2> QED
    BY <1>1, <2>1, WorksCalm
<1>7. CASE (\E r \in Ranks : Abort(r)) \/ Kill
  <2>1. conf' = conf /\ disk' = disk /\ status'[0] \in {"failed", "killed"}
    BY <1>1, <1>7, StopEffect
  <2> QED
    BY <1>1, <2>1, WorksCalm
<1>8. CASE (\A p \in Pids : ~Alive(p)) /\ Start
  <2>1. StartWith(conf) /\ starts \in 0..MaxStarts
    BY <1>1, <1>8 DEF RanksOK, Start
  <2>2. /\ conf' = conf /\ disk' = disk
        /\ \A r \in RanksOf(conf) : todo'[r] = Program(conf, r)
    BY <1>1, <2>1, FreshEffect
  <2>3. Works'
    BY <1>1, <2>2, WorksFresh DEF Ranks
  <2> QED
    BY <1>1, <2>2, <2>3, KeptSame
<1> QED
  BY <1>2, <1>3, <1>4, <1>5, <1>6, <1>7, <1>8 DEF UnifyStep

------------------------------------------------------------------------------
(* What a process owes: the files it has still to move are none of those   *)
(* vtunify has found, and they do not exist before vtunify starts.         *)

Owes(p, k) == Numbered(p) /\ (proc[p].at = "reset" \/ Due(p, k))
OwedOK ==
  \A p \in Pids : \A k \in TwoKinds :
    Owes(p, k) => /\ <<proc[p].vt_my_trace + 1, k>> \notin conf.local
                  /\ starts = 0 => ~IsLocal(StreamFile(p, k))
Telling == {"remove", "move", "copy"}
ControlOK == proc # << >> /\ proc[1].at \in Telling => Uctl \in DOMAIN disk

Safe == OwedOK /\ ControlOK /\ Kept /\ Works
Whole == late = {} => Safe

\* Two processes that record have files of their own.
LEMMA FilesApart ==
  ASSUME TreeType, DistinctOK, late = {}, NEW p \in Pids, NEW q \in Pids, Numbered(p), Numbered(q),
         NEW k, NEW x, StreamFile(p, k) = StreamFile(q, x)
  PROVE  p = q /\ k = x
<1>1. k = x /\ proc[p].vt_my_trace + 1 = proc[q].vt_my_trace + 1
  BY StreamNames
<1>2. proc[p].vt_my_trace \in Nat /\ proc[q].vt_my_trace \in Nat
  BY TypeHere, ProcessFields
<1>3. proc[p].vt_my_trace = proc[q].vt_my_trace
  BY <1>1, <1>2
<1> QED
  BY <1>1, <1>3 DEF DistinctOK

\* The steps of other processes than p.
LEMMA OwesOther ==
  ASSUME NEW p \in Pids, Only(p), conf' = conf, NEW q \in Pids, q # p, NEW k
  PROVE  (Owes(q, k)' <=> Owes(q, k)) /\ StreamFile(q, k)' = StreamFile(q, k)
BY DEF Only, Owes, Numbered, Due, StreamFile, Local

\* Most steps: p goes on and owes no more than before.
LEMMA SafeCalm ==
  ASSUME TreeType, RanksOK, Safe, NEW p \in Pids, Only(p), UNCHANGED unifyVars, conf' = conf, disk' = disk,
         \A k \in TwoKinds : Owes(p, k)' => Owes(p, k) /\ proc'[p].vt_my_trace = proc[p].vt_my_trace,
         p = 1 /\ proc'[1].at \in Telling => proc[1].at \in Telling
  PROVE  Safe'
<1>1. Works' /\ Kept'
  <2>1. IsConf(conf) /\ todo' = todo /\ error' = error /\ status' = status
    BY DEF TreeType, ConfOK, unifyVars
  <2> QED
    BY <2>1, WorksCalm DEF Safe
<1>2. Pids' = Pids /\ starts' = starts /\ proc # << >> /\ 1 \in Pids
  BY TypeHere DEF Only, Pids, unifyVars
<1>3. ASSUME NEW q \in Pids, NEW k \in TwoKinds, Owes(q, k)'
      PROVE  /\ Owes(q, k) /\ proc'[q].vt_my_trace = proc[q].vt_my_trace
             /\ StreamFile(q, k)' = StreamFile(q, k)
  <2>1. Owes(q, k) /\ proc'[q].vt_my_trace = proc[q].vt_my_trace
    BY <1>3, OwesOther DEF Only
  <2> QED
    BY <2>1 DEF StreamFile, Local
<1>4. OwedOK'
  BY <1>2, <1>3 DEF Safe, OwedOK, IsLocal
<1>5. Uctl' = Uctl
  BY DEF Uctl
<1>6. ControlOK'
  BY <1>2, <1>5 DEF Safe, ControlOK, Only
<1> QED
  BY <1>1, <1>4, <1>6 DEF Safe

\* exit, exec, childv_add, vt_reset and the end of recording: all is owed as before.
LEMMA SafeRecords ==
  ASSUME TreeType, RanksOK, Safe, NEW p \in Pids, UNCHANGED unifyVars,
         exit(p) \/ exec(p) \/ childv_add(p) \/ vt_reset(p) \/ VTThrd_close(p)
  PROVE  Safe'
<1>1. proc \in Seq(Process) /\ StageOf(p) /\ "close" \in Stages
  BY TypeHere DEF Stages
<1>2. conf' = conf /\ disk' = disk
  BY DEF exit, exec, childv_add, vt_reset, VTThrd_close
<1>3. /\ Only(p) /\ proc'[p].vt_my_trace = proc[p].vt_my_trace
      /\ proc'[p].at \notin Telling /\ proc[p].at \in {"user", "forking", "reset", "close"}
      /\ proc[p].at # "reset" => proc'[p].init_pid = proc[p].init_pid
  <2>1. CASE exit(p)
    BY <1>1, <2>1, GotoEffect DEF exit, Telling
  <2>2. CASE exec(p)
    BY <1>1, <2>2, ExecEffect DEF exec, Telling
  <2>3. CASE childv_add(p)
    BY <1>1, <2>3, ChildEffect DEF childv_add, Telling
  <2>4. CASE vt_reset(p)
    BY <1>1, <2>4, ResetEffect DEF vt_reset, Telling
  <2>5. CASE VTThrd_close(p)
    BY <1>1, <2>5, CloseEffect DEF VTThrd_close, Telling
  <2> QED
    BY <2>1, <2>2, <2>3, <2>4, <2>5
<1>4. \A k : Owes(p, k)
  BY <1>1, <1>3 DEF Owes, Numbered, Due, StageOf, Own
<1> QED
  BY <1>2, <1>3, <1>4, SafeCalm

\* Waiting for the children and removing the file of the numbers change nothing
\* that is owed.
LEMMA SafeWaits ==
  ASSUME TreeType, RanksOK, Safe, NEW p \in Pids, UNCHANGED unifyVars, vt_fork_waitchilds(p) \/ RemoveIdFile(p)
  PROVE  Safe'
<1>1. proc \in Seq(Process) /\ StageOf(p) /\ "move" \in Stages
  BY TypeHere DEF Stages
<1>2. conf' = conf /\ disk' = disk
  BY DEF vt_fork_waitchilds, RemoveIdFile
<1>3. PICK a : a = IF proc[p].vt_my_trace = 0 THEN "control" ELSE "move"
  OBVIOUS
<1>4. /\ Only(p) /\ proc'[p].vt_my_trace = proc[p].vt_my_trace /\ proc'[p].left = proc[p].left
      /\ proc'[p].init_pid = proc[p].init_pid /\ proc'[p].at \in {"control", "move"}
      /\ proc[p].at \in {"wait", "remove"}
      /\ p = 1 /\ proc'[1].at \in Telling => proc[1].at \in Telling
  <2>1. CASE vt_fork_waitchilds(p)
    BY <1>1, <1>3, <2>1, WaitEffect DEF vt_fork_waitchilds, StageOf, Telling
  <2>2. CASE RemoveIdFile(p)
    BY <1>1, <2>2, GotoEffect DEF RemoveIdFile, Telling
  <2> QED
    BY <2>1, <2>2
<1>5. \A k : Owes(p, k)' => Owes(p, k)
  BY <1>4 DEF Owes, Numbered, Due
<1> QED
  BY <1>2, <1>4, <1>5, SafeCalm

\* A process that waits for its number owes nothing yet, one that ends nothing more.
LEMMA SafeOwesNot ==
  ASSUME TreeType, RanksOK, Safe, NEW p \in Pids, UNCHANGED unifyVars,
         OpenIdFile(p) \/ LockIdFile(p) \/ OtherEnds(p) \/ Unified(p) \/ Closed(p)
  PROVE  Safe'
<1>1. proc \in Seq(Process) /\ StageOf(p)
  BY TypeHere
<1>2. conf' = conf /\ disk' = disk
  BY DEF OpenIdFile, LockIdFile, OtherEnds, Unified, Closed
<1>3. Only(p) /\ proc'[p].at \notin Telling /\ \A k : ~Owes(p, k)'
  <2>1. CASE OpenIdFile(p)
    <3>1. proc[p].init_pid # p /\ idfile' \in Nat
      <4>1. idfile \in Nat /\ counter \in Seq(Nat)
        BY DEF TreeType, CounterOK
      <4>2. idfile' = idfile \/ (counter' = Append(counter, 0) /\ idfile' = Len(counter'))
        BY <2>1 DEF OpenIdFile
      <4>3. idfile' \in Nat
        BY <4>1, <4>2
      <4> QED
        BY <1>1, <2>1, <4>3 DEF OpenIdFile, StageOf, Copies
    <3> QED
      BY <1>1, <2>1, <3>1, OpenEffect DEF Telling, Owes, Numbered
  <2>2. CASE LockIdFile(p)
    <3>1. proc[p].init_pid # p /\ proc[p].fd \in DOMAIN counter /\ counter \in Seq(Nat)
      BY <1>1, <2>2, TypeHere DEF LockIdFile, StageOf, Copies, LockOf, TreeType, CounterOK
    <3> QED
      BY <1>1, <2>2, <3>1, LockEffect DEF Telling, Owes, Numbered
  <2>3. CASE OtherEnds(p) \/ Unified(p) \/ Closed(p)
    <3>1. proc' \in {After(p), Dead(p)}
      BY <2>3 DEF OtherEnds, Unified, Closed
    <3>2. Only(p) /\ proc'[p].at \in {"dead", "other"}
      BY <1>1, <3>1, AfterEffect, DeadEffect
    <3> QED
      BY <3>2 DEF Telling, Owes, Due
  <2> QED
    BY <2>1, <2>2, <2>3
<1> QED
  BY <1>2, <1>3, SafeCalm

\* A signal, a kill: a process that closes its trace owes what it owed before.
LEMMA SafeStopped ==
  ASSUME TreeType, RanksOK, Safe, NEW p \in Pids, UNCHANGED unifyVars, vt_close_by_signal(p) \/ KillProcess(p)
  PROVE  Safe'
<1>1. proc \in Seq(Process) /\ "close" \in Stages
  BY TypeHere DEF Stages
<1>2. conf' = conf /\ disk' = disk
  BY DEF vt_close_by_signal, KillProcess
<1>3. CASE proc' = Dead(p)
  <2>1. Only(p) /\ proc'[p].at = "dead"
    BY <1>1, <1>3, DeadEffect
  <2> QED
    BY <1>2, <2>1, SafeCalm DEF Owes, Due, Telling
<1>4. CASE Closes(p) /\ proc' = Goto(p, "close")
  <2>1. /\ Only(p) /\ proc'[p].at = "close" /\ proc'[p].vt_my_trace = proc[p].vt_my_trace
        /\ proc[p].at \in {"user", "forking"} /\ proc[p].init_pid = p
    BY <1>1, <1>4, GotoEffect DEF Closes
  <2>2. \A k : Owes(p, k)
    BY <2>1 DEF Owes, Numbered, Due
  <2>3. proc'[p].at \notin Telling
    BY <2>1 DEF Telling
  <2> QED
    BY <1>2, <2>1, <2>2, <2>3, SafeCalm
<1> QED
  BY <1>3, <1>4 DEF vt_close_by_signal, KillProcess

\* fork: the copy has no number of its own.
LEMMA SafeFork ==
  ASSUME TreeType, RanksOK, Safe, NEW p \in Pids, UNCHANGED unifyVars, fork(p)
  PROVE  Safe'
<1>1. proc[p].at = "user" /\ conf' = conf /\ disk' = disk /\ starts' = starts
  BY DEF fork, unifyVars
<1>2. /\ StageOf(p) /\ proc \in Seq(Process) /\ Len(proc) \in Nat /\ p \in Nat /\ p <= Len(proc)
      /\ proc # << >> /\ 1 \in Pids
  BY TypeHere
<1>3. PICK n : n = Len(proc) + 1
  OBVIOUS
<1>4. /\ DOMAIN proc' = DOMAIN proc \cup {n} /\ n \notin DOMAIN proc
      /\ \A q \in Pids : q # p => proc'[q] = proc[q]
      /\ proc'[p].at = "forking" /\ proc'[p].vt_my_trace = proc[p].vt_my_trace
      /\ proc'[p].init_pid = proc[p].init_pid /\ proc'[n].init_pid = proc[p].init_pid
      /\ proc'[n].at = "open"
  BY <1>2, <1>3, ForkEffect
<1>5. proc[p].init_pid = p /\ Pids' = Pids \cup {n} /\ n # p
  BY <1>1, <1>2, <1>3, <1>4 DEF StageOf, Own, Pids
<1>6. \A k : ~Owes(n, k)'
  BY <1>4, <1>5 DEF Owes, Numbered
<1>7. \A q \in Pids, k \in TwoKinds : /\ Owes(q, k)' => Owes(q, k)
                                      /\ proc'[q].vt_my_trace = proc[q].vt_my_trace
                                      /\ StreamFile(q, k)' = StreamFile(q, k)
  BY <1>1, <1>4, <1>5 DEF StreamFile, Local, Owes, Numbered, Due
<1>8. OwedOK'
  BY <1>1, <1>5, <1>6, <1>7 DEF Safe, OwedOK, IsLocal
<1>9. Uctl' = Uctl
  BY DEF Uctl
<1>10. ControlOK'
  <2>1. proc'[1].at \in Telling => proc[1].at \in Telling
    BY <1>2, <1>4 DEF Telling
  <2> QED
    BY <1>1, <1>2, <1>9, <2>1 DEF Safe, ControlOK
<1>11. Works' /\ Kept'
  <2>1. IsConf(conf) /\ todo' = todo /\ error' = error /\ status' = status
    BY DEF TreeType, ConfOK, unifyVars
  <2> QED
    BY <1>1, <2>1, WorksCalm DEF Safe
<1> QED
  BY <1>8, <1>10, <1>11 DEF Safe

\* A number that is taken before the streams are counted is nobody else's, and no
\* file has it yet.
LEMMA SafeUpdate ==
  ASSUME TreeType, RanksOK, Files, Safe, NEW p \in Pids, UNCHANGED unifyVars, UpdateIdFile(p),
         late' = {}, Numbers'
  PROVE  Safe'
<1>1. /\ proc[p].at = "update" /\ conf' = conf /\ disk' = disk /\ starts' = starts /\ late = {} /\ ~Counted
  BY DEF UpdateIdFile, unifyVars
<1>2. StageOf(p) /\ proc \in Seq(Process) /\ proc # << >> /\ 1 \in Pids /\ p \in Nat
  BY TypeHere
<1>3. /\ Only(p) /\ proc'[p].at = "reset" /\ proc'[p].init_pid = proc[p].init_pid
      /\ proc'[p].vt_my_trace = proc[p].read + 1
  BY <1>2, UpdateEffect
<1>4. p # 1 /\ p \notin Traced
  BY <1>1, <1>2 DEF StageOf, Traced, Copies
<1>5. conf.local = {}
  <2>1. IsConf(conf) /\ conf.streams = 0
    BY <1>1 DEF TreeType, ConfOK, IsConf, Counted
  <2>2. 1..conf.streams = {}
    BY <2>1
  <2> QED
    BY <2>1, <2>2 DEF IsConf
<1>6. Pids' = Pids
  BY <1>3 DEF Only, Pids
<1>7. ASSUME NEW k \in TwoKinds, starts = 0 PROVE ~IsLocal(StreamFile(p, k)')
  <2> SUFFICES ASSUME IsLocal(StreamFile(p, k)') PROVE FALSE
    OBVIOUS
  <2>1. PICK t : t = proc'[p].vt_my_trace /\ t \in Nat
    BY <1>2, <1>3, ProcessFields
  <2>2. PICK f : f = Local(t + 1, k) /\ f = StreamFile(p, k)'
    BY <1>1, <2>1, NamesSame DEF StreamFile
  <2>3. f.stream = t + 1 /\ f.kind = k /\ f \in DOMAIN disk
    BY <2>2, LocalFields DEF IsLocal
  <2>4. f # Uctl
    BY <2>1, <2>3, ControlFields
  <2>5. PICK q \in Traced : \E x \in TwoKinds : f = StreamFile(q, x)
    BY <1>2, <1>7, <2>3, <2>4 DEF Files, NamesOK
  <2>6. q \in Pids /\ q # p /\ Numbered(q)
    BY <1>4, <2>5 DEF Traced, Numbered
  <2>7. proc[q].vt_my_trace = t
    <3>1. proc[q].vt_my_trace + 1 = t + 1
      BY <2>3, <2>5, <2>6, StreamNames
    <3>2. proc[q].vt_my_trace \in Nat
      BY <1>2, <2>6, ProcessFields
    <3> QED
      BY <2>1, <3>1, <3>2
  <2>8. proc'[q] = proc[q]
    BY <1>3, <2>6 DEF Only
  <2>9. Numbered(p)' /\ Numbered(q)'
    BY <1>3, <2>6, <2>8 DEF Numbered
  <2> QED
    BY <1>6, <2>1, <2>6, <2>7, <2>8, <2>9 DEF Numbers, DistinctOK
<1>8. OwedOK'
  <2> SUFFICES ASSUME NEW q \in Pids, NEW k \in TwoKinds, Owes(q, k)', starts = 0
               PROVE  ~IsLocal(StreamFile(q, k))'
    BY <1>1, <1>5, <1>6 DEF OwedOK
  <2>1. CASE q = p
    <3>1. ~IsLocal(StreamFile(p, k)')
      BY <1>7
    <3> QED
      BY <1>1, <2>1, <3>1 DEF IsLocal
  <2>2. CASE q # p
    <3>1. Owes(q, k) /\ StreamFile(q, k)' = StreamFile(q, k)
      BY <1>1, <1>3, <2>2, OwesOther
    <3> QED
      BY <1>1, <3>1 DEF Safe, OwedOK, IsLocal
  <2> QED
    BY <2>1, <2>2
<1>9. Uctl' = Uctl
  BY DEF Uctl
<1>10. ControlOK'
  BY <1>1, <1>2, <1>3, <1>4, <1>9 DEF Safe, ControlOK, Only
<1>11. Works' /\ Kept'
  <2>1. IsConf(conf) /\ todo' = todo /\ error' = error /\ status' = status
    BY DEF TreeType, ConfOK, unifyVars
  <2> QED
    BY <1>1, <2>1, WorksCalm DEF Safe
<1> QED
  BY <1>8, <1>10, <1>11 DEF Safe

\* VTGen_delete moves one of the files p owes, which vtunify has not found.
LEMMA SafeDelete ==
  ASSUME TreeType, RanksOK, Numbers, Safe, NEW p \in Pids, UNCHANGED unifyVars, VTGen_delete(p), late = {}
  PROVE  Safe'
<1>1. proc \in Seq(Process) /\ proc # << >> /\ 1 \in Pids /\ StageOf(p)
  BY TypeHere
<1>2. PICK h, t : h = Head(proc[p].left) /\ t = Tail(proc[p].left)
  OBVIOUS
<1>3. /\ proc[p].at \in {"move", "copy"} /\ proc[p].left # << >>
      /\ Only(p) /\ proc'[p].at \in {"move", "copy"}
      /\ proc'[p].init_pid = proc[p].init_pid /\ proc'[p].vt_my_trace = proc[p].vt_my_trace
      /\ conf' = conf
      /\ \/ /\ disk' = Put(disk, Moved(p), Content("partial", << >>))
            /\ proc'[p].left = proc[p].left
         \/ /\ disk' = Put(disk, Moved(p), LocalContent)
            /\ proc'[p].left = t
  BY <1>1, <1>2, DeleteEffect
<1>4. ToSet(proc[p].left) = {h} \cup ToSet(t) /\ h \in TwoKinds /\ h \notin ToSet(t)
  BY <1>1, <1>2, <1>3, ProcessFields, LeftsFacts DEF TwoKinds
<1>5. Numbered(p) /\ Owes(p, h)
  BY <1>1, <1>3, <1>4 DEF StageOf, Own, Numbered, Owes, Due
<1>6. PICK s : s = proc[p].vt_my_trace + 1 /\ s \in Nat \ {0}
  BY StreamNames
<1>7. Moved(p) = Local(s, h) /\ Moved(p) = StreamFile(p, h)
  BY <1>2, <1>6 DEF Moved, StreamFile
<1>8. PICK content : /\ DiskPut(Local(s, h), content)
                     /\ \/ content.state = "partial" /\ proc'[p].left = proc[p].left
                        \/ proc'[p].left = t
  BY <1>3, <1>7, DiskPutIs, ContentState
<1>9. IsConf(conf) /\ conf.local \subseteq (1..conf.streams) \X StreamKinds
  BY DEF TreeType, ConfOK, IsConf
<1>10. <<s, h>> \notin conf.local
  BY <1>4, <1>5, <1>6 DEF Safe, OwedOK
<1>11. /\ Kept' /\ (Uctl \in DOMAIN disk' <=> Uctl \in DOMAIN disk)
       /\ \A x \in conf.local : /\ Ready(x)' <=> Ready(x)
                                /\ Tmp(Key(x), x[2]) \in DOMAIN disk' <=> Tmp(Key(x), x[2]) \in DOMAIN disk
  BY <1>3, <1>6, <1>8, <1>9, <1>10, KeptMove DEF Safe
<1>12. Works'
  <2>1. todo' = todo /\ error' = error /\ status' = status
    BY DEF unifyVars
  <2>2. Staged => Staged'
    BY <1>3, <1>11, <2>1, StagedSame
  <2>3. EqualOK => EqualOK'
    BY <1>3, <2>1 DEF EqualOK, Ranks
  <2> QED
    BY <2>1, <2>2, <2>3 DEF Safe, Works
<1>13. Pids' = Pids /\ starts' = starts
  BY <1>3 DEF Only, Pids, unifyVars
<1>14. ASSUME NEW q \in Pids, NEW k \in TwoKinds, Owes(q, k)'
       PROVE  /\ Owes(q, k) /\ proc'[q].vt_my_trace = proc[q].vt_my_trace
              /\ StreamFile(q, k)' = StreamFile(q, k)
  <2>1. CASE q = p
    BY <1>3, <1>4, <1>8, <2>1, <1>14 DEF Owes, Numbered, Due, StreamFile, Local
  <2>2. CASE q # p
    BY <1>3, <2>2, <1>14, OwesOther DEF Only
  <2> QED
    BY <2>1, <2>2
<1>15. ASSUME NEW q \in Pids, NEW k \in TwoKinds, Owes(q, k)', starts = 0
       PROVE  ~IsLocal(StreamFile(q, k))'
  <2>1. PICK f, g : f = Local(s, h) /\ g = StreamFile(q, k)
    OBVIOUS
  <2>2. Owes(q, k) /\ g = StreamFile(q, k)' /\ ~(g \in DOMAIN disk /\ disk[g].state = "local")
    BY <1>14, <1>15, <2>1 DEF Safe, OwedOK, IsLocal
  <2>3. CASE f # g
    BY <1>8, <2>1, <2>2, <2>3 DEF IsLocal, DiskPut
  <2>4. CASE f = g
    <3>1. q = p /\ k = h
      <4>1. StreamFile(p, h) = StreamFile(q, k)
        BY <1>7, <2>1, <2>4
      <4>2. Numbered(q) /\ DistinctOK
        BY <2>2 DEF Owes, Numbers
      <4> QED
        BY <1>5, <4>1, <4>2, FilesApart
    <3>2. content.state = "partial"
      BY <1>3, <1>4, <1>8, <1>15, <3>1 DEF Owes, Due
    <3> QED
      BY <1>8, <2>1, <2>2, <2>4, <3>2 DEF IsLocal, DiskPut
  <2> QED
    BY <2>3, <2>4
<1>16. OwedOK'
  BY <1>3, <1>13, <1>14, <1>15 DEF Safe, OwedOK
<1>17. Uctl' = Uctl
  BY DEF Uctl
<1>18. ControlOK'
  <2>1. proc'[1].at \in Telling => proc[1].at \in Telling
    BY <1>1, <1>3 DEF Only, Telling
  <2> QED
    BY <1>1, <1>11, <1>17, <2>1 DEF Safe, ControlOK
<1> QED
  BY <1>11, <1>12, <1>16, <1>18 DEF Safe

\* write_uctl_file: vtunify has not found anything yet.
LEMMA SafeControl ==
  ASSUME TreeType, RanksOK, Safe, NEW p \in Pids, UNCHANGED unifyVars, write_uctl_file(p)
  PROVE  Safe'
<1>1. /\ p = 1 /\ proc[1].at = "control" /\ starts = 0 /\ conf.local = {} /\ starts' = starts
      /\ status' = status
  BY ControlEffect DEF unifyVars
<1>2. proc \in Seq(Process) /\ proc # << >> /\ 1 \in Pids /\ IsConf(conf) /\ "remove" \in Stages
  BY <1>1, TypeHere DEF TreeType, ConfOK, Stages
<1>3. CASE proc' = Dead(1) /\ conf' = conf /\ disk' = disk
  <2>1. Only(1) /\ proc'[1].at = "dead"
    BY <1>2, <1>3, DeadEffect
  <2> QED
    BY <1>1, <1>3, <2>1, SafeCalm DEF Owes, Due, Telling
<1>4. CASE /\ vt_fork_get_num_childs_tot(1) \in Nat
           /\ proc' = Goto(1, "remove")
           /\ conf' = [conf EXCEPT !.streams = 1 + vt_fork_get_num_childs_tot(1)]
           /\ disk' = Put(disk, Name("in", FALSE, 0, "uctl", FALSE), LocalContent)
  <2>1. PICK k : k = 1 + vt_fork_get_num_childs_tot(1) /\ k \in Nat
    BY <1>4
  <2>2. conf' = [conf EXCEPT !.streams = k]
    BY <1>4, <2>1
  <2>3. conf'.local = {} /\ conf'.z = conf.z /\ conf'.docompress = conf.docompress
    BY <1>1, <1>2, <2>1, <2>2, ConfStreams
  <2>4. /\ Only(1) /\ proc'[1].at = "remove" /\ proc'[1].vt_my_trace = proc[1].vt_my_trace
        /\ proc'[1].init_pid = proc[1].init_pid /\ proc'[1].left = proc[1].left
    BY <1>2, <1>4, GotoEffect
  <2>5. /\ Pids' = Pids
        /\ \A q \in Pids : proc'[q].vt_my_trace = proc[q].vt_my_trace
        /\ \A q \in Pids : \A x : Owes(q, x)' <=> Owes(q, x)
    BY <1>1, <2>4 DEF Only, Pids, Owes, Numbered, Due
  <2>6. \A q \in Pids, x \in TwoKinds : StreamFile(q, x)' = StreamFile(q, x)
    BY <2>3, <2>5 DEF StreamFile, Local
  <2>7. PICK f, content : f = Uctl /\ content = LocalContent /\ disk' = Put(disk, f, content)
    BY <1>4 DEF Uctl
  <2>8. DiskPut(f, content)
    BY <2>7, DiskPutIs
  <2>9. Uctl' = Uctl /\ f.tmp = FALSE
    BY <2>7, ControlFields DEF Uctl
  <2>10. OwedOK'
    <3> SUFFICES ASSUME NEW q \in Pids, NEW x \in TwoKinds, Owes(q, x) PROVE ~IsLocal(StreamFile(q, x))'
      BY <2>3, <2>5 DEF OwedOK
    <3>1. PICK g : g = StreamFile(q, x)
      OBVIOUS
    <3>2. g # f /\ ~(g \in DOMAIN disk /\ disk[g].state = "local") /\ StreamFile(q, x)' = g
      BY <1>1, <2>6, <2>7, <3>1, StreamNames DEF Safe, OwedOK, IsLocal
    <3> QED
      BY <2>8, <3>2 DEF IsLocal, DiskPut
  <2>11. ControlOK'
    BY <2>7, <2>8, <2>9 DEF ControlOK, DiskPut
  <2>12. TmpOK'
    BY <2>3, <2>8, <2>9 DEF Safe, Kept, TmpOK, DiskPut
  <2>13. LocalsKept' /\ UnifiedKept'
    BY <2>3 DEF LocalsKept, UnifiedKept
  <2>14. Works'
    <3>1. status[0] = "idle"
      BY <1>1, <1>2 DEF RanksOK, Ranks, RanksOf, IsConf
    <3> QED
      BY <1>1, <3>1 DEF Works
  <2> QED
    BY <2>10, <2>11, <2>12, <2>13, <2>14 DEF Safe, Kept
<1> QED
  BY <1>3, <1>4, ControlEffect

\* unify_traces: vtunify finds files that nobody owes any more, and they are there.
LEMMA SafeStart ==
  ASSUME AllTypes, Numbers, Files, Safe, NEW p \in Pids, unify_traces(p), late = {}
  PROVE  Safe'
<1>1. PICK l : l = Found
  OBVIOUS
<1>2. /\ p = 1 /\ proc[1].at = "move" /\ starts = 0 /\ proc' = Goto(1, "unify")
      /\ conf' = [conf EXCEPT !.local = l] /\ starts' = starts + 1 /\ TreeType /\ DiskOK
  BY <1>1, StartEffect DEF AllTypes
<1>3. /\ proc \in Seq(Process) /\ proc # << >> /\ 1 \in Pids /\ IsConf(conf) /\ "unify" \in Stages
  BY <1>2, TypeHere DEF TreeType, ConfOK, Stages
<1>4. /\ Only(1) /\ proc'[1].at = "unify" /\ proc'[1].vt_my_trace = proc[1].vt_my_trace
      /\ proc'[1].init_pid = proc[1].init_pid /\ proc'[1].left = proc[1].left
  BY <1>2, <1>3, GotoEffect
<1>5. /\ IsConf(conf') /\ conf'.local = l /\ conf'.z = conf.z /\ conf'.docompress = conf.docompress
      /\ disk' = disk /\ starts' # 0
      /\ \A r \in Ranks' : todo'[r] = Program(conf', r)
  <2>1. l \subseteq (1..conf.streams) \X StreamKinds
    BY <1>1, <1>2, FoundType
  <2>2. conf' = WithLocal(conf, l)
    BY <1>2 DEF WithLocal
  <2>3. /\ IsConf(conf') /\ conf'.local = l /\ conf'.z = conf.z /\ conf'.docompress = conf.docompress
    BY <1>3, <2>1, <2>2, ConfLocal
  <2>4. PICK c : c = conf' /\ StartWith(c)
    BY <1>1, <1>2 DEF unify_traces
  <2>5. starts \in 0..MaxStarts /\ DiskOK
    BY DEF AllTypes, RanksOK
  <2>6. disk' = disk /\ starts' # 0 /\ \A r \in RanksOf(c) : todo'[r] = Program(c, r)
    BY <2>3, <2>4, <2>5, FreshEffect
  <2> QED
    BY <2>3, <2>4, <2>6 DEF Ranks
<1>6. \A s, k : Local(s, k)' = Local(s, k)
  BY <1>5 DEF Local
<1>7. /\ Pids' = Pids
      /\ \A q \in Pids : \A k : /\ Owes(q, k)' => Owes(q, k)
                                /\ proc'[q].vt_my_trace = proc[q].vt_my_trace
  BY <1>2, <1>4 DEF Only, Pids, Owes, Numbered, Due
<1>8. ASSUME NEW x \in l
      PROVE  \E q \in Traced : \E k \in TwoKinds :
               /\ x = <<proc[q].vt_my_trace + 1, k>> /\ IsLocal(StreamFile(q, k))
  <2>1. PICK f \in DOMAIN disk : /\ disk[f].state = "local" /\ f.stream \in StreamsOf(conf)
                                 /\ x = <<f.stream, f.kind>>
    BY <1>1 DEF Found
  <2>2. f # Uctl
    BY <1>3, <2>1, ControlFields DEF StreamsOf, IsConf
  <2>3. PICK q \in Traced : \E k \in TwoKinds : f = StreamFile(q, k)
    BY <1>2, <1>3, <2>2 DEF Files, NamesOK
  <2>4. PICK k \in TwoKinds : f = StreamFile(q, k)
    BY <2>3
  <2>5. f.stream = proc[q].vt_my_trace + 1 /\ f.kind = k
    BY <1>2, <2>4, StreamNames DEF Traced
  <2>6. IsLocal(f)
    BY <2>1 DEF IsLocal
  <2>7. x = <<proc[q].vt_my_trace + 1, k>> /\ IsLocal(StreamFile(q, k))
    BY <2>1, <2>4, <2>5, <2>6
  <2> QED
    BY <2>7
<1>9. OwedOK'
  <2> SUFFICES ASSUME NEW q \in Pids, NEW k \in TwoKinds, Owes(q, k),
                      <<proc[q].vt_my_trace + 1, k>> \in l
               PROVE  FALSE
    BY <1>5, <1>7 DEF OwedOK
  <2>1. PICK o \in Traced : \E k2 \in TwoKinds :
          /\ <<proc[q].vt_my_trace + 1, k>> = <<proc[o].vt_my_trace + 1, k2>> /\ IsLocal(StreamFile(o, k2))
    BY <1>8
  <2>2. proc[q].vt_my_trace + 1 = proc[o].vt_my_trace + 1 /\ IsLocal(StreamFile(o, k))
    BY <2>1
  <2>3. StreamFile(q, k) = StreamFile(o, k)
    BY <2>2 DEF StreamFile
  <2> QED
    BY <1>2, <2>2, <2>3 DEF Safe, OwedOK
<1>10. ControlOK'
  BY <1>4 DEF ControlOK, Telling
<1>11. LocalsKept'
  <2> SUFFICES ASSUME NEW x \in l PROVE IsLocal(Local(x[1], x[2]))'
    BY <1>5 DEF LocalsKept
  <2>1. PICK q \in Traced : \E k \in TwoKinds :
          x = <<proc[q].vt_my_trace + 1, k>> /\ IsLocal(StreamFile(q, k))
    BY <1>8
  <2>2. PICK k \in TwoKinds : x = <<proc[q].vt_my_trace + 1, k>> /\ IsLocal(StreamFile(q, k))
    BY <2>1
  <2>3. x[1] = proc[q].vt_my_trace + 1 /\ x[2] = k
    BY <2>2
  <2>4. IsLocal(Local(x[1], x[2]))
    BY <2>2, <2>3 DEF StreamFile
  <2> QED
    BY <1>5, <1>6, <2>4 DEF IsLocal
<1>12. UnifiedKept'
  <2>1. Uctl \in DOMAIN disk
    BY <1>2, <1>3 DEF Safe, ControlOK, Telling
  <2>2. Uctl' = Uctl
    BY DEF Uctl
  <2> QED
    BY <1>5, <2>1, <2>2 DEF UnifiedKept
<1>13. TmpOK'
  BY <1>5 DEF Safe, Kept, TmpOK
<1>14. Works'
  BY <1>5, WorksFresh
<1> QED
  BY <1>9, <1>10, <1>11, <1>12, <1>13, <1>14 DEF Safe, Kept

\* Nothing is lost by a step of a process.
LEMMA SafeStep ==
  ASSUME AllTypes, Right, Whole, NEW p \in Pids, Step(p) \/ Choice(p), Right'
  PROVE  Whole'
<1>1. TreeType /\ RanksOK /\ Numbers /\ Files /\ Numbers'
  BY DEF AllTypes, Right
<1>2. late' = late \/ UpdateIdFile(p)
  BY DEF Step, Choice, unify_traces, childv_add, OpenIdFile, LockIdFile, vt_reset, VTThrd_close,
         vt_fork_waitchilds, write_uctl_file, RemoveIdFile, VTGen_delete, Unified, Closed, fork, exit,
         exec, OtherEnds, vt_close_by_signal, KillProcess
<1>3. late' = {} => late = {}
  BY <1>2 DEF UpdateIdFile
<1> SUFFICES ASSUME late' = {} PROVE Safe'
  BY DEF Whole
<1>4. Safe /\ late = {}
  BY <1>3 DEF Whole
<1>5. CASE unify_traces(p)
  BY <1>1, <1>4, <1>5, SafeStart
<1>6. CASE /\ UNCHANGED unifyVars
           /\ \/ childv_add(p) \/ OpenIdFile(p) \/ LockIdFile(p) \/ vt_reset(p) \/ VTThrd_close(p)
              \/ vt_fork_waitchilds(p) \/ RemoveIdFile(p) \/ Unified(p) \/ Closed(p)
  BY <1>1, <1>4, <1>6, SafeRecords, SafeOwesNot, SafeWaits
<1>7. CASE UNCHANGED unifyVars /\ UpdateIdFile(p)
  BY <1>1, <1>4, <1>7, SafeUpdate
<1>8. CASE UNCHANGED unifyVars /\ write_uctl_file(p)
  BY <1>1, <1>4, <1>8, SafeControl
<1>9. CASE UNCHANGED unifyVars /\ VTGen_delete(p)
  BY <1>1, <1>4, <1>9, SafeDelete
<1>10. CASE Choice(p)
  BY <1>1, <1>4, <1>10, SafeFork, SafeRecords, SafeOwesNot, SafeStopped DEF Choice
<1> QED
  BY <1>5, <1>6, <1>7, <1>8, <1>9, <1>10 DEF Step

\* Nothing is lost by a step of vtunify.
LEMMA SafeUnify ==
  ASSUME AllTypes, AllTypes', Whole, UnifyStep, UNCHANGED treeVars
  PROVE  Whole'
<1>1. RanksOK /\ DiskOK /\ InsideOK /\ TreeType /\ ConfOK /\ TreeType'
  BY DEF AllTypes, TreeType
<1>2. conf' = conf /\ starts' # 0
  BY <1>1, UnifyRuns
<1>3. proc' = proc /\ late' = late /\ Pids' = Pids
  BY DEF treeVars, Pids
<1> SUFFICES ASSUME late = {} PROVE Safe'
  BY <1>3 DEF Whole
<1>4. Safe
  BY DEF Whole
<1>5. Works' /\ Kept'
  BY <1>4, WorksUnify DEF Safe
<1>6. OwedOK'
  <2>1. \A p \in Pids, k \in TwoKinds : Owes(p, k)' <=> Owes(p, k)
    BY <1>3 DEF Owes, Numbered, Due
  <2> QED
    BY <1>2, <1>3, <1>4, <2>1 DEF Safe, OwedOK
<1>7. ControlOK'
  BY <1>1, <1>2 DEF TreeType, MasterOK, ControlOK, Telling
<1> QED
  BY <1>5, <1>6, <1>7 DEF Safe

\* Nothing is lost if nothing happens.
LEMMA SafeStutter ==
  ASSUME AllTypes, Whole, UNCHANGED allVars
  PROVE  Whole'
<1>1. /\ proc' = proc /\ late' = late /\ conf' = conf /\ disk' = disk /\ starts' = starts
      /\ todo' = todo /\ error' = error /\ status' = status
  BY DEF allVars, vars, treeVars
<1> SUFFICES ASSUME late = {} PROVE Safe'
  BY <1>1 DEF Whole
<1>2. Safe /\ RanksOK /\ IsConf(conf)
  BY DEF Whole, AllTypes, TreeType, ConfOK
<1>3. Works' /\ Kept'
  BY <1>1, <1>2, WorksCalm DEF Safe
<1>4. Uctl' = Uctl /\ Pids' = Pids
  BY <1>1 DEF Uctl, Pids
<1>5. \A p, k : (Owes(p, k)' <=> Owes(p, k)) /\ StreamFile(p, k)' = StreamFile(p, k)
  BY <1>1 DEF Owes, Numbered, Due, StreamFile, Local
<1>6. OwedOK' /\ ControlOK'
  BY <1>1, <1>2, <1>4, <1>5 DEF Safe, OwedOK, ControlOK, IsLocal
<1> QED
  BY <1>3, <1>6 DEF Safe

\* In the beginning all that vtunify is to find is local.
LEMMA SafeInit ==
  ASSUME TreeInit
  PROVE  Whole
<1>1. AllTypes /\ Idle /\ starts = 0
  BY TypesInit DEF TreeInit, Init, Idle
<1>2. IsConf(conf) /\ 0 \in Ranks
  BY <1>1 DEF AllTypes, TreeType, ConfOK, IsConf, Ranks, RanksOf
<1>3. Works
  BY <1>1, <1>2 DEF Works, Idle
<1>4. CASE Init /\ proc = << >>
  <2>1. Pids = {}
    BY <1>4 DEF Pids
  <2>2. PICK F : F = {Local(x[1], x[2]) : x \in conf.local} \cup {Uctl}
    OBVIOUS
  <2>3. DOMAIN disk = F /\ \A f \in F : disk[f] = LocalContent
    BY <1>4, <2>2 DEF Init, Uctl
  <2>4. LocalContent.state = "local"
    BY ContentState
  <2>5. LocalsKept
    BY <2>2, <2>3, <2>4 DEF LocalsKept, IsLocal
  <2>6. UnifiedKept
    BY <2>2, <2>3 DEF UnifiedKept
  <2>7. TmpOK
    BY <2>2, <2>3, KeptNames, ControlFields DEF TmpOK
  <2> QED
    BY <1>3, <1>4, <2>1, <2>5, <2>6, <2>7 DEF Whole, Safe, OwedOK, ControlOK, Kept
<1>5. CASE conf \in Programs /\ disk = << >> /\ proc = <<vt_open(1)>>
  <2>1. IsProgram(conf) /\ proc[1].at = "user" /\ DOMAIN disk = {}
    BY <1>5, ProcessTreeAssumption DEF vt_open
  <2>2. conf.local = {}
    BY <2>1 DEF IsProgram
  <2>3. Kept
    BY <2>1, <2>2 DEF Kept, LocalsKept, UnifiedKept, TmpOK
  <2>4. OwedOK
    BY <2>1, <2>2 DEF OwedOK, IsLocal
  <2>5. ControlOK
    BY <2>1 DEF ControlOK, Telling
  <2> QED
    BY <1>3, <2>3, <2>4, <2>5 DEF Whole, Safe
<1> QED
  BY <1>4, <1>5 DEF TreeInit

\* What vtunify found is on the disk.
LEMMA WholeImplies ==
  ASSUME Whole
  PROVE  NoTraceLost
<1> SUFFICES ASSUME late = {}, NEW x \in conf.local
             PROVE  \/ Somewhere(x[1], x[2], {"local"})
                    \/ IF x[2] \in {"def", "marker"} THEN Somewhere(0, x[2], Completed)
                       ELSE Somewhere(x[1], x[2], Completed)
  BY DEF NoTraceLost, NothingLost, Completed
<1>1. LocalsKept /\ UnifiedKept
  BY DEF Whole, Safe, Kept
<1>2. CASE Uctl \in DOMAIN disk \/ ~conf.doclean
  <2>1. PICK f : f = Local(x[1], x[2])
    OBVIOUS
  <2>2. f \in DOMAIN disk /\ disk[f].state = "local" /\ f.stream = x[1] /\ f.kind = x[2]
    BY <1>1, <1>2, <2>1, KeptNames DEF LocalsKept, IsLocal
  <2> QED
    BY <2>2 DEF Somewhere
<1>3. CASE ~(Uctl \in DOMAIN disk \/ ~conf.doclean)
  <2>1. PICK t \in BOOLEAN, z \in BOOLEAN : IsUnified(Output(x, t, z))
    BY <1>1, <1>3 DEF UnifiedKept
  <2>2. PICK f : f = Output(x, t, z)
    OBVIOUS
  <2>3. f \in DOMAIN disk /\ disk[f].state \in Completed /\ f.stream = Key(x) /\ f.kind = x[2]
    BY <2>1, <2>2, KeptNames DEF IsUnified
  <2>4. Somewhere(Key(x), x[2], Completed)
    BY <2>3 DEF Somewhere
  <2> QED
    BY <2>4 DEF Key
<1> QED
  BY <1>2, <1>3

\* Whatever fails, and whenever a process or vtunify is killed or vtunify is started
\* again: every file that vtunify found is on the disk, in its local form or in a
\* unified one that was written to its end, except for what a failing close dropped
\* from that one, which nothing asks for; unless an orphan took a number late
\* (vt_unify.cc, cleanUp; vt_unify_events.cc, OTF_WStream_close; vt_trc.c, unify_traces).
THEOREM NothingEverLost == TreeSpec => []NoTraceLost
<1>1. TreeInit => AllTypes /\ Right /\ Whole
  BY TypesInit, RightInit, SafeInit
<1>2. AllTypes /\ Right /\ Whole /\ [TreeNext]_allVars => AllTypes' /\ Right' /\ Whole'
  <2> SUFFICES ASSUME AllTypes, Right, Whole, [TreeNext]_allVars PROVE AllTypes' /\ Right' /\ Whole'
    OBVIOUS
  <2>1. TreeType
    BY DEF AllTypes
  <2>2. AllTypes' /\ Right'
    BY <2>1, TypesStep, TypesUnify, TypesStutter, RightStep, RightUnify, RightStutter DEF TreeNext
  <2>3. Whole'
    BY <2>2, SafeStep, SafeUnify, SafeStutter DEF TreeNext
  <2> QED
    BY <2>2, <2>3
<1>3. Whole => NoTraceLost
  BY WholeImplies
<1> QED
  BY <1>1, <1>2, <1>3, PTL DEF TreeSpec

=============================================================================
