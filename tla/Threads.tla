------------------------------- MODULE Threads -------------------------------
(***************************************************************************)
(* The thread objects of VampirTrace for POSIX threads: vtlib/vt_thrd.c    *)
(* and vtlib/vt_thrd_pthread.c. A thread gets its ID when it starts (the   *)
(* pthread_create wrapper of vtlib/vt_pthreadwrap.c passes the ID of its   *)
(* creator on) or at its first event; an ID and its object are kept when   *)
(* the thread ends, in a list of its parent, and given to a later thread.  *)
(*                                                                         *)
(* A step is what a thread does under one of the locks or with its own     *)
(* object; two threads may be between any two steps. A hardware counter    *)
(* and a plugin counter stand for all the counters of an object.           *)
(***************************************************************************)
EXTENDS Integers, Sequences

CONSTANTS
  Pthreads,      \* POSIX threads besides the main one
  Main,          \* the main thread
  VTThrdMaxNum,  \* VT_MAX_THREADS
  reuseThreadIds,\* VT_PTHREAD_REUSE
  MaxCount       \* bound on the value of a hardware counter

ASSUME ThreadsAssumption ==
  /\ Main \notin Pthreads
  /\ VTThrdMaxNum \in Nat \ {0}
  /\ reuseThreadIds \in BOOLEAN
  /\ MaxCount \in Nat

All == Pthreads \cup {Main}
NoTid == -1

\* IDs that have an object and a list: both tables have VTThrdMaxNum entries.
Tids == 0 .. VTThrdMaxNum - 1

VARIABLES
  life,       \* where each thread is in its life
  tidOf,      \* the thread-specific ID
  ptid,       \* the parent ID passed to the thread
  VTThrdn,    \* number of IDs given away
  VTThrdv,    \* thread objects, NoObject where there is none
  idle,       \* idleThreadIds: per parent ID
  written,    \* history: last counter value recorded with each ID
  decreased,  \* history: the IDs with which a recorded counter went back
  raced,      \* history: the IDs that were taken over while their last owner
              \* was still ending
  ended       \* "aborted": "Cannot create more than ... threads"; "overrun": an
              \* object was stored behind the end of VTThrdv, after which
              \* nothing can be said of the program; else "no"

vars == <<life, tidOf, ptid, VTThrdn, VTThrdv, idle, written, decreased, raced, ended>>

NoObject == [exists |-> FALSE, parent |-> 0, metv |-> FALSE, raw |-> 0, off |-> 0,
             val |-> 0, plugin |-> FALSE]

\* A fresh object of VTThrd_create and VTThrd_open.
NewObject(parent) == [exists |-> TRUE, parent |-> parent, metv |-> TRUE, raw |-> 0,
                      off |-> 0, val |-> 0, plugin |-> TRUE]

------------------------------------------------------------------------------
(* Creation. *)

Init ==
  /\ life = [p \in All |-> IF p = Main THEN "run" ELSE "none"]
  /\ tidOf = [p \in All |-> IF p = Main THEN 0 ELSE NoTid]
  /\ ptid = [p \in All |-> 0]
  /\ VTThrdn = 1
  /\ VTThrdv = [t \in Tids |-> IF t = 0 THEN NewObject(0) ELSE NoObject]
  /\ idle = [t \in Tids |-> << >>]
  /\ written = [t \in Tids |-> 0]
  /\ decreased = {}
  /\ raced = {}
  /\ ended = "no"

Goto(p, l) == life' = [life EXCEPT ![p] = l]
Starting == {"born", "new", "named", "reuse"}
Ending == {"freed", "pushed", "saved"}

\* Mutant: the new thread's own ID-to-be is passed on instead of the creator's.
pthread_createNext(q, p, wrapped) ==
  /\ life[q] = "run" /\ life[p] = "none"
  /\ ptid' = [ptid EXCEPT ![p] = IF wrapped THEN VTThrdn ELSE 0]
  /\ Goto(p, "born")
  /\ UNCHANGED <<tidOf, VTThrdn, VTThrdv, idle, written, decreased, raced, ended>>

\* VT_pthread_create__ by q, or, without the wrapper, a first event of the new
\* thread (VT_CHECK_THREAD registers it as a child of the master thread).
pthread_create(q, p, wrapped) ==
  /\ life[q] = "run" /\ life[p] = "none"
  /\ ptid' = [ptid EXCEPT ![p] = IF wrapped THEN tidOf[q] ELSE 0]
  /\ Goto(p, "born")
  /\ UNCHANGED <<tidOf, VTThrdn, VTThrdv, idle, written, decreased, raced, ended>>

\* Mutant: the ID is not taken out of the list.
TakeIdleKeeps(p) ==
  /\ life[p] = "born"
  /\ IF reuseThreadIds /\ idle[ptid[p]] # << >>
     THEN tidOf' = [tidOf EXCEPT ![p] = Head(idle[ptid[p]])] /\ Goto(p, "reuse")
     ELSE Goto(p, "new") /\ UNCHANGED tidOf
  /\ UNCHANGED <<ptid, VTThrdn, VTThrdv, idle, written, decreased, raced, ended>>

\* Some thread is still ending that had this ID.
StillEnding(t) == \E q \in All : life[q] \in {"pushed", "saved"} /\ tidOf[q] = t

\* VTThrd_registerThread, under threadReuseMutex: takes the first idle ID of
\* the parent.
TakeIdle(p) ==
  LET t == Head(idle[ptid[p]]) IN
  /\ life[p] = "born"
  /\ IF reuseThreadIds /\ idle[ptid[p]] # << >>
     THEN /\ tidOf' = [tidOf EXCEPT ![p] = t]
          /\ idle' = [idle EXCEPT ![ptid[p]] = Tail(@)]
          /\ raced' = IF StillEnding(t) THEN raced \cup {t} ELSE raced
          /\ Goto(p, "reuse")
     ELSE Goto(p, "new") /\ UNCHANGED <<tidOf, idle, raced>>
  /\ UNCHANGED <<ptid, VTThrdn, VTThrdv, written, decreased, ended>>

\* Mutant: the counter is incremented before it is read.
NewIdIncremented(p) ==
  /\ life[p] = "new"
  /\ IF VTThrdn > VTThrdMaxNum
     THEN ended' = "aborted" /\ UNCHANGED <<tidOf, VTThrdn, life>>
     ELSE /\ tidOf' = [tidOf EXCEPT ![p] = VTThrdn + 1]
          /\ VTThrdn' = VTThrdn + 1
          /\ Goto(p, "named")
          /\ UNCHANGED ended
  /\ UNCHANGED <<ptid, VTThrdv, idle, written, decreased, raced>>

\* Mutant: a thread waits if the limit is reached.
NewIdWaits(p) ==
  /\ life[p] = "new"
  /\ VTThrdn < VTThrdMaxNum
  /\ tidOf' = [tidOf EXCEPT ![p] = VTThrdn]
  /\ VTThrdn' = VTThrdn + 1
  /\ Goto(p, "named")
  /\ UNCHANGED <<ptid, VTThrdv, idle, written, decreased, raced, ended>>

\* VTThrd_createNewThreadId, under VTThrdMutexEnv: the last ID it gives away is
\* VTThrdMaxNum.
VTThrd_createNewThreadId(p) ==
  /\ life[p] = "new"
  /\ IF VTThrdn > VTThrdMaxNum
     THEN ended' = "aborted" /\ UNCHANGED <<tidOf, VTThrdn, life>>
     ELSE /\ tidOf' = [tidOf EXCEPT ![p] = VTThrdn]
          /\ VTThrdn' = VTThrdn + 1
          /\ Goto(p, "named")
          /\ UNCHANGED ended
  /\ UNCHANGED <<ptid, VTThrdv, idle, written, decreased, raced>>

\* VTThrd_create (it reads the parent's object) and VTThrd_open. The object of
\* the ID VTThrdMaxNum does not fit into VTThrdv.
VTThrd_create(p) ==
  /\ life[p] = "named"
  /\ IF tidOf[p] \in Tids
     THEN /\ VTThrdv' = [VTThrdv EXCEPT ![tidOf[p]] = NewObject(ptid[p])]
          /\ Goto(p, "run")
          /\ UNCHANGED ended
     ELSE ended' = "overrun" /\ UNCHANGED <<VTThrdv, life>>
  /\ UNCHANGED <<tidOf, ptid, VTThrdn, idle, written, decreased, raced>>

\* Mutant: the plugin counters stay disabled.
ReuseWithoutPlugin(p) ==
  /\ life[p] = "reuse"
  /\ VTThrdv' = [VTThrdv EXCEPT ![tidOf[p]].metv = TRUE]
  /\ Goto(p, "run")
  /\ UNCHANGED <<tidOf, ptid, VTThrdn, idle, written, decreased, raced, ended>>

\* A reused object: its counters are created and enabled again.
Reuse(p) ==
  /\ life[p] = "reuse"
  /\ VTThrdv' = [VTThrdv EXCEPT ![tidOf[p]] = [@ EXCEPT !.metv = TRUE, !.plugin = TRUE]]
  /\ Goto(p, "run")
  /\ UNCHANGED <<tidOf, ptid, VTThrdn, idle, written, decreased, raced, ended>>

\* An event with hardware counters: vt_metric_read adds the offset.
Event(p) ==
  LET t == tidOf[p]
      o == VTThrdv[t]
      v == o.raw + 1 + o.off
  IN /\ life[p] = "run" /\ o.metv /\ v <= MaxCount
     /\ VTThrdv' = [VTThrdv EXCEPT ![t] = [o EXCEPT !.raw = o.raw + 1, !.val = v]]
     /\ written' = [written EXCEPT ![t] = v]
     /\ decreased' = IF v < written[t] THEN decreased \cup {t} ELSE decreased
     /\ UNCHANGED <<life, tidOf, ptid, VTThrdn, idle, raced, ended>>

------------------------------------------------------------------------------
(* The end of a thread: pthread_key_destructor. *)

\* The hardware counters are shut down. (The end of the main thread is only
\* remembered: its ID is never reused.)
FreeMetrics(p) ==
  /\ life[p] = "run" /\ p # Main
  /\ VTThrdv' = [VTThrdv EXCEPT ![tidOf[p]] = [@ EXCEPT !.metv = FALSE, !.raw = 0]]
  /\ Goto(p, IF reuseThreadIds THEN "freed" ELSE "gone")
  /\ UNCHANGED <<tidOf, ptid, VTThrdn, idle, written, decreased, raced, ended>>

\* Mutant: the ID goes to the list of the master thread.
PushToMaster(p) ==
  /\ life[p] = "freed"
  /\ idle' = [idle EXCEPT ![0] = Append(@, tidOf[p])]
  /\ Goto(p, "pushed")
  /\ UNCHANGED <<tidOf, ptid, VTThrdn, VTThrdv, written, decreased, raced, ended>>

\* Under threadReuseMutex.
idle_tid_list_push_back(p) ==
  /\ life[p] = "freed"
  /\ idle' = [idle EXCEPT ![VTThrdv[tidOf[p]].parent] = Append(@, tidOf[p])]
  /\ Goto(p, "pushed")
  /\ UNCHANGED <<tidOf, ptid, VTThrdn, VTThrdv, written, decreased, raced, ended>>

\* Mutant: the last metric values are not stored.
SaveNothing(p) ==
  /\ life[p] = "pushed"
  /\ Goto(p, "saved")
  /\ UNCHANGED <<tidOf, ptid, VTThrdn, VTThrdv, idle, written, decreased, raced, ended>>

\* "store last metric values"
SaveOffsets(p) ==
  /\ life[p] = "pushed"
  /\ VTThrdv' = [VTThrdv EXCEPT ![tidOf[p]].off = VTThrdv[tidOf[p]].val]
  /\ Goto(p, "saved")
  /\ UNCHANGED <<tidOf, ptid, VTThrdn, idle, written, decreased, raced, ended>>

\* "only disable plugin counters, so they can be reused"
DisablePlugin(p) ==
  /\ life[p] = "saved"
  /\ VTThrdv' = [VTThrdv EXCEPT ![tidOf[p]].plugin = FALSE]
  /\ Goto(p, "gone")
  /\ UNCHANGED <<tidOf, ptid, VTThrdn, idle, written, decreased, raced, ended>>

Step(p) ==
  \/ TakeIdle(p)
  \/ VTThrd_createNewThreadId(p)
  \/ VTThrd_create(p)
  \/ Reuse(p)
  \/ idle_tid_list_push_back(p)
  \/ SaveOffsets(p)
  \/ DisablePlugin(p)

Next ==
  /\ ended = "no"
  /\ \E p \in All :
       \/ \E q \in All, wrapped \in BOOLEAN : pthread_create(q, p, wrapped)
       \/ Event(p)
       \/ FreeMetrics(p)
       \/ Step(p)

\* A thread that is being registered or is ending runs on.
Fairness == \A p \in All : WF_vars(ended = "no" /\ Step(p))

Spec == Init /\ [][Next]_vars /\ Fairness

------------------------------------------------------------------------------
(* Properties. *)

ObjectType ==
  [exists : BOOLEAN, parent : Tids, metv : BOOLEAN, raw : 0 .. MaxCount,
   off : 0 .. MaxCount, val : 0 .. MaxCount, plugin : BOOLEAN]

\* Type invariant of the threads and their objects.
TypeOK ==
  /\ life \in [All -> {"none", "run", "gone"} \cup Starting \cup Ending]
  /\ tidOf \in [All -> 0 .. VTThrdMaxNum \cup {NoTid}]
  /\ ptid \in [All -> Tids]
  /\ VTThrdn \in 1 .. VTThrdMaxNum + 1
  /\ VTThrdv \in [Tids -> ObjectType]
  /\ idle \in [Tids -> Seq(Tids)]
  /\ written \in [Tids -> 0 .. MaxCount]
  /\ decreased \subseteq Tids
  /\ raced \subseteq Tids
  /\ ended \in {"no", "aborted", "overrun"}

\* A thread holds its ID from the registration until it gives it back.
Holds(p) == life[p] \in {"named", "reuse", "run", "freed"}

\* Two threads never hold the same ID, so no two ever write into the same
\* buffer (the buffers are not locked), and no ID in a list is held.
UniqueIds ==
  /\ \A p, q \in All : p # q /\ Holds(p) /\ Holds(q) => tidOf[p] # tidOf[q]
  /\ \A p \in All, t \in Tids : Holds(p) => \A k \in DOMAIN idle[t] : idle[t][k] # tidOf[p]

\* An ID is in one list at most, once, in the list of the parent its object was
\* created for; a thread of another parent would record with a false name.
IdleWellKept ==
  \A t \in Tids : \A k \in DOMAIN idle[t] :
    /\ VTThrdv[idle[t][k]].exists /\ VTThrdv[idle[t][k]].parent = t
    /\ \A j \in DOMAIN idle[t] : idle[t][j] = idle[t][k] => j = k

\* The object a new thread reads its name from exists, and so does its own one
\* when it records, although objects are filled in without a lock.
ObjectsReady ==
  \A p \in All :
    /\ life[p] \in Starting => VTThrdv[ptid[p]].exists
    /\ life[p] = "run" => VTThrdv[tidOf[p]].exists

\* The registry is sound: no ID has two owners, the idle lists are consistent
\* and every object that is used exists, up to the moment at which an object is
\* stored behind the end of VTThrdv.
RegistrySound == UniqueIds /\ IdleWellKept /\ ObjectsReady

\* Every thread that has been started gets its object, unless the limit on the
\* number of threads is reached: nobody waits for an ID for ever.
EveryoneRegistered ==
  \A p \in Pthreads : life[p] = "born" ~> (life[p] = "run" \/ ended # "no")

\* The hardware counter recorded with an ID never goes back, although every
\* thread that uses the ID counts from zero: the offset of the object carries
\* the last value over. What can break this is only that the ID was taken over
\* between the steps of its last owner's end.
CountersContinue == decreased \subseteq raced

\* The plugin counters of a thread that records are enabled, unless its ID was
\* taken over between the steps of its last owner's end.
PluginEnabled ==
  \A p \in All : life[p] = "run" /\ tidOf[p] \notin raced => VTThrdv[tidOf[p]].plugin

\* What a thread records under an ID continues what its earlier owner recorded,
\* but for an ID that was handed over too early.
HandedOverWell == CountersContinue /\ PluginEnabled
==============================================================================
