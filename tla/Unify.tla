-------------------------------- MODULE Unify --------------------------------
(***************************************************************************)
(* The program vtunify (src/tools/vtunify/vt_unify.cc, vt_unify_events.cc, *)
(* vt_unify_sync.cc): the ranks that unify a trace together, the           *)
(* collective operations they meet in, the errors they tell each other,    *)
(* the files they write, remove and rename, and the intervals of the       *)
(* synchronised time.  It may fail, be killed and be started again.  What  *)
(* is in the definitions and records is the matter of UnifyDefs.           *)
(***************************************************************************)
EXTENDS Naturals, FiniteSets, SequencesExt

CONSTANTS
  Confs,       \* the runs that are considered: records with the fields
               \*   size:    number of ranks (1: the serial vtunify)
               \*   streams: number of local streams
               \*   local:   set of pairs <<s, kind>> of the local files
               \*   records: for each stream a sequence of "event", "sync"
               \*   process: for each stream the stream of its process
               \*   etimesync, doclean, same (prefix): BOOLEAN
               \*   z, docompress: whether local / unified files are compressed
               \*   fails: whether its steps may fail and it may be killed
               \*   unchecked: whether calls may fail whose result it does not look at
  MaxStarts    \* how often vtunify is started

StreamKinds == {"def", "events", "stats", "marker"}

\* A run as above. What it overwrites, it has to remove.
IsConf(c) ==
  /\ {"size", "streams", "local", "records", "process", "etimesync", "doclean", "same", "z",
      "docompress", "fails", "unchecked"} \subseteq DOMAIN c
  /\ c.size \in Nat \ {0} /\ c.streams \in Nat
  /\ c.local \subseteq (1..c.streams) \X StreamKinds
  /\ c.etimesync \in BOOLEAN /\ c.doclean \in BOOLEAN /\ c.same \in BOOLEAN
  /\ c.z \in BOOLEAN /\ c.docompress \in BOOLEAN /\ c.fails \in BOOLEAN
  /\ c.unchecked \in BOOLEAN
  /\ c.same => c.doclean

ASSUME UnifyAssumption == MaxStarts \in Nat \ {0} /\ \A c \in Confs : IsConf(c)

NONE == "none"

VARIABLES
  conf,        \* one of Confs
  disk,        \* the files: a function from names to contents
  todo,        \* for each rank what is left of its program
  error,       \* the variable error of each rank
  inside,      \* the collective operation a rank is in
  status,      \* of each rank: "idle", "running", "done", "failed", "killed"
  ctl,         \* g_vecUnifyCtls of each rank: the round and the interval of a stream
  starts       \* number of starts, by the user or at the end of the program

vars == <<conf, disk, todo, error, inside, status, ctl, starts>>

RanksOf(c) == 0..c.size - 1
StreamsOf(c) == 1..c.streams
Ranks == RanksOf(conf)

\* Stream 0 has the unified definitions and markers and the two control files.
Name(prefix, tmp, s, kind, z) ==
  [prefix |-> prefix, tmp |-> tmp, stream |-> s, kind |-> kind, z |-> z]
\* Without doclean an output of the same name gets a prefix of its own.
OutPrefix == IF conf.same THEN "in" ELSE "out"
Local(s, kind) == Name("in", FALSE, s, kind, conf.z)
Tmp(s, kind) == Name(OutPrefix, TRUE, s, kind, conf.docompress)

Content(state, times) == [state |-> state, times |-> times]
LocalContent == Content("local", << >>)
Put(d, f, content) == [x \in DOMAIN d \cup {f} |-> IF x = f THEN content ELSE d[x]]
Without(d, f) == [x \in DOMAIN d \ {f} |-> d[x]]

(***************************************************************************)
(* The program of a rank: what it does one after the other.                *)
(***************************************************************************)
Do(op) == [op |-> op, stream |-> 0, kind |-> NONE]
File(op, s, kind) == [op |-> op, stream |-> s, kind |-> kind]
MPI == {"Barrier", "Bcast", "syncError", "MPI_Finalize"}

\* A mutant: ranks that are not needed take a block as well.
BlockOfAll(c, r) ==
  LET nworker == IF c.size > c.streams THEN c.streams ELSE c.size
      bsize == c.streams \div nworker
  IN <<r * bsize, IF r = nworker - 1 THEN c.streams ELSE (r + 1) * bsize>>

\* The streams of a rank, from begin + 1 to end: equal blocks, the rest to the
\* last worker.
Block(c, r) ==
  LET nworker == IF c.size > c.streams THEN c.streams ELSE c.size
      bsize == c.streams \div nworker
  IN CASE r >= nworker -> <<0, 0>>
       [] r = nworker - 1 -> <<r * bsize, c.streams>>
       [] OTHER -> <<r * bsize, (r + 1) * bsize>>

Each(c, Steps(_)) == FlattenSeq([s \in StreamsOf(c) |-> Steps(s)])

\* A mutant: the unified files take their names first.
cleanUpRenamesFirst(c) ==
  <<File("rename", 0, "def"), File("rename", 0, "marker"), File("rename", 0, "otf")>>
  \o Each(c, LAMBDA s : <<File("rename", s, "events"), File("rename", s, "stats")>>)
  \o (IF c.doclean
      THEN <<File("remove", 0, "uctl")>>
           \o Each(c, LAMBDA s : <<File("remove", s, "def"), File("remove", s, "events")>>)
      ELSE << >>)

\* The files are handled in this order; the third round of the loop that
\* removes local files falls through to the fourth, so that statistics remain.
cleanUp(c) ==
  (IF c.doclean
   THEN <<File("remove", 0, "uctl")>>
        \o Each(c, LAMBDA s : <<File("remove", s, "def"), File("remove", s, "events"),
                                          File("remove", s, "marker"), File("remove", s, "marker")>>)
   ELSE << >>)
  \o <<File("rename", 0, "def"), File("rename", 0, "marker"), File("rename", 0, "otf")>>
  \o Each(c, LAMBDA s : <<File("rename", s, "events"), File("rename", s, "stats")>>)

\* What is shared needs a barrier and one or two broadcasts; not for one rank.
Share(c, n) == IF c.size = 1 THEN << >>
               ELSE <<Do("Barrier")>> \o [k \in 1..n |-> Do("Bcast")] \o <<Do("syncError")>>
shareParams(c) == Share(c, 1)
shareUnifyControls(c) == Share(c, 2)
shareTokenTranslations(c) == Share(c, 2)

\* A mutant: only the master knows of the enhanced synchronisation.
shareMinStartTimeMaster(c, r) == Share(c, IF c.etimesync /\ r = 0 THEN 2 ELSE 1)

shareMinStartTime(c, r) == Share(c, IF c.etimesync THEN 2 ELSE 1)

MasterDoes(r, steps) == IF r = 0 THEN steps ELSE << >>

getParams(c, r) ==
  MasterDoes(r, <<Do("parseCommandLine")>>) \o <<Do("syncError")>> \o shareParams(c)

getUnifyControls(c, r) ==
  MasterDoes(r, <<Do("openControl")>>) \o <<Do("syncError")>>
  \o MasterDoes(r, <<Do("readControl")>>) \o <<Do("syncError")>> \o shareUnifyControls(c)

getMinStartTime(c, r) == <<Do("syncError")>> \o shareMinStartTime(c, r)

BarrierIfParallel(c) == IF c.size > 1 THEN <<Do("Barrier")>> ELSE << >>

SynchronizationRun(c) == BarrierIfParallel(c) \o <<Do("calcSync")>>

EventsRun(c, r) ==
  BarrierIfParallel(c)
  \o [k \in 1..Block(c, r)[2] - Block(c, r)[1] |-> File("write", Block(c, r)[1] + k, "events")]
  \o BarrierIfParallel(c)

writeMasterControl == <<File("write", 0, "otf")>>

Program(c, r) ==
  getParams(c, r) \o getUnifyControls(c, r) \o getMinStartTime(c, r)
  \o (IF c.etimesync THEN SynchronizationRun(c) \o <<Do("syncError")>> ELSE << >>)
  \o MasterDoes(r, <<File("write", 0, "def"), File("write", 0, "marker")>>
                   \o [s \in 1..c.streams |-> File("write", s, "stats")])
  \o <<Do("syncError")>>
  \o shareTokenTranslations(c)
  \o EventsRun(c, r) \o <<Do("syncError")>>
  \o MasterDoes(r, writeMasterControl \o cleanUp(c)) \o <<Do("syncError")>>
  \o <<Do("MPI_Finalize")>>

At(r) == Head(todo[r])
AtEnd(r) == todo[r] = << >>

(***************************************************************************)
(* The correction of times between the phases of the synchronisation.      *)
(***************************************************************************)
RoundMax == Cardinality({n \in DOMAIN conf.records[1] : conf.records[1][n] = "sync"})
InitialCtl == [round |-> 0, interval |-> 1]

\* A mutant: the parameters of the interval that ends are taken.
updateSyncParamLate(u) ==
  [round |-> u.round + 1,
   interval |-> IF u.round >= 1 /\ u.round < RoundMax - 1 THEN u.round ELSE u.interval]

\* Each comment selects the parameters of the interval that follows; the first
\* one (after which the first interval begins) and the last one change nothing.
updateSyncParam(u) ==
  [round |-> u.round + 1,
   interval |-> IF u.round >= 1 /\ u.round < RoundMax - 1 THEN u.round + 1 ELSE u.interval]

\* The records of a stream, each with the interval that corrects its time.  The
\* stream of a thread has no comments; it uses the interval of its process as
\* the rank that reads it knows it.
Corrected(units, s) ==
  FoldLeft(LAMBDA acc, x :
             IF x = "event"
             THEN [acc EXCEPT !.times = Append(@, acc.units[conf.process[s]].interval)]
             ELSE [acc EXCEPT !.units[s] = updateSyncParam(@)],
           [units |-> units, times |-> << >>], conf.records[s])

(***************************************************************************)
(* The steps of a rank.  Unless an earlier step failed, a step either does *)
(* its work or fails.                                                      *)
(***************************************************************************)
Running(r) == status[r] = "running"
HasFile(f) == f \in DOMAIN disk
LocalFiles(kind) == {s \in StreamsOf(conf) : HasFile(Local(s, kind))}

Written(r, st) ==
  CASE st.kind = "def" -> TRUE
    [] st.kind = "otf" -> TRUE
    [] st.kind = "marker" -> LocalFiles("marker") # {}
    [] OTHER -> st.stream \in LocalFiles(st.kind)

\* The master control is never compressed.
Target(st) == IF st.kind = "otf" THEN Name(OutPrefix, TRUE, 0, "otf", FALSE)
              ELSE Tmp(st.stream, st.kind)

\* A record that cannot be read or written is noticed; what the last buffer and
\* the master control fail on is not: the results of OTF_WStream_close and of
\* OTF_MasterControl_write are dropped, and the file may be cut.
WriteFile(r, st) ==
  LET new == IF st.kind = "events" /\ conf.etimesync THEN Corrected(ctl[r], st.stream)
             ELSE [units |-> ctl[r], times |-> << >>]
  IN \/ /\ ~Written(r, st)
        /\ UNCHANGED <<disk, ctl, error>>
     \/ /\ Written(r, st) /\ conf.unchecked
        /\ disk' = Put(disk, Target(st), Content("cut", << >>))
        /\ ctl' = [ctl EXCEPT ![r] = new.units]
        /\ UNCHANGED error
     \/ /\ Written(r, st)
        /\ disk' = Put(disk, Target(st), Content("unified", new.times))
        /\ ctl' = [ctl EXCEPT ![r] = new.units]
        /\ UNCHANGED error
     \/ /\ Written(r, st) /\ conf.fails
        /\ disk' = Put(disk, Target(st), Content("partial", << >>))
        /\ error' = [error EXCEPT ![r] = TRUE]
        /\ UNCHANGED ctl

\* The uncompressed file is tried first, then the compressed one.  A failure
\* counts for the control file only, which is never compressed.
RemoveFile(r, st) ==
  LET counts == st.kind = "uctl"
      plain == Name("in", FALSE, st.stream, st.kind, FALSE)
      tried == IF counts THEN {plain} ELSE {plain, [plain EXCEPT !.z = TRUE]}
      MayFail(f) == HasFile(f) => IF counts THEN conf.fails ELSE conf.unchecked
  IN \/ \E f \in tried :
          /\ HasFile(f) /\ (f # plain => MayFail(plain))
          /\ disk' = Without(disk, f)
          /\ UNCHANGED error
     \/ /\ \A f \in tried : MayFail(f)
        /\ error' = IF counts THEN [error EXCEPT ![r] = TRUE] ELSE error
        /\ UNCHANGED disk

\* Likewise: a failure counts for the unified definitions and the master control,
\* which is never compressed.
RenameFile(r, st) ==
  LET counts == st.kind \in {"def", "otf"}
      plain == Name(OutPrefix, TRUE, st.stream, st.kind, FALSE)
      tried == IF st.kind = "otf" THEN {plain} ELSE {plain, [plain EXCEPT !.z = TRUE]}
      MayFail(f) == HasFile(f) => IF counts THEN conf.fails ELSE conf.unchecked
  IN \/ \E f \in tried :
          /\ HasFile(f) /\ (f # plain => MayFail(plain))
          /\ disk' = Put(Without(disk, f), [f EXCEPT !.tmp = FALSE], disk[f])
          /\ UNCHANGED error
     \/ /\ \A f \in tried : MayFail(f)
        /\ error' = IF counts THEN [error EXCEPT ![r] = TRUE] ELSE error
        /\ UNCHANGED disk

\* Reading the command line, the control file, computing the intervals.
Read(r, st) ==
  /\ \/ /\ st.op = "openControl" => HasFile(Name("in", FALSE, 0, "uctl", FALSE))
        /\ UNCHANGED error
     \/ /\ st.op = "openControl" /\ HasFile(Name("in", FALSE, 0, "uctl", FALSE)) => conf.fails
        /\ error' = [error EXCEPT ![r] = TRUE]
  /\ UNCHANGED <<disk, ctl>>

Work(r) ==
  /\ Running(r) /\ ~AtEnd(r) /\ At(r).op \notin MPI
  /\ \/ error[r] /\ UNCHANGED <<disk, ctl, error>>
     \/ /\ ~error[r]
        /\ \/ At(r).op = "write" /\ WriteFile(r, At(r))
           \/ At(r).op = "remove" /\ RemoveFile(r, At(r)) /\ UNCHANGED ctl
           \/ At(r).op = "rename" /\ RenameFile(r, At(r)) /\ UNCHANGED ctl
           \/ At(r).op \notin {"write", "remove", "rename"} /\ Read(r, At(r))
  /\ todo' = [todo EXCEPT ![r] = Tail(@)]
  /\ UNCHANGED <<conf, inside, status, starts>>

(***************************************************************************)
(* Collective operations: all ranks must be in the same one.  syncError    *)
(* gives every rank the error of any rank; a rank with an error leaves the *)
(* program and aborts all others.                                          *)
(***************************************************************************)
Enter(r) ==
  /\ Running(r) /\ ~AtEnd(r) /\ At(r).op \in MPI /\ inside[r] = NONE
  /\ inside' = [inside EXCEPT ![r] = At(r).op]
  /\ UNCHANGED <<conf, disk, todo, error, status, ctl, starts>>

Meet(op) ==
  /\ \A r \in Ranks : Running(r) /\ inside[r] = op
  /\ inside' = [r \in Ranks |-> NONE]
  /\ UNCHANGED <<conf, disk, ctl, starts>>

syncError ==
  /\ Meet("syncError")
  /\ error' = [r \in Ranks |-> \E q \in Ranks : error[q]]
  /\ todo' = [r \in Ranks |-> IF error'[r] THEN << >> ELSE Tail(todo[r])]
  /\ UNCHANGED status

Collective ==
  /\ Meet("Barrier") \/ Meet("Bcast")
  /\ todo' = [r \in Ranks |-> Tail(todo[r])]
  /\ UNCHANGED <<error, status>>

Finalize ==
  /\ Meet("MPI_Finalize")
  /\ status' = [r \in Ranks |-> "done"]
  /\ UNCHANGED <<todo, error>>

Abort(r) ==
  /\ Running(r) /\ AtEnd(r)
  /\ status' = [q \in Ranks |-> "failed"]
  /\ UNCHANGED <<conf, disk, todo, error, inside, ctl, starts>>

------------------------------------------------------------------------------
(* The user or the batch system kills vtunify; the user starts it again. *)
Kill ==
  /\ conf.fails /\ \E r \in Ranks : Running(r)
  /\ status' = [r \in Ranks |-> "killed"]
  /\ UNCHANGED <<conf, disk, todo, error, inside, ctl, starts>>

Fresh(c) ==
  [todo |-> [r \in RanksOf(c) |-> Program(c, r)], error |-> [r \in RanksOf(c) |-> FALSE],
   inside |-> [r \in RanksOf(c) |-> NONE], status |-> [r \in RanksOf(c) |-> "running"],
   ctl |-> [r \in RanksOf(c) |-> [s \in StreamsOf(c) |-> InitialCtl]]]

StartWith(c) ==
  /\ starts < MaxStarts
  /\ \A r \in Ranks : ~Running(r)
  /\ conf' = c
  /\ todo' = Fresh(c).todo /\ error' = Fresh(c).error /\ inside' = Fresh(c).inside
  /\ status' = Fresh(c).status /\ ctl' = Fresh(c).ctl
  /\ starts' = starts + 1
  /\ UNCHANGED disk

Start == StartWith(conf)

\* vtunify has not been started yet.
Idle ==
  /\ todo = [r \in Ranks |-> << >>] /\ error = [r \in Ranks |-> FALSE]
  /\ inside = [r \in Ranks |-> NONE] /\ status = [r \in Ranks |-> "idle"]
  /\ ctl = [r \in Ranks |-> [s \in StreamsOf(conf) |-> InitialCtl]]
  /\ starts = 0

Init ==
  /\ conf \in Confs
  /\ disk = [f \in {Local(x[1], x[2]) : x \in conf.local}
                    \cup {Name("in", FALSE, 0, "uctl", FALSE)} |-> LocalContent]
  /\ Idle

Next ==
  \/ \E r \in Ranks : Work(r) \/ Enter(r) \/ Abort(r)
  \/ syncError \/ Collective \/ Finalize
  \/ Kill \/ Start

\* Ranks keep running; nobody has to kill or to start anything.
Fairness ==
  /\ WF_vars(\E r \in Ranks : Work(r) \/ Enter(r) \/ Abort(r))
  /\ WF_vars(syncError \/ Collective \/ Finalize)

Spec == Init /\ [][Next]_vars /\ Fairness

------------------------------------------------------------------------------

TypeOK ==
  /\ starts \in 0..MaxStarts
  /\ \A r \in Ranks :
       /\ error[r] \in BOOLEAN /\ inside[r] \in MPI \cup {NONE}
       /\ status[r] \in {"idle", "running", "done", "failed", "killed"}
       /\ \A n \in DOMAIN todo[r] : todo[r][n].stream \in 0..conf.streams
  /\ \A f \in DOMAIN disk : disk[f].state \in {"local", "unified", "cut", "partial"}

Somewhere(s, kind, states) ==
  \E f \in DOMAIN disk : f.stream = s /\ f.kind = kind /\ disk[f].state \in states

\* Whatever fails and whenever vtunify is killed or started again, what the
\* program recorded is on the disk: in the local file or in a unified one that
\* was written to its end (the unified definitions and markers are those of all
\* streams).  Only what a failing close of that file dropped can be missing from
\* it, as nothing asks for the result of the close.
NothingLost ==
  \A x \in conf.local :
    \/ Somewhere(x[1], x[2], {"local"})
    \/ IF x[2] \in {"def", "marker"} THEN Somewhere(0, x[2], {"unified", "cut"})
       ELSE Somewhere(x[1], x[2], {"unified", "cut"})

\* The local statistics that stay behind are not overwritten by the unified
\* ones if one of them is compressed and the other is not.
StaleStatistics == conf.same /\ conf.z # conf.docompress

\* When vtunify reports success, the output is complete: of every file there is
\* one variant, it is unified, and the records of a process were corrected with
\* the parameters of the interval between the two synchronisations around them.
\* If calls failed whose results are dropped, a file may be cut, may still have
\* its temporary name, or may stand beside a local one that was not removed; it
\* is not missing and none was given up with an error.
OutputRight ==
  (\A r \in Ranks : status[r] = "done") =>
    LET Files(s, kind) == {f \in DOMAIN disk : /\ f.prefix = OutPrefix
                                               /\ f.stream = s /\ f.kind = kind}
        Outputs(s, kind) == {f \in Files(s, kind) : ~f.tmp}
        Complete(s, kind) ==
          IF conf.unchecked
          THEN /\ \E f \in Files(s, kind) : disk[f].state \in {"unified", "cut"}
               /\ \A f \in Files(s, kind) : disk[f].state # "partial"
          ELSE /\ Cardinality(Outputs(s, kind)) = 1
               /\ \A f \in Outputs(s, kind) : disk[f].state = "unified"
        Phases(s, n) == Cardinality({k \in 1..n : conf.records[s][k] = "sync"})
        Own(s, n) == CASE Phases(s, n) = 0 -> 1
                       [] Phases(s, n) = RoundMax -> RoundMax - 1
                       [] OTHER -> Phases(s, n)
        EventsOf(s) == SelectSeq([n \in DOMAIN conf.records[s] |-> n],
                                 LAMBDA n : conf.records[s][n] = "event")
    IN /\ Complete(0, "def") /\ Complete(0, "otf")
       /\ (\E x \in conf.local : x[2] = "marker") => Complete(0, "marker")
       /\ \A x \in conf.local :
            /\ x[2] = "events" => Complete(x[1], "events")
            /\ x[2] = "stats" /\ ~StaleStatistics => Complete(x[1], "stats")
            /\ x[2] = "events" /\ conf.etimesync /\ conf.process[x[1]] = x[1] =>
                 \A f \in {g \in Outputs(x[1], "events") : disk[g].state = "unified"} :
                   disk[f].times = [k \in DOMAIN EventsOf(x[1]) |-> Own(x[1], EventsOf(x[1])[k])]

\* All ranks come to an end together: they agree on every collective operation,
\* whatever fails on one of them.
Ends == (\E r \in Ranks : Running(r)) ~> (\A r \in Ranks : ~Running(r))
==============================================================================
