------------------------------- MODULE MpiComms -------------------------------
(***************************************************************************)
(* The tables of communicators, groups and windows of vtlib/vt_mpicom.c,   *)
(* with the wrappers of vtlib/vt_mpiwrap.c that keep them, and the MPI     *)
(* library below them.                                                     *)
(*                                                                         *)
(* comms[] has one entry for every communicator, and entries without a     *)
(* communicator for groups that were made by MPI_Group_incl and the like.  *)
(* A trace identifier (cid, gid) is abstracted to the definition it names, *)
(* the set of processes written by vt_def_mpi_comm.                        *)
(*                                                                         *)
(* MPI counts the references to a group: MPI_Comm_dup, MPI_Comm_create,    *)
(* MPI_Comm_group and MPI_Win_get_group share the handle, and a handle     *)
(* without a reference left may be the value of a later group.             *)
(***************************************************************************)
EXTENDS Integers, Sequences, FiniteSets

CONSTANTS
  Procs,        \* processes of MPI_COMM_WORLD
  Me,           \* the process that is modelled
  Comms,        \* values of MPI_Comm
  World, Self,  \* MPI_COMM_WORLD and MPI_COMM_SELF
  Groups,       \* values of MPI_Group
  Windows,      \* values of MPI_Win
  NULL,         \* MPI_COMM_NULL, MPI_GROUP_NULL, MPI_WIN_NULL
  MaxComms,     \* VT_MAX_MPI_COMMS
  MaxWins,      \* VT_MAX_MPI_WINS
  CarelessWins  \* bound: the windows of a program that is not careful

ASSUME TablesAssumption ==
  /\ Me \in Procs
  /\ World \in Comms /\ Self \in Comms /\ World # Self
  /\ NULL \notin Comms \cup Groups \cup Windows
  /\ MaxComms \in Nat /\ MaxComms >= 2
  /\ MaxWins \in Nat \ {0}
  /\ CarelessWins \subseteq Windows

VARIABLES
  careful,  \* the program keeps what the tables rely on: it keeps the groups it
            \* makes, it frees a communicator after the groups and windows it got
            \* from it, it has at most one epoch open on a window, and while it
            \* locks a window it uses no other one
  comms,    \* comms[0 .. last_comm-1]: entries [comm, group, cid]
  wins,     \* wins[0 .. last_win-1]: slots [win, comm, gid]
  groupOf,  \* MPI: the group of every communicator, NULL if there is none
  members,  \* MPI: the processes of every group
  held,     \* MPI: the groups the program holds a handle of
  made,     \* the ones among them that MPI_Group_incl and the like returned
  window,   \* MPI: [group, access, exposure, locked] of every window
  is_rma_putre, \* MPI_Put and MPI_Accumulate are recorded with an end of their own
  error,    \* the vt_error_msg the process stopped with, or "none"
  misfiled  \* history: a one-sided operation was recorded for a wrong group, or
            \* with an end of its own although its epoch has one, or without

mpi  == <<groupOf, members, held, made, window>>
vars == <<careful, comms, wins, mpi, is_rma_putre, error, misfiled>>

NoWindow == [group |-> NULL, access |-> {}, exposure |-> {}, locked |-> FALSE]
FreeSlot == [win |-> NULL, comm |-> NULL, gid |-> {}]

Live == held \cup {groupOf[c] : c \in Comms} \cup {window[w].group : w \in Windows}

\* Groups MPI may return as a new one.
Fresh == Groups \ Live

------------------------------------------------------------------------------
(* vt_mpicom.c; the index 0 stands for (uint32_t)-1. *)

First(found) == IF found = {} THEN 0 ELSE CHOOSE i \in found : \A j \in found : i <= j

group_search(g) == First({i \in DOMAIN comms : comms[i].group = g})
comm_search(c)  == First({i \in DOMAIN comms : comms[i].comm = c})
win_search(w)   == First({i \in DOMAIN wins : wins[i].win = w})
free_win        == First({i \in DOMAIN wins : wins[i] = FreeSlot})

Stop(msg) == error' = msg /\ UNCHANGED <<comms, wins>>

\* Mutant: the number of entries is not checked.
CommCreateUnchecked(c, g, procs) ==
  /\ comms' = Append(comms, [comm |-> c, group |-> g, cid |-> procs])
  /\ UNCHANGED <<wins, error>>

\* The position that is looked at is the value of the comparison (0 or 1), not
\* the one group_search has found: comms[1], the entry of MPI_COMM_SELF.
vt_comm_create(c, g, procs) ==
  IF Len(comms) >= MaxComms THEN Stop("too many communicators")
  ELSE IF group_search(g) # 0 /\ comms[2].comm = NULL
  THEN comms' = [comms EXCEPT ![2].comm = c] /\ UNCHANGED <<wins, error>>
  ELSE /\ comms' = Append(comms, [comm |-> c, group |-> g, cid |-> procs])
       /\ UNCHANGED <<wins, error>>

\* Mutant: the last entry is dropped instead of moved.
CommFreeWithoutMove(c) ==
  IF comm_search(c) = 0 THEN Stop("cannot find communicator")
  ELSE /\ comms' = SubSeq(comms, 1, Len(comms) - 1)
       /\ UNCHANGED <<wins, error>>

\* The last entry is moved to the place of the removed one.
vt_comm_free(c) ==
  LET i == comm_search(c) IN
  IF i = 0 THEN Stop("cannot find communicator")
  ELSE /\ comms' = SubSeq([comms EXCEPT ![i] = comms[Len(comms)]], 1, Len(comms) - 1)
       /\ UNCHANGED <<wins, error>>

vt_group_create(g, procs) ==
  IF Len(comms) >= MaxComms THEN Stop("too many communicators")
  ELSE /\ comms' = IF group_search(g) # 0 THEN comms
                   ELSE Append(comms, [comm |-> NULL, group |-> g, cid |-> procs])
       /\ UNCHANGED <<wins, error>>

\* The group of the window is the one of the communicator it is made on; the
\* slot is the first free one, or a new one.
vt_win_create(w, c) ==
  LET pos  == group_search(groupOf[c])
      slot == [win |-> w, comm |-> c, gid |-> comms[pos].cid]
      full == free_win = 0 /\ Len(wins) >= MaxWins
  IN IF win_search(w) # 0 THEN UNCHANGED <<comms, wins, error>>
     ELSE IF full THEN Stop("too many windows")
     ELSE IF pos = 0 THEN Stop("cannot find group")
     ELSE /\ wins' = IF free_win # 0 THEN [wins EXCEPT ![free_win] = slot]
                                     ELSE Append(wins, slot)
          /\ UNCHANGED <<comms, error>>

vt_win_free(w) ==
  LET pos == win_search(w) IN
  IF pos = 0 THEN Stop("cannot find window")
  ELSE /\ wins' = [wins EXCEPT ![pos] = FreeSlot]
       /\ UNCHANGED <<comms, error>>

------------------------------------------------------------------------------
(* The wrappers. *)

Running == error = "none"

\* vt_comm_init has registered MPI_COMM_WORLD and MPI_COMM_SELF.
Init ==
  /\ careful \in BOOLEAN
  /\ \E gw, gs \in Groups :
      /\ gw # gs
      /\ groupOf = [c \in Comms |-> IF c = World THEN gw ELSE IF c = Self THEN gs ELSE NULL]
      /\ members = [g \in Groups |-> IF g = gw THEN Procs ELSE IF g = gs THEN {Me} ELSE {}]
      /\ comms = <<[comm |-> World, group |-> gw, cid |-> Procs],
                   [comm |-> Self, group |-> gs, cid |-> {Me}]>>
      /\ wins = << >>
      /\ held = {} /\ made = {}
      /\ window = [w \in Windows |-> NoWindow]
      /\ is_rma_putre = TRUE
      /\ error = "none"
      /\ misfiled = FALSE

\* MPI returns communicator c of group g, which has the processes procs.
NewComm(c, g, procs) ==
  /\ Running /\ groupOf[c] = NULL
  /\ groupOf' = [groupOf EXCEPT ![c] = g]
  /\ members' = [members EXCEPT ![g] = procs]
  /\ vt_comm_create(c, g, procs)
  /\ UNCHANGED <<held, made, window, misfiled>>

MPI_Comm_dup(old, c) ==
  groupOf[old] # NULL /\ NewComm(c, groupOf[old], members[groupOf[old]])

\* A process outside the group gets MPI_COMM_NULL, which is not registered.
MPI_Comm_create(g, c) == g \in held /\ Me \in members[g] /\ NewComm(c, g, members[g])

\* A communicator of some of the processes of an old one; the processes that
\* are left out get MPI_COMM_NULL.
SubComm(old, c, procs) ==
  /\ groupOf[old] # NULL /\ groupOf[c] = NULL
  /\ Me \in procs /\ procs \subseteq members[groupOf[old]]
  /\ \E g \in Fresh : NewComm(c, g, procs)

MPI_Comm_split(old, c, procs)   == SubComm(old, c, procs)
MPI_Cart_create(old, c, procs)  == SubComm(old, c, procs)
MPI_Cart_sub(old, c, procs)     == SubComm(old, c, procs)
MPI_Graph_create(old, c, procs) == SubComm(old, c, procs)

\* The group of an intercommunicator, as MPI_Comm_group returns it, is the local
\* one, under the same handle or under a new one.
MPI_Intercomm_create(local, c) ==
  /\ groupOf[local] # NULL /\ Procs \ members[groupOf[local]] # {}
  /\ \E g \in Fresh \cup {groupOf[local]} : NewComm(c, g, members[groupOf[local]])

MPI_Intercomm_merge(inter, c, remote) ==
  /\ groupOf[inter] # NULL /\ groupOf[c] = NULL
  /\ remote # {} /\ remote \cap members[groupOf[inter]] = {}
  /\ \E g \in Fresh : NewComm(c, g, members[groupOf[inter]] \cup remote)

MPI_Comm_free(c) ==
  /\ Running /\ groupOf[c] # NULL /\ c \notin {World, Self}
  /\ careful => groupOf[c] \notin held /\ \A w \in Windows : window[w].group # groupOf[c]
  /\ vt_comm_free(c)
  /\ groupOf' = [groupOf EXCEPT ![c] = NULL]
  /\ UNCHANGED <<members, held, made, window, misfiled>>

\* Not one of the wrappers that keep the tables.
MPI_Comm_group(c) ==
  /\ Running /\ groupOf[c] # NULL /\ groupOf[c] \notin held
  /\ held' = held \cup {groupOf[c]}
  /\ UNCHANGED <<comms, wins, groupOf, members, made, window, error, misfiled>>

\* MPI returns a new group with the processes procs. (The result of an
\* operation that leaves nobody is MPI_GROUP_EMPTY, which is left out.)
NewGroup(procs) ==
  /\ Running /\ procs # {}
  /\ \E g \in Fresh :
       /\ held' = held \cup {g}
       /\ made' = made \cup {g}
       /\ members' = [members EXCEPT ![g] = procs]
       /\ vt_group_create(g, procs)
  /\ UNCHANGED <<groupOf, window, misfiled>>

MPI_Group_union(g, h)        == {g, h} \subseteq held /\ NewGroup(members[g] \cup members[h])
MPI_Group_intersection(g, h) == {g, h} \subseteq held /\ NewGroup(members[g] \cap members[h])
MPI_Group_difference(g, h)   == {g, h} \subseteq held /\ NewGroup(members[g] \ members[h])

\* Ranks of a group, listed one by one or in ranges; their order is left out.
Ranks(g, some) == g \in held /\ some \subseteq members[g]

MPI_Group_incl(g, some)       == Ranks(g, some) /\ NewGroup(some)
MPI_Group_excl(g, some)       == Ranks(g, some) /\ NewGroup(members[g] \ some)
MPI_Group_range_incl(g, some) == Ranks(g, some) /\ NewGroup(some)
MPI_Group_range_excl(g, some) == Ranks(g, some) /\ NewGroup(members[g] \ some)

\* vt_group_free does nothing.
MPI_Group_free(g) ==
  /\ Running /\ g \in held
  /\ careful => g \notin made
  /\ held' = held \ {g}
  /\ made' = made \ {g}
  /\ UNCHANGED <<comms, wins, groupOf, members, window, error, misfiled>>

NoEpoch(w) == window[w].access = {} /\ window[w].exposure = {} /\ ~window[w].locked

MPI_Win_create(w, c) ==
  /\ Running /\ window[w].group = NULL /\ groupOf[c] # NULL
  /\ careful \/ w \in CarelessWins
  /\ window' = [window EXCEPT ![w].group = groupOf[c]]
  /\ vt_win_create(w, c)
  /\ UNCHANGED <<groupOf, members, held, made, misfiled>>

MPI_Win_free(w) ==
  /\ Running /\ window[w].group # NULL /\ NoEpoch(w)
  /\ vt_win_free(w)
  /\ window' = [window EXCEPT ![w] = NoWindow]
  /\ UNCHANGED <<groupOf, members, held, made, misfiled>>

\* vt_win_set_gid(win, vt_group_id(group))
SetGroup(w, g) ==
  LET pos == win_search(w) IN
  IF pos = 0 THEN Stop("cannot find window")
  ELSE IF group_search(g) = 0 THEN Stop("cannot find group")
  ELSE /\ wins' = [wins EXCEPT ![pos].gid = comms[group_search(g)].cid]
       /\ UNCHANGED <<comms, error>>

BeginEpoch(w, g, epoch) ==
  /\ Running /\ window[w].group # NULL /\ g \in held
  /\ window[w][epoch] = {} /\ ~window[w].locked
  /\ careful => \A v \in Windows : IF v = w THEN NoEpoch(v) ELSE ~window[v].locked
  /\ members[g] \subseteq members[window[w].group]
  /\ window' = [window EXCEPT ![w][epoch] = members[g]]
  /\ SetGroup(w, g)
  /\ UNCHANGED <<groupOf, members, held, made, misfiled>>

MPI_Win_start(w, g) == BeginEpoch(w, g, "access")
MPI_Win_post(w, g)  == BeginEpoch(w, g, "exposure")

\* Mutant: the window keeps the group of the epoch.
EndKeepsGroup(w, epoch) ==
  LET pos == win_search(w) IN
  /\ Running /\ window[w][epoch] # {}
  /\ misfiled' = (misfiled \/ wins[pos].gid # window[w][epoch])
  /\ window' = [window EXCEPT ![w][epoch] = {}]
  /\ UNCHANGED <<comms, wins, groupOf, members, held, made, error>>

\* The end is recorded for the window's gid, which then is the communicator's
\* again.
EndEpoch(w, epoch) ==
  LET pos == win_search(w)
      i   == comm_search(wins[pos].comm)
  IN /\ Running /\ window[w][epoch] # {}
     /\ misfiled' = (misfiled \/ wins[pos].gid # window[w][epoch])
     /\ window' = [window EXCEPT ![w][epoch] = {}]
     /\ IF i = 0 THEN Stop("cannot find communicator")
        ELSE /\ wins' = [wins EXCEPT ![pos].gid = comms[i].cid]
             /\ UNCHANGED <<comms, error>>
     /\ UNCHANGED <<groupOf, members, held, made>>

MPI_Win_complete(w) == EndEpoch(w, "access")
MPI_Win_wait(w)     == EndEpoch(w, "exposure")

\* MPI_Win_test, which may find that the epoch has not ended.
MPI_Win_test(w) ==
  \/ EndEpoch(w, "exposure")
  \/ Running /\ window[w].exposure # {} /\ UNCHANGED <<comms, wins, mpi, error, misfiled>>

\* The window is used, and the program is careful to use no other one that is
\* locked.
Use(w) ==
  /\ Running /\ window[w].group # NULL
  /\ careful => \A v \in Windows \ {w} : ~window[v].locked

MPI_Win_fence(w) ==
  /\ Use(w) /\ NoEpoch(w)
  /\ misfiled' = (misfiled \/ wins[win_search(w)].gid # members[window[w].group])
  /\ UNCHANGED <<comms, wins, mpi, is_rma_putre, error>>

\* One flag for all windows says that a lock is held.
MPI_Win_lock(w) ==
  /\ Use(w) /\ NoEpoch(w)
  /\ window' = [window EXCEPT ![w].locked = TRUE]
  /\ is_rma_putre' = FALSE
  /\ UNCHANGED <<comms, wins, groupOf, members, held, made, error, misfiled>>

\* Mutant: the flag stays reset.
UnlockKeepsFlag(w) ==
  /\ Use(w) /\ window[w].locked
  /\ window' = [window EXCEPT ![w].locked = FALSE]
  /\ misfiled' = (misfiled \/ wins[win_search(w)].gid # members[window[w].group])
  /\ UNCHANGED <<comms, wins, groupOf, members, held, made, is_rma_putre, error>>

\* A call that is not recorded leaves the flag reset; the calls of a careful
\* program are recorded.
MPI_Win_unlock(w) ==
  /\ Use(w) /\ window[w].locked
  /\ window' = [window EXCEPT ![w].locked = FALSE]
  /\ \E recorded \in BOOLEAN :
       /\ careful => recorded
       /\ is_rma_putre' = (is_rma_putre \/ recorded)
       /\ misfiled' = \/ misfiled
                      \/ recorded /\ wins[win_search(w)].gid # members[window[w].group]
  /\ UNCHANGED <<comms, wins, groupOf, members, held, made, error>>

\* Where an operation of this process on a window belongs: to the group of its
\* access epoch, or to the window's.
Target(w) == IF window[w].access # {} THEN window[w].access ELSE members[window[w].group]

\* Under a lock, the end is the one MPI_Win_unlock records.
MPI_Put(w) ==
  /\ Use(w) /\ (window[w].access # {} \/ window[w].exposure = {})
  /\ misfiled' = (misfiled \/ wins[win_search(w)].gid # Target(w)
                           \/ is_rma_putre = window[w].locked)
  /\ UNCHANGED <<comms, wins, mpi, is_rma_putre, error>>

MPI_Accumulate(w) == MPI_Put(w)

MPI_Get(w) ==
  /\ Use(w) /\ (window[w].access # {} \/ window[w].exposure = {})
  /\ misfiled' = (misfiled \/ wins[win_search(w)].gid # Target(w))
  /\ UNCHANGED <<comms, wins, mpi, is_rma_putre, error>>

\* The calls that do not touch the flag.
CommCall ==
  \/ \E old, c \in Comms : MPI_Comm_dup(old, c) \/ MPI_Intercomm_create(old, c)
  \/ \E g \in Groups, c \in Comms : MPI_Comm_create(g, c)
  \/ \E old, c \in Comms, procs \in SUBSET Procs :
       \/ MPI_Comm_split(old, c, procs) \/ MPI_Intercomm_merge(old, c, procs)
       \/ MPI_Cart_create(old, c, procs) \/ MPI_Cart_sub(old, c, procs)
       \/ MPI_Graph_create(old, c, procs)
  \/ \E c \in Comms : MPI_Comm_free(c) \/ MPI_Comm_group(c)

GroupCall ==
  \/ \E g, h \in Groups :
       MPI_Group_union(g, h) \/ MPI_Group_intersection(g, h) \/ MPI_Group_difference(g, h)
  \/ \E g \in Groups, some \in SUBSET Procs :
       \/ MPI_Group_incl(g, some) \/ MPI_Group_range_incl(g, some)
       \/ MPI_Group_excl(g, some) \/ MPI_Group_range_excl(g, some)
  \/ \E g \in Groups : MPI_Group_free(g)

WinCall ==
  \/ \E w \in Windows, c \in Comms : MPI_Win_create(w, c)
  \/ \E w \in Windows, g \in Groups : MPI_Win_start(w, g) \/ MPI_Win_post(w, g)
  \/ \E w \in Windows :
       MPI_Win_free(w) \/ MPI_Win_complete(w) \/ MPI_Win_wait(w) \/ MPI_Win_test(w)

\* One-sided operations, and the synchronisation without groups.
RmaCall ==
  \E w \in Windows :
    \/ MPI_Win_fence(w) \/ MPI_Win_lock(w) \/ MPI_Win_unlock(w)
    \/ MPI_Put(w) \/ MPI_Get(w) \/ MPI_Accumulate(w)

Call ==
  \/ (CommCall \/ GroupCall \/ WinCall) /\ UNCHANGED is_rma_putre
  \/ RmaCall

Next == Call /\ UNCHANGED careful

Spec == Init /\ [][Next]_vars

------------------------------------------------------------------------------
(* Properties. *)

\* Type invariant of the tables and of the MPI library.
TypeOK ==
  /\ careful \in BOOLEAN
  /\ \A i \in DOMAIN comms :
       comms[i] \in [comm : Comms \cup {NULL}, group : Groups, cid : SUBSET Procs]
  /\ Len(comms) <= MaxComms
  /\ \A i \in DOMAIN wins :
       wins[i] \in [win : Windows \cup {NULL}, comm : Comms \cup {NULL}, gid : SUBSET Procs]
  /\ Len(wins) <= MaxWins
  /\ groupOf \in [Comms -> Groups \cup {NULL}]
  /\ members \in [Groups -> SUBSET Procs]
  /\ held \subseteq Groups /\ made \subseteq held
  /\ window \in [Windows -> [group : Groups \cup {NULL}, access : SUBSET Procs,
                             exposure : SUBSET Procs, locked : BOOLEAN]]
  /\ is_rma_putre \in BOOLEAN
  /\ error \in {"none", "too many communicators", "cannot find communicator",
                "cannot find group", "cannot find window", "too many windows"}
  /\ misfiled \in BOOLEAN

\* Whatever was created and freed before, the table has exactly one entry for
\* every communicator of the program, no entry of a freed one, and the entry
\* names the processes the communicator really has: a message is never
\* attributed to another communicator that had the handle before, or that was
\* moved into the entry's place.
CommsRight ==
  Running => \A c \in Comms :
    LET entries == {i \in DOMAIN comms : comms[i].comm = c}
    IN IF groupOf[c] = NULL THEN entries = {}
       ELSE \E i \in entries : entries = {i} /\ comms[i].cid = members[groupOf[c]]

\* Every window of the program has exactly one slot, slots of freed windows
\* are used again, and the limit stops the program only with MaxWins windows
\* in existence.
WindowsRight ==
  /\ Running => \A w \in Windows :
       Cardinality({i \in DOMAIN wins : wins[i].win = w})
         = (IF window[w].group = NULL THEN 0 ELSE 1)
  /\ error = "too many windows" =>
       Cardinality({w \in Windows : window[w].group # NULL}) > MaxWins

\* Communicators and windows are identified correctly, whatever any legal
\* program created and freed before.
TablesRight == CommsRight /\ WindowsRight

\* For a careful program, every group it holds has an entry, and the first one
\* group_search finds names the processes the group really has.
GroupsRight ==
  careful /\ Running =>
    \A g \in held : /\ group_search(g) # 0
                    /\ comms[group_search(g)].cid = members[g]

\* For a careful program every one-sided operation and every end of an epoch is
\* recorded for the group it belongs to, and every operation has exactly one end:
\* its own, or the one of the lock it happens under.
EpochsRight == careful => ~misfiled

\* A careful program is never stopped because an entry cannot be found; only
\* the limits of the tables stop it.
CarefulNeverStops ==
  careful => error \in {"none", "too many communicators", "too many windows"}

\* A careful program gets what the tables promise: the right groups, the right
\* epochs, and no lookup that fails.
CarefulIsServed == GroupsRight /\ EpochsRight /\ CarefulNeverStops
==============================================================================
