--------------------------- MODULE MpiComms_proofs ---------------------------
(***************************************************************************)
(* Proofs about MpiComms, for every number of processes, handles and table *)
(* entries: the tables stay well formed, communicators and windows are     *)
(* identified correctly for every legal program, and a careful program     *)
(* gets the right groups and epochs and is never stopped by a lookup.      *)
(***************************************************************************)
EXTENDS MpiComms, FiniteSetTheorems, FunctionTheorems, SequenceTheorems,
        WellFoundedInduction, TLAPS

Entry == [comm : Comms \cup {NULL}, group : Groups, cid : SUBSET Procs]
Slot  == [win : Windows \cup {NULL}, comm : Comms \cup {NULL}, gid : SUBSET Procs]
Win   == [group : Groups \cup {NULL}, access : SUBSET Procs, exposure : SUBSET Procs,
          locked : BOOLEAN]
Errors == {"none", "too many communicators", "cannot find communicator",
           "cannot find group", "cannot find window", "too many windows"}

\* The types, with the tables as sequences.
TablesType ==
  /\ comms \in Seq(Entry) /\ Len(comms) <= MaxComms
  /\ wins \in Seq(Slot) /\ Len(wins) <= MaxWins

MpiType ==
  /\ groupOf \in [Comms -> Groups \cup {NULL}]
  /\ members \in [Groups -> SUBSET Procs]
  /\ held \subseteq Groups /\ made \subseteq held
  /\ window \in [Windows -> Win]

TypeInv ==
  /\ careful \in BOOLEAN
  /\ TablesType
  /\ MpiType
  /\ is_rma_putre \in BOOLEAN
  /\ error \in Errors
  /\ misfiled \in BOOLEAN

\* An entry with a communicator names its group and the group's processes; the
\* predefined communicators stay in front, so that the entry vt_comm_create
\* looks at by mistake is never without a communicator.
EntriesRight ==
  /\ Len(comms) >= 2 /\ comms[1].comm = World /\ comms[2].comm = Self
  /\ \A i \in DOMAIN comms : comms[i].comm # NULL =>
       /\ groupOf[comms[i].comm] = comms[i].group
       /\ comms[i].cid = members[comms[i].group]
  /\ \A i, j \in DOMAIN comms :
       comms[i].comm # NULL /\ comms[i].comm = comms[j].comm => i = j
  /\ \A c \in Comms : groupOf[c] # NULL => \E i \in DOMAIN comms : comms[i].comm = c

Created == {w \in Windows : window[w].group # NULL}

\* A slot is free or has one of the windows that exist, each has one.
SlotsRight ==
  /\ \A i \in DOMAIN wins : wins[i] = FreeSlot \/ wins[i].win \in Created
  /\ \A i, j \in DOMAIN wins :
       wins[i].win # NULL /\ wins[i].win = wins[j].win => i = j
  /\ \A w \in Created : \E i \in DOMAIN wins : wins[i].win = w

TablesInv ==
  /\ Running => EntriesRight /\ SlotsRight
  /\ error = "too many windows" => Cardinality(Created) > MaxWins

\* The processes a record of the window belongs to.
Gid(w) ==
  IF window[w].access # {} THEN window[w].access
  ELSE IF window[w].exposure # {} THEN window[w].exposure
  ELSE members[window[w].group]

\* The groups a careful program holds have entries, the ones without a
\* communicator are of groups it keeps, and no group in use is empty.
GroupsKept ==
  /\ \A g \in held : \E i \in DOMAIN comms : comms[i].group = g
  /\ \A i \in DOMAIN comms : comms[i].comm = NULL =>
       comms[i].group \in made /\ comms[i].cid = members[comms[i].group]
  /\ \A g \in Groups : g \in Live => members[g] # {}

\* The slot of a window names the group of its epoch, and a communicator that
\* has the window's group.
SlotsKept ==
  \A i \in DOMAIN wins : wins[i].win # NULL =>
    /\ wins[i].comm \in Comms
    /\ groupOf[wins[i].comm] = window[wins[i].win].group
    /\ wins[i].gid = Gid(wins[i].win)

\* A window has one kind of epoch at a time, none before it is created, and the
\* flag tells whether a window is locked.
OneEpoch ==
  /\ \A w \in Windows :
       /\ window[w].access = {} \/ window[w].exposure = {}
       /\ window[w].locked => window[w].access = {} /\ window[w].exposure = {}
       /\ window[w].group = NULL => NoEpoch(w)
  /\ is_rma_putre = (\A w \in Windows : ~window[w].locked)

ServedInv ==
  careful =>
    /\ Running => GroupsKept /\ SlotsKept /\ OneEpoch
    /\ ~misfiled
    /\ error \in {"none", "too many communicators", "too many windows"}

IInv == TypeInv /\ TablesInv /\ ServedInv

------------------------------------------------------------------------------
(* The lookups. *)

\* A search returns an index that has been found, 0 if there is none.
LEMMA FirstIs ==
  ASSUME NEW S \in SUBSET (Nat \ {0})
  PROVE  /\ S = {} => First(S) = 0
         /\ S # {} => First(S) \in S /\ First(S) # 0
<1>1. CASE S = {}
  BY <1>1 DEF First
<1>2. CASE S # {}
  <2>1. PICK x \in S : TRUE
    BY <1>2
  <2>2. S \subseteq Nat
    OBVIOUS
  <2>3. \E m \in S : \A j \in S : ~(<<j, m>> \in OpToRel(<, Nat))
    BY <2>1, <2>2, WFMin, NatLessThanWellFounded, Zenon
  <2>4. PICK m \in S : \A j \in S : ~(<<j, m>> \in OpToRel(<, Nat))
    BY <2>3
  <2>5. \A j \in S : ~(j < m)
    BY <2>2, <2>4 DEF OpToRel
  <2>6. \A j \in S : m <= j
    BY <2>2, <2>5
  <2>7. First(S) \in S
    BY <1>2, <2>6 DEF First
  <2> QED
    BY <1>2, <2>7
<1> QED
  BY <1>1, <1>2

\* group_search finds an entry of the group, if there is one.
LEMMA GroupSearch ==
  ASSUME comms \in Seq(Entry), NEW g
  PROVE  /\ group_search(g) # 0 =>
              group_search(g) \in DOMAIN comms /\ comms[group_search(g)].group = g
         /\ (\E i \in DOMAIN comms : comms[i].group = g) => group_search(g) # 0
<1> DEFINE S == {i \in DOMAIN comms : comms[i].group = g}
<1>1. DOMAIN comms \subseteq Nat \ {0}
  BY LenProperties
<1>2. S \in SUBSET (Nat \ {0})
  BY <1>1
<1>3. group_search(g) = First(S)
  BY DEF group_search
<1>4. (S = {} => First(S) = 0) /\ (S # {} => First(S) \in S /\ First(S) # 0)
  <2> HIDE DEF S
  <2> QED
    BY <1>2, FirstIs
<1> QED
  BY <1>3, <1>4

\* comm_search finds an entry of the communicator, if there is one.
LEMMA CommSearch ==
  ASSUME comms \in Seq(Entry), NEW c
  PROVE  /\ comm_search(c) # 0 =>
              comm_search(c) \in DOMAIN comms /\ comms[comm_search(c)].comm = c
         /\ (\E i \in DOMAIN comms : comms[i].comm = c) => comm_search(c) # 0
<1> DEFINE S == {i \in DOMAIN comms : comms[i].comm = c}
<1>1. DOMAIN comms \subseteq Nat \ {0}
  BY LenProperties
<1>2. S \in SUBSET (Nat \ {0})
  BY <1>1
<1>3. comm_search(c) = First(S)
  BY DEF comm_search
<1>4. (S = {} => First(S) = 0) /\ (S # {} => First(S) \in S /\ First(S) # 0)
  <2> HIDE DEF S
  <2> QED
    BY <1>2, FirstIs
<1> QED
  BY <1>3, <1>4

\* win_search finds a slot of the window, if there is one.
LEMMA WinSearch ==
  ASSUME wins \in Seq(Slot), NEW w
  PROVE  /\ win_search(w) # 0 =>
              win_search(w) \in DOMAIN wins /\ wins[win_search(w)].win = w
         /\ (\E i \in DOMAIN wins : wins[i].win = w) => win_search(w) # 0
<1> DEFINE S == {i \in DOMAIN wins : wins[i].win = w}
<1>1. DOMAIN wins \subseteq Nat \ {0}
  BY LenProperties
<1>2. S \in SUBSET (Nat \ {0})
  BY <1>1
<1>3. win_search(w) = First(S)
  BY DEF win_search
<1>4. (S = {} => First(S) = 0) /\ (S # {} => First(S) \in S /\ First(S) # 0)
  <2> HIDE DEF S
  <2> QED
    BY <1>2, FirstIs
<1> QED
  BY <1>3, <1>4

\* vt_win_create takes a free slot, if there is one.
LEMMA FreeWin ==
  ASSUME wins \in Seq(Slot)
  PROVE  /\ free_win # 0 => free_win \in DOMAIN wins /\ wins[free_win] = FreeSlot
         /\ free_win = 0 => \A i \in DOMAIN wins : wins[i] # FreeSlot
<1> DEFINE S == {i \in DOMAIN wins : wins[i] = FreeSlot}
<1>1. DOMAIN wins \subseteq Nat \ {0}
  BY LenProperties
<1>2. S \in SUBSET (Nat \ {0})
  BY <1>1
<1>3. free_win = First(S)
  BY DEF free_win
<1>4. (S = {} => First(S) = 0) /\ (S # {} => First(S) \in S /\ First(S) # 0)
  <2> HIDE DEF S
  <2> QED
    BY <1>2, FirstIs
<1> QED
  BY <1>3, <1>4

\* The parts of an entry and of a slot.
LEMMA Parts ==
  /\ \A e \in Entry : /\ e.comm \in Comms \cup {NULL} /\ e.group \in Groups
                      /\ e.cid \in SUBSET Procs
  /\ \A s \in Slot : /\ s.win \in Windows \cup {NULL} /\ s.comm \in Comms \cup {NULL}
                     /\ s.gid \in SUBSET Procs
  /\ FreeSlot \in Slot /\ FreeSlot.win = NULL /\ FreeSlot.gid = {}
  /\ \A c \in Comms \cup {NULL}, g \in Groups, p \in SUBSET Procs :
       LET e == [comm |-> c, group |-> g, cid |-> p]
       IN e \in Entry /\ e.comm = c /\ e.group = g /\ e.cid = p
  /\ \A w \in Windows \cup {NULL}, c \in Comms \cup {NULL}, p \in SUBSET Procs :
       LET s == [win |-> w, comm |-> c, gid |-> p]
       IN s \in Slot /\ s.win = w /\ s.comm = c /\ s.gid = p
  BY DEF Entry, Slot, FreeSlot

------------------------------------------------------------------------------
(* The steps. *)

\* What MPI gives back for a communicator: a new group, or one in use with the
\* processes it has.
Given(c, g, procs) ==
  /\ groupOf[c] = NULL
  /\ g \in Fresh \/ (g \in Live /\ members[g] = procs)
  /\ procs # {} \/ \E h \in Groups : h \in Live /\ procs = members[h]

\* The calls that keep the tables, by what they do to them.
TableStep ==
  \/ \E c \in Comms, g \in Groups, procs \in SUBSET Procs :
       Given(c, g, procs) /\ NewComm(c, g, procs)
  \/ \E c \in Comms : MPI_Comm_free(c) \/ MPI_Comm_group(c)
  \/ \E procs \in SUBSET Procs : NewGroup(procs)
  \/ \E g \in Groups : MPI_Group_free(g)
  \/ \E w \in Windows, c \in Comms : MPI_Win_create(w, c)
  \/ \E w \in Windows, g \in Groups, e \in {"access", "exposure"} : BeginEpoch(w, g, e)
  \/ \E w \in Windows, e \in {"access", "exposure"} : EndEpoch(w, e)
  \/ \E w \in Windows : MPI_Win_free(w)
  \/ UNCHANGED <<comms, wins, mpi, error, misfiled>>

\* The calls that make a communicator are given one of a new group or of a group
\* in use.
LEMMA CommCallIs ==
  ASSUME TypeInv, CommCall
  PROVE  \/ \E c \in Comms, g \in Groups, procs \in SUBSET Procs :
              Given(c, g, procs) /\ NewComm(c, g, procs)
         \/ \E c \in Comms : MPI_Comm_free(c) \/ MPI_Comm_group(c)
<1>0. /\ groupOf \in [Comms -> Groups \cup {NULL}] /\ members \in [Groups -> SUBSET Procs]
      /\ held \subseteq Groups /\ Me \in Procs /\ NULL \notin Groups
  BY TablesAssumption DEF TypeInv, MpiType
<1>1. \A c \in Comms : groupOf[c] # NULL =>
         groupOf[c] \in Groups /\ groupOf[c] \in Live /\ members[groupOf[c]] \in SUBSET Procs
  BY <1>0 DEF Live
<1>2. \A g \in held : g \in Groups /\ g \in Live
  BY <1>0 DEF Live
<1>3. \A c \in Comms, g \in Groups, procs \in SUBSET Procs :
         NewComm(c, g, procs) => groupOf[c] = NULL
  BY DEF NewComm
<1>4. ASSUME NEW old \in Comms, NEW c \in Comms, MPI_Comm_dup(old, c)
      PROVE  \E g \in Groups, procs \in SUBSET Procs :
               Given(c, g, procs) /\ NewComm(c, g, procs)
  <2> DEFINE g == groupOf[old]
  <2>1. g \in Groups /\ g \in Live /\ members[g] \in SUBSET Procs
    BY <1>1, <1>4 DEF MPI_Comm_dup
  <2>2. NewComm(c, g, members[g])
    BY <1>4 DEF MPI_Comm_dup
  <2>3. Given(c, g, members[g])
    BY <1>3, <2>1, <2>2 DEF Given
  <2> QED
    BY <2>1, <2>2, <2>3
<1>5. ASSUME NEW old \in Comms, NEW c \in Comms, MPI_Intercomm_create(old, c)
      PROVE  \E g \in Groups, procs \in SUBSET Procs :
               Given(c, g, procs) /\ NewComm(c, g, procs)
  <2> DEFINE h == groupOf[old]
  <2>1. h \in Groups /\ h \in Live /\ members[h] \in SUBSET Procs
    BY <1>1, <1>5 DEF MPI_Intercomm_create
  <2>2. PICK g \in Fresh \cup {h} : NewComm(c, g, members[h])
    BY <1>5 DEF MPI_Intercomm_create
  <2>3. g \in Groups
    BY <2>1, <2>2 DEF Fresh
  <2>4. Given(c, g, members[h])
    BY <1>3, <2>1, <2>2, <2>3 DEF Given
  <2> QED
    BY <2>1, <2>2, <2>3, <2>4
<1>6. ASSUME NEW g \in Groups, NEW c \in Comms, MPI_Comm_create(g, c)
      PROVE  \E procs \in SUBSET Procs : Given(c, g, procs) /\ NewComm(c, g, procs)
  <2>1. g \in Live /\ members[g] \in SUBSET Procs
    BY <1>0, <1>2, <1>6 DEF MPI_Comm_create
  <2>2. NewComm(c, g, members[g])
    BY <1>6 DEF MPI_Comm_create
  <2>3. Given(c, g, members[g])
    BY <1>3, <2>1, <2>2 DEF Given
  <2> QED
    BY <2>1, <2>2, <2>3
<1>7. ASSUME NEW old \in Comms, NEW c \in Comms, NEW procs \in SUBSET Procs,
             SubComm(old, c, procs)
      PROVE  \E g \in Groups : Given(c, g, procs) /\ NewComm(c, g, procs)
  <2>1. PICK g \in Fresh : NewComm(c, g, procs)
    BY <1>7 DEF SubComm
  <2>2. g \in Groups /\ procs # {}
    BY <1>7 DEF Fresh, SubComm
  <2>3. Given(c, g, procs)
    BY <1>3, <2>1, <2>2 DEF Given
  <2> QED
    BY <2>1, <2>2, <2>3
<1>8. ASSUME NEW old \in Comms, NEW c \in Comms, NEW remote \in SUBSET Procs,
             MPI_Intercomm_merge(old, c, remote)
      PROVE  \E g \in Groups, procs \in SUBSET Procs :
               Given(c, g, procs) /\ NewComm(c, g, procs)
  <2> DEFINE procs == members[groupOf[old]] \cup remote
  <2>1. procs \in SUBSET Procs /\ procs # {}
    BY <1>1, <1>8 DEF MPI_Intercomm_merge
  <2>2. PICK g \in Fresh : NewComm(c, g, procs)
    BY <1>8 DEF MPI_Intercomm_merge
  <2>3. g \in Groups
    BY DEF Fresh
  <2> HIDE DEF procs
  <2>4. Given(c, g, procs)
    BY <1>3, <2>1, <2>2, <2>3 DEF Given
  <2> QED
    BY <2>1, <2>2, <2>3, <2>4
<1>9. CASE \E old, c \in Comms : MPI_Comm_dup(old, c) \/ MPI_Intercomm_create(old, c)
  BY <1>4, <1>5, <1>9, Zenon
<1>10. CASE \E g \in Groups, c \in Comms : MPI_Comm_create(g, c)
  BY <1>6, <1>10, Zenon
<1>11. CASE \E old, c \in Comms, procs \in SUBSET Procs :
              \/ MPI_Comm_split(old, c, procs) \/ MPI_Intercomm_merge(old, c, procs)
              \/ MPI_Cart_create(old, c, procs) \/ MPI_Cart_sub(old, c, procs)
              \/ MPI_Graph_create(old, c, procs)
  <2>1. PICK old \in Comms, c \in Comms, procs \in SUBSET Procs :
          SubComm(old, c, procs) \/ MPI_Intercomm_merge(old, c, procs)
    BY <1>11, Zenon DEF MPI_Comm_split, MPI_Cart_create, MPI_Cart_sub, MPI_Graph_create
  <2> QED
    BY <1>7, <1>8, <2>1, Zenon
<1> QED
  BY <1>9, <1>10, <1>11, Zenon DEF CommCall

\* The calls that make a group give it processes of MPI_COMM_WORLD.
LEMMA GroupCallIs ==
  ASSUME TypeInv, GroupCall
  PROVE  \/ \E procs \in SUBSET Procs : NewGroup(procs)
         \/ \E g \in Groups : MPI_Group_free(g)
<1>1. \A g \in Groups : members[g] \in SUBSET Procs
  BY DEF TypeInv, MpiType
<1>2. CASE \E g, h \in Groups :
             MPI_Group_union(g, h) \/ MPI_Group_intersection(g, h) \/ MPI_Group_difference(g, h)
  <2>1. PICK g \in Groups, h \in Groups :
          \/ NewGroup(members[g] \cup members[h]) \/ NewGroup(members[g] \cap members[h])
          \/ NewGroup(members[g] \ members[h])
    BY <1>2, Zenon DEF MPI_Group_union, MPI_Group_intersection, MPI_Group_difference
  <2>2. /\ members[g] \cup members[h] \in SUBSET Procs
        /\ members[g] \cap members[h] \in SUBSET Procs
        /\ members[g] \ members[h] \in SUBSET Procs
    BY <1>1
  <2> QED
    BY <2>1, <2>2, Zenon
<1>3. CASE \E g \in Groups, some \in SUBSET Procs :
             \/ MPI_Group_incl(g, some) \/ MPI_Group_range_incl(g, some)
             \/ MPI_Group_excl(g, some) \/ MPI_Group_range_excl(g, some)
  <2>1. PICK g \in Groups, some \in SUBSET Procs :
          NewGroup(some) \/ NewGroup(members[g] \ some)
    BY <1>3, Zenon DEF MPI_Group_incl, MPI_Group_range_incl, MPI_Group_excl, MPI_Group_range_excl
  <2>2. members[g] \ some \in SUBSET Procs
    BY <1>1
  <2> QED
    BY <2>1, <2>2, Zenon
<1> QED
  BY <1>2, <1>3, Zenon DEF GroupCall

\* Every call is one of these steps.
LEMMA NextIs ==
  ASSUME TypeInv, Next
  PROVE  /\ careful' = careful
         /\ (TableStep /\ is_rma_putre' = is_rma_putre) \/ RmaCall
<1>1. careful' = careful /\ (((CommCall \/ GroupCall \/ WinCall) /\ is_rma_putre' = is_rma_putre) \/ RmaCall)
  BY DEF Next, Call
<1>2. ASSUME CommCall PROVE TableStep
  BY <1>2, CommCallIs, Zenon DEF TableStep
<1>3. ASSUME GroupCall PROVE TableStep
  BY <1>3, GroupCallIs, Zenon DEF TableStep
<1>4. ASSUME WinCall PROVE TableStep
  <2>1. CASE \E w \in Windows, c \in Comms : MPI_Win_create(w, c)
    BY <2>1, Zenon DEF TableStep
  <2>2. CASE \E w \in Windows, g \in Groups : MPI_Win_start(w, g) \/ MPI_Win_post(w, g)
    <3>1. PICK w \in Windows, g \in Groups : BeginEpoch(w, g, "access") \/ BeginEpoch(w, g, "exposure")
      BY <2>2, Zenon DEF MPI_Win_start, MPI_Win_post
    <3>2. "access" \in {"access", "exposure"} /\ "exposure" \in {"access", "exposure"}
      OBVIOUS
    <3> QED
      BY <3>1, <3>2, Zenon DEF TableStep
  <2>3. CASE \E w \in Windows :
               MPI_Win_free(w) \/ MPI_Win_complete(w) \/ MPI_Win_wait(w) \/ MPI_Win_test(w)
    <3>1. PICK w \in Windows :
            \/ MPI_Win_free(w) \/ EndEpoch(w, "access") \/ EndEpoch(w, "exposure")
            \/ UNCHANGED <<comms, wins, mpi, error, misfiled>>
      BY <2>3, Zenon DEF MPI_Win_complete, MPI_Win_wait, MPI_Win_test
    <3>2. "access" \in {"access", "exposure"} /\ "exposure" \in {"access", "exposure"}
      OBVIOUS
    <3> QED
      BY <3>1, <3>2, Zenon DEF TableStep
  <2> QED
    BY <1>4, <2>1, <2>2, <2>3, Zenon DEF WinCall
<1> QED
  BY <1>1, <1>2, <1>3, <1>4

------------------------------------------------------------------------------
(* Type correctness. *)

\* vt_comm_create keeps the tables within their limits.
LEMMA CommCreateType ==
  ASSUME TablesType, NEW c \in Comms, NEW g \in Groups, NEW procs \in SUBSET Procs,
         error \in Errors, vt_comm_create(c, g, procs)
  PROVE  TablesType' /\ error' \in Errors
<1> DEFINE e == [comm |-> c, group |-> g, cid |-> procs]
<1>0. e \in Entry
  BY DEF Entry
<1>1. Len(comms) \in Nat /\ MaxComms \in Nat /\ DOMAIN comms = 1 .. Len(comms)
  BY LenProperties, TablesAssumption DEF TablesType
<1>2. CASE Len(comms) >= MaxComms
  BY <1>2 DEF vt_comm_create, Stop, TablesType, Errors
<1>3. CASE /\ ~(Len(comms) >= MaxComms) /\ wins' = wins /\ error' = error
           /\ comms' = [comms EXCEPT ![2].comm = c]
  <2>1. CASE 2 \in DOMAIN comms
    <3> DEFINE f == [comms[2] EXCEPT !.comm = c]
    <3>1. comms[2] \in Entry
      BY <2>1 DEF TablesType
    <3>2. f \in Entry
      BY <3>1 DEF Entry
    <3>3. comms' = [comms EXCEPT ![2] = f]
      BY <1>3
    <3> HIDE DEF f
    <3>4. comms' \in Seq(Entry) /\ Len(comms') = Len(comms)
      BY <1>1, <2>1, <3>2, <3>3, ExceptSeq DEF TablesType
    <3> QED
      BY <1>3, <3>4 DEF TablesType
  <2>2. CASE 2 \notin DOMAIN comms
    <3>1. comms' = comms
      BY <1>1, <1>3, <2>2 DEF TablesType
    <3> QED
      BY <1>3, <3>1 DEF TablesType
  <2> QED
    BY <2>1, <2>2
<1>4. CASE /\ ~(Len(comms) >= MaxComms) /\ wins' = wins /\ error' = error
           /\ comms' = Append(comms, e)
  <2> HIDE DEF e
  <2>1. comms' \in Seq(Entry) /\ Len(comms') = Len(comms) + 1
    BY <1>0, <1>4 DEF TablesType
  <2>2. Len(comms') <= MaxComms
    BY <1>1, <1>4, <2>1
  <2> QED
    BY <1>4, <2>1, <2>2 DEF TablesType
<1> QED
  BY <1>2, <1>3, <1>4 DEF vt_comm_create

\* Nor does vt_group_create add more entries than there is room for.
LEMMA GroupCreateType ==
  ASSUME TablesType, NEW g \in Groups, NEW procs \in SUBSET Procs,
         error \in Errors, vt_group_create(g, procs)
  PROVE  TablesType' /\ error' \in Errors
<1> DEFINE e == [comm |-> NULL, group |-> g, cid |-> procs]
<1>0. e \in Entry
  BY DEF Entry
<1>1. Len(comms) \in Nat /\ MaxComms \in Nat
  BY LenProperties, TablesAssumption DEF TablesType
<1>2. CASE Len(comms) >= MaxComms
  BY <1>2 DEF vt_group_create, Stop, TablesType, Errors
<1>3. CASE comms' = comms /\ wins' = wins /\ error' = error
  BY <1>3 DEF TablesType
<1>4. CASE /\ ~(Len(comms) >= MaxComms) /\ wins' = wins /\ error' = error
           /\ comms' = Append(comms, e)
  <2> HIDE DEF e
  <2>1. comms' \in Seq(Entry) /\ Len(comms') = Len(comms) + 1
    BY <1>0, <1>4 DEF TablesType
  <2>2. Len(comms') <= MaxComms
    BY <1>1, <1>4, <2>1
  <2> QED
    BY <1>4, <2>1, <2>2 DEF TablesType
<1> QED
  BY <1>2, <1>3, <1>4 DEF vt_group_create

\* The table after vt_comm_free: the last entry has moved to the place of the
\* removed one.
LEMMA Removed ==
  ASSUME NEW s \in Seq(Entry), NEW i \in DOMAIN s, NEW t,
         t = SubSeq([s EXCEPT ![i] = s[Len(s)]], 1, Len(s) - 1)
  PROVE  /\ t \in Seq(Entry) /\ Len(t) = Len(s) - 1 /\ Len(s) \in Nat \ {0}
         /\ DOMAIN s = 1 .. Len(s) /\ DOMAIN t = 1 .. Len(s) - 1
         /\ \A j \in DOMAIN t : t[j] = IF j = i THEN s[Len(s)] ELSE s[j]
<1>1. Len(s) \in Nat /\ DOMAIN s = 1 .. Len(s) /\ Len(s) \in DOMAIN s /\ s[Len(s)] \in Entry
      /\ i \in 1 .. Len(s)
  BY LenProperties
<1> DEFINE u == [s EXCEPT ![i] = s[Len(s)]]
<1>2. /\ u \in Seq(Entry) /\ Len(u) = Len(s)
      /\ \A j \in 1 .. Len(s) : u[j] = IF j = i THEN s[Len(s)] ELSE s[j]
  BY <1>1, ExceptSeq
<1> DEFINE n == Len(s) - 1
<1>3. n \in Nat /\ n \in Int /\ n <= Len(s) /\ t = SubSeq(u, 1, n)
  BY <1>1
<1> HIDE DEF u, n
<1>4. \A j \in 1 .. n : u[j] \in Entry /\ j \in 1 .. Len(s)
  BY <1>1, <1>2, <1>3
<1>5. /\ t \in Seq(Entry) /\ Len(t) = (IF 1 <= n THEN n - 1 + 1 ELSE 0)
      /\ \A j \in 1 .. n - 1 + 1 : t[j] = u[1 + j - 1]
  BY <1>3, <1>4, SubSeqProperties
<1>6. Len(t) = n /\ \A j \in 1 .. n : t[j] = u[j]
  BY <1>3, <1>5
<1>7. DOMAIN t = 1 .. n
  BY <1>5, <1>6, LenProperties
<1> QED
  BY <1>1, <1>2, <1>4, <1>5, <1>6, <1>7 DEF n

\* vt_comm_free removes an entry.
LEMMA CommFreeType ==
  ASSUME TablesType, NEW c, error \in Errors, vt_comm_free(c)
  PROVE  TablesType' /\ error' \in Errors
<1>1. CASE comm_search(c) = 0
  BY <1>1 DEF vt_comm_free, Stop, TablesType, Errors
<1>2. CASE comm_search(c) # 0
  <2> DEFINE i == comm_search(c)
  <2>1. i \in DOMAIN comms
    BY <1>2, CommSearch DEF TablesType
  <2>2. /\ comms' = SubSeq([comms EXCEPT ![i] = comms[Len(comms)]], 1, Len(comms) - 1)
        /\ wins' = wins /\ error' = error
    BY <1>2 DEF vt_comm_free
  <2>3. comms' \in Seq(Entry) /\ Len(comms') = Len(comms) - 1 /\ Len(comms) \in Nat \ {0}
    BY <2>1, <2>2, Removed DEF TablesType
  <2>4. Len(comms') <= MaxComms
    BY <2>3, TablesAssumption DEF TablesType
  <2> QED
    BY <2>2, <2>3, <2>4 DEF TablesType
<1> QED
  BY <1>1, <1>2

\* A slot of the window table is replaced.
LEMMA SlotReplaced ==
  ASSUME TablesType, NEW i \in DOMAIN wins, NEW slot \in Slot,
         wins' = [wins EXCEPT ![i] = slot], comms' = comms
  PROVE  /\ TablesType' /\ DOMAIN wins' = DOMAIN wins
         /\ \A j \in DOMAIN wins : wins'[j] = IF j = i THEN slot ELSE wins[j]
<1>1. DOMAIN wins = 1 .. Len(wins)
  BY LenProperties DEF TablesType
<1>2. /\ wins' \in Seq(Slot) /\ Len(wins') = Len(wins)
      /\ \A j \in 1 .. Len(wins) : wins'[j] = IF j = i THEN slot ELSE wins[j]
  BY <1>1, ExceptSeq DEF TablesType
<1> QED
  BY <1>1, <1>2 DEF TablesType

\* The gid of a slot is replaced.
LEMMA GidReplaced ==
  ASSUME TablesType, NEW i \in DOMAIN wins, NEW p \in SUBSET Procs,
         wins' = [wins EXCEPT ![i].gid = p], comms' = comms
  PROVE  /\ TablesType' /\ DOMAIN wins' = DOMAIN wins
         /\ \A j \in DOMAIN wins :
              /\ wins'[j].win = wins[j].win /\ wins'[j].comm = wins[j].comm
              /\ wins'[j].gid = IF j = i THEN p ELSE wins[j].gid
              /\ j # i => wins'[j] = wins[j]
<1> DEFINE slot == [wins[i] EXCEPT !.gid = p]
<1>1. wins[i] \in Slot
  BY DEF TablesType
<1>2. slot \in Slot /\ slot.win = wins[i].win /\ slot.comm = wins[i].comm /\ slot.gid = p
  BY <1>1 DEF Slot
<1>3. wins' = [wins EXCEPT ![i] = slot]
  OBVIOUS
<1> HIDE DEF slot
<1>4. /\ TablesType' /\ DOMAIN wins' = DOMAIN wins
      /\ \A j \in DOMAIN wins : wins'[j] = IF j = i THEN slot ELSE wins[j]
  BY <1>2, <1>3, SlotReplaced
<1> QED
  BY <1>2, <1>4

\* vt_win_create uses a free slot or adds one; the group of the window's
\* communicator has been found.
LEMMA WinCreateType ==
  ASSUME TablesType, NEW w \in Windows, NEW c \in Comms, error \in Errors, vt_win_create(w, c)
  PROVE  TablesType' /\ error' \in Errors
<1> DEFINE pos  == group_search(groupOf[c])
           slot == [win |-> w, comm |-> c, gid |-> comms[pos].cid]
<1>1. CASE UNCHANGED <<comms, wins>> /\ error' \in Errors
  BY <1>1 DEF TablesType
<1>2. CASE /\ pos # 0 /\ comms' = comms /\ error' = error
           /\ free_win # 0 /\ wins' = [wins EXCEPT ![free_win] = slot]
  <2>1. pos \in DOMAIN comms
    BY <1>2, GroupSearch DEF TablesType
  <2> DEFINE p == comms[pos].cid
  <2>a. p \in SUBSET Procs
    BY <2>1, Parts DEF TablesType
  <2> HIDE DEF pos, p
  <2>2. [win |-> w, comm |-> c, gid |-> p] \in Slot
    BY <2>a DEF Slot
  <2>b. slot \in Slot
    BY <2>2 DEF p
  <2>3. free_win \in DOMAIN wins
    BY <1>2, FreeWin DEF TablesType
  <2> HIDE DEF slot
  <2> QED
    BY <1>2, <2>b, <2>3, SlotReplaced
<1>3. CASE /\ pos # 0 /\ comms' = comms /\ error' = error
           /\ ~(Len(wins) >= MaxWins) /\ wins' = Append(wins, slot)
  <2>1. pos \in DOMAIN comms
    BY <1>3, GroupSearch DEF TablesType
  <2> DEFINE p == comms[pos].cid
  <2>a. p \in SUBSET Procs
    BY <2>1, Parts DEF TablesType
  <2> HIDE DEF pos, p
  <2>2. [win |-> w, comm |-> c, gid |-> p] \in Slot
    BY <2>a DEF Slot
  <2>b. slot \in Slot
    BY <2>2 DEF p
  <2> HIDE DEF slot
  <2>3. wins' \in Seq(Slot) /\ Len(wins') = Len(wins) + 1 /\ Len(wins) \in Nat /\ MaxWins \in Nat
    BY <1>3, <2>b, TablesAssumption DEF TablesType
  <2>4. Len(wins') <= MaxWins
    BY <1>3, <2>3
  <2> QED
    BY <1>3, <2>3, <2>4 DEF TablesType
<1>4. "too many windows" \in Errors /\ "cannot find group" \in Errors
  BY DEF Errors
<1> QED
  BY <1>1, <1>2, <1>3, <1>4 DEF vt_win_create, Stop

\* vt_win_free clears a slot.
LEMMA WinFreeType ==
  ASSUME TablesType, NEW w, error \in Errors, vt_win_free(w)
  PROVE  TablesType' /\ error' \in Errors
<1>1. CASE win_search(w) = 0
  BY <1>1 DEF vt_win_free, Stop, TablesType, Errors
<1>2. CASE win_search(w) # 0
  <2>1. win_search(w) \in DOMAIN wins
    BY <1>2, WinSearch DEF TablesType
  <2>2. /\ comms' = comms /\ error' = error
        /\ wins' = [wins EXCEPT ![win_search(w)] = FreeSlot]
    BY <1>2 DEF vt_win_free
  <2> QED
    BY <2>1, <2>2, SlotReplaced, Parts
<1> QED
  BY <1>1, <1>2

\* vt_win_set_gid changes the gid of a slot.
LEMMA SetGroupType ==
  ASSUME TablesType, NEW w, NEW g, error \in Errors, SetGroup(w, g)
  PROVE  TablesType' /\ error' \in Errors
<1>1. CASE UNCHANGED <<comms, wins>> /\ error' \in Errors
  BY <1>1 DEF TablesType
<1>2. CASE /\ win_search(w) # 0 /\ group_search(g) # 0 /\ comms' = comms /\ error' = error
           /\ wins' = [wins EXCEPT ![win_search(w)].gid = comms[group_search(g)].cid]
  <2>1. win_search(w) \in DOMAIN wins
    BY <1>2, WinSearch DEF TablesType
  <2>2. group_search(g) \in DOMAIN comms
    BY <1>2, GroupSearch DEF TablesType
  <2>3. comms[group_search(g)].cid \in SUBSET Procs
    BY <2>2, Parts DEF TablesType
  <2> QED
    BY <1>2, <2>1, <2>3, GidReplaced
<1>3. "cannot find window" \in Errors /\ "cannot find group" \in Errors
  BY DEF Errors
<1> QED
  BY <1>1, <1>2, <1>3 DEF SetGroup, Stop

\* The end of an epoch changes the gid of the window's slot.
LEMMA EndEpochType ==
  ASSUME TablesType, NEW w, NEW e, error \in Errors, EndEpoch(w, e)
  PROVE  TablesType' /\ error' \in Errors
<1> DEFINE pos == win_search(w)
           i == comm_search(wins[pos].comm)
<1>1. CASE UNCHANGED <<comms, wins>> /\ error' \in Errors
  BY <1>1 DEF TablesType
<1>2. CASE /\ i # 0 /\ comms' = comms /\ error' = error
           /\ wins' = [wins EXCEPT ![pos].gid = comms[i].cid]
  <2>1. i \in DOMAIN comms
    BY <1>2, CommSearch DEF TablesType
  <2>2. comms[i].cid \in SUBSET Procs
    BY <2>1, Parts DEF TablesType
  <2>3. CASE pos \in DOMAIN wins
    BY <1>2, <2>2, <2>3, GidReplaced
  <2>4. CASE pos \notin DOMAIN wins
    <3>1. wins' = wins
      BY <1>2, <2>4, LenProperties DEF TablesType
    <3> QED
      BY <1>2, <3>1 DEF TablesType
  <2> QED
    BY <2>3, <2>4
<1>3. "cannot find communicator" \in Errors
  BY DEF Errors
<1> QED
  BY <1>1, <1>2, <1>3 DEF EndEpoch, Stop

\* A field of a window changes.
LEMMA WindowField ==
  ASSUME window \in [Windows -> Win], NEW w \in Windows
  PROVE  /\ \A g \in Groups \cup {NULL} :
              LET f == [window EXCEPT ![w].group = g]
              IN f \in [Windows -> Win] /\ f[w].group = g
                 /\ f[w].access = window[w].access /\ f[w].exposure = window[w].exposure
                 /\ f[w].locked = window[w].locked
         /\ \A p \in SUBSET Procs :
              LET f == [window EXCEPT ![w].access = p]
              IN f \in [Windows -> Win] /\ f[w].access = p
                 /\ f[w].group = window[w].group /\ f[w].exposure = window[w].exposure
                 /\ f[w].locked = window[w].locked
         /\ \A p \in SUBSET Procs :
              LET f == [window EXCEPT ![w].exposure = p]
              IN f \in [Windows -> Win] /\ f[w].exposure = p
                 /\ f[w].group = window[w].group /\ f[w].access = window[w].access
                 /\ f[w].locked = window[w].locked
         /\ \A b \in BOOLEAN :
              LET f == [window EXCEPT ![w].locked = b]
              IN f \in [Windows -> Win] /\ f[w].locked = b
                 /\ f[w].group = window[w].group /\ f[w].access = window[w].access
                 /\ f[w].exposure = window[w].exposure
  BY DEF Win

\* The types after each of the calls that keep the tables.
LEMMA TableStepType ==
  ASSUME TypeInv, TableStep
  PROVE  TablesType' /\ MpiType' /\ error' \in Errors /\ misfiled' \in BOOLEAN
<1>0. /\ TablesType /\ error \in Errors /\ misfiled \in BOOLEAN
      /\ groupOf \in [Comms -> Groups \cup {NULL}] /\ members \in [Groups -> SUBSET Procs]
      /\ held \subseteq Groups /\ made \subseteq held /\ window \in [Windows -> Win]
  BY DEF TypeInv, MpiType
<1>1. ASSUME NEW c \in Comms, NEW g \in Groups, NEW procs \in SUBSET Procs, NewComm(c, g, procs)
      PROVE  TablesType' /\ MpiType' /\ error' \in Errors /\ misfiled' \in BOOLEAN
  <2>1. TablesType' /\ error' \in Errors
    BY <1>0, <1>1, CommCreateType DEF NewComm
  <2>2. MpiType' /\ misfiled' \in BOOLEAN
    BY <1>0, <1>1 DEF NewComm, MpiType
  <2> QED
    BY <2>1, <2>2
<1>2. ASSUME NEW c \in Comms, MPI_Comm_free(c)
      PROVE  TablesType' /\ MpiType' /\ error' \in Errors /\ misfiled' \in BOOLEAN
  <2>1. TablesType' /\ error' \in Errors
    BY <1>0, <1>2, CommFreeType DEF MPI_Comm_free
  <2>2. MpiType' /\ misfiled' \in BOOLEAN
    BY <1>0, <1>2 DEF MPI_Comm_free, MpiType
  <2> QED
    BY <2>1, <2>2
<1>3. ASSUME NEW c \in Comms, MPI_Comm_group(c)
      PROVE  TablesType' /\ MpiType' /\ error' \in Errors /\ misfiled' \in BOOLEAN
  BY <1>0, <1>3 DEF MPI_Comm_group, MpiType, TablesType
<1>4. ASSUME NEW procs \in SUBSET Procs, NewGroup(procs)
      PROVE  TablesType' /\ MpiType' /\ error' \in Errors /\ misfiled' \in BOOLEAN
  <2>1. PICK g \in Fresh :
          /\ held' = held \cup {g} /\ made' = made \cup {g}
          /\ members' = [members EXCEPT ![g] = procs]
          /\ vt_group_create(g, procs)
    BY <1>4 DEF NewGroup
  <2>2. g \in Groups
    BY DEF Fresh
  <2>3. TablesType' /\ error' \in Errors
    BY <1>0, <2>1, <2>2, GroupCreateType
  <2>4. groupOf' = groupOf /\ window' = window /\ misfiled' = misfiled
    BY <1>4 DEF NewGroup
  <2>5. MpiType'
    BY <1>0, <2>1, <2>2, <2>4 DEF MpiType
  <2> QED
    BY <1>0, <2>3, <2>4, <2>5
<1>5. ASSUME NEW g \in Groups, MPI_Group_free(g)
      PROVE  TablesType' /\ MpiType' /\ error' \in Errors /\ misfiled' \in BOOLEAN
  BY <1>0, <1>5 DEF MPI_Group_free, MpiType, TablesType
<1>6. ASSUME NEW w \in Windows, NEW c \in Comms, MPI_Win_create(w, c)
      PROVE  TablesType' /\ MpiType' /\ error' \in Errors /\ misfiled' \in BOOLEAN
  <2>1. TablesType' /\ error' \in Errors
    BY <1>0, <1>6, WinCreateType DEF MPI_Win_create
  <2>2. window' \in [Windows -> Win]
    BY <1>0, <1>6, WindowField DEF MPI_Win_create
  <2>3. MpiType' /\ misfiled' \in BOOLEAN
    BY <1>0, <1>6, <2>2 DEF MPI_Win_create, MpiType
  <2> QED
    BY <2>1, <2>3
<1>7. ASSUME NEW w \in Windows, NEW g \in Groups, NEW e \in {"access", "exposure"},
             BeginEpoch(w, g, e)
      PROVE  TablesType' /\ MpiType' /\ error' \in Errors /\ misfiled' \in BOOLEAN
  <2>1. TablesType' /\ error' \in Errors
    BY <1>0, <1>7, SetGroupType DEF BeginEpoch
  <2>2. window' = [window EXCEPT ![w][e] = members[g]] /\ members[g] \in SUBSET Procs
    BY <1>0, <1>7 DEF BeginEpoch
  <2>3. window' \in [Windows -> Win]
    <3>1. CASE e = "access"
      BY <1>0, <2>2, <3>1, WindowField
    <3>2. CASE e = "exposure"
      BY <1>0, <2>2, <3>2, WindowField
    <3> QED
      BY <3>1, <3>2
  <2>4. MpiType' /\ misfiled' \in BOOLEAN
    BY <1>0, <1>7, <2>3 DEF BeginEpoch, MpiType
  <2> QED
    BY <2>1, <2>4
<1>8. ASSUME NEW w \in Windows, NEW e \in {"access", "exposure"}, EndEpoch(w, e)
      PROVE  TablesType' /\ MpiType' /\ error' \in Errors /\ misfiled' \in BOOLEAN
  <2>1. TablesType' /\ error' \in Errors
    BY <1>0, <1>8, EndEpochType
  <2>2. window' = [window EXCEPT ![w][e] = {}] /\ {} \in SUBSET Procs
    BY <1>8 DEF EndEpoch
  <2>3. window' \in [Windows -> Win]
    <3>1. CASE e = "access"
      BY <1>0, <2>2, <3>1, WindowField
    <3>2. CASE e = "exposure"
      BY <1>0, <2>2, <3>2, WindowField
    <3> QED
      BY <3>1, <3>2
  <2>4. misfiled' \in BOOLEAN
    BY <1>8 DEF EndEpoch
  <2>5. MpiType'
    BY <1>0, <1>8, <2>3 DEF EndEpoch, MpiType
  <2> QED
    BY <2>1, <2>4, <2>5
<1>9. ASSUME NEW w \in Windows, MPI_Win_free(w)
      PROVE  TablesType' /\ MpiType' /\ error' \in Errors /\ misfiled' \in BOOLEAN
  <2>1. TablesType' /\ error' \in Errors
    BY <1>0, <1>9, WinFreeType DEF MPI_Win_free
  <2>2. NoWindow \in Win
    BY DEF NoWindow, Win
  <2>3. window' \in [Windows -> Win]
    BY <1>0, <1>9, <2>2 DEF MPI_Win_free
  <2>4. MpiType' /\ misfiled' \in BOOLEAN
    BY <1>0, <1>9, <2>3 DEF MPI_Win_free, MpiType
  <2> QED
    BY <2>1, <2>4
<1>10. CASE UNCHANGED <<comms, wins, mpi, error, misfiled>>
  BY <1>0, <1>10 DEF mpi, MpiType, TablesType
<1> QED
  BY <1>1, <1>2, <1>3, <1>4, <1>5, <1>6, <1>7, <1>8, <1>9, <1>10, Zenon DEF TableStep

\* The types after a one-sided operation.
LEMMA RmaType ==
  ASSUME TypeInv, RmaCall
  PROVE  TablesType' /\ MpiType' /\ error' \in Errors /\ misfiled' \in BOOLEAN
         /\ is_rma_putre' \in BOOLEAN
<1>0. /\ TablesType /\ MpiType /\ error \in Errors /\ misfiled \in BOOLEAN
      /\ is_rma_putre \in BOOLEAN /\ window \in [Windows -> Win]
  BY DEF TypeInv, MpiType
<1>1. PICK w \in Windows :
        \/ MPI_Win_fence(w) \/ MPI_Win_lock(w) \/ MPI_Win_unlock(w)
        \/ MPI_Put(w) \/ MPI_Get(w)
  BY DEF RmaCall, MPI_Accumulate
<1>2. UNCHANGED <<comms, wins, groupOf, members, held, made, error>>
  BY <1>1 DEF MPI_Win_fence, MPI_Win_lock, MPI_Win_unlock, MPI_Put, MPI_Get, mpi
<1>3. misfiled' \in BOOLEAN
  BY <1>0, <1>1 DEF MPI_Win_fence, MPI_Win_lock, MPI_Win_unlock, MPI_Put, MPI_Get
<1>4. is_rma_putre' \in BOOLEAN
  BY <1>0, <1>1 DEF MPI_Win_fence, MPI_Win_lock, MPI_Win_unlock, MPI_Put, MPI_Get
<1>5. \/ window' = window \/ window' = [window EXCEPT ![w].locked = TRUE]
      \/ window' = [window EXCEPT ![w].locked = FALSE]
  BY <1>1 DEF MPI_Win_fence, MPI_Win_lock, MPI_Win_unlock, MPI_Put, MPI_Get, mpi
<1>6. \A b \in BOOLEAN : [window EXCEPT ![w].locked = b] \in [Windows -> Win]
  BY <1>0, WindowField
<1>7. window' \in [Windows -> Win]
  BY <1>0, <1>5, <1>6
<1> QED
  BY <1>0, <1>2, <1>3, <1>4, <1>7 DEF TablesType, MpiType

\* Every step keeps the types.
LEMMA TypeStep == TypeInv /\ [Next]_vars => TypeInv'
<1> SUFFICES ASSUME TypeInv, [Next]_vars PROVE TypeInv'
  OBVIOUS
<1>1. CASE Next
  <2>1. CASE TableStep /\ is_rma_putre' = is_rma_putre
    BY <1>1, <2>1, NextIs, TableStepType DEF TypeInv
  <2>2. CASE RmaCall
    BY <1>1, <2>2, NextIs, RmaType DEF TypeInv
  <2> QED
    BY <1>1, <2>1, <2>2, NextIs
<1>2. CASE UNCHANGED vars
  BY <1>2 DEF vars, mpi, TypeInv, TablesType, MpiType
<1> QED
  BY <1>1, <1>2

\* The types at the start.
LEMMA InitType == Init => TypeInv
<1> SUFFICES ASSUME Init PROVE TypeInv
  OBVIOUS
<1>1. PICK gw \in Groups, gs \in Groups :
        /\ groupOf = [c \in Comms |-> IF c = World THEN gw ELSE IF c = Self THEN gs ELSE NULL]
        /\ members = [g \in Groups |-> IF g = gw THEN Procs ELSE IF g = gs THEN {Me} ELSE {}]
        /\ comms = <<[comm |-> World, group |-> gw, cid |-> Procs],
                     [comm |-> Self, group |-> gs, cid |-> {Me}]>>
  BY DEF Init
<1>2. /\ careful \in BOOLEAN /\ wins = << >> /\ held = {} /\ made = {}
      /\ window = [w \in Windows |-> NoWindow] /\ is_rma_putre = TRUE /\ error = "none"
      /\ misfiled = FALSE
  BY DEF Init
<1>3. comms \in Seq(Entry) /\ Len(comms) = 2
  <2>1. [comm |-> World, group |-> gw, cid |-> Procs] \in Entry
    BY TablesAssumption DEF Entry
  <2>2. [comm |-> Self, group |-> gs, cid |-> {Me}] \in Entry
    BY TablesAssumption DEF Entry
  <2> QED
    BY <1>1, <2>1, <2>2
<1>4. TablesType
  <2>1. wins \in Seq(Slot) /\ Len(wins) = 0
    BY <1>2
  <2> QED
    BY <1>3, <2>1, TablesAssumption DEF TablesType
<1>5. window \in [Windows -> Win]
  <2>1. NoWindow \in Win
    BY DEF NoWindow, Win
  <2> QED
    BY <1>2, <2>1
<1>6. MpiType
  BY <1>1, <1>2, <1>5, TablesAssumption DEF MpiType
<1> QED
  BY <1>2, <1>4, <1>6 DEF TypeInv, Errors

\* The types imply the type invariant the run checks.
LEMMA TypeIs == TypeInv => TypeOK
<1> SUFFICES ASSUME TypeInv PROVE TypeOK
  OBVIOUS
<1>0. comms \in Seq(Entry) /\ wins \in Seq(Slot)
  BY DEF TypeInv, TablesType
<1>1. \A i \in DOMAIN comms : comms[i] \in [comm : Comms \cup {NULL}, group : Groups, cid : SUBSET Procs]
  <2>1. \A i \in DOMAIN comms : comms[i] \in Entry
    BY <1>0
  <2> QED
    BY <2>1 DEF Entry
<1>2. \A i \in DOMAIN wins :
        wins[i] \in [win : Windows \cup {NULL}, comm : Comms \cup {NULL}, gid : SUBSET Procs]
  <2>1. \A i \in DOMAIN wins : wins[i] \in Slot
    BY <1>0
  <2> QED
    BY <2>1 DEF Slot
<1> QED
  BY <1>1, <1>2 DEF TypeInv, TablesType, MpiType, Win, Errors, TypeOK

\* The tables of vt_mpicom.c stay within their limits and hold what they are
\* meant to hold, whatever the program calls.
THEOREM TablesTypeCorrect == Spec => []TypeOK
<1> QED
  BY InitType, TypeStep, TypeIs, PTL DEF Spec

------------------------------------------------------------------------------
(* Communicators and windows are identified correctly. *)

\* An element at the end of a table.
LEMMA Appended ==
  ASSUME NEW S, NEW s \in Seq(S), NEW e \in S, NEW t, t = Append(s, e)
  PROVE  /\ t \in Seq(S) /\ Len(s) \in Nat /\ Len(t) = Len(s) + 1
         /\ DOMAIN s = 1 .. Len(s) /\ DOMAIN t = 1 .. Len(s) + 1
         /\ Len(s) + 1 \notin DOMAIN s
         /\ \A j \in DOMAIN s : j \in DOMAIN t /\ t[j] = s[j]
         /\ t[Len(s) + 1] = e /\ Len(s) + 1 \in DOMAIN t
         /\ \A j \in DOMAIN t : j = Len(s) + 1 \/ j \in DOMAIN s
  OBVIOUS

\* A group MPI returns is new, or it keeps its processes: those of the groups in
\* use stay what they are.
LEMMA MembersKept ==
  ASSUME TypeInv, NEW g \in Groups, NEW procs \in SUBSET Procs,
         g \in Fresh \/ (g \in Live /\ members[g] = procs),
         members' = [members EXCEPT ![g] = procs]
  PROVE  /\ members'[g] = procs
         /\ \A h \in Groups : h \in Live => members'[h] = members[h]
  BY DEF TypeInv, MpiType, Fresh

\* The entries of communicators are of groups in use, and so are the windows'.
LEMMA GroupsInUse ==
  ASSUME TypeInv
  PROVE  /\ \A c \in Comms : groupOf[c] # NULL => groupOf[c] \in Groups /\ groupOf[c] \in Live
         /\ \A w \in Windows : window[w].group # NULL =>
              window[w].group \in Groups /\ window[w].group \in Live
         /\ \A g \in held : g \in Groups /\ g \in Live
         /\ \A g \in Live : g \in Groups \/ g = NULL
         /\ NULL \notin Groups /\ NULL \notin Comms /\ NULL \notin Windows
         /\ \A i \in DOMAIN comms : comms[i] \in Entry
         /\ \A i \in DOMAIN wins : wins[i] \in Slot
         /\ comms \in Seq(Entry) /\ wins \in Seq(Slot)
<1>1. /\ groupOf \in [Comms -> Groups \cup {NULL}] /\ held \subseteq Groups
      /\ \A w \in Windows : window[w].group \in Groups \cup {NULL}
      /\ comms \in Seq(Entry) /\ wins \in Seq(Slot)
  BY DEF TypeInv, MpiType, TablesType, Win
<1>2. NULL \notin Groups /\ NULL \notin Comms /\ NULL \notin Windows
  BY TablesAssumption
<1>3. (\A i \in DOMAIN comms : comms[i] \in Entry) /\ (\A i \in DOMAIN wins : wins[i] \in Slot)
  BY <1>1
<1> QED
  BY <1>1, <1>2, <1>3 DEF Live

\* The predefined communicators stay in use.
LEMMA Predefined ==
  ASSUME TypeInv, EntriesRight
  PROVE  /\ groupOf[World] # NULL /\ groupOf[Self] # NULL
         /\ 1 \in DOMAIN comms /\ 2 \in DOMAIN comms /\ comms[2].comm # NULL
<1>1. Len(comms) \in Nat /\ Len(comms) >= 2 /\ DOMAIN comms = 1 .. Len(comms)
  BY LenProperties DEF TypeInv, TablesType, EntriesRight
<1>2. 1 \in DOMAIN comms /\ 2 \in DOMAIN comms
  BY <1>1
<1>3. comms[1].comm # NULL /\ comms[2].comm # NULL
  BY TablesAssumption DEF EntriesRight
<1>4. comms[1].group \in Groups /\ comms[2].group \in Groups
  BY <1>2, GroupsInUse, Parts
<1> QED
  BY <1>2, <1>3, <1>4, GroupsInUse DEF EntriesRight

\* vt_comm_create never uses another entry for a communicator: the one it looks
\* at has one.
LEMMA CommCreateAppends ==
  ASSUME TypeInv, EntriesRight, NEW c \in Comms, NEW g \in Groups, NEW procs \in SUBSET Procs,
         vt_comm_create(c, g, procs), error' = "none"
  PROVE  comms' = Append(comms, [comm |-> c, group |-> g, cid |-> procs]) /\ wins' = wins
  BY Predefined DEF vt_comm_create, Stop

\* A new communicator is identified, the others stay so.
LEMMA NewCommEntries ==
  ASSUME TypeInv, EntriesRight, NEW c \in Comms, NEW g \in Groups, NEW procs \in SUBSET Procs,
         Given(c, g, procs), NewComm(c, g, procs), error' = "none"
  PROVE  EntriesRight'
<1> DEFINE e == [comm |-> c, group |-> g, cid |-> procs]
<1>1. comms' = Append(comms, e)
  BY CommCreateAppends DEF NewComm
<1>2. e \in Entry /\ e.comm = c /\ e.group = g /\ e.cid = procs
  BY DEF Entry
<1>3. /\ members'[g] = procs
      /\ \A h \in Groups : h \in Live => members'[h] = members[h]
  BY MembersKept DEF NewComm, Given
<1>4. groupOf' = [groupOf EXCEPT ![c] = g] /\ groupOf[c] = NULL
  BY DEF NewComm
<1>5. /\ groupOf'[c] = g
      /\ \A d \in Comms : d # c => groupOf'[d] = groupOf[d]
  BY <1>4 DEF TypeInv, MpiType
<1> HIDE DEF e
<1> DEFINE n == Len(comms) + 1
<1>6. /\ Len(comms) \in Nat /\ Len(comms') = n /\ n \notin DOMAIN comms
      /\ \A j \in DOMAIN comms : j \in DOMAIN comms' /\ comms'[j] = comms[j]
      /\ comms'[n] = e /\ n \in DOMAIN comms'
      /\ \A j \in DOMAIN comms' : j = n \/ j \in DOMAIN comms
  BY <1>1, <1>2, GroupsInUse, Appended
<1>7. Len(comms') >= 2
  BY <1>6 DEF EntriesRight
<1> HIDE DEF n
<1>8. comms'[1].comm = World /\ comms'[2].comm = Self
  BY <1>6, Predefined DEF EntriesRight
<1>9. \A i \in DOMAIN comms : comms[i].comm # c
  <2> SUFFICES ASSUME NEW i \in DOMAIN comms, comms[i].comm = c PROVE FALSE
    OBVIOUS
  <2>1. groupOf[c] = comms[i].group /\ comms[i].group \in Groups
    BY GroupsInUse, Parts DEF EntriesRight
  <2> QED
    BY <1>4, <2>1, GroupsInUse
<1>10. ASSUME NEW i \in DOMAIN comms', comms'[i].comm # NULL
       PROVE  /\ groupOf'[comms'[i].comm] = comms'[i].group
              /\ comms'[i].cid = members'[comms'[i].group]
  <2>1. CASE i = n
    BY <1>2, <1>3, <1>5, <1>6, <2>1
  <2>2. CASE i \in DOMAIN comms
    <3>1. comms'[i] = comms[i] /\ comms[i].comm \in Comms /\ comms[i].comm # c
      BY <1>6, <1>9, <1>10, <2>2, GroupsInUse, Parts
    <3>2. groupOf[comms[i].comm] = comms[i].group /\ comms[i].cid = members[comms[i].group]
          /\ comms[i].group \in Groups
      BY <1>10, <2>2, <3>1, GroupsInUse, Parts DEF EntriesRight
    <3>3. comms[i].group \in Live
      BY <3>1, <3>2, GroupsInUse
    <3> QED
      BY <1>3, <1>5, <3>1, <3>2, <3>3
  <2> QED
    BY <1>6, <2>1, <2>2
<1>11. ASSUME NEW i \in DOMAIN comms', NEW j \in DOMAIN comms',
              comms'[i].comm # NULL, comms'[i].comm = comms'[j].comm
       PROVE  i = j
  <2>1. CASE i \in DOMAIN comms /\ j \in DOMAIN comms
    BY <1>6, <1>11, <2>1 DEF EntriesRight
  <2> QED
    BY <1>2, <1>6, <1>9, <1>11, <2>1
<1>12. ASSUME NEW d \in Comms, groupOf'[d] # NULL
       PROVE  \E i \in DOMAIN comms' : comms'[i].comm = d
  <2>1. CASE d = c
    BY <1>2, <1>6, <2>1
  <2>2. CASE d # c
    <3>1. PICK i \in DOMAIN comms : comms[i].comm = d
      BY <1>5, <1>12, <2>2 DEF EntriesRight
    <3> QED
      BY <1>6, <3>1
  <2> QED
    BY <2>1, <2>2
<1> QED
  BY <1>7, <1>8, <1>10, <1>11, <1>12 DEF EntriesRight

\* The entry vt_comm_free removes is the communicator's, and all the others stay
\* in the table.
LEMMA CommFreeEntries ==
  ASSUME TypeInv, EntriesRight, NEW c \in Comms, MPI_Comm_free(c), error' = "none"
  PROVE  /\ EntriesRight'
         /\ \A j \in DOMAIN comms : comms[j].comm # c =>
              \E k \in DOMAIN comms' : comms'[k] = comms[j]
         /\ \A k \in DOMAIN comms' : \E j \in DOMAIN comms : comms'[k] = comms[j] /\ comms[j].comm # c
<1> DEFINE i == comm_search(c)
           n == Len(comms)
<1>1. i # 0 /\ comms' = SubSeq([comms EXCEPT ![i] = comms[n]], 1, n - 1)
  BY DEF MPI_Comm_free, vt_comm_free, Stop
<1>2. i \in DOMAIN comms /\ comms[i].comm = c
  BY <1>1, CommSearch, GroupsInUse
<1>3. c # World /\ c # Self /\ groupOf[c] # NULL /\ groupOf' = [groupOf EXCEPT ![c] = NULL]
      /\ members' = members
  BY DEF MPI_Comm_free
<1>4. /\ groupOf'[c] = NULL
      /\ \A d \in Comms : d # c => groupOf'[d] = groupOf[d]
  BY <1>3 DEF TypeInv, MpiType
<1> HIDE DEF i
<1>5. /\ Len(comms') = n - 1 /\ n \in Nat \ {0}
      /\ DOMAIN comms = 1 .. n /\ DOMAIN comms' = 1 .. n - 1
      /\ \A j \in DOMAIN comms' : comms'[j] = IF j = i THEN comms[n] ELSE comms[j]
  <2>1. comms \in Seq(Entry) /\ i \in DOMAIN comms
    BY <1>2, GroupsInUse
  <2>2. comms' = SubSeq([comms EXCEPT ![i] = comms[Len(comms)]], 1, Len(comms) - 1)
    BY <1>1
  <2>3. PICK s, t : s \in Seq(Entry) /\ s = comms /\ t = comms'
    BY <2>1
  <2>4. i \in DOMAIN s /\ t = SubSeq([s EXCEPT ![i] = s[Len(s)]], 1, Len(s) - 1)
    BY <2>1, <2>2, <2>3
  <2>5. /\ Len(t) = Len(s) - 1 /\ Len(s) \in Nat \ {0}
        /\ DOMAIN s = 1 .. Len(s) /\ DOMAIN t = 1 .. Len(s) - 1
        /\ \A j \in DOMAIN t : t[j] = IF j = i THEN s[Len(s)] ELSE s[j]
    <3>1. PICK k : k = i
      OBVIOUS
    <3>2. k \in DOMAIN s /\ t = SubSeq([s EXCEPT ![k] = s[Len(s)]], 1, Len(s) - 1)
      BY <2>4, <3>1
    <3>3. Len(t) = Len(s) - 1 /\ Len(s) \in Nat \ {0}
      BY <2>3, <3>2, Removed
    <3>4. DOMAIN s = 1 .. Len(s) /\ DOMAIN t = 1 .. Len(s) - 1
      BY <2>3, <3>2, Removed
    <3>5. \A j \in DOMAIN t : t[j] = IF j = k THEN s[Len(s)] ELSE s[j]
      BY <2>3, <3>2, Removed
    <3> QED
      BY <3>1, <3>3, <3>4, <3>5
  <2> QED
    BY <2>3, <2>5
<1> HIDE DEF n
<1>6. i # 1 /\ i # 2
  BY <1>2, <1>3 DEF EntriesRight
<1>7. i > 2 /\ i <= n /\ i \in Nat /\ n \in DOMAIN comms
  BY <1>2, <1>5, <1>6
<1>8. Len(comms') >= 2 /\ 1 \in DOMAIN comms' /\ 2 \in DOMAIN comms'
  BY <1>5, <1>7
<1>9. comms'[1].comm = World /\ comms'[2].comm = Self
  BY <1>5, <1>6, <1>8 DEF EntriesRight
\* where the entry at a place comes from
<1> DEFINE from(k) == IF k = i THEN n ELSE k
<1>10. \A k \in DOMAIN comms' : from(k) \in DOMAIN comms /\ comms'[k] = comms[from(k)] /\ from(k) # i
  BY <1>5, <1>7
<1>11. \A k, l \in DOMAIN comms' : from(k) = from(l) => k = l
  BY <1>5, <1>7
<1>12. \A j \in DOMAIN comms : j # i => \E k \in DOMAIN comms' : from(k) = j
  <2> SUFFICES ASSUME NEW j \in DOMAIN comms, j # i PROVE \E k \in DOMAIN comms' : from(k) = j
    OBVIOUS
  <2>1. CASE j = n
    BY <1>5, <1>7, <2>1
  <2>2. CASE j # n
    BY <1>5, <1>7, <2>2
  <2> QED
    BY <2>1, <2>2
<1> HIDE DEF from
<1>13. \A j \in DOMAIN comms : comms[j].comm = c => j = i
  BY <1>2, GroupsInUse DEF EntriesRight
<1>14. \A k \in DOMAIN comms' : from(k) \in DOMAIN comms /\ comms'[k] = comms[from(k)] /\ comms[from(k)].comm # c
  BY <1>10, <1>13
<1>15. ASSUME NEW k \in DOMAIN comms', comms'[k].comm # NULL
       PROVE  /\ groupOf'[comms'[k].comm] = comms'[k].group
              /\ comms'[k].cid = members'[comms'[k].group]
  <2>1. comms[from(k)].comm \in Comms /\ comms[from(k)].comm # c
    BY <1>14, <1>15, GroupsInUse, Parts
  <2> QED
    BY <1>3, <1>4, <1>14, <1>15, <2>1 DEF EntriesRight
<1>16. ASSUME NEW k \in DOMAIN comms', NEW l \in DOMAIN comms',
              comms'[k].comm # NULL, comms'[k].comm = comms'[l].comm
       PROVE  k = l
  <2>1. from(k) = from(l)
    BY <1>14, <1>16 DEF EntriesRight
  <2> QED
    BY <1>11, <2>1
<1>17. \A j \in DOMAIN comms : comms[j].comm # c => \E k \in DOMAIN comms' : comms'[k] = comms[j]
  <2> SUFFICES ASSUME NEW j \in DOMAIN comms, comms[j].comm # c
               PROVE  \E k \in DOMAIN comms' : comms'[k] = comms[j]
    OBVIOUS
  <2>1. PICK k \in DOMAIN comms' : from(k) = j
    BY <1>2, <1>12
  <2> QED
    BY <1>14, <2>1
<1>18. ASSUME NEW d \in Comms, groupOf'[d] # NULL
       PROVE  \E k \in DOMAIN comms' : comms'[k].comm = d
  <2>1. d # c /\ groupOf[d] # NULL
    BY <1>4, <1>18
  <2>2. PICK j \in DOMAIN comms : comms[j].comm = d
    BY <2>1 DEF EntriesRight
  <2> QED
    BY <1>17, <2>1, <2>2
<1>19. EntriesRight'
  BY <1>8, <1>9, <1>15, <1>16, <1>18 DEF EntriesRight
<1>20. \A k \in DOMAIN comms' : \E j \in DOMAIN comms : comms'[k] = comms[j] /\ comms[j].comm # c
  BY <1>14
<1> QED
  BY <1>17, <1>19, <1>20

\* A new group has no communicator.
LEMMA NewGroupEntries ==
  ASSUME TypeInv, EntriesRight, NEW g \in Fresh, NEW procs \in SUBSET Procs,
         members' = [members EXCEPT ![g] = procs], groupOf' = groupOf,
         vt_group_create(g, procs), error' = "none"
  PROVE  /\ EntriesRight'
         /\ wins' = wins
         /\ comms' = comms \/ comms' = Append(comms, [comm |-> NULL, group |-> g, cid |-> procs])
         /\ group_search(g) # 0 => comms' = comms
         /\ group_search(g) = 0 =>
              comms' = Append(comms, [comm |-> NULL, group |-> g, cid |-> procs])
<1> DEFINE e == [comm |-> NULL, group |-> g, cid |-> procs]
<1>0. g \in Groups
  BY DEF Fresh
<1>1. /\ wins' = wins /\ (comms' = comms \/ comms' = Append(comms, e))
      /\ group_search(g) # 0 => comms' = comms
      /\ group_search(g) = 0 => comms' = Append(comms, e)
  BY DEF vt_group_create, Stop
<1>2. e \in Entry /\ e.comm = NULL
  BY <1>0 DEF Entry
<1>3. \A h \in Groups : h \in Live => members'[h] = members[h]
  BY <1>0, MembersKept
<1>4. \A i \in DOMAIN comms : comms[i].comm # NULL =>
         /\ groupOf[comms[i].comm] = comms[i].group
         /\ comms[i].cid = members'[comms[i].group]
  <2> SUFFICES ASSUME NEW i \in DOMAIN comms, comms[i].comm # NULL
               PROVE  /\ groupOf[comms[i].comm] = comms[i].group
                      /\ comms[i].cid = members'[comms[i].group]
    OBVIOUS
  <2>1. comms[i].comm \in Comms /\ comms[i].group \in Groups
    BY GroupsInUse, Parts
  <2>2. groupOf[comms[i].comm] = comms[i].group /\ comms[i].cid = members[comms[i].group]
    BY DEF EntriesRight
  <2>3. comms[i].group \in Live
    BY <2>1, <2>2, GroupsInUse
  <2> QED
    BY <1>3, <2>1, <2>2, <2>3
<1> HIDE DEF e
<1>5. ASSUME comms' = comms PROVE EntriesRight'
  BY <1>4, <1>5 DEF EntriesRight
<1>6. ASSUME comms' = Append(comms, e) PROVE EntriesRight'
  <2> DEFINE n == Len(comms) + 1
  <2>1. /\ Len(comms) \in Nat /\ Len(comms') = n
        /\ \A j \in DOMAIN comms : j \in DOMAIN comms' /\ comms'[j] = comms[j]
        /\ comms'[n] = e /\ n \in DOMAIN comms'
        /\ \A j \in DOMAIN comms' : j = n \/ j \in DOMAIN comms
    BY <1>2, <1>6, GroupsInUse, Appended
  <2>2. Len(comms') >= 2
    BY <2>1 DEF EntriesRight
  <2> HIDE DEF n
  <2>3. comms'[1].comm = World /\ comms'[2].comm = Self
    BY <2>1, Predefined DEF EntriesRight
  <2>4. \A i \in DOMAIN comms' : comms'[i].comm # NULL => i \in DOMAIN comms /\ comms'[i] = comms[i]
    BY <1>2, <2>1
  <2>5. \A i \in DOMAIN comms' : comms'[i].comm # NULL =>
         /\ groupOf'[comms'[i].comm] = comms'[i].group
         /\ comms'[i].cid = members'[comms'[i].group]
    BY <1>4, <2>4
  <2>6. \A i, j \in DOMAIN comms' :
          comms'[i].comm # NULL /\ comms'[i].comm = comms'[j].comm => i = j
    BY <2>4 DEF EntriesRight
  <2>7. \A c \in Comms : groupOf'[c] # NULL => \E i \in DOMAIN comms' : comms'[i].comm = c
    BY <2>1 DEF EntriesRight
  <2> QED
    BY <2>2, <2>3, <2>5, <2>6, <2>7 DEF EntriesRight
<1> QED
  BY <1>1, <1>5, <1>6 DEF e

\* The number of windows is the number of slots in use.
LEMMA SlotsFull ==
  ASSUME TypeInv, SlotsRight, \A i \in DOMAIN wins : wins[i] # FreeSlot
  PROVE  IsFiniteSet(Created) /\ Cardinality(Created) = Len(wins) /\ Len(wins) \in Nat
<1> DEFINE f == [i \in DOMAIN wins |-> wins[i].win]
<1>1. f \in [DOMAIN wins -> Created]
  BY DEF SlotsRight
<1>2. \A w \in Created : \E i \in DOMAIN wins : f[i] = w
  BY DEF SlotsRight
<1>3. \A i, j \in DOMAIN wins : f[i] = f[j] => i = j
  <2> SUFFICES ASSUME NEW i \in DOMAIN wins, NEW j \in DOMAIN wins, f[i] = f[j] PROVE i = j
    OBVIOUS
  <2>1. wins[i].win \in Windows
    BY DEF SlotsRight, Created
  <2> QED
    BY <2>1, GroupsInUse DEF SlotsRight
<1> HIDE DEF f
<1>4. f \in Surjection(DOMAIN wins, Created) /\ f \in Injection(DOMAIN wins, Created)
  BY <1>1, <1>2, <1>3, Fun_IsSurj, Fun_IsInj
<1>5. Len(wins) \in Nat /\ DOMAIN wins = 1 .. Len(wins)
  BY GroupsInUse, LenProperties
<1>6. IsFiniteSet(DOMAIN wins) /\ Cardinality(DOMAIN wins) = Len(wins)
  BY <1>5, FS_Interval
<1>7. IsFiniteSet(Created) /\ Cardinality(Created) = Cardinality(DOMAIN wins)
  BY <1>4, <1>6, FS_Surjection
<1> QED
  BY <1>5, <1>6, <1>7

\* A new window gets a free slot or a new one, and the limit is reported only
\* when MaxWins others exist.
LEMMA WinCreateSlots ==
  ASSUME TypeInv, EntriesRight, SlotsRight, NEW w \in Windows, NEW c \in Comms,
         MPI_Win_create(w, c)
  PROVE  /\ Created' = Created \cup {w}
         /\ error' = "none" => SlotsRight'
         /\ error' = "too many windows" => Cardinality(Created') > MaxWins
         /\ error' \in {"none", "too many windows"} /\ comms' = comms
         /\ error' = "none" =>
              \E p \in DOMAIN wins', e \in DOMAIN comms :
                 /\ comms[e].group = groupOf[c]
                 /\ wins'[p] = [win |-> w, comm |-> c, gid |-> comms[e].cid]
                 /\ \A i \in DOMAIN wins' : i # p => i \in DOMAIN wins /\ wins'[i] = wins[i]
<1> DEFINE pos  == group_search(groupOf[c])
           slot == [win |-> w, comm |-> c, gid |-> comms[pos].cid]
<1>0. error = "none" /\ window[w].group = NULL /\ groupOf[c] # NULL
      /\ window' = [window EXCEPT ![w].group = groupOf[c]]
  BY DEF MPI_Win_create, Running
<1>1. window \in [Windows -> Win] /\ groupOf[c] \in Groups
  BY <1>0, GroupsInUse DEF TypeInv, MpiType
<1>2. window'[w].group = groupOf[c] /\ \A v \in Windows : v # w => window'[v] = window[v]
  BY <1>0, <1>1, WindowField
<1>3. Created' = Created \cup {w} /\ w \notin Created
  BY <1>0, <1>2 DEF Created
<1>4. \A i \in DOMAIN wins : wins[i].win # w
  BY <1>3, GroupsInUse, Parts DEF SlotsRight
<1>5. win_search(w) = 0
  BY <1>4, WinSearch, GroupsInUse
<1>6. \E i \in DOMAIN comms : comms[i].group = groupOf[c]
  <2>1. PICK i \in DOMAIN comms : comms[i].comm = c
    BY <1>0 DEF EntriesRight
  <2>2. c # NULL
    BY GroupsInUse
  <2> QED
    BY <2>1, <2>2 DEF EntriesRight
<1>7. pos # 0 /\ pos \in DOMAIN comms /\ comms[pos].group = groupOf[c]
  BY <1>6, GroupSearch, GroupsInUse
<1> DEFINE p == comms[pos].cid
<1>8. p \in SUBSET Procs
  BY <1>7, GroupsInUse, Parts
<1>9. /\ comms' = comms
      /\ \/ (free_win = 0 /\ Len(wins) >= MaxWins) /\ error' = "too many windows"
         \/ /\ ~(free_win = 0 /\ Len(wins) >= MaxWins) /\ error' = error
            /\ \/ free_win # 0 /\ wins' = [wins EXCEPT ![free_win] = slot]
               \/ free_win = 0 /\ wins' = Append(wins, slot)
  BY <1>5, <1>7 DEF MPI_Win_create, vt_win_create, Stop
<1>10. slot \in Slot /\ slot.win = w
  <2> HIDE DEF p
  <2>1. [win |-> w, comm |-> c, gid |-> p] \in Slot
    BY <1>8 DEF Slot
  <2> QED
    BY <2>1 DEF p
<1>11. slot # FreeSlot
  BY <1>10, Parts, GroupsInUse
<1> HIDE DEF pos
<1>12. slot = [win |-> w, comm |-> c, gid |-> comms[pos].cid]
  OBVIOUS
<1> HIDE DEF slot
<1>13. ASSUME NEW q \in DOMAIN wins', wins'[q] = slot,
              \A i \in DOMAIN wins' : i # q => i \in DOMAIN wins /\ wins'[i] = wins[i],
              \A i \in DOMAIN wins : i \in DOMAIN wins' /\ (wins[i] # FreeSlot => i # q)
       PROVE  SlotsRight'
  <2>1. \A i \in DOMAIN wins' : wins'[i] = FreeSlot \/ wins'[i].win \in Created'
    BY <1>3, <1>10, <1>13 DEF SlotsRight
  <2>2. \A i, j \in DOMAIN wins' : wins'[i].win # NULL /\ wins'[i].win = wins'[j].win => i = j
    BY <1>4, <1>10, <1>13 DEF SlotsRight
  <2>3. ASSUME NEW v \in Created' PROVE \E i \in DOMAIN wins' : wins'[i].win = v
    <3>1. CASE v = w
      BY <1>10, <1>13, <3>1
    <3>2. CASE v \in Created
      <4>1. PICK i \in DOMAIN wins : wins[i].win = v
        BY <3>2 DEF SlotsRight
      <4>2. v # NULL
        BY <3>2, GroupsInUse DEF Created
      <4>3. i # q
        BY <1>13, <4>1, <4>2, Parts
      <4> QED
        BY <1>13, <4>1, <4>3
    <3> QED
      BY <1>3, <2>3, <3>1, <3>2
  <2> QED
    BY <2>1, <2>2, <2>3 DEF SlotsRight
<1>14. CASE free_win = 0 /\ Len(wins) >= MaxWins /\ error' = "too many windows"
  <2>1. \A i \in DOMAIN wins : wins[i] # FreeSlot
    BY <1>14, FreeWin, GroupsInUse
  <2>2. IsFiniteSet(Created) /\ Cardinality(Created) = Len(wins) /\ Len(wins) \in Nat
    BY <2>1, SlotsFull
  <2>3. Cardinality(Created') = Len(wins) + 1
    BY <1>3, <2>2, FS_AddElement
  <2>a. MaxWins \in Nat /\ Len(wins) >= MaxWins
    BY <1>14, TablesAssumption
  <2>4. Cardinality(Created') > MaxWins
    BY <2>a, <2>2, <2>3
  <2> QED
    BY <1>3, <1>9, <1>14, <2>4
<1>15. CASE error' = error /\ free_win # 0 /\ wins' = [wins EXCEPT ![free_win] = slot]
  <2>1. free_win \in DOMAIN wins /\ wins[free_win] = FreeSlot
    BY <1>15, FreeWin, GroupsInUse
  <2> DEFINE q == free_win
  <2>2. TablesType
    BY DEF TypeInv
  <2> HIDE DEF q
  <2>3. /\ DOMAIN wins' = DOMAIN wins
        /\ \A j \in DOMAIN wins : wins'[j] = IF j = q THEN slot ELSE wins[j]
    BY <1>9, <1>10, <1>15, <2>1, <2>2, SlotReplaced DEF q
  <2>4. q \in DOMAIN wins' /\ wins'[q] = slot /\ wins[q] = FreeSlot
    BY <2>1, <2>3 DEF q
  <2>5. SlotsRight'
    BY <1>13, <2>3, <2>4
  <2> QED
    BY <1>0, <1>3, <1>7, <1>9, <1>12, <1>15, <2>3, <2>4, <2>5
<1>16. CASE error' = error /\ wins' = Append(wins, slot)
  <2> DEFINE q == Len(wins) + 1
  <2>1. /\ wins'[q] = slot /\ q \in DOMAIN wins' /\ q \notin DOMAIN wins
        /\ \A j \in DOMAIN wins : j \in DOMAIN wins' /\ wins'[j] = wins[j]
        /\ \A j \in DOMAIN wins' : j = q \/ j \in DOMAIN wins
    BY <1>10, <1>16, GroupsInUse, Appended
  <2> HIDE DEF q
  <2>2. SlotsRight'
    BY <1>13, <2>1
  <2> QED
    BY <1>0, <1>3, <1>7, <1>9, <1>12, <1>16, <2>1, <2>2
<1> QED
  BY <1>9, <1>14, <1>15, <1>16

\* The slots stay right when the gid of a window changes.
LEMMA GidSlots ==
  ASSUME TypeInv, SlotsRight, NEW i \in DOMAIN wins, NEW p \in SUBSET Procs,
         wins[i].win # NULL, wins' = [wins EXCEPT ![i].gid = p], comms' = comms,
         Created' = Created
  PROVE  /\ SlotsRight' /\ DOMAIN wins' = DOMAIN wins
         /\ \A j \in DOMAIN wins :
              /\ wins'[j].win = wins[j].win /\ wins'[j].comm = wins[j].comm
              /\ wins'[j].gid = IF j = i THEN p ELSE wins[j].gid
<1>1. TablesType
  BY DEF TypeInv
<1>2. /\ DOMAIN wins' = DOMAIN wins
      /\ \A j \in DOMAIN wins :
           /\ wins'[j].win = wins[j].win /\ wins'[j].comm = wins[j].comm
           /\ wins'[j].gid = IF j = i THEN p ELSE wins[j].gid
           /\ j # i => wins'[j] = wins[j]
  BY <1>1, GidReplaced
<1>3. wins[i] # FreeSlot
  BY Parts
<1>4. \A j \in DOMAIN wins' : wins'[j] = FreeSlot \/ wins'[j].win \in Created'
  BY <1>2, <1>3 DEF SlotsRight
<1>5. \A j, k \in DOMAIN wins' : wins'[j].win # NULL /\ wins'[j].win = wins'[k].win => j = k
  BY <1>2 DEF SlotsRight
<1>6. \A w \in Created' : \E j \in DOMAIN wins' : wins'[j].win = w
  BY <1>2 DEF SlotsRight
<1> QED
  BY <1>2, <1>4, <1>5, <1>6 DEF SlotsRight

\* The windows that exist stay the same when only epochs and locks change.
LEMMA CreatedKept ==
  ASSUME TypeInv, NEW w \in Windows,
         \/ window' = window
         \/ \E p \in SUBSET Procs : window' = [window EXCEPT ![w].access = p]
         \/ \E p \in SUBSET Procs : window' = [window EXCEPT ![w].exposure = p]
         \/ \E b \in BOOLEAN : window' = [window EXCEPT ![w].locked = b]
  PROVE  Created' = Created /\ \A v \in Windows : window'[v].group = window[v].group
<1>0. window \in [Windows -> Win]
  BY DEF TypeInv, MpiType
<1>1. window'[w].group = window[w].group /\ \A v \in Windows : v # w => window'[v] = window[v]
  <2>1. CASE window' = window
    BY <2>1
  <2>2. CASE \E p \in SUBSET Procs : window' = [window EXCEPT ![w].access = p]
    BY <1>0, <2>2 DEF Win
  <2>3. CASE \E p \in SUBSET Procs : window' = [window EXCEPT ![w].exposure = p]
    BY <1>0, <2>3 DEF Win
  <2>4. CASE \E b \in BOOLEAN : window' = [window EXCEPT ![w].locked = b]
    BY <1>0, <2>4 DEF Win
  <2> QED
    BY <2>1, <2>2, <2>3, <2>4
<1>2. \A v \in Windows : window'[v].group = window[v].group
  BY <1>1
<1> QED
  BY <1>2 DEF Created

\* An existing window is found by win_search.
LEMMA WindowFound ==
  ASSUME TypeInv, SlotsRight, NEW w \in Created
  PROVE  /\ win_search(w) # 0 /\ win_search(w) \in DOMAIN wins /\ wins[win_search(w)].win = w
         /\ w \in Windows /\ w # NULL
         /\ \A i \in DOMAIN wins : wins[i].win = w => i = win_search(w)
<1>1. \E i \in DOMAIN wins : wins[i].win = w
  BY DEF SlotsRight
<1>2. win_search(w) # 0 /\ win_search(w) \in DOMAIN wins /\ wins[win_search(w)].win = w
  BY <1>1, WinSearch, GroupsInUse
<1>3. w \in Windows /\ w # NULL
  BY GroupsInUse DEF Created
<1> QED
  BY <1>2, <1>3 DEF SlotsRight

\* A window that is freed leaves a free slot.
LEMMA WinFreeSlots ==
  ASSUME TypeInv, SlotsRight, NEW w \in Windows, MPI_Win_free(w)
  PROVE  /\ SlotsRight' /\ comms' = comms /\ error' = "none"
         /\ \A v \in Windows : v # w => window'[v] = window[v]
         /\ window'[w] = NoWindow
         /\ \A i \in DOMAIN wins' : wins'[i].win # NULL =>
              i \in DOMAIN wins /\ wins'[i] = wins[i] /\ wins[i].win # w
<1> DEFINE i == win_search(w)
<1>0. w \in Created /\ error = "none" /\ window' = [window EXCEPT ![w] = NoWindow]
  BY DEF MPI_Win_free, Created, Running
<1>1. /\ i # 0 /\ i \in DOMAIN wins /\ wins[i].win = w /\ w # NULL
      /\ \A j \in DOMAIN wins : wins[j].win = w => j = i
  BY <1>0, WindowFound
<1>2. wins' = [wins EXCEPT ![i] = FreeSlot] /\ comms' = comms /\ error' = error
  BY <1>1 DEF MPI_Win_free, vt_win_free
<1>3. /\ DOMAIN wins' = DOMAIN wins
      /\ \A j \in DOMAIN wins : wins'[j] = IF j = i THEN FreeSlot ELSE wins[j]
  <2>1. TablesType
    BY DEF TypeInv
  <2> HIDE DEF i
  <2> QED
    BY <1>1, <1>2, <2>1, SlotReplaced, Parts
<1> HIDE DEF i
<1>4. window \in [Windows -> Win]
  BY DEF TypeInv, MpiType
<1>5. window'[w] = NoWindow /\ \A v \in Windows : v # w => window'[v] = window[v]
  BY <1>0, <1>4
<1>6. NoWindow.group = NULL
  BY DEF NoWindow
<1>7. Created' = Created \ {w}
  BY <1>5, <1>6 DEF Created
<1>8. \A j \in DOMAIN wins' : wins'[j] = FreeSlot \/ wins'[j].win \in Created'
  BY <1>1, <1>3, <1>7 DEF SlotsRight
<1>9. \A j, k \in DOMAIN wins' : wins'[j].win # NULL /\ wins'[j].win = wins'[k].win => j = k
  BY <1>3, Parts DEF SlotsRight
<1>10. \A v \in Created' : \E j \in DOMAIN wins' : wins'[j].win = v
  BY <1>1, <1>3, <1>7 DEF SlotsRight
<1>11. SlotsRight'
  BY <1>8, <1>9, <1>10 DEF SlotsRight
<1>12. \A j \in DOMAIN wins' : wins'[j].win # NULL =>
              j \in DOMAIN wins /\ wins'[j] = wins[j] /\ wins[j].win # w
  BY <1>1, <1>3, Parts
<1> QED
  BY <1>0, <1>2, <1>5, <1>11, <1>12

\* Nothing changes in the tables and in what they are about.
LEMMA TablesSame ==
  ASSUME TypeInv, TablesInv, comms' = comms, wins' = wins, groupOf' = groupOf,
         members' = members, Created' = Created, error' = error
  PROVE  TablesInv'
  BY DEF TablesInv, Running, EntriesRight, SlotsRight

\* The tables stay right in every call that keeps them.
LEMMA TablesStep ==
  ASSUME TypeInv, TablesInv, TableStep
  PROVE  TablesInv'
<1>0. Running => EntriesRight /\ SlotsRight
  BY DEF TablesInv
<1>1. ASSUME NEW c \in Comms, NEW g \in Groups, NEW procs \in SUBSET Procs,
             Given(c, g, procs), NewComm(c, g, procs)
      PROVE  TablesInv'
  <2>1. Running /\ window' = window /\ (error' = "none" \/ error' = "too many communicators")
    BY <1>1 DEF NewComm, vt_comm_create, Stop, Running
  <2>2. CASE error' = "none"
    <3>1. EntriesRight'
      BY <1>0, <1>1, <2>1, <2>2, NewCommEntries
    <3>2. wins' = wins
      BY <1>0, <1>1, <2>1, <2>2, CommCreateAppends DEF NewComm
    <3>3. SlotsRight'
      BY <1>0, <2>1, <3>2 DEF SlotsRight, Created
    <3> QED
      BY <2>2, <3>1, <3>3 DEF TablesInv
  <2> QED
    BY <2>1, <2>2 DEF TablesInv, Running
<1>2. ASSUME NEW c \in Comms, MPI_Comm_free(c)
      PROVE  TablesInv'
  <2>1. Running /\ window' = window /\ wins' = wins
        /\ (error' = "none" \/ error' = "cannot find communicator")
    BY <1>2 DEF MPI_Comm_free, vt_comm_free, Stop, Running
  <2>2. CASE error' = "none"
    <3>1. EntriesRight'
      BY <1>0, <1>2, <2>1, <2>2, CommFreeEntries
    <3>2. SlotsRight'
      BY <1>0, <2>1 DEF SlotsRight, Created
    <3> QED
      BY <2>2, <3>1, <3>2 DEF TablesInv
  <2> QED
    BY <2>1, <2>2 DEF TablesInv, Running
<1>3. ASSUME NEW c \in Comms, MPI_Comm_group(c)
      PROVE  TablesInv'
  BY <1>3, TablesSame DEF MPI_Comm_group, Created
<1>4. ASSUME NEW procs \in SUBSET Procs, NewGroup(procs)
      PROVE  TablesInv'
  <2>1. PICK g \in Fresh : members' = [members EXCEPT ![g] = procs] /\ vt_group_create(g, procs)
    BY <1>4 DEF NewGroup
  <2>2. Running /\ window' = window /\ groupOf' = groupOf
        /\ (error' = "none" \/ error' = "too many communicators")
    BY <1>4, <2>1 DEF NewGroup, vt_group_create, Stop, Running
  <2>3. CASE error' = "none"
    <3>1. EntriesRight' /\ wins' = wins
      BY <1>0, <2>1, <2>2, <2>3, NewGroupEntries
    <3>2. SlotsRight'
      BY <1>0, <2>2, <3>1 DEF SlotsRight, Created
    <3> QED
      BY <2>3, <3>1, <3>2 DEF TablesInv
  <2> QED
    BY <2>2, <2>3 DEF TablesInv, Running
<1>5. ASSUME NEW g \in Groups, MPI_Group_free(g)
      PROVE  TablesInv'
  BY <1>5, TablesSame DEF MPI_Group_free, Created
<1>6. ASSUME NEW w \in Windows, NEW c \in Comms, MPI_Win_create(w, c)
      PROVE  TablesInv'
  <2>1. Running /\ groupOf' = groupOf /\ members' = members
    BY <1>6 DEF MPI_Win_create
  <2>2. /\ error' = "none" => SlotsRight'
        /\ error' = "too many windows" => Cardinality(Created') > MaxWins
        /\ error' \in {"none", "too many windows"} /\ comms' = comms
    BY <1>0, <1>6, <2>1, WinCreateSlots
  <2>3. EntriesRight'
    BY <1>0, <2>1, <2>2 DEF EntriesRight
  <2> QED
    BY <2>2, <2>3 DEF TablesInv, Running
<1>7. ASSUME NEW w \in Windows, NEW g \in Groups, NEW e \in {"access", "exposure"},
             BeginEpoch(w, g, e)
      PROVE  TablesInv'
  <2>1. Running /\ groupOf' = groupOf /\ members' = members /\ w \in Created /\ comms' = comms
        /\ SetGroup(w, g) /\ window' = [window EXCEPT ![w][e] = members[g]]
    BY <1>7 DEF BeginEpoch, SetGroup, Stop, Created
  <2>2. Created' = Created
    <3>1. members[g] \in SUBSET Procs
      BY DEF TypeInv, MpiType
    <3>2. CASE e = "access"
      BY <2>1, <3>1, <3>2, CreatedKept
    <3>3. CASE e = "exposure"
      BY <2>1, <3>1, <3>3, CreatedKept
    <3> QED
      BY <3>2, <3>3
  <2>3. win_search(w) # 0 /\ win_search(w) \in DOMAIN wins /\ wins[win_search(w)].win = w /\ w # NULL
    BY <1>0, <2>1, WindowFound
  <2>4. CASE error' = "cannot find group"
    BY <2>4 DEF TablesInv, Running
  <2>5. CASE /\ group_search(g) # 0 /\ error' = error
             /\ wins' = [wins EXCEPT ![win_search(w)].gid = comms[group_search(g)].cid]
    <3>1. comms[group_search(g)].cid \in SUBSET Procs
      BY <2>5, GroupSearch, GroupsInUse, Parts
    <3>2. SlotsRight'
      BY <1>0, <2>1, <2>2, <2>3, <2>5, <3>1, GidSlots
    <3>3. EntriesRight'
      BY <1>0, <2>1 DEF EntriesRight
    <3>4. error' = "none"
      BY <2>1, <2>5 DEF Running
    <3> QED
      BY <3>2, <3>3, <3>4 DEF TablesInv
  <2> QED
    BY <2>1, <2>3, <2>4, <2>5 DEF SetGroup, Stop
<1>8. ASSUME NEW w \in Windows, NEW e \in {"access", "exposure"}, EndEpoch(w, e)
      PROVE  TablesInv'
  <2>1. Running /\ groupOf' = groupOf /\ members' = members /\ comms' = comms
        /\ window' = [window EXCEPT ![w][e] = {}]
    BY <1>8 DEF EndEpoch, Stop
  <2>2. Created' = Created
    <3>1. {} \in SUBSET Procs
      OBVIOUS
    <3>2. CASE e = "access"
      BY <2>1, <3>1, <3>2, CreatedKept
    <3>3. CASE e = "exposure"
      BY <2>1, <3>1, <3>3, CreatedKept
    <3> QED
      BY <3>2, <3>3
  <2> DEFINE pos == win_search(w)
             i == comm_search(wins[pos].comm)
  <2>3. CASE error' = "cannot find communicator"
    BY <2>3 DEF TablesInv, Running
  <2>4. CASE i # 0 /\ error' = error /\ wins' = [wins EXCEPT ![pos].gid = comms[i].cid]
    <3>1. comms[i].cid \in SUBSET Procs
      BY <2>4, CommSearch, GroupsInUse, Parts
    <3>2. EntriesRight'
      BY <1>0, <2>1 DEF EntriesRight
    <3>3. error' = "none"
      BY <2>1, <2>4 DEF Running
    <3>4. SlotsRight'
      <4>1. CASE pos = 0
        <5>1. pos \notin DOMAIN wins
          BY <4>1, LenProperties, GroupsInUse
        <5>2. wins' = wins
          BY <2>4, <5>1, LenProperties, GroupsInUse
        <5> QED
          BY <1>0, <2>1, <2>2, <5>2 DEF SlotsRight
      <4>2. CASE pos # 0
        <5>1. pos \in DOMAIN wins /\ wins[pos].win # NULL
          BY <4>2, WinSearch, GroupsInUse
        <5> QED
          BY <1>0, <2>1, <2>2, <2>4, <3>1, <5>1, GidSlots
      <4> QED
        BY <4>1, <4>2
    <3> QED
      BY <3>2, <3>3, <3>4 DEF TablesInv
  <2> QED
    BY <1>8, <2>3, <2>4 DEF EndEpoch, Stop
<1>9. ASSUME NEW w \in Windows, MPI_Win_free(w)
      PROVE  TablesInv'
  <2>1. Running /\ groupOf' = groupOf /\ members' = members
    BY <1>9 DEF MPI_Win_free
  <2>2. SlotsRight' /\ comms' = comms /\ error' = "none"
    BY <1>0, <1>9, <2>1, WinFreeSlots
  <2>3. EntriesRight'
    BY <1>0, <2>1, <2>2 DEF EntriesRight
  <2> QED
    BY <2>2, <2>3 DEF TablesInv
<1>10. CASE UNCHANGED <<comms, wins, mpi, error, misfiled>>
  BY <1>10, TablesSame DEF mpi, Created
<1> QED
  BY <1>1, <1>2, <1>3, <1>4, <1>5, <1>6, <1>7, <1>8, <1>9, <1>10, Zenon DEF TableStep

\* One-sided operations leave the tables alone.
LEMMA RmaSame ==
  ASSUME TypeInv, RmaCall
  PROVE  /\ Running
         /\ UNCHANGED <<comms, wins, groupOf, members, held, made, error>>
         /\ Created' = Created
<1>1. PICK w \in Windows :
        \/ MPI_Win_fence(w) \/ MPI_Win_lock(w) \/ MPI_Win_unlock(w)
        \/ MPI_Put(w) \/ MPI_Get(w)
  BY DEF RmaCall, MPI_Accumulate
<1>2. UNCHANGED <<comms, wins, groupOf, members, held, made, error>> /\ Running
  BY <1>1 DEF MPI_Win_fence, MPI_Win_lock, MPI_Win_unlock, MPI_Put, MPI_Get, mpi, Use
<1>3. \/ window' = window \/ window' = [window EXCEPT ![w].locked = TRUE]
      \/ window' = [window EXCEPT ![w].locked = FALSE]
  BY <1>1 DEF MPI_Win_fence, MPI_Win_lock, MPI_Win_unlock, MPI_Put, MPI_Get, mpi
<1>4. window' = window \/ \E b \in BOOLEAN : window' = [window EXCEPT ![w].locked = b]
  BY <1>3
<1>5. Created' = Created
  BY <1>4, CreatedKept
<1> QED
  BY <1>2, <1>5

\* Every step keeps the tables right.
LEMMA TablesNext == TypeInv /\ TablesInv /\ [Next]_vars => TablesInv'
<1> SUFFICES ASSUME TypeInv, TablesInv, [Next]_vars PROVE TablesInv'
  OBVIOUS
<1>1. CASE Next
  <2>1. CASE TableStep
    BY <2>1, TablesStep
  <2>2. CASE RmaCall
    BY <2>2, RmaSame, TablesSame
  <2> QED
    BY <1>1, <2>1, <2>2, NextIs
<1>2. CASE UNCHANGED vars
  BY <1>2, TablesSame DEF vars, mpi, Created
<1> QED
  BY <1>1, <1>2

\* vt_comm_init has registered the two communicators.
LEMMA InitTables == Init => TablesInv
<1> SUFFICES ASSUME Init PROVE TablesInv
  OBVIOUS
<1>1. PICK gw \in Groups, gs \in Groups :
        /\ gw # gs
        /\ groupOf = [c \in Comms |-> IF c = World THEN gw ELSE IF c = Self THEN gs ELSE NULL]
        /\ members = [g \in Groups |-> IF g = gw THEN Procs ELSE IF g = gs THEN {Me} ELSE {}]
        /\ comms = <<[comm |-> World, group |-> gw, cid |-> Procs],
                     [comm |-> Self, group |-> gs, cid |-> {Me}]>>
  BY DEF Init
<1>2. wins = << >> /\ window = [w \in Windows |-> NoWindow] /\ error = "none"
  BY DEF Init
<1>3. /\ Len(comms) = 2 /\ DOMAIN comms = {1, 2}
      /\ comms[1].comm = World /\ comms[1].group = gw /\ comms[1].cid = Procs
      /\ comms[2].comm = Self /\ comms[2].group = gs /\ comms[2].cid = {Me}
  BY <1>1
<1>4. EntriesRight
  <2>1. /\ groupOf[World] = gw /\ groupOf[Self] = gs
        /\ members[gw] = Procs /\ members[gs] = {Me}
    BY <1>1, TablesAssumption
  <2>2. \A i \in DOMAIN comms : comms[i].comm # NULL =>
          /\ groupOf[comms[i].comm] = comms[i].group
          /\ comms[i].cid = members[comms[i].group]
    BY <1>3, <2>1
  <2>3. \A i, j \in DOMAIN comms :
          comms[i].comm # NULL /\ comms[i].comm = comms[j].comm => i = j
    BY <1>3, TablesAssumption
  <2>4. \A c \in Comms : groupOf[c] # NULL => \E i \in DOMAIN comms : comms[i].comm = c
    BY <1>1, <1>3
  <2> QED
    BY <1>3, <2>2, <2>3, <2>4 DEF EntriesRight
<1>5. Created = {} /\ DOMAIN wins = {}
  BY <1>2 DEF Created, NoWindow
<1>6. SlotsRight
  BY <1>5 DEF SlotsRight
<1> QED
  BY <1>2, <1>4, <1>6 DEF TablesInv

\* What the invariant says of the entries is what CommsRight does.
LEMMA TablesAre == TypeInv /\ TablesInv => TablesRight
<1> SUFFICES ASSUME TypeInv, TablesInv PROVE TablesRight
  OBVIOUS
<1>1. CommsRight
  <2> SUFFICES ASSUME Running, NEW c \in Comms
               PROVE  IF groupOf[c] = NULL THEN {i \in DOMAIN comms : comms[i].comm = c} = {}
                      ELSE \E i \in {i \in DOMAIN comms : comms[i].comm = c} :
                             /\ {j \in DOMAIN comms : comms[j].comm = c} = {i}
                             /\ comms[i].cid = members[groupOf[c]]
    BY DEF CommsRight
  <2>0. EntriesRight /\ c # NULL
    BY GroupsInUse DEF TablesInv
  <2>1. \A i \in DOMAIN comms : comms[i].comm = c =>
          /\ groupOf[c] = comms[i].group /\ comms[i].group \in Groups
          /\ comms[i].cid = members[groupOf[c]]
    BY <2>0, GroupsInUse, Parts DEF EntriesRight
  <2>2. CASE groupOf[c] = NULL
    BY <2>1, <2>2, GroupsInUse
  <2>3. CASE groupOf[c] # NULL
    <3>1. PICK i \in DOMAIN comms : comms[i].comm = c
      BY <2>0, <2>3 DEF EntriesRight
    <3>2. {j \in DOMAIN comms : comms[j].comm = c} = {i}
      BY <2>0, <3>1 DEF EntriesRight
    <3> QED
      BY <2>1, <2>3, <3>1, <3>2
  <2> QED
    BY <2>2, <2>3
<1>2. ASSUME Running, NEW w \in Windows
      PROVE  Cardinality({i \in DOMAIN wins : wins[i].win = w})
               = (IF window[w].group = NULL THEN 0 ELSE 1)
  <2> DEFINE S == {i \in DOMAIN wins : wins[i].win = w}
  <2>0. SlotsRight
    BY <1>2 DEF TablesInv
  <2>1. CASE window[w].group = NULL
    <3>1. w \notin Created /\ w # NULL
      BY <2>1, GroupsInUse DEF Created
    <3>2. S = {}
      BY <2>0, <3>1, Parts DEF SlotsRight
    <3> QED
      BY <2>1, <3>2, FS_EmptySet
  <2>2. CASE window[w].group # NULL
    <3>1. w \in Created
      BY <2>2 DEF Created
    <3>2. S = {win_search(w)}
      BY <2>0, <3>1, WindowFound
    <3> QED
      BY <2>2, <3>2, FS_Singleton
  <2> QED
    BY <2>1, <2>2
<1>3. WindowsRight
  BY <1>2 DEF WindowsRight, TablesInv, Created
<1> QED
  BY <1>1, <1>3 DEF TablesRight

\* Whatever communicators and windows the program creates and frees, an entry
\* of the tables is never taken for another communicator or window, and the
\* limit on windows is reported only when so many exist.
THEOREM TablesIdentify == Spec => []TablesRight
<1>1. Init => TypeInv /\ TablesInv
  BY InitType, InitTables
<1>2. (TypeInv /\ TablesInv) /\ [Next]_vars => (TypeInv /\ TablesInv)'
  BY TypeStep, TablesNext
<1> QED
  BY <1>1, <1>2, TablesAre, PTL DEF Spec

------------------------------------------------------------------------------
(* A careful program is served. *)

\* What holds while a careful program runs.
Careful ==
  /\ careful /\ Running
  /\ TypeInv /\ EntriesRight /\ SlotsRight
  /\ GroupsKept /\ SlotsKept /\ OneEpoch

Kept == GroupsKept /\ SlotsKept /\ OneEpoch

\* Every entry names the processes its group has, and the group is in use.
LEMMA CidRight ==
  ASSUME Careful, NEW i \in DOMAIN comms
  PROVE  /\ comms[i].group \in Groups /\ comms[i].group \in Live
         /\ comms[i].cid = members[comms[i].group]
<1>0. TypeInv /\ EntriesRight /\ GroupsKept
  BY DEF Careful
<1>1. comms[i].group \in Groups /\ comms[i].comm \in Comms \cup {NULL}
  BY <1>0, GroupsInUse, Parts
<1>2. CASE comms[i].comm = NULL
  <2>1. comms[i].group \in made /\ comms[i].cid = members[comms[i].group]
    BY <1>0, <1>2 DEF GroupsKept
  <2>2. comms[i].group \in Live
    BY <1>0, <2>1 DEF TypeInv, MpiType, Live
  <2> QED
    BY <1>1, <2>1, <2>2
<1>3. CASE comms[i].comm # NULL
  <2>1. groupOf[comms[i].comm] = comms[i].group /\ comms[i].cid = members[comms[i].group]
    BY <1>0, <1>3 DEF EntriesRight
  <2>2. comms[i].group \in Live
    BY <1>0, <1>1, <1>3, <2>1, GroupsInUse
  <2> QED
    BY <1>1, <2>1, <2>2
<1> QED
  BY <1>2, <1>3

\* The slot of a window, and the entry of the communicator it was made on.
LEMMA WindowServed ==
  ASSUME Careful, NEW w \in Created
  PROVE  LET pos == win_search(w)
         IN /\ pos # 0 /\ pos \in DOMAIN wins /\ wins[pos].win = w /\ w # NULL
            /\ wins[pos].gid = Gid(w)
            /\ comm_search(wins[pos].comm) # 0
            /\ comm_search(wins[pos].comm) \in DOMAIN comms
            /\ comms[comm_search(wins[pos].comm)].cid = members[window[w].group]
<1>0. TypeInv /\ EntriesRight /\ SlotsRight /\ SlotsKept
  BY DEF Careful
<1> DEFINE pos == win_search(w)
           c == wins[pos].comm
           i == comm_search(c)
<1>1. pos # 0 /\ pos \in DOMAIN wins /\ wins[pos].win = w /\ w # NULL /\ w \in Windows
  BY <1>0, WindowFound
<1>2. c \in Comms /\ groupOf[c] = window[w].group /\ wins[pos].gid = Gid(w)
  BY <1>0, <1>1 DEF SlotsKept
<1>3. window[w].group # NULL
  BY DEF Created
<1>4. \E k \in DOMAIN comms : comms[k].comm = c
  BY <1>0, <1>2, <1>3 DEF EntriesRight
<1>5. i # 0 /\ i \in DOMAIN comms /\ comms[i].comm = c
  BY <1>0, <1>4, CommSearch, GroupsInUse
<1>6. c # NULL
  BY <1>0, <1>2, GroupsInUse
<1>7. comms[i].group = window[w].group
  BY <1>0, <1>2, <1>5, <1>6 DEF EntriesRight
<1>8. comms[i].cid = members[window[w].group]
  BY <1>5, <1>7, CidRight
<1> QED
  BY <1>1, <1>2, <1>5, <1>8

\* The slots stay right when neither they nor the windows change.
LEMMA SlotsUnchanged ==
  ASSUME Careful, wins' = wins, window' = window,
         \A c \in Comms : (\E w \in Created : groupOf[c] = window[w].group) => groupOf'[c] = groupOf[c],
         \A g \in Groups : g \in Live => members'[g] = members[g]
  PROVE  SlotsKept'
<1> SUFFICES ASSUME NEW i \in DOMAIN wins, wins[i].win # NULL
             PROVE  /\ wins[i].comm \in Comms
                    /\ groupOf'[wins[i].comm] = window[wins[i].win].group
                    /\ wins[i].gid = Gid(wins[i].win)'
  BY DEF SlotsKept
<1> DEFINE w == wins[i].win
<1>0. TypeInv /\ SlotsRight /\ SlotsKept
  BY DEF Careful
<1>1. w \in Created /\ w \in Windows
  BY <1>0, Parts DEF SlotsRight, Created
<1>2. wins[i].comm \in Comms /\ groupOf[wins[i].comm] = window[w].group /\ wins[i].gid = Gid(w)
  BY <1>0 DEF SlotsKept
<1>3. groupOf'[wins[i].comm] = window[w].group
  BY <1>1, <1>2
<1>4. window[w].group \in Groups /\ window[w].group \in Live
  BY <1>0, <1>1, GroupsInUse DEF Created
<1>5. members'[window[w].group] = members[window[w].group]
  BY <1>4
<1>6. Gid(w)' = Gid(w)
  BY <1>5 DEF Gid
<1> QED
  BY <1>2, <1>3, <1>6

\* A new communicator: its group is in use, and the others keep theirs.
LEMMA ServedNewComm ==
  ASSUME Careful, NEW c \in Comms, NEW g \in Groups, NEW procs \in SUBSET Procs,
         Given(c, g, procs), NewComm(c, g, procs), is_rma_putre' = is_rma_putre
  PROVE  error' = "none" => Kept'
<1> SUFFICES ASSUME error' = "none" PROVE Kept'
  OBVIOUS
<1>0. TypeInv /\ EntriesRight /\ GroupsKept /\ OneEpoch
  BY DEF Careful
<1> DEFINE e == [comm |-> c, group |-> g, cid |-> procs]
<1>1. comms' = Append(comms, e) /\ wins' = wins
  BY <1>0, CommCreateAppends DEF NewComm
<1>2. /\ groupOf' = [groupOf EXCEPT ![c] = g] /\ groupOf[c] = NULL
      /\ held' = held /\ made' = made /\ window' = window
  BY DEF NewComm
<1>3. e \in Entry /\ e.comm = c
  BY DEF Entry
<1>4. /\ members'[g] = procs
      /\ \A h \in Groups : h \in Live => members'[h] = members[h]
  BY <1>0, MembersKept DEF NewComm, Given
<1>5. /\ groupOf'[c] = g
      /\ \A d \in Comms : d # c => groupOf'[d] = groupOf[d]
  BY <1>0, <1>2 DEF TypeInv, MpiType
<1> HIDE DEF e
<1> DEFINE n == Len(comms) + 1
<1>6. /\ \A j \in DOMAIN comms : j \in DOMAIN comms' /\ comms'[j] = comms[j]
      /\ comms'[n] = e
      /\ \A j \in DOMAIN comms' : j = n \/ j \in DOMAIN comms
  BY <1>0, <1>1, <1>3, GroupsInUse, Appended
<1> HIDE DEF n
<1>7. \A h \in Live' : h \in Live \/ h = g
  BY <1>2, <1>5 DEF Live
<1>8. procs # {}
  BY <1>0 DEF Given, GroupsKept
<1>9. \A h \in Groups : h \in Live' => members'[h] # {}
  BY <1>0, <1>4, <1>7, <1>8 DEF GroupsKept
<1>10. \A h \in held' : \E i \in DOMAIN comms' : comms'[i].group = h
  BY <1>0, <1>2, <1>6 DEF GroupsKept
<1>11. ASSUME NEW i \in DOMAIN comms', comms'[i].comm = NULL
       PROVE  comms'[i].group \in made' /\ comms'[i].cid = members'[comms'[i].group]
  <2>1. i \in DOMAIN comms /\ comms'[i] = comms[i]
    BY <1>0, <1>3, <1>6, <1>11, GroupsInUse
  <2>2. comms[i].group \in made
    BY <1>0, <1>11, <2>1 DEF GroupsKept
  <2>3. /\ comms[i].group \in Groups /\ comms[i].group \in Live
        /\ comms[i].cid = members[comms[i].group]
    BY <2>1, CidRight
  <2> QED
    BY <1>2, <1>4, <2>1, <2>2, <2>3
<1>12. GroupsKept'
  BY <1>9, <1>10, <1>11 DEF GroupsKept
<1>13. \A d \in Comms : (\E w \in Created : groupOf[d] = window[w].group) => groupOf'[d] = groupOf[d]
  BY <1>2, <1>5 DEF Created
<1>14. SlotsKept'
  BY <1>1, <1>2, <1>4, <1>13, SlotsUnchanged
<1>15. OneEpoch'
  BY <1>0, <1>2 DEF OneEpoch, NoEpoch
<1> QED
  BY <1>12, <1>14, <1>15 DEF Kept

\* A communicator is freed after its group and its windows.
LEMMA ServedCommFree ==
  ASSUME Careful, NEW c \in Comms, MPI_Comm_free(c), is_rma_putre' = is_rma_putre
  PROVE  error' = "none" /\ Kept'
<1>0. TypeInv /\ EntriesRight /\ GroupsKept /\ OneEpoch /\ careful /\ error = "none"
  BY DEF Careful, Running
<1>1. /\ groupOf[c] # NULL /\ groupOf' = [groupOf EXCEPT ![c] = NULL]
      /\ groupOf[c] \notin held /\ \A w \in Windows : window[w].group # groupOf[c]
      /\ held' = held /\ made' = made /\ window' = window /\ members' = members
  BY <1>0 DEF MPI_Comm_free
<1>2. comm_search(c) # 0
  <2>1. \E i \in DOMAIN comms : comms[i].comm = c
    BY <1>0, <1>1 DEF EntriesRight
  <2> QED
    BY <1>0, <2>1, CommSearch, GroupsInUse
<1>3. error' = "none" /\ wins' = wins
  BY <1>0, <1>2 DEF MPI_Comm_free, vt_comm_free
<1>4. /\ \A j \in DOMAIN comms : comms[j].comm # c =>
              \E k \in DOMAIN comms' : comms'[k] = comms[j]
      /\ \A k \in DOMAIN comms' : \E j \in DOMAIN comms : comms'[k] = comms[j] /\ comms[j].comm # c
  BY <1>0, <1>3, CommFreeEntries
<1>5. /\ groupOf'[c] = NULL
      /\ \A d \in Comms : d # c => groupOf'[d] = groupOf[d]
  BY <1>0, <1>1 DEF TypeInv, MpiType
<1>6. \A h \in Live' : h \in Live \/ h = NULL
  BY <1>1, <1>5 DEF Live
<1>7. \A h \in Groups : h \in Live' => members'[h] # {}
  BY <1>0, <1>1, <1>6, GroupsInUse DEF GroupsKept
<1>8. ASSUME NEW h \in held' PROVE \E k \in DOMAIN comms' : comms'[k].group = h
  <2>1. PICK j \in DOMAIN comms : comms[j].group = h
    BY <1>0, <1>1, <1>8 DEF GroupsKept
  <2>2. c # NULL
    BY <1>0, GroupsInUse
  <2>3. comms[j].comm # c
    BY <1>0, <1>1, <1>8, <2>1, <2>2 DEF EntriesRight
  <2> QED
    BY <1>4, <2>1, <2>3
<1>9. \A k \in DOMAIN comms' : comms'[k].comm = NULL =>
         comms'[k].group \in made' /\ comms'[k].cid = members'[comms'[k].group]
  BY <1>0, <1>1, <1>4 DEF GroupsKept
<1>10. GroupsKept'
  BY <1>7, <1>8, <1>9 DEF GroupsKept
<1>11. \A d \in Comms : (\E w \in Created : groupOf[d] = window[w].group) => groupOf'[d] = groupOf[d]
  BY <1>1, <1>5 DEF Created
<1>12. SlotsKept'
  BY <1>1, <1>3, <1>11, SlotsUnchanged
<1>13. OneEpoch'
  BY <1>0, <1>1 DEF OneEpoch, NoEpoch
<1> QED
  BY <1>3, <1>10, <1>12, <1>13 DEF Kept

\* The group of a communicator has the communicator's entry.
LEMMA ServedCommGroup ==
  ASSUME Careful, NEW c \in Comms, MPI_Comm_group(c), is_rma_putre' = is_rma_putre
  PROVE  Kept'
<1>0. TypeInv /\ EntriesRight /\ GroupsKept /\ OneEpoch
  BY DEF Careful
<1>1. /\ groupOf[c] # NULL /\ held' = held \cup {groupOf[c]} /\ made' = made
      /\ UNCHANGED <<comms, wins, groupOf, members, window>>
  BY DEF MPI_Comm_group
<1>2. PICK i \in DOMAIN comms : comms[i].comm = c
  BY <1>0, <1>1 DEF EntriesRight
<1>3. comms[i].group = groupOf[c]
  BY <1>0, <1>2, GroupsInUse DEF EntriesRight
<1>4. \A h \in Live' : h \in Live
  BY <1>1 DEF Live
<1>5. \A h \in Groups : h \in Live' => members'[h] # {}
  BY <1>0, <1>1, <1>4 DEF GroupsKept
<1>6. \A h \in held' : \E k \in DOMAIN comms' : comms'[k].group = h
  BY <1>0, <1>1, <1>2, <1>3 DEF GroupsKept
<1>7. GroupsKept'
  BY <1>0, <1>1, <1>5, <1>6 DEF GroupsKept
<1>8. SlotsKept'
  BY <1>1, SlotsUnchanged
<1>9. OneEpoch'
  BY <1>0, <1>1 DEF OneEpoch, NoEpoch
<1> QED
  BY <1>7, <1>8, <1>9 DEF Kept

\* A new group has a handle no entry has, and gets an entry of its own.
LEMMA ServedNewGroup ==
  ASSUME Careful, NEW procs \in SUBSET Procs, NewGroup(procs), is_rma_putre' = is_rma_putre
  PROVE  error' = "none" => Kept'
<1> SUFFICES ASSUME error' = "none" PROVE Kept'
  OBVIOUS
<1>0. TypeInv /\ EntriesRight /\ GroupsKept /\ OneEpoch
  BY DEF Careful
<1>1. PICK g \in Fresh :
        /\ held' = held \cup {g} /\ made' = made \cup {g}
        /\ members' = [members EXCEPT ![g] = procs] /\ vt_group_create(g, procs)
  BY DEF NewGroup
<1>2. groupOf' = groupOf /\ window' = window /\ procs # {}
  BY DEF NewGroup
<1>3. g \in Groups /\ g \notin Live
  BY DEF Fresh
<1>4. \A i \in DOMAIN comms : comms[i].group # g
  BY <1>3, CidRight
<1>5. group_search(g) = 0
  BY <1>0, <1>4, GroupSearch, GroupsInUse
<1> DEFINE e == [comm |-> NULL, group |-> g, cid |-> procs]
<1>6. comms' = Append(comms, e) /\ wins' = wins
  BY <1>0, <1>1, <1>2, <1>5, NewGroupEntries
<1>7. e \in Entry /\ e.group = g /\ e.cid = procs
  BY <1>3 DEF Entry
<1>8. /\ members'[g] = procs
      /\ \A h \in Groups : h \in Live => members'[h] = members[h]
  BY <1>0, <1>1, <1>3, MembersKept
<1> HIDE DEF e
<1> DEFINE n == Len(comms) + 1
<1>9. /\ \A j \in DOMAIN comms : j \in DOMAIN comms' /\ comms'[j] = comms[j]
      /\ comms'[n] = e /\ n \in DOMAIN comms'
      /\ \A j \in DOMAIN comms' : j = n \/ j \in DOMAIN comms
  BY <1>0, <1>6, <1>7, GroupsInUse, Appended
<1> HIDE DEF n
<1>10. \A h \in Live' : h \in Live \/ h = g
  BY <1>1, <1>2 DEF Live
<1>11. \A h \in Groups : h \in Live' => members'[h] # {}
  BY <1>0, <1>2, <1>8, <1>10 DEF GroupsKept
<1>12. \A h \in held' : \E i \in DOMAIN comms' : comms'[i].group = h
  BY <1>0, <1>1, <1>7, <1>9 DEF GroupsKept
<1>13. ASSUME NEW i \in DOMAIN comms', comms'[i].comm = NULL
       PROVE  comms'[i].group \in made' /\ comms'[i].cid = members'[comms'[i].group]
  <2>1. CASE i = n
    BY <1>1, <1>7, <1>8, <1>9, <2>1
  <2>2. CASE i \in DOMAIN comms
    <3>1. comms'[i] = comms[i] /\ comms[i].group \in made
      BY <1>0, <1>9, <1>13, <2>2 DEF GroupsKept
    <3>2. /\ comms[i].group \in Groups /\ comms[i].group \in Live
          /\ comms[i].cid = members[comms[i].group]
      BY <2>2, CidRight
    <3> QED
      BY <1>1, <1>8, <3>1, <3>2
  <2> QED
    BY <1>9, <2>1, <2>2
<1>14. GroupsKept'
  BY <1>11, <1>12, <1>13 DEF GroupsKept
<1>15. SlotsKept'
  BY <1>2, <1>6, <1>8, SlotsUnchanged
<1>16. OneEpoch'
  BY <1>0, <1>2 DEF OneEpoch, NoEpoch
<1> QED
  BY <1>14, <1>15, <1>16 DEF Kept

\* A careful program keeps the groups it made, and frees others.
LEMMA ServedGroupFree ==
  ASSUME Careful, NEW g \in Groups, MPI_Group_free(g), is_rma_putre' = is_rma_putre
  PROVE  Kept'
<1>0. TypeInv /\ GroupsKept /\ OneEpoch /\ careful
  BY DEF Careful
<1>1. /\ g \notin made /\ held' = held \ {g} /\ made' = made \ {g}
      /\ UNCHANGED <<comms, wins, groupOf, members, window>>
  BY <1>0 DEF MPI_Group_free
<1>2. made' = made
  BY <1>1
<1>3. \A h \in Live' : h \in Live
  BY <1>1 DEF Live
<1>4. GroupsKept'
  BY <1>0, <1>1, <1>2, <1>3 DEF GroupsKept
<1>5. SlotsKept'
  BY <1>1, SlotsUnchanged
<1>6. OneEpoch'
  BY <1>0, <1>1 DEF OneEpoch, NoEpoch
<1> QED
  BY <1>4, <1>5, <1>6 DEF Kept

\* The groups stay right when only windows change, and no other group gets into
\* use.
LEMMA GroupsUnchanged ==
  ASSUME Careful, comms' = comms, members' = members, held' = held, made' = made,
         \A h \in Live' : h \in Live \/ h = NULL
  PROVE  GroupsKept'
<1>0. TypeInv /\ GroupsKept
  BY DEF Careful
<1>1. \A h \in Groups : h \in Live' => members'[h] # {}
  BY <1>0, GroupsInUse DEF GroupsKept
<1> QED
  BY <1>0, <1>1 DEF GroupsKept

\* SlotsKept of the next state, window by window.
LEMMA SlotsKeptNext ==
  ASSUME \A i \in DOMAIN wins' : wins'[i].win # NULL =>
           /\ wins'[i].comm \in Comms
           /\ groupOf'[wins'[i].comm] = window'[wins'[i].win].group
           /\ \A v : v = wins'[i].win => wins'[i].gid = Gid(v)'
  PROVE  SlotsKept'
  BY DEF SlotsKept, Gid

\* A window is made on a communicator whose group has an entry.
LEMMA ServedWinCreate ==
  ASSUME Careful, NEW w \in Windows, NEW c \in Comms, MPI_Win_create(w, c),
         is_rma_putre' = is_rma_putre
  PROVE  error' = "none" => Kept'
<1> SUFFICES ASSUME error' = "none" PROVE Kept'
  OBVIOUS
<1>0. TypeInv /\ EntriesRight /\ SlotsRight /\ SlotsKept /\ OneEpoch
  BY DEF Careful
<1>1. /\ window[w].group = NULL /\ groupOf[c] # NULL
      /\ window' = [window EXCEPT ![w].group = groupOf[c]]
      /\ UNCHANGED <<groupOf, members, held, made>>
  BY DEF MPI_Win_create
<1>2. /\ Created' = Created \cup {w} /\ comms' = comms
      /\ \E p \in DOMAIN wins', e \in DOMAIN comms :
           /\ comms[e].group = groupOf[c]
           /\ wins'[p] = [win |-> w, comm |-> c, gid |-> comms[e].cid]
           /\ \A i \in DOMAIN wins' : i # p => i \in DOMAIN wins /\ wins'[i] = wins[i]
  BY <1>0, WinCreateSlots
<1>3. PICK p \in DOMAIN wins', e \in DOMAIN comms :
           /\ comms[e].group = groupOf[c]
           /\ wins'[p] = [win |-> w, comm |-> c, gid |-> comms[e].cid]
           /\ \A i \in DOMAIN wins' : i # p => i \in DOMAIN wins /\ wins'[i] = wins[i]
  BY <1>2, Zenon
<1>4. comms[e].cid = members[groupOf[c]]
  BY <1>3, CidRight
<1>5. wins'[p].win = w /\ wins'[p].comm = c /\ wins'[p].gid = members[groupOf[c]]
  BY <1>3, <1>4
<1>6. groupOf[c] \in Groups /\ groupOf[c] \in Live /\ window \in [Windows -> Win]
  BY <1>0, <1>1, GroupsInUse DEF TypeInv, MpiType
<1>7. /\ window'[w].group = groupOf[c]
      /\ window'[w].access = window[w].access /\ window'[w].exposure = window[w].exposure
      /\ window'[w].locked = window[w].locked
      /\ \A v \in Windows : v # w => window'[v] = window[v]
  BY <1>1, <1>6, WindowField
<1>8. NoEpoch(w)
  BY <1>0, <1>1 DEF OneEpoch
<1>9. Gid(w)' = members[groupOf[c]]
  BY <1>1, <1>7, <1>8 DEF Gid, NoEpoch
<1>10. \A v \in Windows : v # w => Gid(v)' = Gid(v)
  BY <1>1, <1>7 DEF Gid
<1>11. ASSUME NEW i \in DOMAIN wins', wins'[i].win # NULL
       PROVE  /\ wins'[i].comm \in Comms
              /\ groupOf'[wins'[i].comm] = window'[wins'[i].win].group
              /\ \A v : v = wins'[i].win => wins'[i].gid = Gid(v)'
  <2>1. CASE i = p
    BY <1>1, <1>5, <1>7, <1>9, <2>1
  <2>2. CASE i # p
    <3>1. i \in DOMAIN wins /\ wins'[i] = wins[i]
      BY <1>3, <2>2
    <3>2. wins[i].win \in Created
      BY <1>0, <1>11, <3>1, Parts DEF SlotsRight
    <3>3. wins[i].win \in Windows /\ wins[i].win # w
      BY <1>1, <3>2 DEF Created
    <3>4. /\ window'[wins[i].win] = window[wins[i].win]
          /\ \A v : v = wins[i].win => Gid(v)' = Gid(v)
      BY <1>7, <1>10, <3>3
    <3>5. /\ wins[i].comm \in Comms
          /\ groupOf[wins[i].comm] = window[wins[i].win].group
          /\ wins[i].gid = Gid(wins[i].win)
      BY <1>0, <1>11, <3>1 DEF SlotsKept
    <3> QED
      BY <1>1, <3>1, <3>4, <3>5
  <2> QED
    BY <2>1, <2>2
<1>12. SlotsKept'
  BY <1>11, SlotsKeptNext
<1>13. \A h \in Live' : h \in Live \/ h = NULL
  BY <1>1, <1>6, <1>7 DEF Live
<1>14. GroupsKept'
  BY <1>1, <1>2, <1>13, GroupsUnchanged
<1>15. OneEpoch'
  <2>1. \A v \in Windows : /\ window'[v].access = window[v].access
                           /\ window'[v].exposure = window[v].exposure
                           /\ window'[v].locked = window[v].locked
                           /\ window'[v].group = NULL => window[v].group = NULL
    BY <1>1, <1>7
  <2> QED
    BY <1>0, <2>1 DEF OneEpoch, NoEpoch
<1> QED
  BY <1>12, <1>14, <1>15 DEF Kept

\* The slots stay right when the epochs, the lock and the gid of one window
\* change together.
LEMMA SlotChanged ==
  ASSUME Careful, NEW w \in Created, groupOf' = groupOf, members' = members,
         \A v \in Windows : window'[v].group = window[v].group,
         \A v \in Windows : v # w => window'[v] = window[v],
         DOMAIN wins' = DOMAIN wins,
         \A j \in DOMAIN wins :
              /\ wins'[j].win = wins[j].win /\ wins'[j].comm = wins[j].comm
              /\ wins[j].win # w => wins'[j].gid = wins[j].gid
              /\ wins[j].win = w => wins'[j].gid = Gid(w)'
  PROVE  SlotsKept'
<1>0. TypeInv /\ SlotsRight /\ SlotsKept
  BY DEF Careful
<1> SUFFICES ASSUME NEW i \in DOMAIN wins, wins[i].win # NULL, NEW v, v = wins[i].win
             PROVE  /\ wins'[i].comm \in Comms
                    /\ groupOf'[wins'[i].comm] = window'[wins'[i].win].group
                    /\ wins'[i].gid = Gid(v)'
  <2>1. ASSUME NEW i \in DOMAIN wins', wins'[i].win # NULL
        PROVE  i \in DOMAIN wins /\ wins[i].win # NULL /\ wins'[i].win = wins[i].win
    BY <2>1
  <2> QED
    BY <2>1, SlotsKeptNext
<1>1. wins[i].win \in Windows
  BY <1>0, Parts DEF SlotsRight, Created
<1>2. /\ wins[i].comm \in Comms
      /\ groupOf[wins[i].comm] = window[wins[i].win].group
      /\ wins[i].gid = Gid(wins[i].win)
  BY <1>0 DEF SlotsKept
<1>3. groupOf'[wins'[i].comm] = window'[wins'[i].win].group
  BY <1>1, <1>2
<1>4. CASE wins[i].win = w
  BY <1>2, <1>3, <1>4
<1>5. CASE wins[i].win # w
  <2>1. Gid(v)' = Gid(v)
    BY <1>1, <1>5 DEF Gid
  <2> QED
    BY <1>2, <1>3, <1>5, <2>1
<1> QED
  BY <1>4, <1>5

\* The groups in use stay the same when windows keep theirs.
LEMMA LiveSame ==
  ASSUME held' = held, groupOf' = groupOf,
         \A v \in Windows : window'[v].group = window[v].group
  PROVE  Live' = Live
  BY DEF Live

\* An epoch of a window begins or ends.
LEMMA EpochChanged ==
  ASSUME window \in [Windows -> Win], NEW w \in Windows, NEW e \in {"access", "exposure"},
         NEW p \in SUBSET Procs, window' = [window EXCEPT ![w][e] = p]
  PROVE  /\ window'[w].group = window[w].group /\ window'[w].locked = window[w].locked
         /\ e = "access" => window'[w].access = p /\ window'[w].exposure = window[w].exposure
         /\ e = "exposure" => window'[w].exposure = p /\ window'[w].access = window[w].access
         /\ \A v \in Windows : v # w => window'[v] = window[v]
<1>1. \A v \in Windows : v # w => window'[v] = window[v]
  OBVIOUS
<1>2. window'[w] = [window[w] EXCEPT ![e] = p] /\ window[w] \in Win
  OBVIOUS
<1>3. CASE e = "access"
  BY <1>1, <1>2, <1>3 DEF Win
<1>4. CASE e = "exposure"
  BY <1>1, <1>2, <1>4 DEF Win
<1> QED
  BY <1>3, <1>4

\* At the begin of an epoch the window's slot gets its group.
LEMMA ServedBegin ==
  ASSUME Careful, NEW w \in Windows, NEW g \in Groups, NEW e \in {"access", "exposure"},
         BeginEpoch(w, g, e), is_rma_putre' = is_rma_putre
  PROVE  error' = "none" /\ Kept'
<1>0. TypeInv /\ EntriesRight /\ SlotsRight /\ SlotsKept /\ OneEpoch /\ GroupsKept /\ careful
      /\ error = "none"
  BY DEF Careful, Running
<1>1. /\ window[w].group # NULL /\ g \in held /\ NoEpoch(w)
      /\ window' = [window EXCEPT ![w][e] = members[g]]
      /\ SetGroup(w, g)
      /\ UNCHANGED <<groupOf, members, held, made>>
  BY <1>0 DEF BeginEpoch
<1>2. w \in Created
  BY <1>1 DEF Created
<1>3. members[g] # {} /\ members[g] \in SUBSET Procs /\ window \in [Windows -> Win]
  BY <1>0, <1>1, GroupsInUse DEF GroupsKept, TypeInv, MpiType
<1>4. /\ window'[w].group = window[w].group /\ window'[w].locked = window[w].locked
      /\ e = "access" => window'[w].access = members[g] /\ window'[w].exposure = window[w].exposure
      /\ e = "exposure" => window'[w].exposure = members[g] /\ window'[w].access = window[w].access
      /\ \A v \in Windows : v # w => window'[v] = window[v]
  BY <1>1, <1>3, EpochChanged
<1>5. window[w].access = {} /\ window[w].exposure = {} /\ ~window[w].locked
  BY <1>1 DEF NoEpoch
<1>6. Gid(w)' = members[g]
  BY <1>3, <1>4, <1>5 DEF Gid
<1> DEFINE pos == win_search(w)
           i == group_search(g)
<1>7. pos # 0 /\ pos \in DOMAIN wins /\ wins[pos].win = w /\ w # NULL
      /\ \A j \in DOMAIN wins : wins[j].win = w => j = pos
  BY <1>0, <1>2, WindowFound
<1>8. i # 0 /\ i \in DOMAIN comms /\ comms[i].group = g
  <2>1. \E k \in DOMAIN comms : comms[k].group = g
    BY <1>0, <1>1 DEF GroupsKept
  <2> QED
    BY <1>0, <2>1, GroupSearch, GroupsInUse
<1>9. comms[i].cid = members[g]
  BY <1>8, CidRight
<1>10. wins' = [wins EXCEPT ![pos].gid = members[g]] /\ comms' = comms /\ error' = error
  BY <1>1, <1>7, <1>8, <1>9 DEF SetGroup
<1> HIDE DEF pos, i
<1>11. \A v \in Windows : window'[v].group = window[v].group
  BY <1>4
<1>12. Created' = Created
  BY <1>11 DEF Created
<1>13. /\ DOMAIN wins' = DOMAIN wins
       /\ \A j \in DOMAIN wins :
            /\ wins'[j].win = wins[j].win /\ wins'[j].comm = wins[j].comm
            /\ wins'[j].gid = IF j = pos THEN members[g] ELSE wins[j].gid
  BY <1>0, <1>3, <1>7, <1>10, <1>12, GidSlots
<1>14. \A j \in DOMAIN wins :
         /\ wins[j].win # w => wins'[j].gid = wins[j].gid
         /\ wins[j].win = w => wins'[j].gid = Gid(w)'
  BY <1>6, <1>7, <1>13
<1>15. groupOf' = groupOf /\ members' = members /\ held' = held /\ made' = made
  BY <1>1
<1>16. SlotsKept'
  BY <1>2, <1>4, <1>11, <1>13, <1>14, <1>15, SlotChanged
<1>17. Live' = Live
  BY <1>11, <1>15, LiveSame
<1>18. GroupsKept'
  BY <1>10, <1>15, <1>17, GroupsUnchanged
<1>19. OneEpoch'
  <2>1. \A v \in Windows : window'[v].locked = window[v].locked
    BY <1>4
  <2>2. \A v \in Windows : window'[v].access = {} \/ window'[v].exposure = {}
    BY <1>0, <1>4, <1>5 DEF OneEpoch
  <2>3. \A v \in Windows : window'[v].locked => window'[v].access = {} /\ window'[v].exposure = {}
    BY <1>0, <1>4, <1>5 DEF OneEpoch
  <2>4. \A v \in Windows : window'[v].group = NULL => v # w /\ window'[v] = window[v]
    BY <1>1, <1>4
  <2> QED
    BY <1>0, <2>1, <2>2, <2>3, <2>4 DEF OneEpoch, NoEpoch
<1> QED
  BY <1>0, <1>10, <1>16, <1>18, <1>19 DEF Kept

\* At its end the epoch is recorded for its group, and the window's slot gets the
\* window's group back.
LEMMA ServedEnd ==
  ASSUME Careful, NEW w \in Windows, NEW e \in {"access", "exposure"}, ~misfiled,
         EndEpoch(w, e), is_rma_putre' = is_rma_putre
  PROVE  error' = "none" /\ ~misfiled' /\ Kept'
<1>0. TypeInv /\ EntriesRight /\ SlotsRight /\ SlotsKept /\ OneEpoch /\ GroupsKept /\ error = "none"
  BY DEF Careful, Running
<1> DEFINE pos == win_search(w)
           i == comm_search(wins[pos].comm)
<1>1. /\ window[w][e] # {} /\ window' = [window EXCEPT ![w][e] = {}]
      /\ misfiled' = (misfiled \/ wins[pos].gid # window[w][e])
      /\ UNCHANGED <<groupOf, members, held, made>>
  BY DEF EndEpoch
<1>2. window[w].group # NULL
  BY <1>0, <1>1 DEF OneEpoch, NoEpoch
<1>3. w \in Created
  BY <1>2 DEF Created
<1>4. window \in [Windows -> Win] /\ {} \in SUBSET Procs
  BY <1>0 DEF TypeInv, MpiType
<1>5. /\ e = "access" => window[w].exposure = {}
      /\ e = "exposure" => window[w].access = {}
      /\ ~window[w].locked
  BY <1>0, <1>1 DEF OneEpoch
<1>6. Gid(w) = window[w][e]
  BY <1>1, <1>5 DEF Gid
<1>7. /\ pos # 0 /\ pos \in DOMAIN wins /\ wins[pos].win = w /\ w # NULL
      /\ wins[pos].gid = Gid(w)
      /\ i # 0 /\ i \in DOMAIN comms
      /\ comms[i].cid = members[window[w].group]
  BY <1>3, WindowServed
<1>8. \A j \in DOMAIN wins : wins[j].win = w => j = pos
  BY <1>0, <1>3, WindowFound
<1>9. ~misfiled'
  BY <1>1, <1>6, <1>7
<1> DEFINE p == members[window[w].group]
<1>10. wins' = [wins EXCEPT ![pos].gid = p] /\ comms' = comms /\ error' = error
  BY <1>7 DEF EndEpoch
<1>11. p \in SUBSET Procs
  BY <1>0, <1>7, GroupsInUse, Parts
<1> HIDE DEF pos, i, p
<1>12. /\ window'[w].group = window[w].group /\ window'[w].locked = window[w].locked
       /\ window'[w].access = {} /\ window'[w].exposure = {}
       /\ \A v \in Windows : v # w => window'[v] = window[v]
  BY <1>1, <1>4, <1>5, EpochChanged
<1>13. groupOf' = groupOf /\ members' = members /\ held' = held /\ made' = made
  BY <1>1
<1>14. Gid(w)' = p
  BY <1>12, <1>13 DEF Gid, p
<1>15. \A v \in Windows : window'[v].group = window[v].group
  BY <1>12
<1>16. Created' = Created
  BY <1>15 DEF Created
<1>17. /\ DOMAIN wins' = DOMAIN wins
       /\ \A j \in DOMAIN wins :
            /\ wins'[j].win = wins[j].win /\ wins'[j].comm = wins[j].comm
            /\ wins'[j].gid = IF j = pos THEN p ELSE wins[j].gid
  BY <1>0, <1>7, <1>10, <1>11, <1>16, GidSlots
<1>18. \A j \in DOMAIN wins :
         /\ wins[j].win # w => wins'[j].gid = wins[j].gid
         /\ wins[j].win = w => wins'[j].gid = Gid(w)'
  BY <1>7, <1>8, <1>14, <1>17
<1>19. SlotsKept'
  BY <1>3, <1>12, <1>13, <1>15, <1>17, <1>18, SlotChanged
<1>20. Live' = Live
  BY <1>13, <1>15, LiveSame
<1>21. GroupsKept'
  BY <1>10, <1>13, <1>20, GroupsUnchanged
<1>22. OneEpoch'
  <2>1. \A v \in Windows : window'[v].locked = window[v].locked
    BY <1>12
  <2>2. \A v \in Windows : v # w => window'[v] = window[v]
    BY <1>12
  <2>3. window'[w].access = {} /\ window'[w].exposure = {} /\ ~window'[w].locked
    BY <1>5, <1>12
  <2> QED
    BY <1>0, <2>1, <2>2, <2>3 DEF OneEpoch, NoEpoch
<1> QED
  BY <1>0, <1>9, <1>10, <1>19, <1>21, <1>22 DEF Kept

\* A window is freed without an epoch.
LEMMA ServedWinFree ==
  ASSUME Careful, NEW w \in Windows, MPI_Win_free(w), is_rma_putre' = is_rma_putre
  PROVE  error' = "none" /\ Kept'
<1>0. TypeInv /\ EntriesRight /\ SlotsRight /\ SlotsKept /\ OneEpoch /\ GroupsKept
  BY DEF Careful
<1>1. NoEpoch(w) /\ UNCHANGED <<groupOf, members, held, made>>
  BY DEF MPI_Win_free
<1>2. /\ comms' = comms /\ error' = "none"
      /\ \A v \in Windows : v # w => window'[v] = window[v]
      /\ window'[w] = NoWindow
      /\ \A i \in DOMAIN wins' : wins'[i].win # NULL =>
              i \in DOMAIN wins /\ wins'[i] = wins[i] /\ wins[i].win # w
  BY <1>0, WinFreeSlots
<1>3. NoWindow.group = NULL /\ NoWindow.access = {} /\ NoWindow.exposure = {} /\ NoWindow.locked = FALSE
  BY DEF NoWindow
<1>4. ASSUME NEW i \in DOMAIN wins', wins'[i].win # NULL
      PROVE  /\ wins'[i].comm \in Comms
             /\ groupOf'[wins'[i].comm] = window'[wins'[i].win].group
             /\ \A v : v = wins'[i].win => wins'[i].gid = Gid(v)'
  <2>1. i \in DOMAIN wins /\ wins'[i] = wins[i] /\ wins[i].win # w
    BY <1>2, <1>4
  <2>2. wins[i].win \in Windows
    BY <1>0, <1>4, <2>1, Parts DEF SlotsRight, Created
  <2>3. window'[wins[i].win] = window[wins[i].win]
    BY <1>2, <2>1, <2>2
  <2>4. \A v : v = wins[i].win => Gid(v)' = Gid(v)
    BY <1>1, <2>1, <2>3 DEF Gid
  <2>5. /\ wins[i].comm \in Comms
        /\ groupOf[wins[i].comm] = window[wins[i].win].group
        /\ wins[i].gid = Gid(wins[i].win)
    BY <1>0, <1>4, <2>1 DEF SlotsKept
  <2> QED
    BY <1>1, <2>1, <2>3, <2>4, <2>5
<1>5. SlotsKept'
  BY <1>4, SlotsKeptNext
<1>6. \A h \in Live' : h \in Live \/ h = NULL
  BY <1>1, <1>2, <1>3 DEF Live
<1>7. GroupsKept'
  BY <1>1, <1>2, <1>6, GroupsUnchanged
<1>8. OneEpoch'
  BY <1>0, <1>1, <1>2, <1>3 DEF OneEpoch, NoEpoch
<1> QED
  BY <1>2, <1>5, <1>7, <1>8 DEF Kept

\* The table's calls serve a careful program.
LEMMA ServedTable ==
  ASSUME Careful, ~misfiled, TableStep, is_rma_putre' = is_rma_putre, careful' = careful
  PROVE  /\ error' = "none" => Kept'
         /\ ~misfiled'
         /\ error' \in {"none", "too many communicators", "too many windows"}
<1>0. Running /\ error = "none" /\ careful
  BY DEF Careful, Running
<1> DEFINE Good == /\ error' = "none" => Kept'
                   /\ ~misfiled'
                   /\ error' \in {"none", "too many communicators", "too many windows"}
<1>1. ASSUME NEW c \in Comms, NEW g \in Groups, NEW procs \in SUBSET Procs,
             Given(c, g, procs), NewComm(c, g, procs)
      PROVE  Good
  <2>1. error' = "none" => Kept'
    BY <1>1, ServedNewComm
  <2>2. ~misfiled' /\ error' \in {"none", "too many communicators"}
    BY <1>0, <1>1 DEF NewComm, vt_comm_create, Stop
  <2> QED
    BY <2>1, <2>2
<1>2. ASSUME NEW c \in Comms, MPI_Comm_free(c)
      PROVE  Good
  <2>1. error' = "none" /\ Kept'
    BY <1>2, ServedCommFree
  <2>2. ~misfiled'
    BY <1>2 DEF MPI_Comm_free
  <2> QED
    BY <2>1, <2>2
<1>3. ASSUME NEW c \in Comms, MPI_Comm_group(c)
      PROVE  Good
  <2>1. Kept'
    BY <1>3, ServedCommGroup
  <2>2. ~misfiled' /\ error' = "none"
    BY <1>0, <1>3 DEF MPI_Comm_group
  <2> QED
    BY <2>1, <2>2
<1>4. ASSUME NEW procs \in SUBSET Procs, NewGroup(procs)
      PROVE  Good
  <2>1. error' = "none" => Kept'
    BY <1>4, ServedNewGroup
  <2>2. ~misfiled' /\ error' \in {"none", "too many communicators"}
    BY <1>0, <1>4 DEF NewGroup, vt_group_create, Stop
  <2> QED
    BY <2>1, <2>2
<1>5. ASSUME NEW g \in Groups, MPI_Group_free(g)
      PROVE  Good
  <2>1. Kept'
    BY <1>5, ServedGroupFree
  <2>2. ~misfiled' /\ error' = "none"
    BY <1>0, <1>5 DEF MPI_Group_free
  <2> QED
    BY <2>1, <2>2
<1>6. ASSUME NEW w \in Windows, NEW c \in Comms, MPI_Win_create(w, c)
      PROVE  Good
  <2>1. error' = "none" => Kept'
    BY <1>6, ServedWinCreate
  <2>2. TypeInv /\ EntriesRight /\ SlotsRight
    BY DEF Careful
  <2>3. error' \in {"none", "too many windows"}
    BY <1>6, <2>2, WinCreateSlots
  <2>4. ~misfiled'
    BY <1>6 DEF MPI_Win_create
  <2> QED
    BY <2>1, <2>3, <2>4
<1>7. ASSUME NEW w \in Windows, NEW g \in Groups, NEW e \in {"access", "exposure"},
             BeginEpoch(w, g, e)
      PROVE  Good
  <2>1. error' = "none" /\ Kept'
    BY <1>7, ServedBegin
  <2>2. ~misfiled'
    BY <1>7 DEF BeginEpoch
  <2> QED
    BY <2>1, <2>2
<1>8. ASSUME NEW w \in Windows, NEW e \in {"access", "exposure"}, EndEpoch(w, e)
      PROVE  Good
  BY <1>8, ServedEnd
<1>9. ASSUME NEW w \in Windows, MPI_Win_free(w)
      PROVE  Good
  <2>1. error' = "none" /\ Kept'
    BY <1>9, ServedWinFree
  <2>2. ~misfiled'
    BY <1>9 DEF MPI_Win_free
  <2> QED
    BY <2>1, <2>2
<1>10. ASSUME UNCHANGED <<comms, wins, mpi, error, misfiled>>
       PROVE  Good
  <2>1. GroupsKept /\ OneEpoch
    BY DEF Careful
  <2>2. UNCHANGED <<comms, wins, groupOf, members, held, made, window, error, misfiled>>
    BY <1>10 DEF mpi
  <2>3. SlotsKept'
    BY <2>2, SlotsUnchanged
  <2>4. Kept'
    BY <2>1, <2>2, <2>3 DEF Kept, GroupsKept, OneEpoch, NoEpoch, Live
  <2> QED
    BY <1>0, <2>2, <2>4
<1> HIDE DEF Good
<1>11. Good
  BY <1>1, <1>2, <1>3, <1>4, <1>5, <1>6, <1>7, <1>8, <1>9, <1>10, Zenon DEF TableStep
<1> QED
  BY <1>11 DEF Good

\* The lock of a window changes.
LEMMA LockChanged ==
  ASSUME Careful, NEW w \in Created, NEW b \in BOOLEAN, NoEpoch(w) \/ window[w].locked,
         window' = [window EXCEPT ![w].locked = b],
         UNCHANGED <<comms, wins, groupOf, members, held, made, error>>,
         is_rma_putre' = (\A v \in Windows : ~window'[v].locked)
  PROVE  Kept'
<1>0. TypeInv /\ SlotsRight /\ SlotsKept /\ OneEpoch /\ window \in [Windows -> Win] /\ w \in Windows
  BY DEF Careful, TypeInv, MpiType, Created
<1>1. \A v \in Windows : /\ window'[v].group = window[v].group
                         /\ window'[v].access = window[v].access
                         /\ window'[v].exposure = window[v].exposure
                         /\ v # w => window'[v] = window[v]
  BY <1>0 DEF Win
<1>2. window'[w].locked => window'[w].access = {} /\ window'[w].exposure = {}
  BY <1>0, <1>1 DEF OneEpoch, NoEpoch
<1>3. window[w].group # NULL
  BY DEF Created
<1>4. \A v \in Windows : Gid(v)' = Gid(v)
  BY <1>1 DEF Gid
<1>5. ASSUME NEW i \in DOMAIN wins, wins[i].win # NULL
      PROVE  wins[i].win \in Windows
  BY <1>0, <1>5, Parts DEF SlotsRight, Created
<1>6. SlotsKept'
  <2> SUFFICES ASSUME NEW i \in DOMAIN wins, wins[i].win # NULL, NEW v, v = wins[i].win
               PROVE  /\ wins[i].comm \in Comms
                      /\ groupOf'[wins[i].comm] = window'[wins[i].win].group
                      /\ wins[i].gid = Gid(v)'
    BY SlotsKeptNext
  <2> QED
    BY <1>0, <1>1, <1>4, <1>5 DEF SlotsKept
<1>7. Live' = Live
  BY <1>1, LiveSame
<1>8. GroupsKept'
  BY <1>7, GroupsUnchanged
<1>9. OneEpoch'
  <2>1. \A v \in Windows : window'[v].access = {} \/ window'[v].exposure = {}
    BY <1>0, <1>1 DEF OneEpoch
  <2>2. \A v \in Windows : window'[v].locked => window'[v].access = {} /\ window'[v].exposure = {}
    BY <1>0, <1>1, <1>2 DEF OneEpoch
  <2>3. \A v \in Windows : window'[v].group = NULL => v # w /\ window'[v] = window[v]
    BY <1>1, <1>3
  <2> QED
    BY <1>0, <2>1, <2>2, <2>3 DEF OneEpoch, NoEpoch
<1> QED
  BY <1>6, <1>8, <1>9 DEF Kept

\* The flag for MPI_Put and MPI_Accumulate is the lock of the window a careful
\* program uses.
LEMMA FlagIsLock ==
  ASSUME Careful, NEW w \in Windows, Use(w)
  PROVE  /\ w \in Created /\ (is_rma_putre = ~window[w].locked)
         /\ \A v \in Windows : v # w => ~window[v].locked
<1>1. \A v \in Windows : v # w => ~window[v].locked
  BY DEF Use, Careful
<1>2. is_rma_putre = (\A v \in Windows : ~window[v].locked)
  BY DEF Careful, OneEpoch
<1>3. w \in Created
  BY DEF Use, Created
<1>4. (\A v \in Windows : ~window[v].locked) <=> ~window[w].locked
  BY <1>1
<1>5. window[w].locked \in BOOLEAN
  BY DEF Careful, TypeInv, MpiType, Win
<1> QED
  BY <1>1, <1>2, <1>3, <1>4, <1>5

\* One-sided operations of a careful program are recorded for the right group,
\* with one end each.
LEMMA ServedRma ==
  ASSUME Careful, ~misfiled, RmaCall
  PROVE  ~misfiled' /\ Kept'
<1>1. PICK w \in Windows :
        \/ MPI_Win_fence(w) \/ MPI_Win_lock(w) \/ MPI_Win_unlock(w)
        \/ MPI_Put(w) \/ MPI_Get(w)
  BY DEF RmaCall, MPI_Accumulate
<1>2. Use(w)
  BY <1>1 DEF MPI_Win_fence, MPI_Win_lock, MPI_Win_unlock, MPI_Put, MPI_Get
<1>3. /\ w \in Created /\ (is_rma_putre = ~window[w].locked)
      /\ \A v \in Windows : v # w => ~window[v].locked
  BY <1>2, FlagIsLock
<1>4. wins[win_search(w)].gid = Gid(w)
  BY <1>3, WindowServed
<1>5. careful /\ OneEpoch /\ GroupsKept /\ window \in [Windows -> Win]
  BY DEF Careful, TypeInv, MpiType
<1>6. UNCHANGED <<comms, wins, groupOf, members, held, made, error>>
  BY <1>1 DEF MPI_Win_fence, MPI_Win_lock, MPI_Win_unlock, MPI_Put, MPI_Get, mpi
<1>7. ASSUME window' = window, is_rma_putre' = is_rma_putre
      PROVE  Kept'
  <2>1. SlotsKept'
    BY <1>6, <1>7, SlotsUnchanged
  <2> QED
    BY <1>5, <1>6, <1>7, <2>1 DEF Kept, GroupsKept, OneEpoch, NoEpoch, Live
<1>8. CASE MPI_Win_fence(w)
  <2>1. Gid(w) = members[window[w].group]
    BY <1>8 DEF MPI_Win_fence, NoEpoch, Gid
  <2>2. window' = window /\ is_rma_putre' = is_rma_putre
        /\ misfiled' = (misfiled \/ wins[win_search(w)].gid # members[window[w].group])
    BY <1>8 DEF MPI_Win_fence, mpi
  <2>3. ~misfiled'
    BY <1>4, <2>1, <2>2
  <2> QED
    BY <1>7, <2>2, <2>3
<1>9. CASE MPI_Win_lock(w)
  <2>1. /\ NoEpoch(w) /\ window' = [window EXCEPT ![w].locked = TRUE]
        /\ is_rma_putre' = FALSE /\ misfiled' = misfiled
    BY <1>9 DEF MPI_Win_lock
  <2>2. window'[w].locked
    BY <1>5, <2>1 DEF Win
  <2>3. is_rma_putre' = (\A v \in Windows : ~window'[v].locked)
    BY <2>1, <2>2
  <2> QED
    BY <1>3, <1>6, <2>1, <2>3, LockChanged
<1>10. CASE MPI_Win_unlock(w)
  <2>1. /\ window[w].locked /\ window' = [window EXCEPT ![w].locked = FALSE]
        /\ is_rma_putre' = TRUE
        /\ misfiled' = (misfiled \/ wins[win_search(w)].gid # members[window[w].group])
    BY <1>5, <1>10 DEF MPI_Win_unlock
  <2>2. ~window'[w].locked /\ \A v \in Windows : v # w => window'[v] = window[v]
    BY <1>5, <2>1 DEF Win
  <2>3. \A v \in Windows : ~window'[v].locked
    BY <1>3, <2>2
  <2>4. is_rma_putre' = (\A v \in Windows : ~window'[v].locked)
    BY <2>1, <2>3
  <2>5. Kept'
    BY <1>3, <1>6, <2>1, <2>4, LockChanged
  <2>6. Gid(w) = members[window[w].group]
    BY <1>5, <2>1 DEF OneEpoch, Gid
  <2>7. ~misfiled'
    BY <1>4, <2>1, <2>6
  <2> QED
    BY <2>5, <2>7
<1>11. CASE MPI_Put(w)
  <2>1. /\ window[w].access # {} \/ window[w].exposure = {}
        /\ window' = window /\ is_rma_putre' = is_rma_putre
        /\ misfiled' = \/ misfiled \/ wins[win_search(w)].gid # Target(w)
                       \/ is_rma_putre = window[w].locked
    BY <1>11 DEF MPI_Put, mpi
  <2>2. Target(w) = Gid(w)
    BY <2>1 DEF Target, Gid
  <2>3. ~(is_rma_putre = window[w].locked)
    <3>1. window[w].locked \in BOOLEAN
      BY <1>5 DEF Win
    <3> QED
      BY <1>3, <3>1
  <2>4. ~misfiled'
    BY <1>4, <2>1, <2>2, <2>3
  <2> QED
    BY <1>7, <2>1, <2>4
<1>12. CASE MPI_Get(w)
  <2>1. /\ window[w].access # {} \/ window[w].exposure = {}
        /\ window' = window /\ is_rma_putre' = is_rma_putre
        /\ misfiled' = (misfiled \/ wins[win_search(w)].gid # Target(w))
    BY <1>12 DEF MPI_Get, mpi
  <2>2. Target(w) = Gid(w)
    BY <2>1 DEF Target, Gid
  <2>3. ~misfiled'
    BY <1>4, <2>1, <2>2
  <2> QED
    BY <1>7, <2>1, <2>3
<1> QED
  BY <1>1, <1>8, <1>9, <1>10, <1>11, <1>12

\* Every step serves a careful program.
LEMMA ServedNext == IInv /\ [Next]_vars => ServedInv'
<1> SUFFICES ASSUME IInv, [Next]_vars PROVE ServedInv'
  OBVIOUS
<1>0. TypeInv /\ TablesInv /\ ServedInv
  BY DEF IInv
<1>1. CASE Next
  <2>1. careful' = careful
    BY <1>0, <1>1, NextIs
  <2>2. CASE ~careful
    BY <2>1, <2>2 DEF ServedInv
  <2>3. CASE careful /\ Running
    <3>1. Careful /\ ~misfiled
      BY <1>0, <2>3 DEF Careful, TablesInv, ServedInv
    <3>2. CASE TableStep /\ is_rma_putre' = is_rma_putre
      <4>1. /\ error' = "none" => Kept'
            /\ ~misfiled'
            /\ error' \in {"none", "too many communicators", "too many windows"}
        BY <2>1, <3>1, <3>2, ServedTable
      <4> QED
        BY <4>1 DEF ServedInv, Kept, Running
    <3>3. CASE RmaCall
      <4>1. ~misfiled' /\ Kept'
        BY <3>1, <3>3, ServedRma
      <4>2. error' = "none"
        BY <1>0, <2>3, <3>3, RmaSame DEF Running
      <4> QED
        BY <4>1, <4>2 DEF ServedInv, Kept
    <3> QED
      BY <1>0, <1>1, <3>2, <3>3, NextIs
  <2>4. CASE careful /\ ~Running
    <3>1. ~RmaCall
      BY <1>0, <2>4, RmaSame
    <3>2. TableStep
      BY <1>0, <1>1, <3>1, NextIs
    <3>3. error' = error /\ misfiled' = misfiled
      BY <2>4, <3>2 DEF TableStep, NewComm, MPI_Comm_free, MPI_Comm_group, NewGroup, MPI_Group_free,
                        MPI_Win_create, BeginEpoch, EndEpoch, MPI_Win_free
    <3> QED
      BY <1>0, <2>4, <3>3 DEF ServedInv, Running
  <2> QED
    BY <2>2, <2>3, <2>4
<1>2. CASE UNCHANGED vars
  <2>1. UNCHANGED <<careful, comms, wins, groupOf, members, held, made, window, is_rma_putre, error, misfiled>>
    BY <1>2 DEF vars, mpi
  <2>2. CASE careful /\ Running
    <3>1. Careful
      BY <1>0, <2>2 DEF Careful, TablesInv, ServedInv
    <3>2. SlotsKept'
      BY <2>1, <3>1, SlotsUnchanged
    <3>3. GroupsKept /\ OneEpoch
      BY <3>1 DEF Careful
    <3>4. Kept'
      BY <2>1, <3>2, <3>3 DEF Kept, GroupsKept, OneEpoch, NoEpoch, Live
    <3>5. ~misfiled' /\ error' = "none"
      BY <1>0, <2>1, <2>2 DEF ServedInv, Running
    <3> QED
      BY <3>4, <3>5 DEF ServedInv, Kept
  <2>3. CASE ~(careful /\ Running)
    BY <1>0, <2>1, <2>3 DEF ServedInv, Running
  <2> QED
    BY <2>2, <2>3
<1> QED
  BY <1>1, <1>2

\* A careful program starts without groups and windows of its own.
LEMMA InitServed == Init => ServedInv
<1> SUFFICES ASSUME Init PROVE ServedInv
  OBVIOUS
<1>1. PICK gw \in Groups, gs \in Groups :
        /\ gw # gs
        /\ groupOf = [c \in Comms |-> IF c = World THEN gw ELSE IF c = Self THEN gs ELSE NULL]
        /\ members = [g \in Groups |-> IF g = gw THEN Procs ELSE IF g = gs THEN {Me} ELSE {}]
        /\ comms = <<[comm |-> World, group |-> gw, cid |-> Procs],
                     [comm |-> Self, group |-> gs, cid |-> {Me}]>>
  BY DEF Init
<1>2. /\ wins = << >> /\ window = [w \in Windows |-> NoWindow] /\ error = "none"
      /\ held = {} /\ made = {} /\ is_rma_putre = TRUE /\ misfiled = FALSE
  BY DEF Init
<1>3. /\ NoWindow.group = NULL /\ NoWindow.access = {} /\ NoWindow.exposure = {}
      /\ NoWindow.locked = FALSE
  BY DEF NoWindow
<1>4. \A h \in Live : h = gw \/ h = gs \/ h = NULL
  BY <1>1, <1>2, <1>3 DEF Live
<1>5. members[gw] # {} /\ members[gs] # {}
  BY <1>1, TablesAssumption
<1>6. NULL \notin Groups
  BY TablesAssumption
<1>7. DOMAIN comms = {1, 2} /\ comms[1].comm = World /\ comms[2].comm = Self
  BY <1>1
<1>8. GroupsKept
  BY <1>2, <1>4, <1>5, <1>6, <1>7, TablesAssumption DEF GroupsKept
<1>9. SlotsKept
  <2>1. DOMAIN wins = {}
    BY <1>2
  <2> QED
    BY <2>1 DEF SlotsKept
<1>10. OneEpoch
  BY <1>2, <1>3 DEF OneEpoch, NoEpoch
<1> QED
  BY <1>2, <1>8, <1>9, <1>10 DEF ServedInv

\* What the invariant says of a careful program is what CarefulIsServed does.
LEMMA ServedIs == IInv => CarefulIsServed
<1> SUFFICES ASSUME IInv PROVE CarefulIsServed
  OBVIOUS
<1>0. TypeInv /\ TablesInv /\ ServedInv
  BY DEF IInv
<1>1. ASSUME careful, Running, NEW g \in held
      PROVE  group_search(g) # 0 /\ comms[group_search(g)].cid = members[g]
  <2>1. Careful
    BY <1>0, <1>1 DEF Careful, TablesInv, ServedInv
  <2>2. \E i \in DOMAIN comms : comms[i].group = g
    BY <2>1 DEF Careful, GroupsKept
  <2>3. group_search(g) # 0 /\ group_search(g) \in DOMAIN comms /\ comms[group_search(g)].group = g
    BY <1>0, <2>2, GroupSearch, GroupsInUse
  <2> QED
    BY <2>1, <2>3, CidRight
<1>2. GroupsRight
  BY <1>1 DEF GroupsRight
<1>3. EpochsRight /\ CarefulNeverStops
  BY <1>0 DEF ServedInv, EpochsRight, CarefulNeverStops
<1> QED
  BY <1>2, <1>3 DEF CarefulIsServed

\* A careful program gets what the tables promise: every group it holds is found
\* with its processes, every one-sided operation and every end of an epoch is
\* recorded for the right group and with one end, and no lookup stops it.
THEOREM CarefulServed == Spec => []CarefulIsServed
<1>1. Init => IInv
  BY InitType, InitTables, InitServed DEF IInv
<1>2. IInv /\ [Next]_vars => IInv'
  BY TypeStep, TablesNext, ServedNext DEF IInv
<1> QED
  BY <1>1, <1>2, ServedIs, PTL DEF Spec
=============================================================================
