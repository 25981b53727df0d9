------------------------------ MODULE UnifyDefs ------------------------------
(***************************************************************************)
(* The definitions and tokens of vtunify (src/tools/vtunify/vt_unify_defs, *)
(* _defs_hdlr, _tkfac, _events_hdlr, _markers, _stats).  Every process has *)
(* numbered its regions, communicators, ... by itself.  The master reads   *)
(* these local definitions, sorts them, gives every distinct one a global  *)
(* token and writes it; all ranks receive the translation of local tokens, *)
(* and rewrite the records of the streams they own.                        *)
(*                                                                         *)
(* A definition is its key (name, numbers, members: one value `name`) and  *)
(* the tokens it refers to (`refs`).  The times of the records are left to *)
(* Unify, as are the files and the failures.                               *)
(***************************************************************************)
EXTENDS Naturals, FiniteSets, TLC, SequencesExt

CONSTANTS
  Ranks,       \* the ranks of vtunify; rank 0 is the master
  Traces       \* the traces that may be unified: records with the fields
               \*   streams: sequence of [id, proc, parent], in the order of
               \*            the control file; proc is id % 65536
               \*   defs, markers, events: for each stream a sequence
ASSUME RanksAssumption == IsFiniteSet(Ranks) /\ 0 \in Ranks

NONE == "none"

VARIABLES
  trace,       \* the local traces
  phase,       \* what the master is doing
  vecLocDefs,  \* p_vecLocDefs
  next,        \* position in vecLocDefs
  vecGlobDefs, \* p_vecGlobDefs
  definitions, \* what was written to the definitions and the markers file
  tkfac,       \* theTokenFactory on the master
  processes,   \* m_vecDefProcesses
  nodes,       \* m_mapNodeProcs: set of pairs of a name and a process
  mpiComms,    \* m_mapProcMPIComms with the members in place of their id
  gpu,         \* m_vecGPUGroupProcs, m_mapProcGPUCommTokens, m_vecProcGPUCommMembers
  tokens,      \* the translations each rank has received
  read,        \* number of records of a stream that were read
  written      \* the records of a stream that were written

vars == <<trace, phase, vecLocDefs, next, vecGlobDefs, definitions, tkfac,
          processes, nodes, mpiComms, gpu, tokens, read, written>>

Types == <<"Process", "ProcessGroup", "SclFile", "Scl", "FileGroup", "File",
           "FunctionGroup", "Function", "CollOp", "CounterGroup", "Counter">>
Translated == {Types[n] : n \in 2..Len(Types)} \cup {"Marker"}
Rank(t) == CHOOSE n \in DOMAIN Types : Types[n] = t

Groups == <<"NODE", "GPU_GROUP", "GPU_COMM", "MPI_COMM_WORLD",
            "MPI_COMM_SELF", "MPI_COMM_USER", "OMP_TEAM", "OTHER">>
GroupRank(g) == CHOOSE n \in DOMAIN Groups : Groups[n] = g

Definition(type, token, name, refs) ==
  [type |-> type, token |-> token, name |-> name, refs |-> refs]
NamedGroup(g, label, members) == [group |-> g, label |-> label, members |-> members]

(***************************************************************************)
(* The token factories.                                                    *)
(***************************************************************************)
setTranslation(tr, proc, local, global) ==
  IF <<proc, local>> \in DOMAIN tr THEN tr ELSE tr @@ (<<proc, local>> :> global)

translateLocalToken(tr, proc, local) ==
  IF <<proc, local>> \in DOMAIN tr THEN tr[<<proc, local>>] ELSE 0

\* What makes two definitions of a type the same: everything but their token.
Key(name, refs) == [name |-> name, refs |-> refs]

getGlobalToken(fac, key) == IF key \in DOMAIN fac.keys THEN fac.keys[key] ELSE 0

\* A mutant: the sequence is not advanced.
createGlobalTokenAgain(fac, proc, local, key) ==
  [seq |-> fac.seq,
   keys |-> fac.keys @@ (key :> fac.seq),
   tr |-> setTranslation(fac.tr, proc, local, fac.seq)]

createGlobalToken(fac, proc, local, key) ==
  [seq |-> fac.seq + 1,
   keys |-> fac.keys @@ (key :> fac.seq),
   tr |-> setTranslation(fac.tr, proc, local, fac.seq)]

EmptyFactory == [seq |-> 1, keys |-> << >>, tr |-> << >>]

(***************************************************************************)
(* Reading and sorting the local definitions.                              *)
(***************************************************************************)
LocDefsCmp(a, b) ==
  \/ Rank(a.type) < Rank(b.type)
  \/ /\ a.type = b.type /\ a.type # "Process"
     /\ \/ a.token < b.token
        \/ a.token = b.token /\ a.proc < b.proc

GlobDefsCmp(a, b) ==
  \/ Rank(a.type) < Rank(b.type)
  \/ /\ a.type = b.type /\ a.type \notin {"Process", "ProcessGroup"}
     /\ a.token < b.token
  \/ /\ a.type = "ProcessGroup" /\ b.type = "ProcessGroup"
     /\ LET ga == GroupRank(a.name.group)  gb == GroupRank(b.name.group)
        IN ga < gb \/ (ga = gb /\ a.token < b.token)

StableSort(s, Cmp(_, _)) ==
  LET order == SortSeq([n \in DOMAIN s |-> n], LAMBDA i, j :
                 Cmp(s[i], s[j]) \/ (~Cmp(s[j], s[i]) /\ i < j))
  IN [n \in DOMAIN s |-> s[order[n]]]

\* Each handler adds the process that recorded the definition: the master
\* process of the stream, for the streams of threads as well.
HandleDef(stream, d) == d @@ [proc |-> stream.proc]

readLocal ==
  /\ phase = "read"
  /\ vecLocDefs' = StableSort(FlattenSeq([s \in DOMAIN trace.streams |->
                      [n \in DOMAIN trace.defs[s] |->
                         HandleDef(trace.streams[s], trace.defs[s][n])]]), LocDefsCmp)
  /\ phase' = "create" /\ next' = 1
  /\ UNCHANGED <<trace, vecGlobDefs, definitions, tkfac, processes, nodes,
                 mpiComms, gpu, tokens, read, written>>

(***************************************************************************)
(* One kind of definition: the tokens it refers to are translated (some    *)
(* may be absent), the global token of the result is looked up or created, *)
(* and the local token is translated to it.  A reference that is not known *)
(* fails an assertion.                                                     *)
(***************************************************************************)
TranslateRefs(tr, proc, refs, types) ==
  [n \in DOMAIN refs |->
     IF refs[n] = 0 THEN 0 ELSE translateLocalToken(tr[types[n]], proc, refs[n])]

Resolved(refs, global, optional) ==
  \A n \in DOMAIN refs : global[n] # 0 \/ (refs[n] = 0 /\ n \in optional)

MasterTr == [t \in Translated |-> tkfac[t].tr]

Unified(d, types, optional) ==
  LET global == TranslateRefs(MasterTr, d.proc, d.refs, types)
      key == Key(d.name, global)
      fac == tkfac[d.type]
      token == getGlobalToken(fac, key)
  IN IF ~Resolved(d.refs, global, optional)
     THEN phase' = "abort" /\ UNCHANGED <<tkfac, vecGlobDefs>>
     ELSE /\ phase' = phase
          /\ IF token = 0
             THEN /\ tkfac' = [tkfac EXCEPT ![d.type] =
                                 createGlobalToken(fac, d.proc, d.token, key)]
                  /\ vecGlobDefs' = Append(vecGlobDefs,
                                      Definition(d.type, fac.seq, d.name, global))
             ELSE /\ tkfac' = [tkfac EXCEPT ![d.type].tr =
                                 setTranslation(@, d.proc, d.token, token)]
                  /\ UNCHANGED vecGlobDefs

DefSclFile(d) == d.type = "SclFile" /\ Unified(d, << >>, {})
DefScl(d) == d.type = "Scl" /\ Unified(d, <<"SclFile">>, {})
DefFileGroup(d) == d.type = "FileGroup" /\ Unified(d, << >>, {})
DefFile(d) == d.type = "File" /\ Unified(d, <<"FileGroup">>, {})
DefFunctionGroup(d) == d.type = "FunctionGroup" /\ Unified(d, << >>, {})
DefFunction(d) == d.type = "Function" /\ Unified(d, <<"FunctionGroup", "Scl">>, {2})
DefCollOp(d) == d.type = "CollOp" /\ Unified(d, << >>, {})
DefCounterGroup(d) == d.type = "CounterGroup" /\ Unified(d, << >>, {})
DefCounter(d) == d.type = "Counter" /\ Unified(d, <<"CounterGroup">>, {})

\* Groups that are unified by name and members: the world, the self
\* communicators, OpenMP teams and others.
DefProcessGroup(d) ==
  /\ d.type = "ProcessGroup"
  /\ d.name.group \in {"MPI_COMM_WORLD", "MPI_COMM_SELF", "OMP_TEAM", "OTHER"}
  /\ Unified(d, << >>, {})

(***************************************************************************)
(* Definitions that are collected first and made global at the end.        *)
(***************************************************************************)

\* A mutant: communicators are numbered per process, whatever their members.
CommIndexOfProc(comms, proc, members) ==
  Cardinality({n \in DOMAIN comms : comms[n].proc = proc})
\* The occurrence number of a communicator among those of its process that
\* have the same members stands for its identity.
CommIndex(comms, proc, members) ==
  Cardinality({n \in DOMAIN comms : comms[n].proc = proc /\ comms[n].members = members})

addMPIComm(d) ==
  Append(mpiComms, [proc |-> d.proc, token |-> d.token, members |-> d.name.members,
                    index |-> CommIndex(mpiComms, d.proc, d.name.members)])

addGPUComm(d) ==
  [gpu EXCEPT !.comms = (d.proc :> d.token) @@ @, !.members = @ \o d.name.members]

addProc2GPUGroup(d) ==
  [gpu EXCEPT !.procs = FoldLeft(LAMBDA s, p : IF Contains(s, p) THEN s ELSE Append(s, p),
                                 @, d.name.members)]

Collect(d) ==
  \/ /\ d.type = "Process"
     /\ processes' = Append(processes, d)
     /\ UNCHANGED <<nodes, mpiComms, gpu>>
  \/ /\ d.type = "ProcessGroup"
     /\ \/ /\ d.name.group = "NODE"
           /\ nodes' = nodes \cup {<<d.name.label, d.name.members[1]>>}
           /\ UNCHANGED <<processes, mpiComms, gpu>>
        \/ /\ d.name.group = "MPI_COMM_USER"
           /\ mpiComms' = addMPIComm(d)
           /\ UNCHANGED <<processes, nodes, gpu>>
        \/ /\ d.name.group = "GPU_COMM"
           /\ gpu' = addGPUComm(d)
           /\ UNCHANGED <<processes, nodes, mpiComms>>
        \/ /\ d.name.group = "GPU_GROUP"
           /\ gpu' = addProc2GPUGroup(d)
           /\ UNCHANGED <<processes, nodes, mpiComms>>

\* One round of the loop over the local definitions.
createGlobal ==
  /\ phase = "create" /\ next <= Len(vecLocDefs)
  /\ LET d == vecLocDefs[next]
     IN \/ /\ \/ DefSclFile(d) \/ DefScl(d) \/ DefFileGroup(d) \/ DefFile(d)
              \/ DefFunctionGroup(d) \/ DefFunction(d) \/ DefCollOp(d)
              \/ DefCounterGroup(d) \/ DefCounter(d) \/ DefProcessGroup(d)
           /\ UNCHANGED <<processes, nodes, mpiComms, gpu>>
        \/ Collect(d) /\ UNCHANGED <<phase, tkfac, vecGlobDefs>>
  /\ next' = next + 1
  /\ UNCHANGED <<trace, vecLocDefs, definitions, tokens, read, written>>

(***************************************************************************)
(* What was collected becomes global: processes with their children behind *)
(* them, nodes, communicators, GPUs.                                       *)
(***************************************************************************)
addDefProcesses2Global ==
  LET sub[n \in DOMAIN processes] ==
        <<Definition("Process", processes[n].token, processes[n].name, << >>)>> \o
        FlattenSeq([k \in 1..Len(processes) - n |->
                      IF processes[n + k].name.parent = processes[n].token
                      THEN sub[n + k] ELSE << >>])
  IN FlattenSeq([n \in DOMAIN processes |->
                   IF processes[n].name.parent = 0 THEN sub[n] ELSE << >>])

\* Node groups have tokens of their own, far above those of the factory (the
\* GPU group's is 0xcafebabe in the code).
NodeGroupToken == 1500000000
GPUGroupToken == 2000000000

addNodeGroups2Global ==
  LET names == SetToSeq({n[1] : n \in nodes})
      \* The threads of a process, p + 65536 * thread, stand behind it.
      Before(a, b) == \/ a % 65536 < b % 65536
                      \/ a % 65536 = b % 65536 /\ a < b
      Members(x) == SetToSortSeq({n[2] : n \in {m \in nodes : m[1] = x}}, Before)
  IN [n \in DOMAIN names |->
        Definition("ProcessGroup", NodeGroupToken + n - 1,
                   NamedGroup("NODE", names[n], Members(names[n])), << >>)]

\* The order of the map and of its lists: by process, the last one first.
CommOrder(a, b) == \/ mpiComms[a].proc < mpiComms[b].proc
                   \/ mpiComms[a].proc = mpiComms[b].proc /\ a > b

addMPIComm2Global(fac, c) ==
  LET key == Key(NamedGroup("MPI_COMM_USER", ToString(c.index), c.members), << >>)
      token == getGlobalToken(fac, key)
  IN IF token = 0 THEN createGlobalToken(fac, c.proc, c.token, key)
     ELSE [fac EXCEPT !.tr = setTranslation(@, c.proc, c.token, token)]

addMPIComms2Global(fac) ==
  FoldLeft(LAMBDA f, n : addMPIComm2Global(f, mpiComms[n]), fac,
           SortSeq([n \in DOMAIN mpiComms |-> n], CommOrder))

\* One communicator for the devices of all processes.
addGPUComm2Global(fac) ==
  IF DOMAIN gpu.comms = {} THEN fac
  ELSE LET procs == SetToSortSeq(DOMAIN gpu.comms, <)
           key == Key(NamedGroup("GPU_COMM", "GPU_COMM_GLOBAL", gpu.members), << >>)
       IN FoldLeft(LAMBDA f, p : [f EXCEPT !.tr = setTranslation(@, p, gpu.comms[p], fac.seq)],
                   createGlobalToken(fac, procs[1], gpu.comms[procs[1]], key), procs)

addAll2Global ==
  /\ phase = "create" /\ next > Len(vecLocDefs)
  /\ LET fac1 == addMPIComms2Global(tkfac["ProcessGroup"])
         fac2 == addGPUComm2Global(fac1)
         Made(old, new) ==
           [n \in 1..(new.seq - old.seq) |->
              LET key == CHOOSE k \in DOMAIN new.keys : new.keys[k] = old.seq + n - 1
              IN Definition("ProcessGroup", old.seq + n - 1, key.name, << >>)]
     IN /\ tkfac' = [tkfac EXCEPT !["ProcessGroup"] = fac2]
        /\ vecGlobDefs' = StableSort(vecGlobDefs \o addDefProcesses2Global
             \o addNodeGroups2Global
             \o Made(tkfac["ProcessGroup"], fac1)
             \o (IF gpu.procs = << >> THEN << >>
                 ELSE <<Definition("ProcessGroup", GPUGroupToken,
                          NamedGroup("GPU_GROUP", NONE, gpu.procs), << >>)>>)
             \o Made(fac1, fac2), GlobDefsCmp)
  /\ phase' = "write"
  /\ UNCHANGED <<trace, vecLocDefs, next, definitions, processes, nodes,
                 mpiComms, gpu, tokens, read, written>>

writeGlobal ==
  /\ phase = "write"
  /\ definitions' = vecGlobDefs
  /\ phase' = "markers"
  /\ UNCHANGED <<trace, vecLocDefs, next, vecGlobDefs, tkfac, processes, nodes,
                 mpiComms, gpu, tokens, read, written>>

(***************************************************************************)
(* Markers: the definitions of all streams first, then the markers.  The   *)
(* statistics of all streams follow.  The master does all of it.           *)
(***************************************************************************)
Handle_DefMarker(fac, d) ==
  LET key == Key(d.name, << >>)
      token == getGlobalToken(fac, key)
  IN IF token = 0 THEN createGlobalToken(fac, d.proc, d.token, key)
     ELSE [fac EXCEPT !.tr = setTranslation(@, d.proc, d.token, token)]

readLocalMarkerDefs ==
  FoldLeft(Handle_DefMarker, tkfac["Marker"],
           FlattenSeq([s \in DOMAIN trace.streams |->
              [n \in DOMAIN trace.markers[s] |->
                 HandleDef(trace.streams[s], trace.markers[s][n])]]))

writeGlobalMarkerDefs(fac) ==
  [n \in 1..fac.seq - 1 |->
     LET key == CHOOSE k \in DOMAIN fac.keys : fac.keys[k] = n
     IN Definition("Marker", n, key.name, << >>)]

unifyMarkers ==
  /\ phase = "markers"
  /\ tkfac' = [tkfac EXCEPT !["Marker"] = readLocalMarkerDefs]
  /\ definitions' = definitions \o writeGlobalMarkerDefs(tkfac'["Marker"])
  /\ phase' = "spots"
  /\ UNCHANGED <<trace, vecLocDefs, next, vecGlobDefs, processes, nodes, mpiComms,
                 gpu, tokens, read, written>>

(***************************************************************************)
(* What the handler of each kind of record translates, and which of these  *)
(* references a record may leave out.                                      *)
(***************************************************************************)
Handler(types, optional) == [types |-> types, optional |-> optional]

Handle_Enter == Handler(<<"Function", "Scl">>, {2})
Handle_Leave == Handler(<<"Function", "Scl">>, {1, 2})
Handle_FileOperation == Handler(<<"File", "Scl">>, {2})
Handle_BeginFileOperation == Handler(<<"Scl">>, {1})
Handle_EndFileOperation == Handler(<<"File", "Scl">>, {2})
Handle_SendMsg == Handler(<<"ProcessGroup", "Scl">>, {2})
Handle_RecvMsg == Handler(<<"ProcessGroup", "Scl">>, {2})
Handle_CollectiveOperation == Handler(<<"CollOp", "ProcessGroup", "Scl">>, {3})
Handle_BeginCollectiveOperation == Handler(<<"CollOp", "ProcessGroup", "Scl">>, {3})
Handle_EndCollectiveOperation == Handler(<< >>, {})
Handle_RMA == Handler(<<"ProcessGroup", "Scl">>, {2})
Handle_RMAEnd == Handler(<<"ProcessGroup", "Scl">>, {2})
Handle_Counter == Handler(<<"Counter">>, {})
Handle_EventComment == Handler(<< >>, {})
Handle_Marker == Handler(<<"Marker">>, {})
Handle_FunctionSummary == Handler(<<"Function">>, {})
Handle_MessageSummary == Handler(<<"ProcessGroup">>, {1})
Handle_CollopSummary == Handler(<<"CollOp", "ProcessGroup">>, {1, 2})
Handle_FileOperationSummary == Handler(<<"File">>, {})

EventHandlers ==
  [Enter |-> Handle_Enter, Leave |-> Handle_Leave,
   FileOperation |-> Handle_FileOperation,
   BeginFileOperation |-> Handle_BeginFileOperation,
   EndFileOperation |-> Handle_EndFileOperation,
   SendMsg |-> Handle_SendMsg, RecvMsg |-> Handle_RecvMsg,
   CollectiveOperation |-> Handle_CollectiveOperation,
   BeginCollectiveOperation |-> Handle_BeginCollectiveOperation,
   EndCollectiveOperation |-> Handle_EndCollectiveOperation,
   RMA |-> Handle_RMA, RMAEnd |-> Handle_RMAEnd,
   Counter |-> Handle_Counter, EventComment |-> Handle_EventComment]
MarkerHandlers == [Marker |-> Handle_Marker]
StatisticsHandlers ==
  [FunctionSummary |-> Handle_FunctionSummary, MessageSummary |-> Handle_MessageSummary,
   CollopSummary |-> Handle_CollopSummary,
   FileOperationSummary |-> Handle_FileOperationSummary]
Handlers == EventHandlers @@ MarkerHandlers @@ StatisticsHandlers

\* Reads the next record of a stream that has a handler among hs.
HandleNext(s, hs, tr) ==
  /\ read[s] < Len(trace.events[s])
  /\ LET e == trace.events[s][read[s] + 1]
         h == Handlers[e.kind]
         global == TranslateRefs(tr, trace.streams[s].proc, e.refs, h.types)
     IN /\ e.kind \in DOMAIN hs
        /\ IF Resolved(e.refs, global, h.optional)
           THEN /\ written' = [written EXCEPT ![s] = Append(@, [kind |-> e.kind, refs |-> global])]
                /\ UNCHANGED phase
           ELSE phase' = "abort" /\ UNCHANGED written
  /\ read' = [read EXCEPT ![s] = @ + 1]
  /\ UNCHANGED <<trace, vecLocDefs, next, vecGlobDefs, definitions, tkfac, processes,
                 nodes, mpiComms, gpu, tokens>>

\* The streams are written stream by stream; a stream's marker and statistics
\* records are kept in files of their own, here in front of its events.
NextKind(s, hs) == read[s] < Len(trace.events[s]) /\ trace.events[s][read[s] + 1].kind \in DOMAIN hs

MasterPass(name, hs, then) ==
  /\ phase = name
  /\ \/ \E s \in DOMAIN trace.streams :
          /\ \A q \in 1..s - 1 : ~NextKind(q, hs)
          /\ HandleNext(s, hs, MasterTr)
     \/ /\ \A s \in DOMAIN trace.streams : ~NextKind(s, hs)
        /\ phase' = then
        /\ UNCHANGED <<trace, vecLocDefs, next, vecGlobDefs, definitions, tkfac,
                       processes, nodes, mpiComms, gpu, tokens, read, written>>

unifyMarkerSpots == MasterPass("spots", MarkerHandlers, "stats")
unifyStatistics == MasterPass("stats", StatisticsHandlers, "share")

(***************************************************************************)
(* All ranks unpack the translations the master packed, and rewrite the    *)
(* events of the streams they own.                                         *)
(***************************************************************************)
\* A mutant: the process is unpacked once, before the loop.
unpackOneProcess(packed) ==
  [t \in Translated |->
     [x \in DOMAIN packed[t] |->
        IF <<1, x[2]>> \in DOMAIN packed[t] THEN packed[t][<<1, x[2]>>] ELSE packed[t][x]]]

unpackTranslations(packed) ==
  [t \in Translated |->
     FoldFunctionOnSet(LAMBDA p, tr : setTranslation(tr, p[1][1], p[1][2], p[2]), << >>,
                       [x \in DOMAIN packed[t] |-> <<x, packed[t][x]>>], DOMAIN packed[t])]

shareTokenTranslations ==
  /\ phase = "share"
  /\ tokens' = [r \in Ranks |-> IF r = 0 THEN MasterTr ELSE unpackTranslations(MasterTr)]
  /\ phase' = "events"
  /\ UNCHANGED <<trace, vecLocDefs, next, vecGlobDefs, definitions, tkfac, processes,
                 nodes, mpiComms, gpu, read, written>>

\* Which rank owns a stream is Unify's matter: any rank must get it right.
unifyEvents(r) ==
  /\ phase = "events"
  /\ \E s \in DOMAIN trace.streams : HandleNext(s, EventHandlers, tokens[r])

Init ==
  /\ trace \in Traces
  /\ phase = "read" /\ next = 0
  /\ vecLocDefs = << >> /\ vecGlobDefs = << >> /\ definitions = << >>
  /\ tkfac = [t \in Translated |-> EmptyFactory]
  /\ processes = << >> /\ nodes = {} /\ mpiComms = << >>
  /\ gpu = [procs |-> << >>, comms |-> << >>, members |-> << >>]
  /\ tokens = [r \in Ranks |-> [t \in Translated |-> << >>]]
  /\ read = [s \in DOMAIN trace.streams |-> 0]
  /\ written = [s \in DOMAIN trace.streams |-> << >>]

Next ==
  \/ readLocal \/ createGlobal \/ addAll2Global \/ writeGlobal
  \/ unifyMarkers \/ unifyMarkerSpots \/ unifyStatistics
  \/ shareTokenTranslations
  \/ \E r \in Ranks : unifyEvents(r)

Spec == Init /\ [][Next]_vars

------------------------------------------------------------------------------
(* What the definitions and records mean, whatever their tokens are. *)

LocalDefs ==
  UNION {{HandleDef(trace.streams[s], d) : d \in Range(trace.defs[s]) \cup Range(trace.markers[s])} :
           s \in DOMAIN trace.streams}
LocalDef(type, proc, token) ==
  CHOOSE d \in LocalDefs : d.type = type /\ d.proc = proc /\ d.token = token
GlobalDefs(type, token) == {d \in Range(definitions) : d.type = type /\ d.token = token}
GlobalDef(type, token) == CHOOSE d \in GlobalDefs(type, token) : TRUE
Global(d) == translateLocalToken(tkfac[d.type].tr, d.proc, d.token)

RefTypes(type) == CASE type = "Scl" -> <<"SclFile">>
                    [] type = "File" -> <<"FileGroup">>
                    [] type = "Function" -> <<"FunctionGroup", "Scl">>
                    [] type = "Counter" -> <<"CounterGroup">>
                    [] OTHER -> << >>

\* References resolved twice: a function refers to a place, a place to a file.
Meaning(d, Find(_, _)) ==
  LET Refs(x, M(_)) == [n \in DOMAIN x.refs |->
                          IF x.refs[n] = 0 THEN << >> ELSE <<M(Find(RefTypes(x.type)[n], x.refs[n]))>>]
      Once(x) == <<x.name, Refs(x, LAMBDA y : y.name)>>
  IN <<d.name, Refs(d, Once)>>
LocalMeaning(d) == Meaning(d, LAMBDA t, k : LocalDef(t, d.proc, k))
GlobalMeaning(d) == Meaning(d, GlobalDef)

\* The code of a local group with the members of a communicator writes the same
\* kind of definition: the communicators of those members are left out.
Disturbed(d) ==
  \E x \in LocalDefs : /\ x.type = "ProcessGroup" /\ x.name.group = "MPI_COMM_USER"
                       /\ x.real = NONE /\ x.name.members = d.name.members

Tokened(d) ==
  /\ d.type \in Translated
  /\ d.type = "ProcessGroup" =>
       /\ d.name.group \notin {"NODE", "GPU_GROUP"}
       /\ d.name.group = "MPI_COMM_USER" => ~Disturbed(d)

SameThing(a, b) ==
  IF a.type # "ProcessGroup" THEN LocalMeaning(a) = LocalMeaning(b)
  ELSE /\ a.name.group = b.name.group
       /\ CASE a.name.group = "MPI_COMM_USER" -> a.real = b.real
            [] a.name.group = "GPU_COMM" -> TRUE
            [] OTHER -> a.name = b.name

Means(g, d) ==
  IF d.type # "ProcessGroup" THEN GlobalMeaning(g) = LocalMeaning(d)
  ELSE /\ g.name.group = d.name.group
       /\ IF d.name.group = "GPU_COMM"
          THEN Range(d.name.members) \subseteq Range(g.name.members)
          ELSE g.name.members = d.name.members

------------------------------------------------------------------------------

TypeOK ==
  /\ phase \in {"read", "create", "write", "markers", "spots", "stats", "share", "events", "abort"}
  /\ next \in 0..Len(vecLocDefs) + 1
  /\ \A t \in Translated :
       /\ tkfac[t].seq \in Nat \ {0}
       /\ \A k \in DOMAIN tkfac[t].keys : tkfac[t].keys[k] \in 1..tkfac[t].seq - 1
       /\ \A p \in DOMAIN tkfac[t].tr : tkfac[t].tr[p] \in 1..tkfac[t].seq - 1
       /\ Cardinality(Range(tkfac[t].keys)) = tkfac[t].seq - 1
  /\ \A s \in DOMAIN trace.streams : read[s] \in 0..Len(trace.events[s])

\* The global definitions say exactly what the local ones said: two local
\* definitions get one global token if and only if they mean the same, across
\* all levels of references and whatever numbers the processes gave them (a
\* communicator of user type is the same if it is the same communicator, not
\* if it has the same members); every token is defined once, after everything
\* it refers to; every process is defined once, after its parent; and no
\* assertion fails.
DefinitionsRight ==
  /\ phase # "abort"
  /\ phase \in {"spots", "stats", "share", "events"} =>
       /\ \A a, b \in LocalDefs :
            Tokened(a) /\ Tokened(b) /\ a.type = b.type =>
              (Global(a) = Global(b) <=> SameThing(a, b))
       /\ \A d \in LocalDefs : Tokened(d) =>
            \E g \in GlobalDefs(d.type, Global(d)) : Means(g, d)
       /\ \A i, j \in DOMAIN definitions :
            LET a == definitions[i]  b == definitions[j]
            IN /\ a.type = b.type /\ a.token = b.token => i = j
               /\ \A n \in DOMAIN b.refs :
                    RefTypes(b.type)[n] = a.type /\ b.refs[n] = a.token => i < j
       /\ \A d \in LocalDefs :
            /\ d.type = "Process" =>
                 \E j \in DOMAIN definitions :
                   /\ definitions[j].type = "Process" /\ definitions[j].token = d.token
                   /\ d.name.parent = 0 \/ \E i \in 1..j - 1 :
                        definitions[i].type = "Process" /\ definitions[i].token = d.name.parent
            /\ d.type = "ProcessGroup" /\ d.name.group \in {"NODE", "GPU_GROUP"} =>
                 \E g \in Range(definitions) :
                   /\ g.type = "ProcessGroup" /\ g.name.group = d.name.group
                   /\ d.name.group = "NODE" => g.name.label = d.name.label
                   /\ Range(d.name.members) \subseteq Range(g.name.members)

\* Every record that is written, by whichever rank, refers to global definitions
\* that mean what the process meant; what was left out stays left out.
EventsKeepMeaning ==
  \A s \in DOMAIN written : \A n \in DOMAIN written[s] :
    LET w == written[s][n]
        mine == SelectSeq(trace.events[s], LAMBDA e : e.kind = w.kind)
        nth == Cardinality({k \in 1..n : written[s][k].kind = w.kind})
    IN \A k \in DOMAIN w.refs :
         LET t == Handlers[w.kind].types[k]
             local == mine[nth].refs[k]
             d == LocalDef(t, trace.streams[s].proc, local)
         IN IF local = 0 THEN w.refs[k] = 0
            ELSE /\ w.refs[k] = Global(d)
                 /\ Tokened(d) => \E g \in GlobalDefs(t, w.refs[k]) : Means(g, d)
=============================================================================
