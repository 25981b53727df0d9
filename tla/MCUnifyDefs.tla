---------------------------- MODULE MCUnifyDefs ----------------------------
(* Small traces of two processes, the first with a thread of its own. *)
EXTENDS UnifyDefs

MCRanks == 0..1

MCStreams == <<[id |-> 1, proc |-> 1], [id |-> 65537, proc |-> 1], [id |-> 2, proc |-> 2]>>

D(type, token, name, refs) == Definition(type, token, name, refs)
Group(token, g, label, members, real) ==
  D("ProcessGroup", token, NamedGroup(g, label, members), << >>) @@ [real |-> real]
Process(token, parent) == D("Process", token, [label |-> token, parent |-> parent], << >>)
E(kind, refs) == [kind |-> kind, refs |-> refs]

MCTrace(defs, markers, events) ==
  [streams |-> MCStreams, defs |-> defs, markers |-> markers, events |-> events]

\* Source files and places numbered in either order, with one file or two; a
\* function with and without a place; the thread defines one of them.
Places(p, other) ==
  <<D("SclFile", p, "a", << >>), D("SclFile", 3 - p, other, << >>),
    D("Scl", 3, 10, <<1>>), D("Scl", 4, 10, <<2>>), D("FunctionGroup", 5, "g", << >>),
    D("Function", 6, "main", <<5, 0>>), D("Function", 7, "main", <<5, 3>>)>>
Thread == <<Process(65537, 1), D("Function", 8, "main", <<5, 4>>)>>
Calls(f) == <<E("Enter", <<f, 3>>), E("Leave", <<0, 0>>)>>
PlaceTraces ==
  {MCTrace(<<Places(p, x) \o <<Process(1, 0)>>, Thread, <<Process(2, 0)>> \o Places(q, y)>>, << << >>, << >>, << >> >>,
           <<Calls(7), <<E("Enter", <<8, 0>>), E("Leave", <<6, 4>>)>>,
             Calls(6) \o <<E("FunctionSummary", <<7>>)>> >>) :
     p \in 1..2, q \in 1..2, x \in {"a", "b"}, y \in {"a", "b"}}

\* Files and counters with equal names in two groups, collective operations and
\* markers; all records but those of functions.
Things(p, n) ==
  <<D("FileGroup", p, "g", << >>), D("FileGroup", 3 - p, "h", << >>),
    D("File", 3, "f", <<1>>), D("File", 4, n, <<2>>),
    D("CounterGroup", 5, n, << >>), D("Counter", 6, "c", <<5>>), D("CollOp", 7, n, << >>),
    Group(8, "MPI_COMM_WORLD", NONE, <<1, 2>>, "world"),
    D("SclFile", 9, "a", << >>), D("Scl", 10, 1, <<9>>)>>
Marks(p) == <<D("Marker", 11, <<"m", p>>, << >>), D("Marker", 12, <<"m", 1>>, << >>)>>
ThingTraces ==
  {MCTrace(<<Things(p, n) \o <<Process(1, 0)>>, <<Process(65537, 1)>>,
             Things(1, "f") \o <<Process(2, 0)>> >>,
           <<Marks(p), << >>, Marks(2)>>,
           <<<<E("FileOperation", <<4, 10>>), E("Counter", <<6>>), E("Marker", <<12>>),
               E("CollopSummary", <<7, 0>>), E("MessageSummary", <<8>>)>>,
             <<E("BeginFileOperation", <<10>>), E("EndFileOperation", <<3, 0>>),
               E("CollectiveOperation", <<7, 8, 0>>), E("EventComment", << >>)>>,
             <<E("SendMsg", <<8, 10>>), E("RecvMsg", <<8, 0>>), E("Marker", <<11>>),
               E("BeginCollectiveOperation", <<7, 8, 10>>), E("EndCollectiveOperation", << >>),
               E("RMA", <<8, 0>>), E("RMAEnd", <<8, 10>>), E("FileOperationSummary", <<4>>)>>>>) :
     p \in 1..2, n \in {"f", "g"}}

\* Communicators c1, c2 with the same members and c3 of one process, created in
\* any order that all their members agree on; the first process may also have
\* registered a group; processes number them differently.
Mine(prog, p) == SelectSeq(prog, LAMBDA c : c \in {"c1", "c2"} \/ (c = "c3" /\ p = 1)
                                            \/ (c = "c4" /\ p = 2) \/ (c = "g" /\ p = 1))
Comm(c, token) ==
  CASE c \in {"c1", "c2"} -> Group(token, "MPI_COMM_USER", NONE, <<1, 2>>, c)
    [] c = "c3" -> Group(token, "MPI_COMM_USER", NONE, <<1>>, c)
    [] c = "c4" -> Group(token, "MPI_COMM_USER", NONE, <<2, 1>>, c)
    [] c = "g" -> Group(token, "MPI_COMM_USER", NONE, <<1>>, NONE)
GroupDefs(prog, p) ==
  <<Process(p, 0), Group(1, "MPI_COMM_WORLD", NONE, <<1, 2>>, "world"),
    Group(2, "MPI_COMM_SELF", NONE, <<p>>, NONE), Group(3, "NODE", "n", <<p>>, NONE)>>
  \o [n \in DOMAIN Mine(prog, p) |-> Comm(Mine(prog, p)[n], 3 * p + n)]
  \o <<Group(20, "GPU_GROUP", NONE, <<p, p + 65536>>, NONE), Group(21, "GPU_COMM", NONE, <<p>>, NONE)>>
Programs == UNION {SetToSeqs(S) : S \in {{"c1", "c2", "c3", "c4"}, {"c1", "c2", "c3", "g"}}}
Messages(prog, p) ==
  [n \in DOMAIN Mine(prog, p) |-> E("SendMsg", <<3 * p + n, 0>>)] \o <<E("RMA", <<21, 0>>)>>
GroupTraces ==
  {MCTrace(<<GroupDefs(prog, 1), <<Process(65537, 1), Process(131073, 65537),
                                   Group(30, "OMP_TEAM", NONE, <<1, 65537>>, NONE)>>,
             GroupDefs(prog, 2)>>,
           << << >>, << >>, << >> >>,
           <<Messages(prog, 1), <<E("CollopSummary", <<0, 30>>)>>, Messages(prog, 2)>>) :
     prog \in Programs}

MCTraces == PlaceTraces \cup ThingTraces \cup GroupTraces
=============================================================================
