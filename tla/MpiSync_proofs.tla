---------------------------- MODULE MpiSync_proofs ----------------------------
(***************************************************************************)
(* Proofs about MpiSync, for every number of ranks, every program of       *)
(* collective calls, any sizes and counts: the types; and, as long as a    *)
(* rank that synchronises always records, that all ranks issue the same    *)
(* sequence of collective operations and flush together.                   *)
(*                                                                         *)
(* The sequence is not known in advance: it depends on the masks the ranks *)
(* contribute. The argument is a log of the states of one rank after 0, 1, *)
(* 2, ... operations. A state says what is issued next; it determines the  *)
(* one after it, given the mask all ranks have agreed on. Every rank is in *)
(* the state of the log at the number of operations it has issued.         *)
(***************************************************************************)
EXTENDS MpiSync, FiniteSetTheorems, SequenceTheorems, WellFoundedInduction, TLAPS

\* Whoever synchronises records: where the buffers or the clocks are synchronised,
\* the number of flushes is not limited and no rank is switched off.
AlwaysRecording ==
  \A e \in Settings : e.SyncFlush \/ e.ETimeSync => MaxFlushes = 0 /\ e.Disabled = {}

------------------------------------------------------------------------------
(* The states of the log. *)

Syncs == env.SyncFlush \/ env.ETimeSync
InitOps == (IF env.FileUnique THEN <<"bcast">> ELSE << >>) \o <<"split">> \o TimeSync
FinOps == TimeSync \o <<"barrier">>
MaskOps(mask) ==
  IF "time" \in mask THEN Esync ELSE IF "flush" \in mask THEN <<"barrier">> ELSE << >>

\* The calls on MPI_COMM_WORLD a rank has before it after c calls.
World == {n \in 1 .. Len(env.Program) : env.Program[n].comm = "world"}
Left(c) == {n \in World : n > c}
FirstOf(l) == CHOOSE n \in l : \A m \in l : n <= m

\* The operations of the tool that come next, the program's calls that are left,
\* the call to synchronise after, whether the MPI_Allreduce has been issued, and
\* whether MPI_Finalize has begun.
State(todo_, left, call, mask, fin) ==
  [todo |-> todo_, left |-> left, call |-> call, mask |-> mask, fin |-> fin]

LogState ==
  [todo : Seq(Ops), left : SUBSET Nat, call : Nat, mask : BOOLEAN, fin : BOOLEAN]

\* With nothing left to do, what MPI_Finalize does comes next.
Norm(t, l) ==
  IF t = << >> /\ l = {} THEN State(FinOps, {}, 0, FALSE, TRUE) ELSE State(t, l, 0, FALSE, FALSE)

Op(a) ==
  IF a.call # 0 THEN "allreduce"
  ELSE IF a.todo # << >> THEN Head(a.todo)
  ELSE env.Program[FirstOf(a.left)].op

\* The state after the next operation.
After(a) ==
  IF a.call # 0 THEN State(a.todo, a.left, a.call, TRUE, a.fin)
  ELSE IF a.todo # << >>
  THEN IF a.fin THEN State(Tail(a.todo), {}, 0, FALSE, TRUE) ELSE Norm(Tail(a.todo), a.left)
  ELSE LET n == FirstOf(a.left)
       IN IF Syncs THEN State(<< >>, a.left \ {n}, n, FALSE, FALSE)
          ELSE Norm(<< >>, a.left \ {n})

\* What a rank records of a call of the program issued in state a.
BegunFrom(r, begun, a) ==
  /\ a.call = 0 /\ a.todo = << >> /\ a.left # {} /\ FirstOf(a.left) \in World
  /\ begun = <<vt_mpi_collbegin(r, env.Program[FirstOf(a.left)])>>

\* What the ranks have agreed on in their k-th operation.
AllAt(k) == \A s \in Ranks : Len(posted[s]) >= k
Mask(k) == UNION {posted[s][k].mask : s \in Ranks}
Resolve(a, mask) == Norm(MaskOps(mask), a.left)

\* The state of a rank.
At(r) ==
  CASE pc[r] = "init" -> Norm(InitOps, Left(0))
    [] pc[r] = "initsync" -> Norm(todo[r], Left(0))
    [] pc[r] = "app" -> Norm(<< >>, Left(calls[r]))
    [] pc[r] = "coll" ->
         IF Syncs /\ Call(r) \in World THEN State(<< >>, Left(Call(r)), Call(r), FALSE, FALSE)
         ELSE Norm(<< >>, Left(Call(r)))
    [] pc[r] = "reduce" -> State(<< >>, Left(Call(r)), Call(r), TRUE, FALSE)
    [] pc[r] = "sync" -> Norm(todo[r], Left(Call(r)))
    [] OTHER -> State(todo[r], {}, 0, FALSE, TRUE)

\* log[k] is the state after k operations, was[k] the one the next operation is
\* issued from: not the same if the k-th operation is an MPI_Allreduce, whose
\* result comes in between. Each state follows from the one before it, and
\* nothing follows an MPI_Allreduce before all ranks have issued it.
Follows(log, was, n) ==
  /\ log[0] = Norm(InitOps, Left(0))
  /\ \A k \in 0 .. n :
       /\ log[k].mask => Syncs /\ log[k].call \in World
       /\ log[k].mask /\ AllAt(k) => was[k] = Resolve(log[k], Mask(k))
       /\ ~log[k].mask => was[k] = log[k]
  /\ \A k \in 0 .. n - 1 : log[k + 1] = After(was[k]) /\ (log[k].mask => AllAt(k))

\* A rank is where the log says, and has issued what the log says.
Along(r, log, was, n) ==
  /\ Len(posted[r]) <= n
  /\ At(r).mask => At(r) = log[Len(posted[r])]
  /\ ~At(r).mask => /\ At(r) = was[Len(posted[r])]
                    /\ log[Len(posted[r])].mask => AllAt(Len(posted[r]))
  /\ \A k \in 1 .. Len(posted[r]) :
       /\ posted[r][k].op = Op(was[k - 1])
       /\ posted[r][k].begun # << >> => BegunFrom(r, posted[r][k].begun, was[k - 1])

\* The calls a rank has synchronised after.
Done(r) == IF pc[r] = "sync" THEN Call(r) ELSE calls[r]

\* A rank has flushed at all the masks that ask for it, up to where it is, and
\* nowhere else.
FlushedAlong(r, log) ==
  /\ \A k \in 0 .. Len(posted[r]) : log[k].mask =>
       \/ log[k].call <= Done(r)
       \/ k = Len(posted[r]) /\ pc[r] = "reduce"
  /\ \A c \in flushed[r] : \E k \in 1 .. Len(posted[r]) :
       log[k].mask /\ log[k].call = c /\ AllAt(k) /\ "flush" \in Mask(k)
  /\ \A k \in 1 .. Len(posted[r]) :
       log[k].mask /\ AllAt(k) /\ "flush" \in Mask(k) /\ log[k].call <= Done(r)
         => log[k].call \in flushed[r]

\* Whoever synchronises records, and has synchronised after all calls on
\* MPI_COMM_WORLD.
SyncedAll ==
  \A r \in Ranks :
    /\ Syncs => buf[r].on /\ (pc[r] = "coll" => recorded[r])
    /\ \A c \in synced[r] : Syncs /\ c \in World
    /\ Syncs => \A c \in World :
         c <= calls[r] \/ (c = Call(r) /\ pc[r] \in {"reduce", "sync"}) => c \in synced[r]

LogInv(log, was, n) ==
  /\ Follows(log, was, n)
  /\ \A r \in Ranks : Along(r, log, was, n) /\ FlushedAlong(r, log)

MatchInv ==
  /\ SyncedAll
  /\ \E n \in Nat : \E log, was \in [Nat -> LogState] : LogInv(log, was, n)

------------------------------------------------------------------------------
(* Sums over the ranks, and what a call's wrappers record of it. *)

\* Induction over the natural numbers, in terms of sets.
LEMMA NaturalsBySet ==
  ASSUME NEW S, 0 \in S, \A n \in Nat : n \in S => n + 1 \in S
  PROVE  Nat \subseteq S
<1> DEFINE T == Nat \ S
<1>1. SUFFICES ASSUME T # {} PROVE FALSE
  OBVIOUS
<1>2. PICK m \in T : \A n \in T : ~(<<n, m>> \in OpToRel(<, Nat))
  BY <1>1, WFMin, NatLessThanWellFounded, Zenon
<1>3. m \in Nat /\ m # 0 /\ m - 1 \in Nat
  OBVIOUS
<1>4. m - 1 \in T
  BY <1>3
<1>5. <<m - 1, m>> \in OpToRel(<, Nat)
  BY <1>3 DEF OpToRel
<1> QED
  BY <1>2, <1>4, <1>5, Zenon

\* The rank a sum over s takes first, and the ranks it takes after it.
Pick(s) == CHOOSE x \in s : TRUE
Others(s) == s \ {Pick(s)}

\* Sums over the sets of ranks, as SumOver builds them; F and g are functions.
SumsOf(F, g) ==
  g = [s \in SUBSET Ranks |-> IF s = {} THEN 0 ELSE F[Pick(s)] + g[Others(s)]]
Part(F, s) == (CHOOSE g : SumsOf(F, g))[s]

\* Ranks taken one after the other: what holds of no rank, and of a set if it
\* does of the ranks but the first, holds of every set.
LEMMA RankInduction ==
  ASSUME NEW T, {} \in T,
         \A s \in SUBSET Ranks : s # {} /\ Others(s) \in T => s \in T
  PROVE  \A s \in SUBSET Ranks : s \in T
<1> DEFINE P == {n \in Nat : \A s \in SUBSET Ranks : Cardinality(s) = n => s \in T}
<1>1. 0 \in P
  <2>1. ASSUME NEW s \in SUBSET Ranks, Cardinality(s) = 0 PROVE s \in T
    <3>1. IsFiniteSet(s)
      BY RanksAssumption, FS_Subset
    <3>2. s = {}
      BY <3>1, <2>1, FS_EmptySet
    <3> QED
      BY <3>2
  <2> QED
    BY <2>1
<1>2. ASSUME NEW n \in Nat, n \in P PROVE n + 1 \in P
  <2>1. ASSUME NEW s \in SUBSET Ranks, Cardinality(s) = n + 1 PROVE s \in T
    <3>1. IsFiniteSet(s)
      BY RanksAssumption, FS_Subset
    <3>2. s # {}
      <4>1. Cardinality({}) = 0
        BY FS_EmptySet
      <4> QED
        BY <2>1, <4>1
    <3>3. Pick(s) \in s
      BY <3>2 DEF Pick
    <3>4. Cardinality(Others(s)) = Cardinality(s) - 1
      BY <3>1, <3>3, FS_RemoveElement DEF Others
    <3>5. Others(s) \in SUBSET Ranks
      BY DEF Others
    <3>6. Others(s) \in T
      BY <3>4, <3>5, <2>1, <1>2
    <3> QED
      BY <3>2, <3>6
  <2> QED
    BY <2>1
<1>3. Nat \subseteq P
  <2> HIDE DEF P
  <2> QED
    BY <1>1, <1>2, NaturalsBySet
<1>4. ASSUME NEW s \in SUBSET Ranks PROVE s \in T
  <2>1. Cardinality(s) \in Nat
    BY RanksAssumption, FS_Subset, FS_CardinalityType
  <2> QED
    BY <2>1, <1>3
<1> QED
  BY <1>4

\* The sums exist.
LEMMA SumsExist ==
  ASSUME NEW F \in [Ranks -> Nat]
  PROVE  \E g \in [SUBSET Ranks -> Nat] : SumsOf(F, g)
<1> DEFINE Body(g, s) == IF s = {} THEN 0 ELSE F[Pick(s)] + g[Others(s)]
           Good(g, n) == \A s \in SUBSET Ranks : Cardinality(s) <= n => g[s] = Body(g, s)
           P == {n \in Nat : \E g \in [SUBSET Ranks -> Nat] : Good(g, n)}
<1>0. \A s \in SUBSET Ranks : s # {} => Pick(s) \in Ranks /\ Pick(s) \in s /\ Others(s) \in SUBSET Ranks
  BY DEF Pick, Others
<1>1. 0 \in P
  <2> DEFINE g == [s \in SUBSET Ranks |-> 0]
  <2>1. g \in [SUBSET Ranks -> Nat]
    OBVIOUS
  <2>2. ASSUME NEW s \in SUBSET Ranks, Cardinality(s) <= 0 PROVE g[s] = Body(g, s)
    <3>1. IsFiniteSet(s)
      BY RanksAssumption, FS_Subset
    <3>2. Cardinality(s) = 0
      BY <3>1, <2>2, FS_CardinalityType
    <3>3. s = {}
      BY <3>1, <3>2, FS_EmptySet
    <3> QED
      BY <3>3
  <2> QED
    BY <2>1, <2>2
<1>2. ASSUME NEW n \in Nat, n \in P PROVE n + 1 \in P
  <2>1. PICK g \in [SUBSET Ranks -> Nat] : Good(g, n)
    BY <1>2
  <2> DEFINE h == [s \in SUBSET Ranks |-> Body(g, s)]
  <2>2. h \in [SUBSET Ranks -> Nat]
    <3>1. ASSUME NEW s \in SUBSET Ranks PROVE Body(g, s) \in Nat
      BY <1>0
    <3> QED
      BY <3>1
  <2>3. ASSUME NEW s \in SUBSET Ranks, Cardinality(s) <= n + 1 PROVE h[s] = Body(h, s)
    <3>1. CASE s = {}
      BY <3>1
    <3>2. CASE s # {}
      <4>1. IsFiniteSet(s)
        BY RanksAssumption, FS_Subset
      <4>2. Cardinality(Others(s)) = Cardinality(s) - 1 /\ Cardinality(s) \in Nat
        BY <4>1, <3>2, <1>0, FS_RemoveElement, FS_CardinalityType DEF Others
      <4>3. Others(s) \in SUBSET Ranks /\ Cardinality(Others(s)) <= n
        BY <4>2, <3>2, <1>0, <2>3
      <4>4. g[Others(s)] = Body(g, Others(s))
        BY <4>3, <2>1
      <4>5. h[Others(s)] = Body(g, Others(s))
        BY <4>3
      <4>6. h[s] = F[Pick(s)] + g[Others(s)]
        BY <3>2
      <4> QED
        BY <4>4, <4>5, <4>6, <3>2
    <3> QED
      BY <3>1, <3>2
  <2>4. Good(h, n + 1)
    BY <2>3
  <2> HIDE DEF h, Good
  <2> QED
    BY <2>2, <2>4
<1>3. Nat \subseteq P
  <2> HIDE DEF P
  <2> QED
    BY <1>1, <1>2, NaturalsBySet
<1>4. Cardinality(Ranks) \in Nat
  BY RanksAssumption, FS_CardinalityType
<1>5. PICK g \in [SUBSET Ranks -> Nat] : Good(g, Cardinality(Ranks))
  BY <1>3, <1>4
<1>6. ASSUME NEW s \in SUBSET Ranks PROVE g[s] = Body(g, s)
  <2>1. Cardinality(s) <= Cardinality(Ranks)
    BY RanksAssumption, FS_Subset
  <2> QED
    BY <2>1, <1>5
<1> QED
  BY <1>6 DEF SumsOf

\* How a sum is built.
LEMMA PartIs ==
  ASSUME NEW F \in [Ranks -> Nat]
  PROVE  /\ Part(F, {}) = 0
         /\ \A s \in SUBSET Ranks : s # {} => Part(F, s) = F[Pick(s)] + Part(F, Others(s))
<1> DEFINE C == CHOOSE g : SumsOf(F, g)
<1>1. SumsOf(F, C)
  BY SumsExist
<1>2. C = [s \in SUBSET Ranks |-> IF s = {} THEN 0 ELSE F[Pick(s)] + C[Others(s)]]
  BY <1>1 DEF SumsOf
<1>3. \A s : Part(F, s) = C[s]
  BY DEF Part
<1> HIDE DEF C
<1>4. C[{}] = 0
  BY <1>2
<1>5. ASSUME NEW s \in SUBSET Ranks, s # {} PROVE C[s] = F[Pick(s)] + C[Others(s)]
  BY <1>2, <1>5
<1> QED
  BY <1>3, <1>4, <1>5

LEMMA SumOverIs == \A F : SumOver(F) = Part(F, Ranks)
BY DEF SumOver, MapThenSumSet, MapThenFoldSet, Part, SumsOf, Pick, Others

\* Sums are natural numbers.
LEMMA PartType ==
  ASSUME NEW F \in [Ranks -> Nat]
  PROVE  \A s \in SUBSET Ranks : Part(F, s) \in Nat
<1> DEFINE T == {s \in SUBSET Ranks : Part(F, s) \in Nat}
<1>1. {} \in T
  BY PartIs
<1>2. ASSUME NEW s \in SUBSET Ranks, s # {}, Others(s) \in T PROVE s \in T
  <2>1. Part(F, s) = F[Pick(s)] + Part(F, Others(s))
    BY <1>2, PartIs
  <2>2. Pick(s) \in Ranks
    BY <1>2 DEF Pick
  <2> QED
    BY <2>1, <2>2, <1>2
<1> HIDE DEF T
<1>3. \A s \in SUBSET Ranks : s \in T
  BY <1>1, <1>2, RankInduction
<1> QED
  BY <1>3 DEF T

\* A constant summed up.
LEMMA SumConstant ==
  ASSUME NEW c \in Nat
  PROVE  SumOver([r \in Ranks |-> c]) = N * c
<1> DEFINE F == [r \in Ranks |-> c]
           T == {s \in SUBSET Ranks : Part(F, s) = Cardinality(s) * c}
<1>0. F \in [Ranks -> Nat]
  OBVIOUS
<1>1. {} \in T
  <2>1. Cardinality({}) = 0
    BY FS_EmptySet
  <2>2. Part(F, {}) = 0
    BY <1>0, PartIs
  <2> HIDE DEF F
  <2> QED
    BY <2>1, <2>2
<1>2. ASSUME NEW s \in SUBSET Ranks, s # {}, Others(s) \in T PROVE s \in T
  <2>1. Part(F, s) = F[Pick(s)] + Part(F, Others(s))
    BY <1>0, <1>2, PartIs
  <2>2. Pick(s) \in Ranks /\ Pick(s) \in s
    BY <1>2 DEF Pick
  <2>3. F[Pick(s)] = c
    BY <2>2
  <2>4. IsFiniteSet(s)
    BY RanksAssumption, FS_Subset
  <2>5. Cardinality(Others(s)) = Cardinality(s) - 1 /\ Cardinality(s) \in Nat
    BY <2>2, <2>4, FS_RemoveElement, FS_CardinalityType DEF Others
  <2>6. Part(F, Others(s)) = (Cardinality(s) - 1) * c
    BY <1>2, <2>5
  <2> HIDE DEF F
  <2>7. Part(F, s) = c + (Cardinality(s) - 1) * c
    BY <2>1, <2>3, <2>6
  <2>8. Part(F, s) = Cardinality(s) * c
    BY <2>7, <2>5
  <2> QED
    BY <2>8
<1>3. \A s \in SUBSET Ranks : s \in T
  <2> HIDE DEF T
  <2> QED
    BY <1>1, <1>2, RankInduction
<1> QED
  BY <1>3, SumOverIs DEF N

\* One rank's value alone.
LEMMA SumSingle ==
  ASSUME NEW c \in Nat, NEW root \in Ranks
  PROVE  SumOver([r \in Ranks |-> IF r = root THEN c ELSE 0]) = c
<1> DEFINE F == [r \in Ranks |-> IF r = root THEN c ELSE 0]
           T == {s \in SUBSET Ranks : Part(F, s) = IF root \in s THEN c ELSE 0}
<1>0. F \in [Ranks -> Nat]
  OBVIOUS
<1>1. {} \in T
  <2>1. Part(F, {}) = 0
    BY <1>0, PartIs
  <2> HIDE DEF F
  <2> QED
    BY <2>1
<1>2. ASSUME NEW s \in SUBSET Ranks, s # {}, Others(s) \in T PROVE s \in T
  <2>1. Part(F, s) = F[Pick(s)] + Part(F, Others(s))
    BY <1>0, <1>2, PartIs
  <2>2. Pick(s) \in Ranks /\ Pick(s) \in s
    BY <1>2 DEF Pick
  <2>3. F[Pick(s)] = IF Pick(s) = root THEN c ELSE 0
    BY <2>2
  <2>4. Part(F, Others(s)) = IF root \in Others(s) THEN c ELSE 0
    BY <1>2
  <2> HIDE DEF F
  <2>5. Part(F, s) = IF root \in s THEN c ELSE 0
    BY <2>1, <2>2, <2>3, <2>4 DEF Others
  <2> QED
    BY <2>5
<1>3. \A s \in SUBSET Ranks : s \in T
  <2> HIDE DEF T
  <2> QED
    BY <1>1, <1>2, RankInduction
<1>4. Part(F, Ranks) = c
  <2> HIDE DEF F
  <2> QED
    BY <1>3
<1> QED
  BY <1>4, SumOverIs

\* Sums add up.
LEMMA SumAdds ==
  ASSUME NEW F \in [Ranks -> Nat], NEW G \in [Ranks -> Nat]
  PROVE  SumOver([r \in Ranks |-> F[r] + G[r]]) = SumOver(F) + SumOver(G)
<1> DEFINE H == [r \in Ranks |-> F[r] + G[r]]
           T == {s \in SUBSET Ranks : Part(H, s) = Part(F, s) + Part(G, s)}
<1>0. H \in [Ranks -> Nat]
  OBVIOUS
<1>1. {} \in T
  <2>1. Part(H, {}) = 0 /\ Part(F, {}) = 0 /\ Part(G, {}) = 0
    BY <1>0, PartIs
  <2> HIDE DEF H
  <2> QED
    BY <2>1
<1>2. ASSUME NEW s \in SUBSET Ranks, s # {}, Others(s) \in T PROVE s \in T
  <2>1. /\ Part(H, s) = H[Pick(s)] + Part(H, Others(s))
        /\ Part(F, s) = F[Pick(s)] + Part(F, Others(s))
        /\ Part(G, s) = G[Pick(s)] + Part(G, Others(s))
    BY <1>0, <1>2, PartIs
  <2>2. Pick(s) \in Ranks /\ Others(s) \in SUBSET Ranks
    BY <1>2 DEF Pick, Others
  <2>3. H[Pick(s)] = F[Pick(s)] + G[Pick(s)] /\ F[Pick(s)] \in Nat /\ G[Pick(s)] \in Nat
    BY <2>2
  <2>4. Part(H, Others(s)) = Part(F, Others(s)) + Part(G, Others(s))
    BY <1>2
  <2>5. Part(F, Others(s)) \in Nat /\ Part(G, Others(s)) \in Nat
    BY <2>2, PartType
  <2> HIDE DEF H
  <2>6. Part(H, s) = Part(F, s) + Part(G, s)
    BY <2>1, <2>3, <2>4, <2>5
  <2> QED
    BY <2>6
<1>3. \A s \in SUBSET Ranks : s \in T
  <2> HIDE DEF T
  <2> QED
    BY <1>1, <1>2, RankInduction
<1>4. Part(H, Ranks) = Part(F, Ranks) + Part(G, Ranks)
  <2> HIDE DEF H
  <2> QED
    BY <1>3
<1> QED
  BY <1>4, SumOverIs

\* What all ranks send to all is what all receive.
LEMMA SumsExchange ==
  SumOver([r \in Ranks |-> SumOver([s \in Ranks |-> Bytes[r][s]])])
    = SumOver([r \in Ranks |-> SumOver([s \in Ranks |-> Bytes[s][r]])])
<1> DEFINE Row(r) == [s \in Ranks |-> Bytes[r][s]]
           Column(r) == [s \in Ranks |-> Bytes[s][r]]
           Rows == [r \in Ranks |-> SumOver(Row(r))]
           Partial(s) == [r \in Ranks |-> Part(Column(r), s)]
           T == {s \in SUBSET Ranks : Part(Rows, s) = SumOver(Partial(s))}
<1>0. \A r \in Ranks : Row(r) \in [Ranks -> Nat] /\ Column(r) \in [Ranks -> Nat]
  BY RanksAssumption
<1>a. Rows \in [Ranks -> Nat]
  <2>1. ASSUME NEW r \in Ranks PROVE SumOver(Row(r)) \in Nat
    <3>1. Row(r) \in [Ranks -> Nat]
      BY <1>0
    <3> HIDE DEF Row
    <3> QED
      BY <3>1, PartType, SumOverIs
  <2> HIDE DEF Row
  <2> QED
    BY <2>1
<1>b. ASSUME NEW s \in SUBSET Ranks PROVE Partial(s) \in [Ranks -> Nat]
  <2>1. ASSUME NEW r \in Ranks PROVE Part(Column(r), s) \in Nat
    <3>1. Column(r) \in [Ranks -> Nat]
      BY <1>0
    <3> HIDE DEF Column
    <3> QED
      BY <3>1, PartType
  <2> HIDE DEF Column
  <2> QED
    BY <2>1
<1>1. {} \in T
  <2>1. Part(Rows, {}) = 0
    <3> HIDE DEF Rows
    <3> QED
      BY <1>a, PartIs
  <2>2. ASSUME NEW r \in Ranks PROVE Part(Column(r), {}) = 0
    <3>1. Column(r) \in [Ranks -> Nat]
      BY <1>0
    <3> HIDE DEF Column
    <3> QED
      BY <3>1, PartIs
  <2>3. Partial({}) = [r \in Ranks |-> 0]
    <3> HIDE DEF Column
    <3> QED
      BY <2>2
  <2>4. SumOver([r \in Ranks |-> 0]) = N * 0
    BY SumConstant
  <2>5. N \in Nat
    BY RanksAssumption, FS_CardinalityType DEF N
  <2> HIDE DEF Rows, Partial
  <2>7. N * 0 = 0
    BY <2>5
  <2>6. SumOver(Partial({})) = 0
    BY <2>3, <2>4, <2>7
  <2> QED
    BY <2>1, <2>6
<1>2. ASSUME NEW s \in SUBSET Ranks, s # {}, Others(s) \in T PROVE s \in T
  <2>1. Part(Rows, s) = Rows[Pick(s)] + Part(Rows, Others(s))
    <3> HIDE DEF Rows
    <3> QED
      BY <1>a, <1>2, PartIs
  <2>2. Pick(s) \in Ranks /\ Others(s) \in SUBSET Ranks
    BY <1>2 DEF Pick, Others
  <2>3. PICK q \in Ranks : q = Pick(s)
    BY <2>2
  <2>4. Rows[q] = SumOver(Row(q))
    <3> HIDE DEF Row
    <3> QED
      OBVIOUS
  <2>5. Part(Rows, Others(s)) = SumOver(Partial(Others(s)))
    <3> HIDE DEF Rows, Partial
    <3> QED
      BY <1>2
  <2>6. Row(q) \in [Ranks -> Nat]
    BY <1>0
  <2>7. Partial(Others(s)) \in [Ranks -> Nat]
    BY <1>b, <2>2
  <2>8. Partial(s) = [r \in Ranks |-> Row(q)[r] + Partial(Others(s))[r]]
    <3>1. ASSUME NEW r \in Ranks
          PROVE  Part(Column(r), s) = Row(q)[r] + Partial(Others(s))[r]
      <4>1. Column(r) \in [Ranks -> Nat]
        BY <1>0
      <4>2. Column(r)[q] = Row(q)[r]
        OBVIOUS
      <4>3. Partial(Others(s))[r] = Part(Column(r), Others(s))
        OBVIOUS
      <4> HIDE DEF Column, Row, Partial
      <4>4. Part(Column(r), s) = Column(r)[Pick(s)] + Part(Column(r), Others(s))
        BY <4>1, <1>2, PartIs
      <4> QED
        BY <4>2, <4>3, <4>4, <2>3
    <3>2. Partial(s) = [r \in Ranks |-> Part(Column(r), s)]
      OBVIOUS
    <3> HIDE DEF Column, Row, Partial
    <3> QED
      BY <3>1, <3>2
  <2> HIDE DEF Row, Partial, Rows, Column
  <2>9. SumOver(Partial(s)) = SumOver(Row(q)) + SumOver(Partial(Others(s)))
    BY <2>6, <2>7, <2>8, SumAdds
  <2>10. Part(Rows, s) = SumOver(Partial(s))
    BY <2>1, <2>3, <2>4, <2>5, <2>9
  <2> QED
    BY <2>10 DEF T
<1>3. \A s \in SUBSET Ranks : s \in T
  <2> HIDE DEF T
  <2> QED
    BY <1>1, <1>2, RankInduction
<1>4. Part(Rows, Ranks) = SumOver(Partial(Ranks))
  <2> HIDE DEF Rows, Partial
  <2> QED
    BY <1>3
<1>5. Partial(Ranks) = [r \in Ranks |-> SumOver(Column(r))]
  <2> HIDE DEF Column
  <2> QED
    BY SumOverIs
<1>6. Part(Rows, Ranks) = SumOver(Rows)
  BY SumOverIs
<1> QED
  BY <1>4, <1>5, <1>6

\* What has been recorded of a call by all ranks, b[r] by rank r, fits together.
Agreed(op, b) ==
  LET sent == SumOver([r \in Ranks |-> b[r].sent])
      recvd == SumOver([r \in Ranks |-> b[r].recvd]) IN
  /\ \A r, s \in Ranks : b[r].root = b[s].root
  /\ CASE op \in {"MPI_Bcast", "MPI_Allgather", "MPI_Allgatherv"} ->
            \A r \in Ranks : b[r].recvd = sent
       [] op \in {"MPI_Reduce", "MPI_Reduce_scatter"} -> \A r \in Ranks : b[r].sent = recvd
       [] OTHER -> sent = recvd

\* What the wrappers tell vt_mpi_collbegin of one call fits together, whatever
\* the counts of the ranks are.
LEMMA CollbeginAgree ==
  ASSUME NEW c \in Calls, NEW b, \A r \in Ranks : b[r] = vt_mpi_collbegin(r, c)
  PROVE  Agreed(c.op, b)
<1> DEFINE sent == [r \in Ranks |-> b[r].sent]
           recvd == [r \in Ranks |-> b[r].recvd]
<1> SUFFICES /\ \A r, s \in Ranks : b[r].root = b[s].root
             /\ CASE c.op \in {"MPI_Bcast", "MPI_Allgather", "MPI_Allgatherv"} ->
                       \A r \in Ranks : b[r].recvd = SumOver(sent)
                  [] c.op \in {"MPI_Reduce", "MPI_Reduce_scatter"} ->
                       \A r \in Ranks : b[r].sent = SumOver(recvd)
                  [] OTHER -> SumOver(sent) = SumOver(recvd)
  BY DEF Agreed
<1>a. Count \in Nat /\ N \in Nat /\ N * Count \in Nat /\ Blocks \in Nat
  <2>1. Count \in Nat /\ N \in Nat
    BY RanksAssumption, FS_CardinalityType DEF N
  <2>2. [r \in Ranks |-> Block(r)] \in [Ranks -> Nat]
    BY RanksAssumption DEF Block
  <2>3. Blocks \in Nat
    BY <2>2, PartType, SumOverIs DEF Blocks
  <2> QED
    BY <2>1, <2>3
<1>b. \/ c.op \in Rooted /\ c.root \in Ranks
      \/ c.op \in Rootless
  BY DEF Calls
<1>1. CASE c.op = "MPI_Allreduce"
  <2>1. ASSUME NEW r \in Ranks
        PROVE  /\ b[r].root = NoRoot
               /\ b[r].sent = Count
               /\ b[r].recvd = Count
    <3>1. vt_mpi_collbegin(r, c) = MPI_Allreduce(r)
      BY <1>1 DEF vt_mpi_collbegin
    <3>2. b[r] = MPI_Allreduce(r)
      BY <3>1
    <3> QED
      BY <3>2 DEF MPI_Allreduce, Begin
  <2>2. sent = [r \in Ranks |-> Count]
    BY <2>1
  <2>3. recvd = [r \in Ranks |-> Count]
    BY <2>1
  <2> HIDE DEF sent, recvd
  <2>5. SumOver(sent) = SumOver(recvd)
    BY <2>2, <2>3
  <2> QED
    BY <1>1, <2>1, <2>5
<1>2. CASE c.op = "MPI_Barrier"
  <2>1. ASSUME NEW r \in Ranks
        PROVE  /\ b[r].root = NoRoot
               /\ b[r].sent = 0
               /\ b[r].recvd = 0
    <3>1. vt_mpi_collbegin(r, c) = MPI_Barrier(r)
      BY <1>2 DEF vt_mpi_collbegin
    <3>2. b[r] = MPI_Barrier(r)
      BY <3>1
    <3> QED
      BY <3>2 DEF MPI_Barrier, Begin
  <2>2. sent = [r \in Ranks |-> 0]
    BY <2>1
  <2>3. recvd = [r \in Ranks |-> 0]
    BY <2>1
  <2> HIDE DEF sent, recvd
  <2>5. SumOver(sent) = SumOver(recvd)
    BY <2>2, <2>3
  <2> QED
    BY <1>2, <2>1, <2>5
<1>3. CASE c.op = "MPI_Bcast"
  <2>1. ASSUME NEW r \in Ranks
        PROVE  /\ b[r].root = c.root
               /\ b[r].sent = IF r = c.root THEN Count ELSE 0
               /\ b[r].recvd = Count
    <3>1. vt_mpi_collbegin(r, c) = MPI_Bcast(r, c.root)
      BY <1>3 DEF vt_mpi_collbegin
    <3>2. b[r] = MPI_Bcast(r, c.root)
      BY <3>1
    <3> QED
      BY <3>2 DEF MPI_Bcast, Begin
  <2>2. sent = [r \in Ranks |-> IF r = c.root THEN Count ELSE 0]
    BY <2>1
  <2>3. recvd = [r \in Ranks |-> Count]
    BY <2>1
  <2>4. c.root \in Ranks
    BY <1>3, <1>b DEF Rooted, Rootless
  <2> HIDE DEF sent, recvd
  <2>5. SumOver(sent) = Count
    BY <2>2, <1>a, <2>4, SumSingle
  <2> QED
    BY <1>3, <2>1, <2>5
<1>4. CASE c.op = "MPI_Gather"
  <2>1. ASSUME NEW r \in Ranks
        PROVE  /\ b[r].root = c.root
               /\ b[r].sent = Count
               /\ b[r].recvd = IF r = c.root THEN N * Count ELSE 0
    <3>1. vt_mpi_collbegin(r, c) = MPI_Gather(r, c.root)
      BY <1>4 DEF vt_mpi_collbegin
    <3>2. b[r] = MPI_Gather(r, c.root)
      BY <3>1
    <3> QED
      BY <3>2 DEF MPI_Gather, Begin
  <2>2. sent = [r \in Ranks |-> Count]
    BY <2>1
  <2>3. recvd = [r \in Ranks |-> IF r = c.root THEN N * Count ELSE 0]
    BY <2>1
  <2>4. c.root \in Ranks
    BY <1>4, <1>b DEF Rooted, Rootless
  <2> HIDE DEF sent, recvd
  <2>5. SumOver(sent) = N * Count
    BY <2>2, <1>a, SumConstant
  <2>6. SumOver(recvd) = N * Count
    BY <2>3, <1>a, <2>4, SumSingle
  <2> QED
    BY <1>4, <2>1, <2>5, <2>6
<1>5. CASE c.op = "MPI_Reduce"
  <2>1. ASSUME NEW r \in Ranks
        PROVE  /\ b[r].root = c.root
               /\ b[r].sent = Count
               /\ b[r].recvd = IF r = c.root THEN Count ELSE 0
    <3>1. vt_mpi_collbegin(r, c) = MPI_Reduce(r, c.root)
      BY <1>5 DEF vt_mpi_collbegin
    <3>2. b[r] = MPI_Reduce(r, c.root)
      BY <3>1
    <3> QED
      BY <3>2 DEF MPI_Reduce, Begin
  <2>2. sent = [r \in Ranks |-> Count]
    BY <2>1
  <2>3. recvd = [r \in Ranks |-> IF r = c.root THEN Count ELSE 0]
    BY <2>1
  <2>4. c.root \in Ranks
    BY <1>5, <1>b DEF Rooted, Rootless
  <2> HIDE DEF sent, recvd
  <2>5. SumOver(recvd) = Count
    BY <2>3, <1>a, <2>4, SumSingle
  <2> QED
    BY <1>5, <2>1, <2>5
<1>6. CASE c.op = "MPI_Gatherv"
  <2>1. ASSUME NEW r \in Ranks
        PROVE  /\ b[r].root = c.root
               /\ b[r].sent = Block(r)
               /\ b[r].recvd = IF r = c.root THEN Blocks ELSE 0
    <3>1. vt_mpi_collbegin(r, c) = MPI_Gatherv(r, c.root)
      BY <1>6 DEF vt_mpi_collbegin
    <3>2. b[r] = MPI_Gatherv(r, c.root)
      BY <3>1
    <3> QED
      BY <3>2 DEF MPI_Gatherv, Begin
  <2>2. sent = [r \in Ranks |-> Block(r)]
    BY <2>1
  <2>3. recvd = [r \in Ranks |-> IF r = c.root THEN Blocks ELSE 0]
    BY <2>1
  <2>4. c.root \in Ranks
    BY <1>6, <1>b DEF Rooted, Rootless
  <2> HIDE DEF sent, recvd
  <2>5. SumOver(sent) = Blocks
    BY <2>2 DEF Blocks
  <2>6. SumOver(recvd) = Blocks
    BY <2>3, <1>a, <2>4, SumSingle
  <2> QED
    BY <1>6, <2>1, <2>5, <2>6
<1>7. CASE c.op = "MPI_Allgather"
  <2>1. ASSUME NEW r \in Ranks
        PROVE  /\ b[r].root = NoRoot
               /\ b[r].sent = Count
               /\ b[r].recvd = N * Count
    <3>1. vt_mpi_collbegin(r, c) = MPI_Allgather(r)
      BY <1>7 DEF vt_mpi_collbegin
    <3>2. b[r] = MPI_Allgather(r)
      BY <3>1
    <3> QED
      BY <3>2 DEF MPI_Allgather, Begin
  <2>2. sent = [r \in Ranks |-> Count]
    BY <2>1
  <2>3. recvd = [r \in Ranks |-> N * Count]
    BY <2>1
  <2> HIDE DEF sent, recvd
  <2>5. SumOver(sent) = N * Count
    BY <2>2, <1>a, SumConstant
  <2> QED
    BY <1>7, <2>1, <2>5
<1>8. CASE c.op = "MPI_Allgatherv"
  <2>1. ASSUME NEW r \in Ranks
        PROVE  /\ b[r].root = NoRoot
               /\ b[r].sent = Block(r)
               /\ b[r].recvd = Blocks
    <3>1. vt_mpi_collbegin(r, c) = MPI_Allgatherv(r)
      BY <1>8 DEF vt_mpi_collbegin
    <3>2. b[r] = MPI_Allgatherv(r)
      BY <3>1
    <3> QED
      BY <3>2 DEF MPI_Allgatherv, Begin
  <2>2. sent = [r \in Ranks |-> Block(r)]
    BY <2>1
  <2>3. recvd = [r \in Ranks |-> Blocks]
    BY <2>1
  <2> HIDE DEF sent, recvd
  <2>5. SumOver(sent) = Blocks
    BY <2>2 DEF Blocks
  <2> QED
    BY <1>8, <2>1, <2>5
<1>9. CASE c.op = "MPI_Alltoall"
  <2>1. ASSUME NEW r \in Ranks
        PROVE  /\ b[r].root = NoRoot
               /\ b[r].sent = Count * N
               /\ b[r].recvd = Count * N
    <3>1. vt_mpi_collbegin(r, c) = MPI_Alltoall(r)
      BY <1>9 DEF vt_mpi_collbegin
    <3>2. b[r] = MPI_Alltoall(r)
      BY <3>1
    <3> QED
      BY <3>2 DEF MPI_Alltoall, Begin
  <2>2. sent = [r \in Ranks |-> Count * N]
    BY <2>1
  <2>3. recvd = [r \in Ranks |-> Count * N]
    BY <2>1
  <2> HIDE DEF sent, recvd
  <2>5. SumOver(sent) = SumOver(recvd)
    BY <2>2, <2>3
  <2> QED
    BY <1>9, <2>1, <2>5
<1>10. CASE c.op = "MPI_Alltoallv"
  <2>1. ASSUME NEW r \in Ranks
        PROVE  /\ b[r].root = NoRoot
               /\ b[r].sent = SumOver([s \in Ranks |-> Bytes[r][s]])
               /\ b[r].recvd = SumOver([s \in Ranks |-> Bytes[s][r]])
    <3>1. vt_mpi_collbegin(r, c) = MPI_Alltoallv(r)
      BY <1>10 DEF vt_mpi_collbegin
    <3>2. b[r] = MPI_Alltoallv(r)
      BY <3>1
    <3> QED
      BY <3>2 DEF MPI_Alltoallv, Begin
  <2>2. sent = [r \in Ranks |-> SumOver([s \in Ranks |-> Bytes[r][s]])]
    BY <2>1
  <2>3. recvd = [r \in Ranks |-> SumOver([s \in Ranks |-> Bytes[s][r]])]
    BY <2>1
  <2> HIDE DEF sent, recvd
  <2>5. SumOver(sent) = SumOver(recvd)
    BY <2>2, <2>3, SumsExchange
  <2> QED
    BY <1>10, <2>1, <2>5
<1>11. CASE c.op = "MPI_Scan"
  <2>1. ASSUME NEW r \in Ranks
        PROVE  /\ b[r].root = NoRoot
               /\ b[r].sent = Count
               /\ b[r].recvd = Count
    <3>1. vt_mpi_collbegin(r, c) = MPI_Scan(r)
      BY <1>11 DEF vt_mpi_collbegin
    <3>2. b[r] = MPI_Scan(r)
      BY <3>1
    <3> QED
      BY <3>2 DEF MPI_Scan, Begin
  <2>2. sent = [r \in Ranks |-> Count]
    BY <2>1
  <2>3. recvd = [r \in Ranks |-> Count]
    BY <2>1
  <2> HIDE DEF sent, recvd
  <2>5. SumOver(sent) = SumOver(recvd)
    BY <2>2, <2>3
  <2> QED
    BY <1>11, <2>1, <2>5
<1>12. CASE c.op = "MPI_Scatter"
  <2>1. ASSUME NEW r \in Ranks
        PROVE  /\ b[r].root = c.root
               /\ b[r].sent = IF r = c.root THEN N * Count ELSE 0
               /\ b[r].recvd = Count
    <3>1. vt_mpi_collbegin(r, c) = MPI_Scatter(r, c.root)
      BY <1>12 DEF vt_mpi_collbegin
    <3>2. b[r] = MPI_Scatter(r, c.root)
      BY <3>1
    <3> QED
      BY <3>2 DEF MPI_Scatter, Begin
  <2>2. sent = [r \in Ranks |-> IF r = c.root THEN N * Count ELSE 0]
    BY <2>1
  <2>3. recvd = [r \in Ranks |-> Count]
    BY <2>1
  <2>4. c.root \in Ranks
    BY <1>12, <1>b DEF Rooted, Rootless
  <2> HIDE DEF sent, recvd
  <2>5. SumOver(sent) = N * Count
    BY <2>2, <1>a, <2>4, SumSingle
  <2>6. SumOver(recvd) = N * Count
    BY <2>3, <1>a, SumConstant
  <2> QED
    BY <1>12, <2>1, <2>5, <2>6
<1>13. CASE c.op = "MPI_Scatterv"
  <2>1. ASSUME NEW r \in Ranks
        PROVE  /\ b[r].root = c.root
               /\ b[r].sent = IF r = c.root THEN Blocks ELSE 0
               /\ b[r].recvd = Block(r)
    <3>1. vt_mpi_collbegin(r, c) = MPI_Scatterv(r, c.root)
      BY <1>13 DEF vt_mpi_collbegin
    <3>2. b[r] = MPI_Scatterv(r, c.root)
      BY <3>1
    <3> QED
      BY <3>2 DEF MPI_Scatterv, Begin
  <2>2. sent = [r \in Ranks |-> IF r = c.root THEN Blocks ELSE 0]
    BY <2>1
  <2>3. recvd = [r \in Ranks |-> Block(r)]
    BY <2>1
  <2>4. c.root \in Ranks
    BY <1>13, <1>b DEF Rooted, Rootless
  <2> HIDE DEF sent, recvd
  <2>5. SumOver(sent) = Blocks
    BY <2>2, <1>a, <2>4, SumSingle
  <2>6. SumOver(recvd) = Blocks
    BY <2>3 DEF Blocks
  <2> QED
    BY <1>13, <2>1, <2>5, <2>6
<1>14. CASE c.op = "MPI_Reduce_scatter"
  <2>1. ASSUME NEW r \in Ranks
        PROVE  /\ b[r].root = NoRoot
               /\ b[r].sent = Blocks
               /\ b[r].recvd = Block(r)
    <3>1. vt_mpi_collbegin(r, c) = MPI_Reduce_scatter(r)
      BY <1>14 DEF vt_mpi_collbegin
    <3>2. b[r] = MPI_Reduce_scatter(r)
      BY <3>1
    <3> QED
      BY <3>2 DEF MPI_Reduce_scatter, Begin
  <2>2. sent = [r \in Ranks |-> Blocks]
    BY <2>1
  <2>3. recvd = [r \in Ranks |-> Block(r)]
    BY <2>1
  <2> HIDE DEF sent, recvd
  <2>5. SumOver(recvd) = Blocks
    BY <2>3 DEF Blocks
  <2> QED
    BY <1>14, <2>1, <2>5
<1>15. CASE c.op = "MPI_Alltoallw"
  <2>1. ASSUME NEW r \in Ranks
        PROVE  /\ b[r].root = NoRoot
               /\ b[r].sent = SumOver([s \in Ranks |-> Bytes[r][s]])
               /\ b[r].recvd = SumOver([s \in Ranks |-> Bytes[s][r]])
    <3>1. vt_mpi_collbegin(r, c) = MPI_Alltoallw(r)
      BY <1>15 DEF vt_mpi_collbegin
    <3>2. b[r] = MPI_Alltoallw(r)
      BY <3>1
    <3> QED
      BY <3>2 DEF MPI_Alltoallw, Begin, MPI_Alltoallv
  <2>2. sent = [r \in Ranks |-> SumOver([s \in Ranks |-> Bytes[r][s]])]
    BY <2>1
  <2>3. recvd = [r \in Ranks |-> SumOver([s \in Ranks |-> Bytes[s][r]])]
    BY <2>1
  <2> HIDE DEF sent, recvd
  <2>5. SumOver(sent) = SumOver(recvd)
    BY <2>2, <2>3, SumsExchange
  <2> QED
    BY <1>15, <2>1, <2>5
<1>16. CASE c.op = "MPI_Exscan"
  <2>1. ASSUME NEW r \in Ranks
        PROVE  /\ b[r].root = NoRoot
               /\ b[r].sent = Count
               /\ b[r].recvd = Count
    <3>1. vt_mpi_collbegin(r, c) = MPI_Exscan(r)
      BY <1>16 DEF vt_mpi_collbegin
    <3>2. b[r] = MPI_Exscan(r)
      BY <3>1
    <3> QED
      BY <3>2 DEF MPI_Exscan, Begin
  <2>2. sent = [r \in Ranks |-> Count]
    BY <2>1
  <2>3. recvd = [r \in Ranks |-> Count]
    BY <2>1
  <2> HIDE DEF sent, recvd
  <2>5. SumOver(sent) = SumOver(recvd)
    BY <2>2, <2>3
  <2> QED
    BY <1>16, <2>1, <2>5
<1> QED
  <2>1. \/ c.op = "MPI_Allreduce"
        \/ c.op = "MPI_Barrier"
        \/ c.op = "MPI_Bcast"
        \/ c.op = "MPI_Gather"
        \/ c.op = "MPI_Reduce"
        \/ c.op = "MPI_Gatherv"
        \/ c.op = "MPI_Allgather"
        \/ c.op = "MPI_Allgatherv"
        \/ c.op = "MPI_Alltoall"
        \/ c.op = "MPI_Alltoallv"
        \/ c.op = "MPI_Scan"
        \/ c.op = "MPI_Scatter"
        \/ c.op = "MPI_Scatterv"
        \/ c.op = "MPI_Reduce_scatter"
        \/ c.op = "MPI_Alltoallw"
        \/ c.op = "MPI_Exscan"
    BY <1>b DEF Rooted, Rootless
  <2> QED
    BY <2>1, <1>1, <1>2, <1>3, <1>4, <1>5, <1>6, <1>7, <1>8, <1>9, <1>10, <1>11, <1>12, <1>13, <1>14, <1>15, <1>16, Zenon

------------------------------------------------------------------------------
(* Types. *)

\* Buffers as they may be: one that still records can still be flushed.
Bufs ==
  {b \in [fill : 0 .. Capacity, left : 0 .. MaxFlushes, on : BOOLEAN] :
     b.on /\ MaxFlushes # 0 => b.left > 0}

Begun == [root : Ranks \cup {NoRoot}, sent : Nat, recvd : Nat]
Posts == [op : Ops, mask : SUBSET {"flush", "time"}, begun : Seq(Begun)]

\* Where a rank is says how far it is with its calls and its operations.
Stage(r) ==
  /\ pc[r] \in {"init", "initsync"} => calls[r] = 0
  /\ pc[r] = "init" => buf[r].left = MaxFlushes
  /\ pc[r] \in {"coll", "reduce", "sync"} => calls[r] < Len(env.Program)
  /\ pc[r] \in {"init", "app", "coll", "reduce", "done"} => todo[r] = << >>
  /\ pc[r] \in {"finalize", "done"} => calls[r] = Len(env.Program)

TypeInv ==
  /\ TypeOK
  /\ buf \in [Ranks -> Bufs]
  /\ \A r \in Ranks : Stage(r)

\* VTGen_flush leaves a buffer.
LEMMA FlushType ==
  ASSUME NEW b \in Bufs
  PROVE  Flush(b) \in Bufs
<1>1. MaxFlushes \in Nat /\ Capacity \in Nat
  BY SyncAssumption
<1>2. /\ b.fill \in 0 .. Capacity /\ b.left \in 0 .. MaxFlushes /\ b.on \in BOOLEAN
      /\ b.on /\ MaxFlushes # 0 => b.left > 0
  BY DEF Bufs
<1>3. CASE b.left = 0 /\ MaxFlushes # 0
  BY <1>3 DEF Flush
<1>4. CASE MaxFlushes = 0
  <2>1. Flush(b) = [fill |-> 0, left |-> 0, on |-> b.on]
    BY <1>2, <1>4 DEF Flush
  <2> QED
    BY <1>1, <1>2, <1>4, <2>1 DEF Bufs
<1>5. CASE b.left # 0 /\ MaxFlushes # 0
  <2>1. Flush(b) = [fill |-> 0, left |-> b.left - 1, on |-> b.on /\ b.left - 1 > 0]
    BY <1>2, <1>5 DEF Flush
  <2>2. b.left - 1 \in 0 .. MaxFlushes
    BY <1>1, <1>2, <1>5
  <2>3. (b.on /\ b.left - 1 > 0) \in BOOLEAN /\ 0 \in 0 .. Capacity
    BY <1>1
  <2>4. Flush(b) \in [fill : 0 .. Capacity, left : 0 .. MaxFlushes, on : BOOLEAN]
    BY <2>1, <2>2, <2>3
  <2>5. Flush(b).left = b.left - 1 /\ Flush(b).on = (b.on /\ b.left - 1 > 0)
    BY <2>1
  <2>6. Flush(b).on => Flush(b).left > 0
    <3> HIDE <2>1
    <3> QED
      BY <2>5
  <2> QED
    BY <2>4, <2>6 DEF Bufs
<1> QED
  BY <1>3, <1>4, <1>5

\* An event goes into a buffer that has room for it.
LEMMA RecordType ==
  ASSUME NEW b \in Bufs
  PROVE  Record(b) \in Bufs
<1> DEFINE f == IF b.fill = Capacity THEN Flush(b) ELSE b
<1>1. MaxFlushes \in Nat /\ Capacity \in Nat \ {0}
  BY SyncAssumption
<1>2. f \in Bufs
  BY FlushType
<1>3. b.on /\ f.on => f.fill < Capacity
  <2>1. CASE b.fill = Capacity
    <3>1. f = Flush(b)
      BY <2>1
    <3>2. CASE b.left = 0 /\ MaxFlushes # 0
      <4>1. ~b.on
        BY <3>2 DEF Bufs
      <4> QED
        BY <4>1
    <3>3. CASE ~(b.left = 0 /\ MaxFlushes # 0)
      <4>1. Flush(b).fill = 0
        BY <3>3 DEF Flush
      <4> QED
        BY <4>1, <3>1, <1>1
    <3> QED
      BY <3>2, <3>3
  <2>2. CASE b.fill # Capacity
    <3>1. b.fill \in 0 .. Capacity
      BY DEF Bufs
    <3> QED
      BY <2>2, <3>1, <1>1
  <2> QED
    BY <2>1, <2>2
<1>4. Record(b) = IF b.on /\ f.on THEN [f EXCEPT !.fill = @ + 1] ELSE f
  BY DEF Record
<1> HIDE DEF f
<1>5. CASE b.on /\ f.on
  <2>1. Record(b) = [f EXCEPT !.fill = @ + 1]
    BY <1>4, <1>5
  <2>2. /\ f.fill \in 0 .. Capacity /\ f.left \in 0 .. MaxFlushes /\ f.on \in BOOLEAN
        /\ f.on /\ MaxFlushes # 0 => f.left > 0
    BY <1>2 DEF Bufs
  <2>3. f.fill + 1 \in 0 .. Capacity
    BY <1>1, <1>3, <1>5, <2>2
  <2>4. f \in [fill : 0 .. Capacity, left : 0 .. MaxFlushes, on : BOOLEAN]
    BY <1>2 DEF Bufs
  <2>5. /\ Record(b).fill = f.fill + 1 /\ Record(b).left = f.left /\ Record(b).on = f.on
        /\ Record(b) \in [fill : 0 .. Capacity, left : 0 .. MaxFlushes, on : BOOLEAN]
    BY <2>1, <2>3, <2>4
  <2> QED
    BY <2>2, <2>5 DEF Bufs
<1>6. CASE ~(b.on /\ f.on)
  BY <1>2, <1>4, <1>6
<1> QED
  BY <1>5, <1>6

\* What vt_mpi_collbegin is told is a root and two numbers of bytes.
LEMMA CollbeginType ==
  ASSUME NEW r \in Ranks, NEW c \in Calls
  PROVE  vt_mpi_collbegin(r, c) \in Begun
<1>1. Count \in Nat /\ N \in Nat /\ N * Count \in Nat /\ Count * N \in Nat /\ Blocks \in Nat
  <2>1. Count \in Nat /\ N \in Nat
    BY RanksAssumption, FS_CardinalityType DEF N
  <2>2. [s \in Ranks |-> Block(s)] \in [Ranks -> Nat]
    BY RanksAssumption DEF Block
  <2>3. Blocks \in Nat
    BY <2>2, PartType, SumOverIs DEF Blocks
  <2> QED
    BY <2>1, <2>3
<1>2. Block(r) \in Nat
  BY RanksAssumption DEF Block
<1>3. SumOver([s \in Ranks |-> Bytes[r][s]]) \in Nat /\ SumOver([s \in Ranks |-> Bytes[s][r]]) \in Nat
  <2>1. [s \in Ranks |-> Bytes[r][s]] \in [Ranks -> Nat]
    BY RanksAssumption
  <2>2. [s \in Ranks |-> Bytes[s][r]] \in [Ranks -> Nat]
    BY RanksAssumption
  <2> QED
    BY <2>1, <2>2, PartType, SumOverIs
<1>4. MPI_Alltoallv(r) \in Begun
  BY <1>3 DEF MPI_Alltoallv, Begin, Begun
<1>5. CASE c.op \in Rooted
  <2>1. c.root \in Ranks
    BY <1>5 DEF Calls, Rooted, Rootless
  <2> QED
    BY <1>1, <1>2, <1>5, <2>1
    DEF Rooted, vt_mpi_collbegin, Begin, Begun, MPI_Bcast, MPI_Gather, MPI_Gatherv, MPI_Reduce,
        MPI_Scatter, MPI_Scatterv
<1>6. CASE c.op \in Rootless
  BY <1>1, <1>2, <1>4, <1>6
  DEF Rootless, vt_mpi_collbegin, Begin, Begun, MPI_Allgather, MPI_Allgatherv, MPI_Allreduce,
      MPI_Alltoall, MPI_Alltoallw, MPI_Barrier, MPI_Exscan, MPI_Reduce_scatter, MPI_Scan
<1> QED
  BY <1>5, <1>6 DEF Calls

\* The operations of a synchronisation.
LEMMA OpsType ==
  /\ InitOps \in Seq(Ops) /\ FinOps \in Seq(Ops)
  /\ \A mask : MaskOps(mask) \in Seq(Ops)
<1>1. "allreduce" \in Ops /\ "barrier" \in Ops /\ "bcast" \in Ops /\ "split" \in Ops
  BY DEF Ops
<1>2. Esync \in Seq(Ops) /\ Sync \in Seq(Ops) /\ <<"barrier">> \in Seq(Ops) /\ << >> \in Seq(Ops)
  BY <1>1 DEF Esync, Sync
<1>3. TimeSync \in Seq(Ops)
  BY <1>2 DEF TimeSync
<1>4. <<"bcast">> \in Seq(Ops) /\ <<"split">> \in Seq(Ops)
  BY <1>1
<1> HIDE <1>1
<1>5. FinOps \in Seq(Ops)
  BY <1>2, <1>3 DEF FinOps
<1>6. InitOps \in Seq(Ops)
  BY <1>2, <1>3, <1>4 DEF InitOps
<1> QED
  BY <1>2, <1>5, <1>6 DEF MaskOps

\* The type invariant in the next state, from the variables' types.
LEMMA TypesFrom ==
  ASSUME TypeInv, env' = env,
         pc' \in [Ranks -> {"init", "initsync", "app", "coll", "reduce", "sync",
                            "finalize", "done"}],
         calls' \in [Ranks -> 0 .. Len(env.Program)],
         buf' \in [Ranks -> Bufs],
         recorded' \in [Ranks -> BOOLEAN],
         todo' \in [Ranks -> Seq(Ops)],
         posted' \in [Ranks -> Seq(Posts)],
         synced' \in [Ranks -> SUBSET (1 .. Len(env.Program))],
         flushed' \in [Ranks -> SUBSET (1 .. Len(env.Program))],
         \A s \in Ranks : Stage(s)'
  PROVE  TypeInv'
<1>1. env' \in Settings
  BY DEF TypeInv, TypeOK
<1>2. buf' \in [Ranks -> [fill : 0 .. Capacity, left : 0 .. MaxFlushes, on : BOOLEAN]]
  <2>1. Bufs \subseteq [fill : 0 .. Capacity, left : 0 .. MaxFlushes, on : BOOLEAN]
    BY DEF Bufs
  <2> QED
    BY <2>1
<1>3. TypeOK'
  BY <1>1, <1>2 DEF TypeOK, Posts, Begun
<1> QED
  BY <1>3 DEF TypeInv

\* The program of a run is one of calls.
LEMMA ProgramType ==
  ASSUME TypeInv
  PROVE  env.Program \in Seq(Calls) /\ Len(env.Program) \in Nat
BY SyncAssumption DEF TypeInv, TypeOK

\* Appending an operation keeps the operations typed.
LEMMA PostType ==
  ASSUME NEW r \in Ranks, posted \in [Ranks -> Seq(Posts)],
         NEW op \in Ops, NEW mask \in SUBSET {"flush", "time"}, NEW begun \in Seq(Begun),
         PostCall(r, op, mask, begun)
  PROVE  posted' \in [Ranks -> Seq(Posts)]
<1> DEFINE e == [op |-> op, mask |-> mask, begun |-> begun]
<1>1. e \in Posts
  BY DEF Posts
<1>2. posted' = [posted EXCEPT ![r] = Append(@, e)]
  BY DEF PostCall
<1> HIDE DEF e
<1> QED
  BY <1>1, <1>2

\* MPI_Init types: the buffer of a disabled rank is one, too.
LEMMA InitTypes ==
  ASSUME TypeInv, NEW r \in Ranks, vt_mpi_init(r)
  PROVE  TypeInv'
<1>1. TypeOK /\ buf \in [Ranks -> Bufs] /\ \A s \in Ranks : Stage(s)
  BY DEF TypeInv
<1>2. env' = env
  BY DEF vt_mpi_init
<1>3. pc' \in [Ranks -> {"init", "initsync", "app", "coll", "reduce", "sync",
                            "finalize", "done"}]
  BY <1>1 DEF TypeOK, vt_mpi_init, Goto
<1>4. calls' \in [Ranks -> 0 .. Len(env.Program)]
  BY <1>1 DEF TypeOK, vt_mpi_init
<1>5. buf' \in [Ranks -> Bufs]
  <2>1. PICK b : b = [buf[r] EXCEPT !.on = r \notin env.Disabled]
    OBVIOUS
  <2>2. buf[r] \in Bufs /\ buf[r].left = MaxFlushes
    BY <1>1 DEF Stage, vt_mpi_init
  <2>3. MaxFlushes \in Nat
    BY SyncAssumption
  <2>4. b \in [fill : 0 .. Capacity, left : 0 .. MaxFlushes, on : BOOLEAN] /\ b.left = MaxFlushes
    BY <2>1, <2>2 DEF Bufs
  <2>5. b \in Bufs
    BY <2>3, <2>4 DEF Bufs
  <2>6. buf' = [buf EXCEPT ![r] = Record(b)]
    BY <2>1 DEF vt_mpi_init
  <2> QED
    BY <1>1, <2>5, <2>6, RecordType
<1>6. recorded' \in [Ranks -> BOOLEAN]
  BY <1>1 DEF TypeOK, vt_mpi_init
<1>7. todo' \in [Ranks -> Seq(Ops)]
  <2>1. todo' = [todo EXCEPT ![r] = InitOps]
    BY DEF vt_mpi_init, WillDo, InitOps
  <2> QED
    BY <1>1, <2>1, OpsType DEF TypeOK
<1>8. posted' \in [Ranks -> Seq(Posts)]
  BY <1>1 DEF TypeOK, Posts, Begun, vt_mpi_init
<1>9. /\ synced' \in [Ranks -> SUBSET (1 .. Len(env.Program))]
      /\ flushed' \in [Ranks -> SUBSET (1 .. Len(env.Program))]
  BY <1>1 DEF TypeOK, vt_mpi_init
<1>10. ASSUME NEW s \in Ranks PROVE Stage(s)'
  BY <1>1, <1>2, <1>3, <1>5 DEF Stage, TypeOK, Active, Call, Here, Through, Goto, WillDo, vt_mpi_init
<1> QED
  BY <1>1, <1>2, <1>3, <1>4, <1>5, <1>6, <1>7, <1>8, <1>9, <1>10, TypesFrom

\* The end of MPI_Init.
LEMMA StartedTypes ==
  ASSUME TypeInv, NEW r \in Ranks, Started(r)
  PROVE  TypeInv'
<1>1. TypeOK /\ buf \in [Ranks -> Bufs] /\ \A s \in Ranks : Stage(s)
  BY DEF TypeInv
<1>2. env' = env
  BY DEF Started
<1>3. pc' \in [Ranks -> {"init", "initsync", "app", "coll", "reduce", "sync",
                            "finalize", "done"}]
  BY <1>1 DEF TypeOK, Started, Goto
<1>4. calls' \in [Ranks -> 0 .. Len(env.Program)]
  BY <1>1 DEF TypeOK, Started
<1>5. buf' \in [Ranks -> Bufs]
  BY <1>1 DEF Started
<1>6. recorded' \in [Ranks -> BOOLEAN]
  BY <1>1 DEF TypeOK, Started
<1>7. todo' \in [Ranks -> Seq(Ops)]
  BY <1>1 DEF TypeOK, Started
<1>8. posted' \in [Ranks -> Seq(Posts)]
  BY <1>1 DEF TypeOK, Posts, Begun, Started
<1>9. /\ synced' \in [Ranks -> SUBSET (1 .. Len(env.Program))]
      /\ flushed' \in [Ranks -> SUBSET (1 .. Len(env.Program))]
  BY <1>1 DEF TypeOK, Started
<1>10. ASSUME NEW s \in Ranks PROVE Stage(s)'
  BY <1>1, <1>2, <1>3, <1>5 DEF Stage, TypeOK, Active, Call, Here, Through, Goto, WillDo, Started
<1> QED
  BY <1>1, <1>2, <1>3, <1>4, <1>5, <1>6, <1>7, <1>8, <1>9, <1>10, TypesFrom

\* An event between the collective calls.
LEMMA ComputeTypes ==
  ASSUME TypeInv, NEW r \in Ranks, Compute(r)
  PROVE  TypeInv'
<1>1. TypeOK /\ buf \in [Ranks -> Bufs] /\ \A s \in Ranks : Stage(s)
  BY DEF TypeInv
<1>2. env' = env
  BY DEF Compute
<1>3. pc' \in [Ranks -> {"init", "initsync", "app", "coll", "reduce", "sync",
                            "finalize", "done"}]
  BY <1>1 DEF TypeOK, Compute
<1>4. calls' \in [Ranks -> 0 .. Len(env.Program)]
  BY <1>1 DEF TypeOK, Compute
<1>5. buf' \in [Ranks -> Bufs]
  BY <1>1, RecordType DEF Compute
<1>6. recorded' \in [Ranks -> BOOLEAN]
  BY <1>1 DEF TypeOK, Compute
<1>7. todo' \in [Ranks -> Seq(Ops)]
  BY <1>1 DEF TypeOK, Compute
<1>8. posted' \in [Ranks -> Seq(Posts)]
  BY <1>1 DEF TypeOK, Posts, Begun, Compute
<1>9. /\ synced' \in [Ranks -> SUBSET (1 .. Len(env.Program))]
      /\ flushed' \in [Ranks -> SUBSET (1 .. Len(env.Program))]
  BY <1>1 DEF TypeOK, Compute
<1>10. ASSUME NEW s \in Ranks PROVE Stage(s)'
  BY <1>1, <1>2, <1>3, <1>5 DEF Stage, TypeOK, Active, Call, Here, Through, Goto, WillDo, Compute
<1> QED
  BY <1>1, <1>2, <1>3, <1>4, <1>5, <1>6, <1>7, <1>8, <1>9, <1>10, TypesFrom

\* The next operation of a sequence.
LEMMA OperationTypes ==
  ASSUME TypeInv, NEW r \in Ranks, Operation(r)
  PROVE  TypeInv'
<1>1. TypeOK /\ buf \in [Ranks -> Bufs] /\ \A s \in Ranks : Stage(s)
  BY DEF TypeInv
<1>2. env' = env
  BY DEF Operation
<1>3. pc' \in [Ranks -> {"init", "initsync", "app", "coll", "reduce", "sync",
                            "finalize", "done"}]
  BY <1>1 DEF TypeOK, Operation
<1>4. calls' \in [Ranks -> 0 .. Len(env.Program)]
  BY <1>1 DEF TypeOK, Operation
<1>5. buf' \in [Ranks -> Bufs]
  BY <1>1 DEF Operation
<1>6. recorded' \in [Ranks -> BOOLEAN]
  BY <1>1 DEF TypeOK, Operation
<1>7. todo' \in [Ranks -> Seq(Ops)]
  <2>1. todo[r] \in Seq(Ops) /\ todo[r] # << >>
    BY <1>1 DEF TypeOK, Operation
  <2>2. Tail(todo[r]) \in Seq(Ops)
    BY <2>1, HeadTailProperties
  <2> QED
    BY <1>1, <2>2 DEF TypeOK, Operation, WillDo
<1>8. posted' \in [Ranks -> Seq(Posts)]
  <2>1. Head(todo[r]) \in Ops
    <3>1. todo[r] \in Seq(Ops) /\ todo[r] # << >>
      BY <1>1 DEF TypeOK, Operation
    <3> QED
      BY <3>1, HeadTailProperties
  <2>2. posted \in [Ranks -> Seq(Posts)]
    BY <1>1 DEF TypeOK, Posts, Begun
  <2>3. PostCall(r, Head(todo[r]), {}, << >>)
    BY DEF Operation, Post
  <2>4. {} \in SUBSET {"flush", "time"} /\ << >> \in Seq(Begun)
    OBVIOUS
  <2> QED
    BY <2>1, <2>2, <2>3, <2>4, PostType
<1>9. /\ synced' \in [Ranks -> SUBSET (1 .. Len(env.Program))]
      /\ flushed' \in [Ranks -> SUBSET (1 .. Len(env.Program))]
  BY <1>1 DEF TypeOK, Operation
<1>10. ASSUME NEW s \in Ranks PROVE Stage(s)'
  BY <1>1, <1>2, <1>3, <1>5 DEF Stage, TypeOK, Active, Call, Here, Through, Goto, WillDo, Operation
<1> QED
  BY <1>1, <1>2, <1>3, <1>4, <1>5, <1>6, <1>7, <1>8, <1>9, <1>10, TypesFrom

\* A wrapper up to the call of PMPI.
LEMMA CallTypes ==
  ASSUME TypeInv, NEW r \in Ranks, CallCollective(r)
  PROVE  TypeInv'
<1>1. TypeOK /\ buf \in [Ranks -> Bufs] /\ \A s \in Ranks : Stage(s)
  BY DEF TypeInv
<1>2. env' = env
  BY DEF CallCollective
<1>a. Here(r) \in Calls
  <2>1. calls[r] \in Nat /\ calls[r] < Len(env.Program)
    BY <1>1 DEF CallCollective, Active, TypeOK
  <2>2. calls[r] + 1 \in 1 .. Len(env.Program)
    BY <2>1, ProgramType
  <2> QED
    BY <2>2, ProgramType DEF Here, Call
<1>3. pc' \in [Ranks -> {"init", "initsync", "app", "coll", "reduce", "sync",
                            "finalize", "done"}]
  BY <1>1 DEF TypeOK, CallCollective, Goto
<1>4. calls' \in [Ranks -> 0 .. Len(env.Program)]
  BY <1>1 DEF TypeOK, CallCollective
<1>5. buf' \in [Ranks -> Bufs]
  BY <1>1, RecordType DEF CallCollective
<1>6. recorded' \in [Ranks -> BOOLEAN]
  <2>1. buf[r].on \in BOOLEAN
    BY <1>1 DEF Bufs
  <2> QED
    BY <1>1, <2>1 DEF TypeOK, CallCollective
<1>7. todo' \in [Ranks -> Seq(Ops)]
  BY <1>1 DEF TypeOK, CallCollective
<1>8. posted' \in [Ranks -> Seq(Posts)]
  <2>1. posted \in [Ranks -> Seq(Posts)]
    BY <1>1 DEF TypeOK, Posts, Begun
  <2>2. CASE Here(r).comm = "other"
    BY <2>1, <2>2 DEF CallCollective
  <2>3. CASE Here(r).comm # "other"
    <3>1. Here(r).op \in Ops
      BY <1>a DEF Calls, Ops
    <3> DEFINE begun == IF buf[r].on /\ Record(buf[r]).on
                        THEN <<vt_mpi_collbegin(r, Here(r))>> ELSE << >>
    <3>2. begun \in Seq(Begun)
      BY <1>a, CollbeginType
    <3>3. PostCall(r, Here(r).op, {}, begun)
      BY <2>3 DEF CallCollective
    <3> HIDE DEF begun
    <3>4. {} \in SUBSET {"flush", "time"}
      OBVIOUS
    <3> QED
      BY <2>1, <3>1, <3>2, <3>3, <3>4, PostType
  <2> QED
    BY <2>2, <2>3
<1>9. /\ synced' \in [Ranks -> SUBSET (1 .. Len(env.Program))]
      /\ flushed' \in [Ranks -> SUBSET (1 .. Len(env.Program))]
  BY <1>1 DEF TypeOK, CallCollective
<1>10. ASSUME NEW s \in Ranks PROVE Stage(s)'
  BY <1>1, <1>2, <1>3, <1>5 DEF Stage, TypeOK, Active, Call, Here, Through, Goto, WillDo, CallCollective
<1> QED
  BY <1>1, <1>2, <1>3, <1>4, <1>5, <1>6, <1>7, <1>8, <1>9, <1>10, TypesFrom

\* What a rank tells the others is that it wants to flush, to synchronise the
\* clocks, both or neither.
LEMMA LocalMaskType == \A b, due : LocalMask(b, due) \in SUBSET {"flush", "time"}
BY DEF LocalMask

\* The call a rank is in is one of its program's.
LEMMA CallRange ==
  ASSUME TypeInv, NEW r \in Ranks, calls[r] < Len(env.Program)
  PROVE  Call(r) \in 1 .. Len(env.Program) /\ Call(r) = calls[r] + 1 /\ calls[r] \in Nat
<1>1. calls[r] \in Nat
  BY DEF TypeInv, TypeOK
<1> QED
  BY <1>1, ProgramType DEF Call

\* The rest of a wrapper, up to the MPI_Allreduce of vt_mpi_sync.
LEMMA CollendTypes ==
  ASSUME TypeInv, NEW r \in Ranks, NEW due \in BOOLEAN, Collend(r, due)
  PROVE  TypeInv'
<1>1. TypeOK /\ buf \in [Ranks -> Bufs] /\ \A s \in Ranks : Stage(s)
  BY DEF TypeInv
<1>2. env' = env
  BY DEF Collend
<1>a. /\ Call(r) \in 1 .. Len(env.Program) /\ Call(r) = calls[r] + 1 /\ calls[r] \in Nat
      /\ pc[r] = "coll"
  BY <1>1, CallRange DEF Collend, Stage
<1>3. pc' \in [Ranks -> {"init", "initsync", "app", "coll", "reduce", "sync",
                            "finalize", "done"}]
  BY <1>1 DEF TypeOK, Collend, Goto, Return
<1>4. calls' \in [Ranks -> 0 .. Len(env.Program)]
  <2>1. calls' = calls \/ calls' = [calls EXCEPT ![r] = @ + 1]
    BY DEF Collend, Return
  <2>2. calls \in [Ranks -> 0 .. Len(env.Program)] /\ calls[r] + 1 \in 0 .. Len(env.Program)
    BY <1>1, <1>a DEF TypeOK
  <2> QED
    BY <2>1, <2>2
<1>5. buf' \in [Ranks -> Bufs]
  BY <1>1, RecordType DEF Collend
<1>6. recorded' \in [Ranks -> BOOLEAN]
  BY <1>1 DEF TypeOK, Collend
<1>7. todo' \in [Ranks -> Seq(Ops)]
  BY <1>1 DEF TypeOK, Collend
<1>8. posted' \in [Ranks -> Seq(Posts)]
  <2>1. posted \in [Ranks -> Seq(Posts)]
    BY <1>1 DEF TypeOK, Posts, Begun
  <2>2. \/ posted' = posted
        \/ Post(r, "allreduce", LocalMask(Record(buf[r]), due))
    BY DEF Collend
  <2>3. ASSUME Post(r, "allreduce", LocalMask(Record(buf[r]), due))
        PROVE  posted' \in [Ranks -> Seq(Posts)]
    <3>1. PostCall(r, "allreduce", LocalMask(Record(buf[r]), due), << >>)
      BY <2>3 DEF Post
    <3>2. "allreduce" \in Ops /\ << >> \in Seq(Begun)
      BY DEF Ops
    <3> QED
      BY <2>1, <3>1, <3>2, LocalMaskType, PostType
  <2> QED
    BY <2>1, <2>2, <2>3
<1>9. /\ synced' \in [Ranks -> SUBSET (1 .. Len(env.Program))]
      /\ flushed' \in [Ranks -> SUBSET (1 .. Len(env.Program))]
  <2>1. synced' = synced \/ synced' = [synced EXCEPT ![r] = @ \cup {Call(r)}]
    BY DEF Collend
  <2>2. flushed' = flushed
    BY DEF Collend
  <2>3. PICK C : C = 1 .. Len(env.Program)
    OBVIOUS
  <2>4. synced \in [Ranks -> SUBSET C] /\ flushed \in [Ranks -> SUBSET C] /\ Call(r) \in C
    BY <1>1, <1>a, <2>3 DEF TypeOK
  <2>5. synced' \in [Ranks -> SUBSET C]
    BY <2>1, <2>4
  <2> QED
    BY <2>2, <2>3, <2>4, <2>5
<1>10. ASSUME NEW s \in Ranks PROVE Stage(s)'
  <2>1. \/ pc' = [pc EXCEPT ![r] = "reduce"] /\ calls' = calls
        \/ pc' = [pc EXCEPT ![r] = "app"] /\ calls' = [calls EXCEPT ![r] = @ + 1]
    BY DEF Collend, Return, Goto
  <2>2. todo' = todo /\ env' = env
    BY DEF Collend
  <2>3. CASE s = r
    BY <1>1, <1>a, <2>1, <2>2, <2>3 DEF Stage, TypeOK
  <2>4. CASE s # r
    BY <1>1, <2>1, <2>2, <2>4 DEF Stage, TypeOK, Collend
  <2> QED
    BY <2>3, <2>4
<1> QED
  BY <1>1, <1>2, <1>3, <1>4, <1>5, <1>6, <1>7, <1>8, <1>9, <1>10, TypesFrom

\* The ranks do what they have agreed on.
LEMMA ReduceTypes ==
  ASSUME TypeInv, NEW r \in Ranks, FinishReduce(r)
  PROVE  TypeInv'
<1>1. TypeOK /\ buf \in [Ranks -> Bufs] /\ \A s \in Ranks : Stage(s)
  BY DEF TypeInv
<1>2. env' = env
  BY DEF FinishReduce, Obey
<1>a. /\ Call(r) \in 1 .. Len(env.Program) /\ Call(r) = calls[r] + 1 /\ calls[r] \in Nat
      /\ pc[r] = "reduce"
  BY <1>1, CallRange DEF FinishReduce, Obey, Stage
<1>3. pc' \in [Ranks -> {"init", "initsync", "app", "coll", "reduce", "sync",
                            "finalize", "done"}]
  BY <1>1 DEF TypeOK, FinishReduce, Obey, Goto
<1>4. calls' \in [Ranks -> 0 .. Len(env.Program)]
  BY <1>1 DEF TypeOK, FinishReduce, Obey
<1>5. buf' \in [Ranks -> Bufs]
  BY <1>1, FlushType DEF FinishReduce, Obey
<1>6. recorded' \in [Ranks -> BOOLEAN]
  BY <1>1 DEF TypeOK, FinishReduce, Obey
<1>7. todo' \in [Ranks -> Seq(Ops)]
  <2>1. todo' = [todo EXCEPT ![r] = MaskOps(Reduced(r))]
    BY DEF FinishReduce, Obey, WillDo, MaskOps
  <2> QED
    BY <1>1, <2>1, OpsType DEF TypeOK
<1>8. posted' \in [Ranks -> Seq(Posts)]
  BY <1>1 DEF TypeOK, Posts, Begun, FinishReduce, Obey
<1>9. /\ synced' \in [Ranks -> SUBSET (1 .. Len(env.Program))]
      /\ flushed' \in [Ranks -> SUBSET (1 .. Len(env.Program))]
  BY <1>1, <1>a DEF TypeOK, FinishReduce, Obey
<1>10. ASSUME NEW s \in Ranks PROVE Stage(s)'
  BY <1>1, <1>2, <1>3, <1>5, <1>a DEF Stage, TypeOK, Active, Call, Here, Through, Goto, WillDo, FinishReduce, Obey
<1> QED
  BY <1>1, <1>2, <1>3, <1>4, <1>5, <1>6, <1>7, <1>8, <1>9, <1>10, TypesFrom

\* The end of a wrapper after a synchronisation.
LEMMA ExitTypes ==
  ASSUME TypeInv, NEW r \in Ranks, Exit(r)
  PROVE  TypeInv'
<1>1. TypeOK /\ buf \in [Ranks -> Bufs] /\ \A s \in Ranks : Stage(s)
  BY DEF TypeInv
<1>2. env' = env
  BY DEF Exit, Return
<1>a. /\ Call(r) \in 1 .. Len(env.Program) /\ Call(r) = calls[r] + 1 /\ calls[r] \in Nat
      /\ pc[r] = "sync"
  BY <1>1, CallRange DEF Exit, Stage
<1>3. pc' \in [Ranks -> {"init", "initsync", "app", "coll", "reduce", "sync",
                            "finalize", "done"}]
  BY <1>1 DEF TypeOK, Exit, Return, Goto
<1>4. calls' \in [Ranks -> 0 .. Len(env.Program)]
  BY <1>1, <1>a DEF TypeOK, Exit, Return
<1>5. buf' \in [Ranks -> Bufs]
  BY <1>1, RecordType DEF Exit
<1>6. recorded' \in [Ranks -> BOOLEAN]
  BY <1>1 DEF TypeOK, Exit, Return
<1>7. todo' \in [Ranks -> Seq(Ops)]
  BY <1>1 DEF TypeOK, Exit, Return
<1>8. posted' \in [Ranks -> Seq(Posts)]
  BY <1>1 DEF TypeOK, Posts, Begun, Exit, Return
<1>9. /\ synced' \in [Ranks -> SUBSET (1 .. Len(env.Program))]
      /\ flushed' \in [Ranks -> SUBSET (1 .. Len(env.Program))]
  BY <1>1 DEF TypeOK, Exit, Return
<1>10. ASSUME NEW s \in Ranks PROVE Stage(s)'
  BY <1>1, <1>2, <1>3, <1>5, <1>a DEF Stage, TypeOK, Active, Call, Here, Through, Goto, WillDo, Exit, Return
<1> QED
  BY <1>1, <1>2, <1>3, <1>4, <1>5, <1>6, <1>7, <1>8, <1>9, <1>10, TypesFrom

\* MPI_Finalize begins.
LEMMA FinalizeTypes ==
  ASSUME TypeInv, NEW r \in Ranks, vt_mpi_finalize(r)
  PROVE  TypeInv'
<1>1. TypeOK /\ buf \in [Ranks -> Bufs] /\ \A s \in Ranks : Stage(s)
  BY DEF TypeInv
<1>2. env' = env
  BY DEF vt_mpi_finalize
<1>3. pc' \in [Ranks -> {"init", "initsync", "app", "coll", "reduce", "sync",
                            "finalize", "done"}]
  BY <1>1 DEF TypeOK, vt_mpi_finalize, Goto
<1>4. calls' \in [Ranks -> 0 .. Len(env.Program)]
  BY <1>1 DEF TypeOK, vt_mpi_finalize
<1>5. buf' \in [Ranks -> Bufs]
  BY <1>1, RecordType DEF vt_mpi_finalize
<1>6. recorded' \in [Ranks -> BOOLEAN]
  BY <1>1 DEF TypeOK, vt_mpi_finalize
<1>7. todo' \in [Ranks -> Seq(Ops)]
  <2>1. todo' = [todo EXCEPT ![r] = FinOps]
    BY DEF vt_mpi_finalize, WillDo, FinOps
  <2> QED
    BY <1>1, <2>1, OpsType DEF TypeOK
<1>8. posted' \in [Ranks -> Seq(Posts)]
  BY <1>1 DEF TypeOK, Posts, Begun, vt_mpi_finalize
<1>9. /\ synced' \in [Ranks -> SUBSET (1 .. Len(env.Program))]
      /\ flushed' \in [Ranks -> SUBSET (1 .. Len(env.Program))]
  BY <1>1 DEF TypeOK, vt_mpi_finalize
<1>10. ASSUME NEW s \in Ranks PROVE Stage(s)'
  BY <1>1, <1>2, <1>3, <1>5 DEF Stage, TypeOK, Active, Call, Here, Through, Goto, WillDo, vt_mpi_finalize
<1> QED
  BY <1>1, <1>2, <1>3, <1>4, <1>5, <1>6, <1>7, <1>8, <1>9, <1>10, TypesFrom

\* MPI_Finalize returns.
LEMMA FinalizedTypes ==
  ASSUME TypeInv, NEW r \in Ranks, Finalized(r)
  PROVE  TypeInv'
<1>1. TypeOK /\ buf \in [Ranks -> Bufs] /\ \A s \in Ranks : Stage(s)
  BY DEF TypeInv
<1>2. env' = env
  BY DEF Finalized
<1>3. pc' \in [Ranks -> {"init", "initsync", "app", "coll", "reduce", "sync",
                            "finalize", "done"}]
  BY <1>1 DEF TypeOK, Finalized, Goto
<1>4. calls' \in [Ranks -> 0 .. Len(env.Program)]
  BY <1>1 DEF TypeOK, Finalized
<1>5. buf' \in [Ranks -> Bufs]
  BY <1>1 DEF Finalized
<1>6. recorded' \in [Ranks -> BOOLEAN]
  BY <1>1 DEF TypeOK, Finalized
<1>7. todo' \in [Ranks -> Seq(Ops)]
  BY <1>1 DEF TypeOK, Finalized
<1>8. posted' \in [Ranks -> Seq(Posts)]
  BY <1>1 DEF TypeOK, Posts, Begun, Finalized
<1>9. /\ synced' \in [Ranks -> SUBSET (1 .. Len(env.Program))]
      /\ flushed' \in [Ranks -> SUBSET (1 .. Len(env.Program))]
  BY <1>1 DEF TypeOK, Finalized
<1>10. ASSUME NEW s \in Ranks PROVE Stage(s)'
  BY <1>1, <1>2, <1>3, <1>5 DEF Stage, TypeOK, Active, Call, Here, Through, Goto, WillDo, Finalized
<1> QED
  BY <1>1, <1>2, <1>3, <1>4, <1>5, <1>6, <1>7, <1>8, <1>9, <1>10, TypesFrom

\* The types hold at the start.
LEMMA StartTypes == Init => TypeInv
<1> SUFFICES ASSUME Init PROVE TypeInv
  OBVIOUS
<1>1. MaxFlushes \in Nat /\ Capacity \in Nat
  BY SyncAssumption
<1>2. env.Program \in Seq(Calls) /\ Len(env.Program) \in Nat
  BY SyncAssumption DEF Init
<1>3. [fill |-> 0, left |-> MaxFlushes, on |-> TRUE] \in Bufs
  BY <1>1 DEF Bufs
<1>4. buf \in [Ranks -> Bufs]
  BY <1>3 DEF Init
<1>5. buf \in [Ranks -> [fill : 0 .. Capacity, left : 0 .. MaxFlushes, on : BOOLEAN]]
  <2>1. Bufs \subseteq [fill : 0 .. Capacity, left : 0 .. MaxFlushes, on : BOOLEAN]
    BY DEF Bufs
  <2> QED
    BY <1>4, <2>1
<1>6. TypeOK
  <2>1. calls \in [Ranks -> 0 .. Len(env.Program)]
    BY <1>2 DEF Init
  <2> QED
    BY <1>5, <2>1 DEF Init, TypeOK
<1>7. \A r \in Ranks : Stage(r)
  BY DEF Init, Stage
<1> QED
  BY <1>4, <1>6, <1>7 DEF TypeInv

\* Every step keeps the types.
LEMMA NextTypes == TypeInv /\ [Next]_vars => TypeInv'
<1> SUFFICES ASSUME TypeInv, [Next]_vars PROVE TypeInv'
  OBVIOUS
<1>1. CASE UNCHANGED vars
  BY <1>1 DEF TypeInv, TypeOK, Stage, vars
<1>2. ASSUME NEW r \in Ranks, Compute(r) \/ Step(r) PROVE TypeInv'
  <2>1. \/ Compute(r) \/ vt_mpi_init(r) \/ Operation(r) \/ Started(r) \/ CallCollective(r)
        \/ (\E due \in BOOLEAN : Collend(r, due))
        \/ FinishReduce(r) \/ Exit(r) \/ vt_mpi_finalize(r) \/ Finalized(r)
    BY <1>2 DEF Step
  <2> QED
    BY <2>1, ComputeTypes, InitTypes, OperationTypes, StartedTypes, CallTypes, CollendTypes,
       ReduceTypes, ExitTypes, FinalizeTypes, FinalizedTypes
<1> QED
  BY <1>1, <1>2 DEF Next

\* The types of the ranks' states, of their buffers and of their operations hold
\* in every state (vt_mpi_init, vt_mpi_sync, vt_mpi_finalize, the wrappers).
THEOREM SyncTypeCorrect == Spec => []TypeOK
<1>1. TypeInv => TypeOK
  BY DEF TypeInv
<1> QED
  BY StartTypes, NextTypes, <1>1, PTL DEF Spec

------------------------------------------------------------------------------
(* The states of the log. *)

\* Nothing the states are built from changes during a run (vt_env reads the
\* settings once).
LEMMA EnvKept ==
  ASSUME env' = env
  PROVE  /\ Syncs' = Syncs /\ World' = World
         /\ InitOps' = InitOps /\ FinOps' = FinOps /\ TimeSync' = TimeSync
<1>1. TimeSync' = TimeSync
  BY DEF TimeSync
<1> QED
  BY <1>1 DEF Syncs, World, InitOps, FinOps

\* Nor do the functions on states.
LEMMA FunctionsKept ==
  ASSUME env' = env, NEW CONSTANT a, NEW CONSTANT t, NEW CONSTANT l, NEW CONSTANT c, NEW CONSTANT mask
  PROVE  /\ Left(c)' = Left(c)
         /\ Norm(t, l)' = Norm(t, l)
         /\ Op(a)' = Op(a)
         /\ After(a)' = After(a)
         /\ Resolve(a, mask)' = Resolve(a, mask)
<1>1. Syncs' = Syncs /\ World' = World /\ FinOps' = FinOps
  BY EnvKept
<1>2. Left(c)' = Left(c)
  BY <1>1 DEF Left
<1>3. ASSUME NEW CONSTANT u, NEW CONSTANT m PROVE Norm(u, m)' = Norm(u, m)
  BY <1>1 DEF Norm
<1>4. Norm(t, l)' = Norm(t, l)
  BY <1>3
<1>5. Op(a)' = Op(a)
  BY DEF Op
<1>6. Resolve(a, mask)' = Resolve(a, mask)
  <2>1. PICK u, m : u = MaskOps(mask) /\ m = a.left
    OBVIOUS
  <2> QED
    BY <1>3, <2>1 DEF Resolve
<1>7. After(a)' = After(a)
  <2>1. /\ Norm(Tail(a.todo), a.left)' = Norm(Tail(a.todo), a.left)
        /\ Norm(<< >>, a.left \ {FirstOf(a.left)})' = Norm(<< >>, a.left \ {FirstOf(a.left)})
    BY <1>3
  <2> QED
    BY <1>1, <2>1 DEF After
<1> QED
  BY <1>2, <1>4, <1>5, <1>6, <1>7

\* The calls left after one more.
LEMMA LeftNext ==
  ASSUME TypeInv, NEW c \in Nat, c < Len(env.Program)
  PROVE  /\ c + 1 \notin World => Left(c + 1) = Left(c)
         /\ c + 1 \in World => /\ Left(c) # {} /\ FirstOf(Left(c)) = c + 1
                               /\ Left(c + 1) = Left(c) \ {c + 1}
<1>1. World \subseteq Nat
  BY ProgramType DEF World
<1>a. \A n \in World : n > c + 1 <=> n > c /\ n # c + 1
  BY <1>1
<1>2. c + 1 \notin World => Left(c + 1) = Left(c)
  BY <1>a DEF Left
<1>3. ASSUME c + 1 \in World
      PROVE  /\ Left(c) # {} /\ FirstOf(Left(c)) = c + 1 /\ Left(c + 1) = Left(c) \ {c + 1}
  <2>1. c + 1 \in Left(c) /\ \A m \in Left(c) : m \in Nat /\ c + 1 <= m
    BY <1>1, <1>3 DEF Left
  <2>2. FirstOf(Left(c)) \in Left(c) /\ \A m \in Left(c) : FirstOf(Left(c)) <= m
    BY <2>1 DEF FirstOf
  <2>3. FirstOf(Left(c)) = c + 1
    BY <2>1, <2>2
  <2>4. Left(c + 1) = Left(c) \ {c + 1}
    BY <1>a DEF Left
  <2> QED
    BY <2>1, <2>3, <2>4
<1> QED
  BY <1>2, <1>3

\* No call is left at the end.
LEMMA LeftEnd ==
  ASSUME TypeInv
  PROVE  Left(Len(env.Program)) = {}
BY ProgramType DEF Left, World

\* The states built are states.
LEMMA NormType ==
  ASSUME NEW t \in Seq(Ops), NEW l \in SUBSET Nat
  PROVE  Norm(t, l) \in LogState /\ ~Norm(t, l).mask /\ Norm(t, l).call = 0
BY OpsType DEF Norm, State, LogState

LEMMA StateType ==
  ASSUME NEW t \in Seq(Ops), NEW l \in SUBSET Nat, NEW c \in Nat, NEW m \in BOOLEAN, NEW f \in BOOLEAN
  PROVE  State(t, l, c, m, f) \in LogState
BY DEF State, LogState

\* A rank is in one of them.
LEMMA AtType ==
  ASSUME TypeInv, NEW r \in Ranks
  PROVE  /\ At(r) \in LogState
         /\ At(r).mask <=> pc[r] = "reduce"
<1>1. \A c : Left(c) \in SUBSET Nat
  BY ProgramType DEF Left, World
<1>2. todo[r] \in Seq(Ops) /\ << >> \in Seq(Ops) /\ calls[r] \in Nat
  BY DEF TypeInv, TypeOK
<1>3. Call(r) \in Nat
  BY <1>2 DEF Call
<1>4. pc[r] \in {"init", "initsync", "app", "coll", "reduce", "sync", "finalize", "done"}
  BY DEF TypeInv, TypeOK
<1>5. CASE pc[r] = "init"
  BY <1>1, <1>5, OpsType, NormType DEF At
<1>6. CASE pc[r] = "initsync"
  BY <1>1, <1>2, <1>6, NormType DEF At
<1>7. CASE pc[r] = "app"
  BY <1>1, <1>2, <1>7, NormType DEF At
<1>8. CASE pc[r] = "coll"
  <2>1. State(<< >>, Left(Call(r)), Call(r), FALSE, FALSE) \in LogState
    BY <1>1, <1>2, <1>3, StateType
  <2>2. Norm(<< >>, Left(Call(r))) \in LogState /\ ~Norm(<< >>, Left(Call(r))).mask
    BY <1>1, <1>2, NormType
  <2>3. ~State(<< >>, Left(Call(r)), Call(r), FALSE, FALSE).mask
    BY DEF State
  <2> QED
    BY <1>8, <2>1, <2>2, <2>3 DEF At
<1>9. CASE pc[r] = "reduce"
  <2>1. State(<< >>, Left(Call(r)), Call(r), TRUE, FALSE) \in LogState
    BY <1>1, <1>2, <1>3, StateType
  <2> QED
    BY <1>9, <2>1 DEF At, State
<1>10. CASE pc[r] = "sync"
  BY <1>1, <1>2, <1>10, NormType DEF At
<1>11. CASE pc[r] \in {"finalize", "done"}
  <2>1. State(todo[r], {}, 0, FALSE, TRUE) \in LogState
    BY <1>2, StateType
  <2> QED
    BY <1>11, <2>1 DEF At, State
<1> QED
  BY <1>4, <1>5, <1>6, <1>7, <1>8, <1>9, <1>10, <1>11

------------------------------------------------------------------------------
(* What a step does to a rank's state. *)

\* The state of a rank with its operations to do and its calls given.
AtOf(p, t, c) ==
  CASE p = "init" -> Norm(InitOps, Left(0))
    [] p = "initsync" -> Norm(t, Left(0))
    [] p = "app" -> Norm(<< >>, Left(c))
    [] p = "coll" ->
         IF Syncs /\ c + 1 \in World THEN State(<< >>, Left(c + 1), c + 1, FALSE, FALSE)
         ELSE Norm(<< >>, Left(c + 1))
    [] p = "reduce" -> State(<< >>, Left(c + 1), c + 1, TRUE, FALSE)
    [] p = "sync" -> Norm(t, Left(c + 1))
    [] OTHER -> State(t, {}, 0, FALSE, TRUE)

\* A rank's state is given by them, before a step and after it.
LEMMA AtNow ==
  ASSUME NEW r, NEW p, NEW t, NEW c, pc[r] = p, todo[r] = t, calls[r] = c
  PROVE  At(r) = AtOf(p, t, c)
BY DEF At, AtOf, Call

LEMMA AtNext ==
  ASSUME env' = env, NEW CONSTANT r, NEW CONSTANT p, NEW CONSTANT t, NEW CONSTANT c,
         pc'[r] = p, todo'[r] = t, calls'[r] = c
  PROVE  At(r)' = AtOf(p, t, c)
<1>1. /\ TimeSync' = TimeSync /\ InitOps' = InitOps /\ FinOps' = FinOps /\ Syncs' = Syncs
      /\ World' = World
  BY EnvKept
<1>2. /\ Norm(InitOps, Left(0))' = Norm(InitOps, Left(0))
      /\ Norm(todo[r], Left(0))' = Norm(t, Left(0))
      /\ Norm(<< >>, Left(calls[r]))' = Norm(<< >>, Left(c))
      /\ Norm(<< >>, Left(Call(r)))' = Norm(<< >>, Left(c + 1))
      /\ Norm(todo[r], Left(Call(r)))' = Norm(t, Left(c + 1))
  BY <1>1 DEF Norm, Left, Call
<1>3. /\ State(<< >>, Left(Call(r)), Call(r), FALSE, FALSE)'
           = State(<< >>, Left(c + 1), c + 1, FALSE, FALSE)
      /\ State(<< >>, Left(Call(r)), Call(r), TRUE, FALSE)'
           = State(<< >>, Left(c + 1), c + 1, TRUE, FALSE)
      /\ State(todo[r], {}, 0, FALSE, TRUE)' = State(t, {}, 0, FALSE, TRUE)
      /\ Call(r)' = c + 1
  BY <1>1 DEF State, Left, Call
<1> QED
  BY <1>1, <1>2, <1>3 DEF At, AtOf

\* A step changes one rank.
LEMMA OthersKept ==
  ASSUME TypeInv, NEW r \in Ranks, Compute(r) \/ Step(r), NEW s \in Ranks, s # r
  PROVE  /\ pc'[s] = pc[s] /\ calls'[s] = calls[s] /\ todo'[s] = todo[s]
         /\ posted'[s] = posted[s] /\ flushed'[s] = flushed[s] /\ buf'[s] = buf[s]
         /\ recorded'[s] = recorded[s] /\ synced'[s] = synced[s]
BY DEF TypeInv, TypeOK, Compute, Step, vt_mpi_init, Operation, Started, CallCollective, Collend,
   FinishReduce, Obey, Exit, vt_mpi_finalize, Finalized, Goto, WillDo, Post, PostCall, Return

LEMMA StepEnv ==
  ASSUME NEW r \in Ranks, Compute(r) \/ Step(r)
  PROVE  env' = env
BY DEF Compute, Step, vt_mpi_init, Operation, Started, CallCollective, Collend,
   FinishReduce, Obey, Exit, vt_mpi_finalize, Finalized

\* The others' states are kept.
LEMMA AtKept ==
  ASSUME TypeInv, env' = env, NEW CONSTANT s \in Ranks,
         pc'[s] = pc[s], calls'[s] = calls[s], todo'[s] = todo[s]
  PROVE  At(s)' = At(s) /\ Done(s)' = Done(s)
<1>1. PICK p, t, c : pc[s] = p /\ todo[s] = t /\ calls[s] = c
  OBVIOUS
<1>2. At(s) = AtOf(p, t, c)
  BY <1>1, AtNow
<1>3. At(s)' = AtOf(p, t, c)
  BY <1>1, AtNext
<1>4. Done(s)' = Done(s)
  BY DEF Done, Call
<1> QED
  BY <1>2, <1>3, <1>4

\* A step of a rank that issues no operation.
Quiet(r) ==
  /\ posted' = posted /\ flushed' = flushed /\ At(r)' = At(r)
  /\ pc[r] # "reduce" /\ pc'[r] # "reduce"
  /\ \/ Done(r)' = Done(r)
     \/ Done(r)' = Done(r) + 1 /\ ~(Syncs /\ Done(r) + 1 \in World)

\* A step that issues the operation its state says.
Issues(r, mask, begun) ==
  /\ PostCall(r, Op(At(r)), mask, begun)
  /\ begun # << >> => BegunFrom(r, begun, At(r))
  /\ flushed' = flushed /\ pc[r] # "reduce"
  /\ At(r)' = After(At(r)) /\ Done(r)' = Done(r)
  /\ pc'[r] = "reduce" => Syncs /\ At(r)'.call \in World /\ At(r)'.call > Done(r)

\* The facts on one rank the following proofs need.
LEMMA RankTypes ==
  ASSUME TypeInv, NEW r \in Ranks
  PROVE  /\ todo[r] \in Seq(Ops) /\ calls[r] \in Nat /\ r \in DOMAIN pc /\ r \in DOMAIN calls
         /\ r \in DOMAIN todo /\ Stage(r) /\ calls[r] + 1 # 0 /\ recorded[r] \in BOOLEAN
BY DEF TypeInv, TypeOK

LEMMA InitQuiet ==
  ASSUME TypeInv, NEW r \in Ranks, vt_mpi_init(r)
  PROVE  Quiet(r)
<1>1. env' = env /\ posted' = posted /\ flushed' = flushed
  BY DEF vt_mpi_init
<1>2. /\ pc[r] = "init" /\ pc'[r] = "initsync" /\ calls'[r] = calls[r]
      /\ todo'[r] = InitOps
  BY RankTypes DEF vt_mpi_init, Goto, WillDo, InitOps
<1>3. PICK t, c : t = InitOps /\ c = calls[r]
  OBVIOUS
<1>4. At(r)' = AtOf("initsync", t, c)
  BY <1>1, <1>2, <1>3, AtNext
<1>5. At(r) = Norm(InitOps, Left(0))
  BY <1>2 DEF At
<1>6. Done(r)' = Done(r)
  BY <1>2 DEF Done
<1> QED
  BY <1>1, <1>2, <1>3, <1>4, <1>5, <1>6 DEF Quiet, AtOf

LEMMA StartedQuiet ==
  ASSUME TypeInv, NEW r \in Ranks, Started(r)
  PROVE  Quiet(r)
<1>1. env' = env /\ posted' = posted /\ flushed' = flushed
  BY DEF Started
<1>2. /\ pc[r] = "initsync" /\ pc'[r] = "app" /\ calls'[r] = 0 /\ calls[r] = 0
      /\ todo'[r] = << >> /\ todo[r] = << >>
  BY RankTypes DEF Started, Goto, Through, Stage
<1>3. At(r)' = AtOf("app", << >>, 0)
  BY <1>1, <1>2, AtNext
<1>4. At(r) = Norm(<< >>, Left(0))
  BY <1>2 DEF At
<1>5. Done(r)' = Done(r)
  BY <1>2 DEF Done
<1> QED
  BY <1>1, <1>2, <1>3, <1>4, <1>5 DEF Quiet, AtOf

LEMMA ComputeQuiet ==
  ASSUME TypeInv, NEW r \in Ranks, Compute(r)
  PROVE  Quiet(r)
<1>1. env' = env /\ posted' = posted /\ flushed' = flushed
  BY DEF Compute
<1>2. /\ pc[r] = "app" /\ pc' = pc /\ calls' = calls /\ todo' = todo
  BY DEF Compute, Active
<1>3. At(r)' = At(r) /\ Done(r)' = Done(r)
  BY <1>1, <1>2, AtKept
<1> QED
  BY <1>1, <1>2, <1>3 DEF Quiet

\* A call on another communicator is none of the log's.
LEMMA OtherCallQuiet ==
  ASSUME TypeInv, NEW r \in Ranks, CallCollective(r), Here(r).comm = "other"
  PROVE  Quiet(r)
<1>1. env' = env /\ posted' = posted /\ flushed' = flushed
  BY DEF CallCollective
<1>2. PICK t, c : t = todo[r] /\ c = calls[r]
  OBVIOUS
<1>3. /\ pc[r] = "app" /\ pc'[r] = "coll" /\ calls'[r] = c /\ todo'[r] = t
      /\ c \in Nat /\ c < Len(env.Program)
  BY <1>2, RankTypes DEF CallCollective, Active, Goto
<1>4. c + 1 \notin World
  BY <1>2 DEF World, Here, Call
<1>5. At(r)' = AtOf("coll", t, c)
  BY <1>1, <1>3, AtNext
<1>6. At(r) = Norm(<< >>, Left(c))
  BY <1>2, <1>3 DEF At
<1>7. Left(c + 1) = Left(c)
  BY <1>3, <1>4, LeftNext
<1>8. Done(r)' = Done(r)
  BY <1>2, <1>3 DEF Done
<1> QED
  BY <1>1, <1>3, <1>4, <1>5, <1>6, <1>7, <1>8 DEF Quiet, AtOf

\* Nor is the return from a call nobody synchronises after.
LEMMA ReturnQuiet ==
  ASSUME TypeInv, SyncedAll, NEW r \in Ranks, NEW due \in BOOLEAN, Collend(r, due),
         ~(recorded[r] /\ Syncs /\ Here(r).comm = "world")
  PROVE  Quiet(r)
<1>1. env' = env /\ posted' = posted /\ flushed' = flushed
  BY DEF Collend, Syncs
<1>2. PICK t, c : t = todo[r] /\ c = calls[r]
  OBVIOUS
<1>3. /\ pc[r] = "coll" /\ pc'[r] = "app" /\ calls'[r] = c + 1 /\ todo'[r] = t
      /\ c \in Nat /\ c < Len(env.Program)
  BY <1>2, RankTypes DEF Collend, Return, Goto, Syncs, Stage
<1>4. ~(Syncs /\ c + 1 \in World)
  <2>1. Syncs => recorded[r]
    BY <1>3 DEF SyncedAll
  <2> QED
    BY <1>2, <2>1 DEF World, Here, Call
<1>5. At(r)' = AtOf("app", t, c + 1)
  BY <1>1, <1>3, AtNext
<1>6. At(r) = Norm(<< >>, Left(c + 1))
  BY <1>2, <1>3, <1>4 DEF At, Call
<1>7. Done(r)' = c + 1 /\ Done(r) = c
  BY <1>2, <1>3 DEF Done
<1> QED
  BY <1>1, <1>3, <1>4, <1>5, <1>6, <1>7 DEF Quiet, AtOf

LEMMA ExitQuiet ==
  ASSUME TypeInv, NEW r \in Ranks, Exit(r)
  PROVE  Quiet(r)
<1>1. env' = env /\ posted' = posted /\ flushed' = flushed
  BY DEF Exit
<1>2. PICK t, c : t = todo[r] /\ c = calls[r]
  OBVIOUS
<1>3. /\ pc[r] = "sync" /\ pc'[r] = "app" /\ calls'[r] = c + 1 /\ todo'[r] = t /\ t = << >>
  BY <1>2, RankTypes DEF Exit, Return, Goto, Through
<1>4. At(r)' = AtOf("app", t, c + 1)
  BY <1>1, <1>3, AtNext
<1>5. At(r) = Norm(<< >>, Left(c + 1))
  BY <1>2, <1>3 DEF At, Call
<1>6. Done(r)' = c + 1 /\ Done(r) = c + 1
  BY <1>2, <1>3 DEF Done, Call
<1> QED
  BY <1>1, <1>3, <1>4, <1>5, <1>6 DEF Quiet, AtOf

LEMMA FinalizeQuiet ==
  ASSUME TypeInv, NEW r \in Ranks, vt_mpi_finalize(r)
  PROVE  Quiet(r)
<1>1. env' = env /\ posted' = posted /\ flushed' = flushed
  BY DEF vt_mpi_finalize
<1>2. PICK t, c : t = FinOps /\ c = calls[r]
  OBVIOUS
<1>3. /\ pc[r] = "app" /\ pc'[r] = "finalize" /\ calls'[r] = c /\ todo'[r] = t
      /\ c = Len(env.Program)
  BY <1>2, RankTypes DEF vt_mpi_finalize, Goto, WillDo, FinOps
<1>4. At(r)' = State(t, {}, 0, FALSE, TRUE)
  <2>1. At(r)' = AtOf("finalize", t, c)
    BY <1>1, <1>3, AtNext
  <2> QED
    BY <2>1 DEF AtOf
<1>5. At(r) = Norm(<< >>, {})
  BY <1>2, <1>3, LeftEnd DEF At
<1>6. Done(r)' = Done(r)
  BY <1>2, <1>3 DEF Done
<1> QED
  BY <1>1, <1>2, <1>3, <1>4, <1>5, <1>6 DEF Quiet, Norm

LEMMA FinalizedQuiet ==
  ASSUME TypeInv, NEW r \in Ranks, Finalized(r)
  PROVE  Quiet(r)
<1>1. env' = env /\ posted' = posted /\ flushed' = flushed
  BY DEF Finalized
<1>2. PICK t, c : t = todo[r] /\ c = calls[r]
  OBVIOUS
<1>3. pc[r] = "finalize" /\ pc'[r] = "done" /\ calls'[r] = c /\ todo'[r] = t
  BY <1>2, RankTypes DEF Finalized, Goto
<1>4. At(r)' = State(t, {}, 0, FALSE, TRUE)
  <2>1. At(r)' = AtOf("done", t, c)
    BY <1>1, <1>3, AtNext
  <2> QED
    BY <2>1 DEF AtOf
<1>5. At(r) = State(t, {}, 0, FALSE, TRUE)
  BY <1>2, <1>3 DEF At
<1>6. Done(r)' = Done(r)
  BY <1>2, <1>3 DEF Done
<1> QED
  BY <1>1, <1>3, <1>4, <1>5, <1>6 DEF Quiet

\* The next operation of a sequence is the one its state names.
LEMMA OperationIssues ==
  ASSUME TypeInv, NEW r \in Ranks, Operation(r)
  PROVE  Issues(r, {}, << >>)
<1>1. env' = env /\ flushed' = flushed /\ pc' = pc /\ calls' = calls
  BY DEF Operation
<1>2. PICK p, t, c : p = pc[r] /\ t = todo[r] /\ c = calls[r]
  OBVIOUS
<1>3. /\ pc'[r] = p /\ calls'[r] = c /\ todo'[r] = Tail(t)
      /\ t \in Seq(Ops) /\ t # << >> /\ c \in Nat
  BY <1>1, <1>2, RankTypes DEF Operation, WillDo
<1>4. p \in {"initsync", "sync", "finalize"}
  <2>1. pc[r] \in {"init", "initsync", "app", "coll", "reduce", "sync", "finalize", "done"}
    BY DEF TypeInv, TypeOK
  <2> QED
    BY <1>2, <1>3, <2>1, RankTypes DEF Stage
<1>5. PostCall(r, Head(t), {}, << >>)
  BY <1>2 DEF Operation, Post
<1>6. PICK u : u = Tail(t)
  OBVIOUS
<1>7. At(r)' = AtOf(p, u, c) /\ At(r) = AtOf(p, t, c)
  BY <1>1, <1>2, <1>3, <1>6, AtNext, AtNow
<1>8. Op(At(r)) = Head(t) /\ At(r)' = After(At(r))
  <2>1. CASE p = "finalize"
    <3>1. At(r) = State(t, {}, 0, FALSE, TRUE) /\ At(r)' = State(u, {}, 0, FALSE, TRUE)
      BY <1>7, <2>1 DEF AtOf
    <3> QED
      BY <1>3, <1>6, <3>1 DEF Op, After, State
  <2>2. CASE p \in {"initsync", "sync"}
    <3>1. PICK l : At(r) = Norm(t, l) /\ At(r)' = Norm(u, l)
      BY <1>7, <2>2 DEF AtOf
    <3>2. At(r) = State(t, l, 0, FALSE, FALSE)
      BY <1>3, <3>1 DEF Norm
    <3> QED
      BY <1>3, <1>6, <3>1, <3>2 DEF Op, After, State
  <2> QED
    BY <1>4, <2>1, <2>2
<1>9. Done(r)' = Done(r)
  BY <1>1 DEF Done, Call
<1> QED
  BY <1>1, <1>2, <1>3, <1>4, <1>5, <1>8, <1>9 DEF Issues

\* A call of the program on MPI_COMM_WORLD is the first one left.
LEMMA CallIssues ==
  ASSUME TypeInv, NEW r \in Ranks, CallCollective(r), Here(r).comm # "other"
  PROVE  \E begun \in Seq(Begun) : Issues(r, {}, begun)
<1>1. env' = env /\ flushed' = flushed
  BY DEF CallCollective
<1>2. PICK t, c : t = todo[r] /\ c = calls[r]
  OBVIOUS
<1>3. /\ pc[r] = "app" /\ pc'[r] = "coll" /\ calls'[r] = c /\ todo'[r] = t
      /\ c \in Nat /\ c < Len(env.Program)
  BY <1>2, RankTypes DEF CallCollective, Active, Goto
<1>4. /\ c + 1 \in 1 .. Len(env.Program) /\ Here(r) = env.Program[c + 1] /\ Here(r) \in Calls
      /\ Here(r).comm = "world"
  <2>1. c + 1 \in 1 .. Len(env.Program)
    BY <1>3, ProgramType
  <2>2. Here(r) = env.Program[c + 1] /\ Here(r) \in Calls
    BY <1>2, <2>1, ProgramType DEF Here, Call
  <2> QED
    BY <2>1, <2>2 DEF Calls
<1>5. c + 1 \in World
  BY <1>4 DEF World
<1>6. Left(c) # {} /\ FirstOf(Left(c)) = c + 1 /\ Left(c + 1) = Left(c) \ {c + 1}
  BY <1>3, <1>5, LeftNext
<1>7. At(r) = State(<< >>, Left(c), 0, FALSE, FALSE)
  BY <1>2, <1>3, <1>6 DEF At, Norm
<1>8. At(r)' = AtOf("coll", t, c)
  BY <1>1, <1>3, AtNext
<1>9. At(r)' = IF Syncs THEN State(<< >>, Left(c + 1), c + 1, FALSE, FALSE)
               ELSE Norm(<< >>, Left(c + 1))
  BY <1>5, <1>8 DEF AtOf
<1>10. /\ At(r).call = 0 /\ At(r).todo = << >> /\ At(r).left = Left(c)
  BY <1>7 DEF State
<1>11. At(r)' = After(At(r))
  BY <1>6, <1>9, <1>10 DEF After
<1>12. Op(At(r)) = Here(r).op
  BY <1>4, <1>6, <1>10 DEF Op
<1> DEFINE begun == IF buf[r].on /\ Record(buf[r]).on
                    THEN <<vt_mpi_collbegin(r, Here(r))>> ELSE << >>
<1>13. begun \in Seq(Begun)
  BY <1>4, CollbeginType
<1>14. PostCall(r, Here(r).op, {}, begun)
  BY <1>4 DEF CallCollective
<1>15. begun # << >> => BegunFrom(r, begun, At(r))
  BY <1>4, <1>5, <1>6, <1>10 DEF BegunFrom
<1>16. Done(r)' = Done(r)
  BY <1>2, <1>3 DEF Done
<1> HIDE DEF begun
<1>17. Issues(r, {}, begun)
  BY <1>1, <1>3, <1>11, <1>12, <1>14, <1>15, <1>16 DEF Issues
<1> QED
  BY <1>13, <1>17

\* The MPI_Allreduce of vt_mpi_sync comes after the call it belongs to.
LEMMA CollendIssues ==
  ASSUME TypeInv, NEW r \in Ranks, NEW due \in BOOLEAN, Collend(r, due),
         recorded[r] /\ Syncs /\ Here(r).comm = "world"
  PROVE  Issues(r, LocalMask(Record(buf[r]), due), << >>)
<1>1. env' = env /\ flushed' = flushed /\ calls' = calls /\ todo' = todo
  BY DEF Collend, Syncs
<1>2. PICK t, c : t = todo[r] /\ c = calls[r]
  OBVIOUS
<1>3. /\ pc[r] = "coll" /\ pc'[r] = "reduce" /\ calls'[r] = c /\ todo'[r] = t
      /\ c \in Nat /\ c < Len(env.Program)
  BY <1>1, <1>2, RankTypes DEF Collend, Goto, Stage, Syncs
<1>4. c + 1 \in World
  <2>1. c + 1 \in 1 .. Len(env.Program)
    BY <1>3, ProgramType
  <2> QED
    BY <1>2, <2>1 DEF World, Here, Call
<1>5. At(r)' = AtOf("reduce", t, c) /\ At(r) = AtOf("coll", t, c)
  BY <1>1, <1>2, <1>3, AtNext, AtNow
<1>6. /\ At(r)' = State(<< >>, Left(c + 1), c + 1, TRUE, FALSE)
      /\ At(r) = State(<< >>, Left(c + 1), c + 1, FALSE, FALSE)
  BY <1>4, <1>5 DEF AtOf
<1>7. c + 1 # 0
  BY <1>3
<1>8. Op(At(r)) = "allreduce" /\ At(r)' = After(At(r)) /\ At(r)'.call = c + 1
  BY <1>6, <1>7 DEF Op, After, State
<1>9. PostCall(r, "allreduce", LocalMask(Record(buf[r]), due), << >>)
  BY DEF Collend, Syncs, Post
<1>10. Done(r)' = Done(r) /\ Done(r) = c
  BY <1>2, <1>3 DEF Done
<1>11. c + 1 > c
  BY <1>3
<1> QED
  BY <1>1, <1>3, <1>4, <1>8, <1>9, <1>10, <1>11 DEF Issues

\* With the mask of all ranks the state after the MPI_Allreduce is known.
Resolves(r) ==
  /\ posted' = posted /\ pc[r] = "reduce" /\ pc'[r] = "sync" /\ At(r).mask
  /\ AllAt(Len(posted[r]))
  /\ At(r)' = Resolve(At(r), Mask(Len(posted[r])))
  /\ At(r).call = Call(r) /\ Done(r) = calls[r] /\ Done(r)' = Call(r)
  /\ flushed' = IF "flush" \in Mask(Len(posted[r]))
                THEN [flushed EXCEPT ![r] = @ \cup {Call(r)}] ELSE flushed

LEMMA ReduceResolves ==
  ASSUME TypeInv, NEW r \in Ranks, FinishReduce(r)
  PROVE  Resolves(r)
<1>1. env' = env /\ posted' = posted /\ calls' = calls
  BY DEF FinishReduce, Obey
<1>2. Reduced(r) = Mask(Len(posted[r]))
  BY DEF Reduced, Mask
<1>3. PICK t, c, m : t = MaskOps(m) /\ c = calls[r] /\ m = Mask(Len(posted[r]))
  OBVIOUS
<1>4. /\ pc[r] = "reduce" /\ pc'[r] = "sync" /\ calls'[r] = c /\ todo'[r] = t
  BY <1>1, <1>2, <1>3, RankTypes DEF FinishReduce, Obey, Goto, WillDo, MaskOps
<1>5. AllAt(Len(posted[r]))
  BY DEF FinishReduce, Obey, Matched, AllAt
<1>6. At(r)' = AtOf("sync", t, c)
  BY <1>1, <1>4, AtNext
<1>7. At(r) = State(<< >>, Left(c + 1), c + 1, TRUE, FALSE)
  BY <1>3, <1>4 DEF At, Call
<1>8. At(r)' = Norm(t, Left(c + 1))
  BY <1>6 DEF AtOf
<1>9. At(r)' = Resolve(At(r), m) /\ At(r).mask /\ At(r).call = Call(r)
  BY <1>3, <1>7, <1>8 DEF Resolve, State, Call
<1>10. Done(r) = calls[r] /\ Done(r)' = Call(r)
  BY <1>1, <1>4 DEF Done, Call
<1>11. flushed' = IF "flush" \in m THEN [flushed EXCEPT ![r] = @ \cup {Call(r)}] ELSE flushed
  BY <1>2, <1>3 DEF FinishReduce, Obey
<1> QED
  BY <1>1, <1>3, <1>4, <1>5, <1>9, <1>10, <1>11 DEF Resolves

\* A step of a rank is one of the three.
LEMMA StepKinds ==
  ASSUME TypeInv, SyncedAll, NEW r \in Ranks, Compute(r) \/ Step(r)
  PROVE  \/ Quiet(r)
         \/ \E mask \in SUBSET {"flush", "time"}, begun \in Seq(Begun) : Issues(r, mask, begun)
         \/ Resolves(r)
<1>1. CASE Compute(r)
  BY <1>1, ComputeQuiet
<1>2. CASE vt_mpi_init(r)
  BY <1>2, InitQuiet
<1>3. CASE Operation(r)
  <2>1. Issues(r, {}, << >>)
    BY <1>3, OperationIssues
  <2>2. {} \in SUBSET {"flush", "time"} /\ << >> \in Seq(Begun)
    OBVIOUS
  <2> QED
    BY <2>1, <2>2
<1>4. CASE Started(r)
  BY <1>4, StartedQuiet
<1>5. CASE CallCollective(r)
  <2>1. CASE Here(r).comm = "other"
    BY <1>5, <2>1, OtherCallQuiet
  <2>2. CASE Here(r).comm # "other"
    BY <1>5, <2>2, CallIssues
  <2> QED
    BY <2>1, <2>2
<1>6. ASSUME NEW due \in BOOLEAN, Collend(r, due)
      PROVE  \/ Quiet(r)
             \/ \E mask \in SUBSET {"flush", "time"}, begun \in Seq(Begun) : Issues(r, mask, begun)
  <2>1. CASE recorded[r] /\ Syncs /\ Here(r).comm = "world"
    <3>1. Issues(r, LocalMask(Record(buf[r]), due), << >>)
      BY <1>6, <2>1, CollendIssues
    <3>2. << >> \in Seq(Begun)
      OBVIOUS
    <3> QED
      BY <3>1, <3>2, LocalMaskType
  <2>2. CASE ~(recorded[r] /\ Syncs /\ Here(r).comm = "world")
    BY <1>6, <2>2, ReturnQuiet
  <2> QED
    BY <2>1, <2>2
<1>7. CASE FinishReduce(r)
  BY <1>7, ReduceResolves
<1>8. CASE Exit(r)
  BY <1>8, ExitQuiet
<1>9. CASE vt_mpi_finalize(r)
  BY <1>9, FinalizeQuiet
<1>10. CASE Finalized(r)
  BY <1>10, FinalizedQuiet
<1> QED
  BY <1>1, <1>2, <1>3, <1>4, <1>5, <1>6, <1>7, <1>8, <1>9, <1>10 DEF Step

------------------------------------------------------------------------------
(* Whoever synchronises records. *)

\* As long as the number of flushes is not limited, a buffer that records goes on
\* recording.
LEMMA StaysOn ==
  ASSUME MaxFlushes = 0, NEW b \in Bufs, b.on
  PROVE  Flush(b).on /\ Record(b).on
<1>1. Flush(b) = [fill |-> 0, left |-> 0, on |-> b.on]
  <2>1. b.on \in BOOLEAN
    BY DEF Bufs
  <2> QED
    BY <2>1 DEF Flush
<1>2. Flush(b).on
  BY <1>1
<1>3. PICK f : f = IF b.fill = Capacity THEN Flush(b) ELSE b
  OBVIOUS
<1>4. f \in Bufs /\ f.on
  BY <1>2, <1>3, FlushType
<1>5. Record(b) = [f EXCEPT !.fill = @ + 1]
  BY <1>3, <1>4 DEF Record
<1>6. f \in [fill : 0 .. Capacity, left : 0 .. MaxFlushes, on : BOOLEAN]
  BY <1>4 DEF Bufs
<1> QED
  BY <1>2, <1>4, <1>5, <1>6

\* The parts of SyncedAll, of one rank.
SyncedOne(r) ==
  /\ Syncs => buf[r].on /\ (pc[r] = "coll" => recorded[r])
  /\ \A c \in synced[r] : Syncs /\ c \in World
  /\ Syncs => \A c \in World :
       c <= calls[r] \/ (c = Call(r) /\ pc[r] \in {"reduce", "sync"}) => c \in synced[r]

\* Buffers go on recording if the buffers or the clocks are synchronised.
LEMMA SyncedOn ==
  ASSUME AlwaysRecording, TypeInv, SyncedAll, NEW r \in Ranks, Compute(r) \/ Step(r), Syncs
  PROVE  buf'[r].on /\ (pc'[r] = "coll" => recorded'[r])
<1>1. /\ MaxFlushes = 0 /\ buf[r] \in Bufs /\ buf[r].on /\ buf \in [Ranks -> Bufs]
      /\ env.Disabled = {} /\ (pc[r] = "coll" => recorded[r])
      /\ r \in DOMAIN buf /\ r \in DOMAIN pc /\ r \in DOMAIN recorded
  BY DEF AlwaysRecording, TypeInv, TypeOK, SyncedAll, Syncs
<1>2. Flush(buf[r]).on /\ Record(buf[r]).on
  BY <1>1, StaysOn
<1>3. CASE Compute(r)
  BY <1>1, <1>2, <1>3 DEF Compute, Active
<1>4. CASE vt_mpi_init(r)
  <2>1. PICK b : b = [buf[r] EXCEPT !.on = r \notin env.Disabled]
    OBVIOUS
  <2>2. b \in Bufs /\ b.on
    <3>1. buf[r] \in [fill : 0 .. Capacity, left : 0 .. MaxFlushes, on : BOOLEAN]
      BY <1>1 DEF Bufs
    <3>2. b = [buf[r] EXCEPT !.on = TRUE]
      BY <1>1, <2>1
    <3> QED
      BY <1>1, <3>1, <3>2 DEF Bufs
  <2>3. Record(b).on
    BY <1>1, <2>2, StaysOn
  <2>4. buf'[r] = Record(b) /\ pc'[r] = "initsync"
    BY <1>1, <1>4, <2>1 DEF vt_mpi_init, Goto
  <2> QED
    BY <2>3, <2>4
<1>5. CASE Operation(r)
  BY <1>1, <1>5 DEF Operation
<1>6. CASE Started(r)
  BY <1>1, <1>6 DEF Started, Goto
<1>7. CASE CallCollective(r)
  BY <1>1, <1>2, <1>7 DEF CallCollective
<1>8. ASSUME NEW due \in BOOLEAN, Collend(r, due)
      PROVE  buf'[r].on /\ pc'[r] # "coll"
  <2>1. pc' = [pc EXCEPT ![r] = "reduce"] \/ pc' = [pc EXCEPT ![r] = "app"]
    BY <1>8 DEF Collend, Goto, Return
  <2>2. buf'[r] = Record(buf[r])
    BY <1>1, <1>8 DEF Collend
  <2> QED
    BY <1>1, <1>2, <2>1, <2>2
<1>9. CASE FinishReduce(r)
  BY <1>1, <1>2, <1>9 DEF FinishReduce, Obey, Goto
<1>10. CASE Exit(r)
  BY <1>1, <1>2, <1>10 DEF Exit, Return, Goto
<1>11. CASE vt_mpi_finalize(r)
  BY <1>1, <1>2, <1>11 DEF vt_mpi_finalize, Goto
<1>12. CASE Finalized(r)
  BY <1>1, <1>12 DEF Finalized, Goto
<1> QED
  BY <1>3, <1>4, <1>5, <1>6, <1>7, <1>8, <1>9, <1>10, <1>11, <1>12 DEF Step

\* The calls synchronised after.
LEMMA SyncedCalls ==
  ASSUME AlwaysRecording, TypeInv, SyncedAll, NEW r \in Ranks, Compute(r) \/ Step(r)
  PROVE  /\ \A c \in synced'[r] : Syncs /\ c \in World
         /\ Syncs => \A c \in World :
              c <= calls'[r] \/ (c = calls'[r] + 1 /\ pc'[r] \in {"reduce", "sync"})
                => c \in synced'[r]
<1> DEFINE Goal == /\ \A c \in synced'[r] : Syncs /\ c \in World
                   /\ Syncs => \A c \in World :
                        c <= calls'[r] \/ (c = calls'[r] + 1 /\ pc'[r] \in {"reduce", "sync"})
                          => c \in synced'[r]
<1>1. /\ \A c \in synced[r] : Syncs /\ c \in World
      /\ Syncs => \A c \in World :
           c <= calls[r] \/ (c = calls[r] + 1 /\ pc[r] \in {"reduce", "sync"}) => c \in synced[r]
      /\ Syncs /\ pc[r] = "coll" => recorded[r]
  BY DEF SyncedAll, Call
<1>2. /\ calls[r] \in Nat /\ r \in DOMAIN pc /\ r \in DOMAIN calls /\ r \in DOMAIN synced
      /\ Stage(r) /\ World \subseteq Nat
  BY ProgramType DEF TypeInv, TypeOK, World
<1>3. ASSUME synced' = synced, calls' = calls,
             pc'[r] \in {"reduce", "sync"} => pc[r] \in {"reduce", "sync"}
      PROVE  Goal
  BY <1>1, <1>2, <1>3
<1>4. ASSUME synced' = synced, calls'[r] = calls[r] + 1,
             pc[r] \in {"reduce", "sync"} \/ calls[r] + 1 \notin World \/ ~Syncs,
             pc'[r] \notin {"reduce", "sync"}
      PROVE  Goal
  <2>1. ASSUME NEW c \in World, c <= calls'[r] PROVE c <= calls[r] \/ c = calls[r] + 1
    BY <1>2, <1>4, <2>1
  <2> QED
    BY <1>1, <1>4, <2>1
<1>5. CASE Compute(r)
  BY <1>3, <1>5 DEF Compute
<1>6. CASE vt_mpi_init(r)
  BY <1>2, <1>3, <1>6 DEF vt_mpi_init, Goto
<1>7. CASE Operation(r)
  BY <1>3, <1>7 DEF Operation
<1>8. CASE Started(r)
  BY <1>2, <1>3, <1>8 DEF Started, Goto
<1>9. CASE CallCollective(r)
  BY <1>2, <1>3, <1>9 DEF CallCollective, Goto
<1>10. ASSUME NEW due \in BOOLEAN, Collend(r, due) PROVE Goal
  <2>1. pc[r] = "coll" /\ calls[r] < Len(env.Program)
    BY <1>2, <1>10 DEF Collend, Stage
  <2>2. calls[r] + 1 \in 1 .. Len(env.Program)
    BY <1>2, <2>1, ProgramType
  <2>3. calls[r] + 1 \in World <=> Here(r).comm = "world"
    BY <2>2 DEF World, Here, Call
  <2>4. CASE recorded[r] /\ Syncs /\ Here(r).comm = "world"
    <3>1. synced' = [synced EXCEPT ![r] = @ \cup {calls[r] + 1}] /\ calls' = calls
      BY <1>10, <2>4 DEF Collend, Syncs, Call
    <3>2. synced'[r] = synced[r] \cup {calls[r] + 1}
      BY <1>2, <3>1
    <3> QED
      BY <1>1, <2>3, <2>4, <3>1, <3>2
  <2>5. CASE ~(recorded[r] /\ Syncs /\ Here(r).comm = "world")
    <3>1. synced' = synced /\ calls'[r] = calls[r] + 1 /\ pc'[r] = "app"
      BY <1>2, <1>10, <2>5 DEF Collend, Syncs, Return, Goto
    <3>2. calls[r] + 1 \notin World \/ ~Syncs
      BY <1>1, <2>1, <2>3, <2>5
    <3> QED
      BY <1>4, <3>1, <3>2
  <2> QED
    BY <2>4, <2>5
<1>11. CASE FinishReduce(r)
  <2>1. synced' = synced /\ calls' = calls /\ pc[r] = "reduce"
    BY <1>11 DEF FinishReduce, Obey
  <2> QED
    BY <1>3, <2>1
<1>12. CASE Exit(r)
  <2>1. synced' = synced /\ calls'[r] = calls[r] + 1 /\ pc[r] = "sync" /\ pc'[r] = "app"
    BY <1>2, <1>12 DEF Exit, Return, Goto
  <2> QED
    BY <1>4, <2>1
<1>13. CASE vt_mpi_finalize(r)
  BY <1>2, <1>3, <1>13 DEF vt_mpi_finalize, Goto
<1>14. CASE Finalized(r)
  BY <1>2, <1>3, <1>14 DEF Finalized, Goto
<1>15. (\E due \in BOOLEAN : Collend(r, due)) => Goal
  <2> HIDE DEF Goal
  <2> QED
    BY <1>10
<1> QED
  BY <1>5, <1>6, <1>7, <1>8, <1>9, <1>11, <1>12, <1>13, <1>14, <1>15, Zenon DEF Step

\* Every step keeps it so.
LEMMA SyncedStep ==
  ASSUME AlwaysRecording, TypeInv, SyncedAll, NEW r \in Ranks, Compute(r) \/ Step(r)
  PROVE  SyncedAll'
<1>1. env' = env
  BY StepEnv
<1>2. Syncs' = Syncs /\ World' = World
  BY <1>1, EnvKept
<1>3. ASSUME NEW s \in Ranks PROVE SyncedOne(s)'
  <2>1. CASE s = r
    BY <1>2, <2>1, SyncedOn, SyncedCalls DEF SyncedOne, Call
  <2>2. CASE s # r
    <3>1. /\ pc'[s] = pc[s] /\ calls'[s] = calls[s] /\ buf'[s] = buf[s]
          /\ recorded'[s] = recorded[s] /\ synced'[s] = synced[s]
      BY <2>2, OthersKept
    <3> QED
      BY <1>2, <3>1 DEF SyncedOne, SyncedAll, Call
  <2> QED
    BY <2>1, <2>2
<1> QED
  BY <1>3 DEF SyncedAll, SyncedOne

------------------------------------------------------------------------------
(* The log is kept. *)

\* Operations issued are sequences.
LEMMA PostedType ==
  ASSUME TypeInv
  PROVE  \A s \in Ranks : posted[s] \in Seq(Posts) /\ Len(posted[s]) \in Nat
<1>1. posted \in [Ranks -> Seq(Posts)]
  BY DEF TypeInv, TypeOK, Posts, Begun
<1> QED
  BY <1>1

\* Calls are numbered.
LEMMA CallNumbers == TypeInv => World \subseteq Nat
BY ProgramType DEF World

\* The masks all ranks have issued stay what they are.
LEMMA MasksKept ==
  ASSUME TypeInv, NEW CONSTANT k \in Nat,
         \A s \in Ranks : /\ Len(posted'[s]) \in Nat /\ Len(posted'[s]) >= Len(posted[s])
                          /\ \A i \in 1 .. Len(posted[s]) : posted'[s][i] = posted[s][i]
  PROVE  /\ AllAt(k) => AllAt(k)'
         /\ AllAt(k) /\ k # 0 => Mask(k)' = Mask(k)
<1>1. \A s \in Ranks : Len(posted[s]) \in Nat
  BY PostedType
<1>2. ASSUME AllAt(k) PROVE AllAt(k)'
  BY <1>1, <1>2 DEF AllAt
<1>3. ASSUME AllAt(k), k # 0 PROVE Mask(k)' = Mask(k)
  <2>1. \A s \in Ranks : posted'[s][k] = posted[s][k]
    BY <1>1, <1>3 DEF AllAt
  <2> QED
    BY <2>1 DEF Mask
<1> QED
  BY <1>2, <1>3

\* A state resolved with the same mask is the same.
LEMMA ResolvedKept ==
  ASSUME env' = env, NEW CONSTANT k, NEW CONSTANT a, Mask(k)' = Mask(k)
  PROVE  Resolve(a, Mask(k))' = Resolve(a, Mask(k))
<1>1. FinOps' = FinOps
  BY EnvKept
<1> QED
  BY <1>1 DEF Resolve, Norm, MaskOps

\* A rank that does not move stays along the log.
LEMMA AlongKept ==
  ASSUME TypeInv, env' = env, NEW CONSTANT s \in Ranks,
         NEW CONSTANT log, NEW CONSTANT was, NEW CONSTANT n \in Nat,
         NEW CONSTANT log2, NEW CONSTANT was2, NEW CONSTANT n2 \in Nat, n <= n2,
         posted'[s] = posted[s], At(s)' = At(s),
         AllAt(Len(posted[s])) => \A r \in Ranks : Len(posted'[r]) >= Len(posted[s]),
         \A k \in 0 .. Len(posted[s]) : log2[k] = log[k],
         \A k \in 0 .. Len(posted[s]) - 1 : was2[k] = was[k],
         ~At(s).mask => was2[Len(posted[s])] = was[Len(posted[s])],
         Along(s, log, was, n)
  PROVE  Along(s, log2, was2, n2)'
<1>1. PICK m : m = Len(posted[s]) /\ m \in Nat /\ m \in 0 .. m
  BY PostedType
<1>2. /\ m <= n
      /\ At(s).mask => At(s) = log[m]
      /\ ~At(s).mask => At(s) = was[m] /\ (log[m].mask => AllAt(m))
      /\ \A k \in 1 .. m :
           /\ posted[s][k].op = Op(was[k - 1])
           /\ posted[s][k].begun # << >> => BegunFrom(s, posted[s][k].begun, was[k - 1])
  BY <1>1 DEF Along
<1>3. Len(posted[s])' = m
  BY <1>1
<1>4. AllAt(m) => AllAt(m)'
  BY <1>1 DEF AllAt
<1>5. m <= n2
  BY <1>1, <1>2
<1>6. At(s)'.mask => At(s)' = log2[m]
  BY <1>1, <1>2
<1>7. ~At(s)'.mask => At(s)' = was2[m] /\ (log2[m].mask => AllAt(m)')
  BY <1>1, <1>2, <1>4
<1>8. ASSUME NEW k \in 1 .. m
      PROVE  /\ posted'[s][k].op = Op(was2[k - 1])'
             /\ posted'[s][k].begun # << >> => BegunFrom(s, posted[s][k].begun, was2[k - 1])'
  <2>1. k - 1 \in 0 .. m - 1
    BY <1>1
  <2>2. was2[k - 1] = was[k - 1]
    BY <1>1, <2>1
  <2>3. Op(was2[k - 1])' = Op(was[k - 1])
    BY <2>2, FunctionsKept
  <2>4. posted'[s][k].begun # << >> => BegunFrom(s, posted[s][k].begun, was[k - 1])
    BY <1>2
  <2>5. posted'[s][k].begun # << >> => BegunFrom(s, posted[s][k].begun, was2[k - 1])'
    BY <2>2, <2>4 DEF BegunFrom, World
  <2> QED
    BY <1>2, <2>3, <2>5
<1>9. PICK h : h = Len(posted[s])' /\ h = m
  BY <1>3
<1> QED
  BY <1>3, <1>5, <1>6, <1>7, <1>8 DEF Along, AllAt

\* What a rank past an MPI_Allreduce has flushed after: all ranks had issued it.
LEMMA DoneAllAt ==
  ASSUME TypeInv, NEW log, NEW was, NEW n \in Nat, LogInv(log, was, n),
         NEW s \in Ranks, NEW k \in 1 .. Len(posted[s]), log[k].mask, log[k].call <= Done(s)
  PROVE  AllAt(k)
<1>1. PICK m : m = Len(posted[s]) /\ m \in Nat /\ m <= n
  BY PostedType DEF LogInv, Along
<1>2. CASE k # m
  <2>1. k \in 0 .. n - 1
    BY <1>1, <1>2
  <2> QED
    BY <2>1 DEF LogInv, Follows
<1>3. CASE k = m
  <2>1. CASE At(s).mask
    <3>1. pc[s] = "reduce" /\ At(s) = log[m]
      BY <1>1, <2>1, AtType DEF LogInv, Along
    <3>2. At(s).call = calls[s] + 1 /\ Done(s) = calls[s] /\ calls[s] \in Nat
      BY <3>1, RankTypes DEF At, State, Call, Done
    <3>3. FALSE
      BY <1>3, <3>1, <3>2
    <3> QED
      BY <3>3
  <2>2. CASE ~At(s).mask
    BY <1>1, <1>3, <2>2 DEF LogInv, Along
  <2> QED
    BY <2>1, <2>2
<1> QED
  BY <1>2, <1>3

\* A rank that does not move has flushed where it had.
LEMMA FlushedKept ==
  ASSUME TypeInv, NEW CONSTANT s \in Ranks,
         NEW CONSTANT log, NEW CONSTANT was, NEW CONSTANT n \in Nat, NEW CONSTANT log2,
         LogInv(log, was, n), posted'[s] = posted[s], flushed'[s] = flushed[s],
         Done(s)' = Done(s), pc'[s] = "reduce" <=> pc[s] = "reduce",
         \A k \in 0 .. Len(posted[s]) : log2[k] = log[k],
         \A k \in 1 .. Len(posted[s]) : AllAt(k) => AllAt(k)' /\ Mask(k)' = Mask(k)
  PROVE  FlushedAlong(s, log2)'
<1>1. PICK m : m = Len(posted[s]) /\ m \in Nat
  BY PostedType
<1>2. FlushedAlong(s, log)
  BY DEF LogInv
<1>3. \A k \in 1 .. m : k \in 0 .. m /\ log2[k] = log[k]
  BY <1>1
<1>4. ASSUME NEW k \in 0 .. m, log2[k].mask
      PROVE  log2[k].call <= Done(s)' \/ (k = m /\ pc'[s] = "reduce")
  <2>1. log2[k] = log[k]
    BY <1>1
  <2>2. log[k].call <= Done(s) \/ (k = m /\ pc[s] = "reduce")
    BY <1>1, <1>2, <1>4, <2>1 DEF FlushedAlong
  <2> QED
    BY <2>1, <2>2
<1>5. ASSUME NEW c \in flushed'[s]
      PROVE  \E k \in 1 .. m : log2[k].mask /\ log2[k].call = c /\ AllAt(k)' /\ "flush" \in Mask(k)'
  <2>1. PICK k \in 1 .. m : log[k].mask /\ log[k].call = c /\ AllAt(k) /\ "flush" \in Mask(k)
    BY <1>1, <1>2, <1>5 DEF FlushedAlong
  <2>2. AllAt(k)' /\ Mask(k)' = Mask(k) /\ log2[k] = log[k]
    BY <1>1, <1>3, <2>1
  <2> QED
    BY <2>1, <2>2
<1>6. ASSUME NEW k \in 1 .. m, log2[k].mask, AllAt(k)', "flush" \in Mask(k)', log2[k].call <= Done(s)'
      PROVE  log2[k].call \in flushed'[s]
  <2>1. log2[k] = log[k]
    BY <1>3
  <2>2. log[k].mask /\ log[k].call <= Done(s)
    BY <1>6, <2>1
  <2>3. AllAt(k)
    BY <1>1, <2>2, DoneAllAt
  <2>4. "flush" \in Mask(k)
    BY <1>1, <1>6, <2>3
  <2>5. log[k].call \in flushed[s]
    BY <1>1, <1>2, <2>2, <2>3, <2>4 DEF FlushedAlong
  <2> QED
    BY <2>1, <2>5
<1>7. Len(posted[s])' = m
  BY <1>1
<1> QED
  BY <1>4, <1>5, <1>6, <1>7 DEF FlushedAlong

\* A step that issues nothing keeps the log, and the rank where it is.
LEMMA FollowsKept ==
  ASSUME env' = env, posted' = posted,
         NEW CONSTANT log, NEW CONSTANT was, NEW CONSTANT n, Follows(log, was, n)
  PROVE  Follows(log, was, n)'
<1>1. Norm(InitOps, Left(0))' = Norm(InitOps, Left(0)) /\ Syncs' = Syncs /\ World' = World
  BY EnvKept DEF Norm, Left
<1>2. ASSUME NEW CONSTANT k PROVE /\ AllAt(k)' = AllAt(k) /\ Mask(k)' = Mask(k)
                                  /\ Resolve(log[k], Mask(k))' = Resolve(log[k], Mask(k))
                                  /\ After(was[k])' = After(was[k])
  <2>1. AllAt(k)' = AllAt(k) /\ Mask(k)' = Mask(k)
    BY DEF AllAt, Mask
  <2>2. PICK a : a = log[k]
    OBVIOUS
  <2>3. Resolve(a, Mask(k))' = Resolve(a, Mask(k))
    BY <2>1, ResolvedKept
  <2>4. After(was[k])' = After(was[k])
    BY FunctionsKept
  <2> QED
    BY <2>1, <2>2, <2>3, <2>4
<1> QED
  BY <1>1, <1>2 DEF Follows

\* The log at a rank: facts as they are needed below.
LEMMA LogAt ==
  ASSUME TypeInv, NEW log, NEW was, NEW n \in Nat, LogInv(log, was, n), NEW s \in Ranks
  PROVE  /\ Len(posted[s]) \in Nat /\ Len(posted[s]) <= n
         /\ Follows(log, was, n) /\ Along(s, log, was, n) /\ FlushedAlong(s, log)
         /\ ~log[0].mask
<1>1. ~log[0].mask
  <2>1. log[0] = Norm(InitOps, Left(0))
    BY DEF LogInv, Follows
  <2> QED
    BY <2>1 DEF Norm, State
<1> QED
  BY <1>1, PostedType DEF LogInv, Along

LEMMA QuietLog ==
  ASSUME TypeInv, NEW CONSTANT r \in Ranks, Compute(r) \/ Step(r), Quiet(r),
         NEW CONSTANT log, NEW CONSTANT was, NEW CONSTANT n \in Nat, LogInv(log, was, n)
  PROVE  LogInv(log, was, n)'
<1>1. env' = env /\ posted' = posted /\ flushed' = flushed
  BY StepEnv DEF Quiet
<1>2. Follows(log, was, n)'
  BY <1>1, FollowsKept DEF LogInv
<1>3. ASSUME NEW CONSTANT k PROVE AllAt(k)' = AllAt(k) /\ Mask(k)' = Mask(k)
  BY <1>1 DEF AllAt, Mask
<1>4. ASSUME NEW CONSTANT s \in Ranks PROVE Along(s, log, was, n)'
  <2>1. At(s)' = At(s)
    <3>1. CASE s = r
      BY <3>1 DEF Quiet
    <3>2. CASE s # r
      BY <1>1, <3>2, OthersKept, AtKept
    <3> QED
      BY <3>1, <3>2
  <2>2. AllAt(Len(posted[s])) => \A q \in Ranks : Len(posted'[q]) >= Len(posted[s])
    BY <1>1 DEF AllAt
  <2>3. Along(s, log, was, n) /\ n <= n
    BY DEF LogInv
  <2>4. posted'[s] = posted[s]
    BY <1>1
  <2> QED
    BY <1>1, <2>1, <2>2, <2>3, <2>4, AlongKept
<1>5. ASSUME NEW CONSTANT s \in Ranks PROVE FlushedAlong(s, log)'
  <2>1. posted'[s] = posted[s] /\ flushed'[s] = flushed[s]
    BY <1>1
  <2>2. CASE Done(s)' = Done(s)
    <3>1. pc'[s] = "reduce" <=> pc[s] = "reduce"
      BY OthersKept DEF Quiet
    <3> QED
      BY <1>3, <2>1, <2>2, <3>1, FlushedKept
  <2>3. CASE Done(s)' # Done(s)
    <3>1. s = r
      BY <1>1, <2>3, OthersKept, AtKept
    <3>2. /\ pc[s] # "reduce" /\ pc'[s] # "reduce"
          /\ Done(s)' = Done(s) + 1 /\ ~(Syncs /\ Done(s) + 1 \in World)
      BY <2>3, <3>1 DEF Quiet
    <3>3. PICK m : m = Len(posted[s]) /\ m \in Nat /\ m <= n
      BY LogAt
    <3>4. PICK d : d = Done(s)
      OBVIOUS
    <3>5. d \in Nat
      BY <3>4, RankTypes DEF Done, Call
    <3>6. ASSUME NEW k \in 0 .. m, log[k].mask PROVE log[k].call <= d + 1 <=> log[k].call <= d
      <4>1. Syncs /\ log[k].call \in World
        BY <3>3, <3>6 DEF LogInv, Follows
      <4>2. log[k].call \in Nat
        BY <4>1, CallNumbers
      <4>3. log[k].call # d + 1
        BY <3>2, <3>4, <4>1
      <4> QED
        BY <3>5, <4>2, <4>3
    <3>7. FlushedAlong(s, log)
      BY DEF LogInv
    <3>8. ASSUME NEW k \in 0 .. m, log[k].mask PROVE log[k].call <= Done(s)'
      <4>1. log[k].call <= d
        BY <3>2, <3>3, <3>4, <3>7, <3>8 DEF FlushedAlong
      <4> QED
        BY <3>2, <3>4, <3>6, <3>8, <4>1
    <3>9. ASSUME NEW c \in flushed'[s]
          PROVE  \E k \in 1 .. m : log[k].mask /\ log[k].call = c /\ AllAt(k)' /\ "flush" \in Mask(k)'
      BY <1>3, <2>1, <3>3, <3>7, <3>9 DEF FlushedAlong
    <3>10. ASSUME NEW k \in 1 .. m, log[k].mask, AllAt(k)', "flush" \in Mask(k)',
                  log[k].call <= Done(s)'
           PROVE  log[k].call \in flushed'[s]
      <4>1. log[k].call <= d
        BY <3>2, <3>4, <3>6, <3>10
      <4> QED
        BY <1>3, <2>1, <3>3, <3>4, <3>7, <3>10, <4>1 DEF FlushedAlong
    <3>11. Len(posted[s])' = m
      BY <2>1, <3>3
    <3> QED
      BY <3>8, <3>9, <3>10, <3>11 DEF FlushedAlong
  <2> QED
    BY <2>2, <2>3
<1> QED
  BY <1>2, <1>4, <1>5 DEF LogInv

\* Nor does the mask that is known to all ranks bring anything new to the log.
LEMMA ResolvesLog ==
  ASSUME TypeInv, NEW CONSTANT r \in Ranks, Compute(r) \/ Step(r), Resolves(r),
         NEW CONSTANT log, NEW CONSTANT was, NEW CONSTANT n \in Nat, LogInv(log, was, n)
  PROVE  LogInv(log, was, n)'
<1>1. env' = env /\ posted' = posted
  BY StepEnv DEF Resolves
<1>2. Follows(log, was, n)'
  BY <1>1, FollowsKept DEF LogInv
<1>3. ASSUME NEW CONSTANT k PROVE AllAt(k)' = AllAt(k) /\ Mask(k)' = Mask(k)
  BY <1>1 DEF AllAt, Mask
<1>4. PICK m : m = Len(posted[r]) /\ m \in Nat /\ m <= n
  BY LogAt
<1>5. /\ At(r) = log[m] /\ log[m].mask /\ AllAt(m) /\ log[m].call = Call(r)
      /\ At(r)' = Resolve(log[m], Mask(m))
  <2>1. At(r) = log[m] /\ At(r).mask
    BY <1>4 DEF LogInv, Along, Resolves
  <2> QED
    BY <1>4, <2>1 DEF Resolves
<1>6. m # 0
  BY <1>5, LogAt
<1>7. At(r)' = was[m] /\ ~At(r)'.mask
  <2>1. m \in 0 .. n
    BY <1>4
  <2>2. was[m] = Resolve(log[m], Mask(m))
    BY <1>5, <2>1 DEF LogInv, Follows
  <2>3. ~Resolve(log[m], Mask(m)).mask
    BY DEF Resolve, Norm, State
  <2> QED
    BY <1>5, <2>2, <2>3
<1>8. ASSUME NEW CONSTANT s \in Ranks, s # r PROVE Along(s, log, was, n)' /\ FlushedAlong(s, log)'
  <2>1. At(s)' = At(s) /\ Done(s)' = Done(s)
    BY <1>1, <1>8, OthersKept, AtKept
  <2>2. AllAt(Len(posted[s])) => \A q \in Ranks : Len(posted'[q]) >= Len(posted[s])
    BY <1>1 DEF AllAt
  <2>3. Along(s, log, was, n) /\ n <= n
    BY DEF LogInv
  <2>4. posted'[s] = posted[s] /\ flushed'[s] = flushed[s]
    BY <1>8, OthersKept
  <2>5. Along(s, log, was, n)'
    BY <1>1, <2>1, <2>2, <2>3, <2>4, AlongKept
  <2>6. pc'[s] = "reduce" <=> pc[s] = "reduce"
    BY <1>8, OthersKept
  <2>7. FlushedAlong(s, log)'
    BY <1>3, <2>1, <2>4, <2>6, FlushedKept
  <2> QED
    BY <2>5, <2>7
<1>9. Along(r, log, was, n)'
  <2>1. Along(r, log, was, n)
    BY DEF LogInv
  <2>2. ASSUME NEW k \in 1 .. m
        PROVE  /\ posted'[r][k].op = Op(was[k - 1])'
               /\ posted'[r][k].begun # << >> => BegunFrom(r, posted[r][k].begun, was[k - 1])'
    <3>1. Op(was[k - 1])' = Op(was[k - 1])
      BY <1>1, FunctionsKept
    <3>2. posted'[r][k].begun # << >> => BegunFrom(r, posted[r][k].begun, was[k - 1])
      BY <1>1, <1>4, <2>1 DEF Along
    <3>3. posted'[r][k].begun # << >> => BegunFrom(r, posted[r][k].begun, was[k - 1])'
      BY <1>1, <3>2 DEF BegunFrom, World
    <3> QED
      BY <1>1, <1>4, <2>1, <3>1, <3>3 DEF Along
  <2>3. Len(posted[r])' = m /\ AllAt(m)'
    BY <1>1, <1>3, <1>4, <1>5
  <2> QED
    BY <1>4, <1>7, <2>2, <2>3 DEF Along, AllAt
<1>10. FlushedAlong(r, log)'
  <2>1. FlushedAlong(r, log)
    BY DEF LogInv
  <2>2. PICK d : d = Done(r) /\ d \in Nat /\ Call(r) = d + 1 /\ Done(r)' = d + 1
    BY RankTypes DEF Resolves, Call
  <2>3. ASSUME NEW k \in 0 .. m, log[k].mask
        PROVE  /\ log[k].call \in Nat
               /\ log[k].call <= d \/ k = m
    <3>1. log[k].call \in Nat
      BY <1>4, <2>3, CallNumbers DEF LogInv, Follows
    <3> QED
      BY <1>4, <2>1, <2>2, <2>3, <3>1 DEF FlushedAlong
  <2>4. ASSUME NEW k \in 0 .. m, log[k].mask PROVE log[k].call <= Done(r)'
    BY <1>5, <2>2, <2>3, <2>4
  <2>5. r \in DOMAIN flushed
    BY DEF TypeInv, TypeOK
  <2>6. flushed'[r] = IF "flush" \in Mask(m) THEN flushed[r] \cup {d + 1} ELSE flushed[r]
    BY <1>4, <2>2, <2>5 DEF Resolves
  <2>7. ASSUME NEW c \in flushed'[r]
        PROVE  \E k \in 1 .. m : log[k].mask /\ log[k].call = c /\ AllAt(k)' /\ "flush" \in Mask(k)'
    <3>1. CASE c \in flushed[r]
      BY <1>3, <1>4, <2>1, <3>1 DEF FlushedAlong
    <3>2. CASE c \notin flushed[r]
      <4>1. c = log[m].call /\ "flush" \in Mask(m)
        BY <1>5, <2>2, <2>6, <2>7, <3>2
      <4>2. m \in 1 .. m
        BY <1>4, <1>6
      <4> QED
        BY <1>3, <1>5, <4>1, <4>2
    <3> QED
      BY <3>1, <3>2
  <2>8. ASSUME NEW k \in 1 .. m, log[k].mask, AllAt(k)', "flush" \in Mask(k)',
               log[k].call <= Done(r)'
        PROVE  log[k].call \in flushed'[r]
    <3>1. AllAt(k) /\ "flush" \in Mask(k)
      BY <1>3, <2>8
    <3>2. CASE log[k].call <= d
      <4>1. log[k].call \in flushed[r]
        BY <1>4, <2>1, <2>2, <2>8, <3>1, <3>2 DEF FlushedAlong
      <4> QED
        BY <2>6, <4>1
    <3>3. CASE ~(log[k].call <= d)
      <4>1. k = m
        BY <2>3, <2>8, <3>3
      <4> QED
        BY <1>5, <2>2, <2>6, <3>1, <4>1
    <3> QED
      BY <3>2, <3>3
  <2>9. Len(posted[r])' = m
    BY <1>1, <1>4
  <2> QED
    BY <2>4, <2>7, <2>8, <2>9 DEF FlushedAlong
<1> QED
  BY <1>2, <1>8, <1>9, <1>10 DEF LogInv

\* What issuing an operation does to the ranks' sequences.
LEMMA Issued ==
  ASSUME TypeInv, NEW r \in Ranks, Compute(r) \/ Step(r), NEW op, NEW mask, NEW begun,
         PostCall(r, op, mask, begun)
  PROVE  /\ Len(posted'[r]) = Len(posted[r]) + 1
         /\ posted'[r][Len(posted[r]) + 1] = [op |-> op, mask |-> mask, begun |-> begun]
         /\ \A s \in Ranks : s # r => posted'[s] = posted[s]
         /\ \A s \in Ranks : /\ Len(posted'[s]) \in Nat /\ Len(posted'[s]) >= Len(posted[s])
                             /\ \A i \in 1 .. Len(posted[s]) : posted'[s][i] = posted[s][i]
<1>1. r \in DOMAIN posted
  BY DEF TypeInv, TypeOK
<1>2. posted'[r] = Append(posted[r], [op |-> op, mask |-> mask, begun |-> begun])
  BY <1>1 DEF PostCall
<1>3. \A s \in Ranks : s # r => posted'[s] = posted[s]
  BY OthersKept
<1>4. posted[r] \in Seq(Posts) /\ Len(posted[r]) \in Nat
  BY PostedType
<1>5. /\ Len(posted'[r]) = Len(posted[r]) + 1
      /\ posted'[r][Len(posted[r]) + 1] = [op |-> op, mask |-> mask, begun |-> begun]
      /\ \A i \in 1 .. Len(posted[r]) : posted'[r][i] = posted[r][i]
  BY <1>2, <1>4
<1>6. ASSUME NEW s \in Ranks
      PROVE  /\ Len(posted'[s]) \in Nat /\ Len(posted'[s]) >= Len(posted[s])
             /\ \A i \in 1 .. Len(posted[s]) : posted'[s][i] = posted[s][i]
  BY <1>3, <1>4, <1>5, PostedType
<1> QED
  BY <1>3, <1>5, <1>6

\* A rank is in a state after a step as well.
LEMMA AtTypeNext ==
  TypeInv' => (\A r \in Ranks : At(r) \in LogState /\ (At(r).mask <=> pc[r] = "reduce"))'
<1>1. TypeInv => \A r \in Ranks : At(r) \in LogState /\ (At(r).mask <=> pc[r] = "reduce")
  BY AtType
<1> QED
  BY <1>1, PTL

\* The state after an operation becomes the next one of the log; or it is already,
\* if another rank came there first.
LEMMA IssuesLog ==
  ASSUME TypeInv, TypeInv', NEW CONSTANT r \in Ranks, Compute(r) \/ Step(r),
         NEW CONSTANT mask, NEW CONSTANT begun, Issues(r, mask, begun),
         NEW CONSTANT log \in [Nat -> LogState], NEW CONSTANT was \in [Nat -> LogState],
         NEW CONSTANT n \in Nat, LogInv(log, was, n)
  PROVE  \E n2 \in Nat : \E log2, was2 \in [Nat -> LogState] : LogInv(log2, was2, n2)'
<1>1. env' = env /\ flushed' = flushed
  BY StepEnv DEF Issues
<1>2. PICK m : m = Len(posted[r]) /\ m \in Nat /\ m <= n
  BY LogAt
<1>3. PICK a, b : a = At(r) /\ b = At(r)'
  OBVIOUS
<1>4. Follows(log, was, n) /\ Along(r, log, was, n) /\ FlushedAlong(r, log) /\ ~log[0].mask
  BY LogAt
<1>5. /\ ~a.mask /\ a = was[m] /\ (log[m].mask => AllAt(m))
      /\ b = After(a)
  <2>1. ~At(r).mask
    BY AtType DEF Issues
  <2> QED
    BY <1>2, <1>3, <1>4, <2>1 DEF Along, Issues
<1>6. b \in LogState /\ (b.mask <=> pc'[r] = "reduce")
  <2>1. At(r)' \in LogState /\ (At(r)'.mask <=> pc'[r] = "reduce")
    BY AtTypeNext
  <2> QED
    BY <1>3, <2>1
<1>7. /\ b.mask => Syncs /\ b.call \in World /\ b.call > Done(r)
  BY <1>3, <1>6 DEF Issues
<1>8. PICK M : M = Mask(m + 1)'
  OBVIOUS
<1>9. PICK c : c = IF b.mask THEN Resolve(b, M) ELSE b
  OBVIOUS
<1>10. c \in LogState
  <2>1. b.left \in SUBSET Nat
    BY <1>6 DEF LogState
  <2>2. Resolve(b, M) \in LogState
    BY <2>1, OpsType, NormType DEF Resolve
  <2> QED
    BY <1>6, <1>9, <2>2
<1>11. PICK n2 : n2 = IF m = n THEN n + 1 ELSE n
  OBVIOUS
<1>12. n2 \in Nat /\ n <= n2 /\ m + 1 <= n2 /\ m + 1 \in Nat /\ (m < n => n2 = n)
  BY <1>2, <1>11
<1>13. PICK log2, was2 : log2 = [log EXCEPT ![m + 1] = b] /\ was2 = [was EXCEPT ![m + 1] = c]
  OBVIOUS
<1>14. log2 \in [Nat -> LogState] /\ was2 \in [Nat -> LogState]
  BY <1>6, <1>10, <1>13
<1>15. /\ log2[m + 1] = b /\ was2[m + 1] = c
       /\ \A k \in Nat : k # m + 1 => log2[k] = log[k] /\ was2[k] = was[k]
  BY <1>12, <1>13
<1>16. \A k \in Nat : k <= n => log2[k] = log[k]
  <2>1. ASSUME m + 1 <= n PROVE log[m + 1] = b
    <3>1. m \in 0 .. n - 1
      BY <1>2, <2>1
    <3> QED
      BY <1>4, <1>5, <3>1 DEF Follows
  <2> QED
    BY <1>15, <2>1
<1>17. /\ Len(posted'[r]) = m + 1
       /\ posted'[r][m + 1] = [op |-> Op(a), mask |-> mask, begun |-> begun]
       /\ \A s \in Ranks : s # r => posted'[s] = posted[s]
       /\ \A s \in Ranks : /\ Len(posted'[s]) \in Nat /\ Len(posted'[s]) >= Len(posted[s])
                           /\ \A i \in 1 .. Len(posted[s]) : posted'[s][i] = posted[s][i]
  <2>1. PostCall(r, Op(a), mask, begun)
    BY <1>3 DEF Issues
  <2> QED
    BY <1>2, <2>1, Issued
<1>18. ASSUME NEW CONSTANT k \in Nat
       PROVE  /\ AllAt(k) => AllAt(k)'
              /\ AllAt(k) /\ k # 0 => Mask(k)' = Mask(k)
  BY <1>17, MasksKept
<1>19. ASSUME NEW CONSTANT k \in Nat, k # m + 1 PROVE AllAt(k)' => AllAt(k)
  <2>1. Len(posted'[r]) >= k => Len(posted[r]) >= k
    BY <1>2, <1>17, <1>19
  <2> QED
    BY <1>17, <2>1 DEF AllAt
<1>20. ~AllAt(m + 1)
  BY <1>2 DEF AllAt
\* Nobody relies on the entry that is written.
<1>21. ASSUME NEW k \in Nat, k <= n - 1 PROVE was2[k] = was[k]
  <2>1. CASE k # m + 1
    BY <1>15, <2>1
  <2>2. CASE k = m + 1
    <3>1. k \in 0 .. n - 1 /\ k \in 0 .. n
      BY <1>21
    <3>2. ~log[k].mask
      BY <1>4, <1>20, <2>2, <3>1 DEF Follows
    <3>3. was[k] = log[k] /\ log[k] = b
      BY <1>4, <1>15, <1>16, <2>2, <3>1, <3>2 DEF Follows
    <3> QED
      BY <1>9, <1>15, <2>2, <3>2, <3>3
  <2> QED
    BY <2>1, <2>2
<1>22. Follows(log2, was2, n2)'
  <2>1. log2[0] = Norm(InitOps, Left(0))'
    <3>1. Norm(InitOps, Left(0))' = Norm(InitOps, Left(0))
      BY <1>1, EnvKept DEF Norm, Left
    <3>2. log2[0] = log[0]
      BY <1>16, <1>2
    <3> QED
      BY <1>4, <3>1, <3>2 DEF Follows
  <2>2. ASSUME NEW k \in 0 .. n2
        PROVE  /\ log2[k].mask => Syncs' /\ log2[k].call \in World'
               /\ log2[k].mask /\ AllAt(k)' => was2[k] = Resolve(log2[k], Mask(k))'
               /\ ~log2[k].mask => was2[k] = log2[k]
    <3>1. Syncs' = Syncs /\ World' = World
      BY <1>1, EnvKept
    <3>2. CASE k = m + 1
      <4>1. log2[k].mask => Syncs' /\ log2[k].call \in World'
        BY <1>7, <1>15, <3>1, <3>2
      <4>2. ASSUME log2[k].mask, AllAt(k)' PROVE was2[k] = Resolve(log2[k], Mask(k))'
        <5>1. was2[k] = Resolve(b, M) /\ log2[k] = b /\ Mask(k)' = M
          BY <1>8, <1>9, <1>15, <3>2, <4>2
        <5>2. Resolve(b, M)' = Resolve(b, M)
          BY <1>1, FunctionsKept
        <5>3. Resolve(b, Mask(k))' = Resolve(b, M)'
          BY <5>1 DEF Resolve, Norm
        <5> QED
          BY <5>1, <5>2, <5>3
      <4>3. ~log2[k].mask => was2[k] = log2[k]
        BY <1>9, <1>15, <3>2
      <4> QED
        BY <4>1, <4>2, <4>3
    <3>3. CASE k # m + 1
      <4>1. k \in 0 .. n /\ k \in Nat
        BY <1>2, <1>11, <3>3
      <4>2. log2[k] = log[k] /\ was2[k] = was[k]
        BY <1>15, <3>3, <4>1
      <4>3. log2[k].mask => Syncs' /\ log2[k].call \in World'
        BY <1>4, <3>1, <4>1, <4>2 DEF Follows
      <4>4. ~log2[k].mask => was2[k] = log2[k]
        BY <1>4, <4>1, <4>2 DEF Follows
      <4>5. ASSUME log2[k].mask, AllAt(k)' PROVE was2[k] = Resolve(log2[k], Mask(k))'
        <5>1. AllAt(k) /\ k # 0
          BY <1>4, <1>19, <3>3, <4>1, <4>2, <4>5
        <5>2. Mask(k)' = Mask(k)
          BY <1>18, <4>1, <5>1
        <5>3. PICK g : g = log[k]
          OBVIOUS
        <5>4. Resolve(g, Mask(k))' = Resolve(g, Mask(k))
          BY <1>1, <5>2, ResolvedKept
        <5>5. was[k] = Resolve(g, Mask(k))
          BY <1>4, <4>1, <4>2, <4>5, <5>1, <5>3 DEF Follows
        <5> QED
          BY <4>2, <5>3, <5>4, <5>5
      <4> QED
        BY <4>3, <4>4, <4>5
    <3> QED
      BY <3>2, <3>3
  <2>3. ASSUME NEW k \in 0 .. n2 - 1
        PROVE  log2[k + 1] = After(was2[k])' /\ (log2[k].mask => AllAt(k)')
    <3>1. After(was2[k])' = After(was2[k])
      BY <1>1, FunctionsKept
    <3>2. k \in Nat /\ k <= n
      BY <1>2, <1>11
    <3>3. CASE k <= n - 1
      <4>1. k \in 0 .. n - 1 /\ k + 1 \in Nat /\ k + 1 <= n
        BY <3>2, <3>3
      <4>2. was2[k] = was[k] /\ log2[k] = log[k] /\ log2[k + 1] = log[k + 1]
        BY <1>16, <1>21, <3>2, <3>3, <4>1
      <4>3. log[k + 1] = After(was[k]) /\ (log[k].mask => AllAt(k))
        BY <1>4, <4>1 DEF Follows
      <4> QED
        BY <1>18, <3>1, <3>2, <4>2, <4>3
    <3>4. CASE ~(k <= n - 1)
      <4>1. k = n /\ m = n
        BY <1>2, <1>11, <3>2, <3>4
      <4>2. was2[k] = a /\ log2[k + 1] = b /\ log2[k] = log[m]
        BY <1>2, <1>5, <1>15, <4>1
      <4> QED
        BY <1>2, <1>5, <1>18, <3>1, <4>1, <4>2
    <3> QED
      BY <3>3, <3>4
  <2> QED
    BY <2>1, <2>2, <2>3 DEF Follows
<1>23. Along(r, log2, was2, n2)'
  <2>1. Len(posted[r])' = m + 1
    BY <1>17
  <2>2. At(r)'.mask => At(r)' = log2[m + 1]
    BY <1>3, <1>15
  <2>3. ~At(r)'.mask => At(r)' = was2[m + 1] /\ ~log2[m + 1].mask
    BY <1>3, <1>9, <1>15
  <2>4. ASSUME NEW k \in 1 .. m + 1
        PROVE  /\ posted'[r][k].op = Op(was2[k - 1])'
               /\ posted'[r][k].begun # << >> => BegunFrom(r, posted[r][k].begun, was2[k - 1])'
    <3>1. k - 1 \in Nat /\ k - 1 # m + 1
      BY <1>2
    <3>2. was2[k - 1] = was[k - 1]
      BY <1>15, <3>1
    <3>3. Op(was2[k - 1])' = Op(was[k - 1])
      BY <1>1, <3>2, FunctionsKept
    <3>4. /\ posted'[r][k].op = Op(was[k - 1])
          /\ posted'[r][k].begun # << >> => BegunFrom(r, posted'[r][k].begun, was[k - 1])
      <4>1. CASE k = m + 1
        <5>1. was[k - 1] = a
          BY <1>2, <1>5, <4>1
        <5>2. posted'[r][k].op = Op(a) /\ posted'[r][k].begun = begun
          BY <1>17, <4>1
        <5>3. begun # << >> => BegunFrom(r, begun, a)
          BY <1>3 DEF Issues
        <5> QED
          BY <5>1, <5>2, <5>3
      <4>2. CASE k # m + 1
        <5>1. k \in 1 .. m
          BY <1>2, <4>2
        <5>2. posted'[r][k] = posted[r][k]
          BY <1>2, <1>17, <5>1
        <5>3. /\ posted[r][k].op = Op(was[k - 1])
              /\ posted[r][k].begun # << >> => BegunFrom(r, posted[r][k].begun, was[k - 1])
          BY <1>2, <1>4, <5>1 DEF Along
        <5> QED
          BY <5>2, <5>3
      <4> QED
        BY <4>1, <4>2
    <3>5. posted'[r][k].begun # << >> => BegunFrom(r, posted[r][k].begun, was2[k - 1])'
      BY <1>1, <3>2, <3>4 DEF BegunFrom, World
    <3> QED
      BY <3>3, <3>4, <3>5
  <2> QED
    BY <1>12, <2>1, <2>2, <2>3, <2>4 DEF Along, AllAt
<1>24. FlushedAlong(r, log2)'
  <2>1. Len(posted[r])' = m + 1 /\ Done(r)' = Done(r) /\ pc[r] # "reduce"
    BY <1>17 DEF Issues
  <2>2. PICK d : d = Done(r) /\ d \in Nat
    BY RankTypes DEF Done, Call
  <2>3. \A k \in 0 .. m : k \in Nat /\ log2[k] = log[k]
    BY <1>2, <1>16
  <2>4. ASSUME NEW k \in 0 .. m + 1, log2[k].mask
        PROVE  log2[k].call <= Done(r)' \/ (k = m + 1 /\ pc'[r] = "reduce")
    <3>1. CASE k = m + 1
      BY <1>6, <1>15, <2>4, <3>1
    <3>2. CASE k # m + 1
      <4>1. k \in 0 .. m
        BY <1>2, <3>2
      <4> QED
        BY <1>2, <1>4, <2>1, <2>3, <2>4, <4>1 DEF FlushedAlong
    <3> QED
      BY <3>1, <3>2
  <2>5. ASSUME NEW q \in flushed'[r]
        PROVE  \E k \in 1 .. m + 1 :
                 log2[k].mask /\ log2[k].call = q /\ AllAt(k)' /\ "flush" \in Mask(k)'
    <3>1. PICK k \in 1 .. m : log[k].mask /\ log[k].call = q /\ AllAt(k) /\ "flush" \in Mask(k)
      BY <1>1, <1>2, <1>4, <2>5 DEF FlushedAlong
    <3>2. k \in Nat /\ k # 0 /\ k \in 0 .. m /\ k \in 1 .. m + 1
      BY <1>2
    <3>3. AllAt(k)' /\ Mask(k)' = Mask(k) /\ log2[k] = log[k]
      BY <1>18, <2>3, <3>1, <3>2
    <3> QED
      BY <3>1, <3>2, <3>3
  <2>6. ASSUME NEW k \in 1 .. m + 1, log2[k].mask, AllAt(k)', "flush" \in Mask(k)',
               log2[k].call <= Done(r)'
        PROVE  log2[k].call \in flushed'[r]
    <3>1. CASE k = m + 1
      <4>1. b.mask /\ b.call <= d
        BY <1>15, <2>1, <2>2, <2>6, <3>1
      <4>2. b.call > d /\ b.call \in Nat
        BY <1>7, <2>2, <4>1, CallNumbers
      <4>3. FALSE
        BY <2>2, <4>1, <4>2
      <4> QED
        BY <4>3
    <3>2. CASE k # m + 1
      <4>1. k \in 1 .. m /\ k \in 0 .. m /\ k \in Nat /\ k # 0
        BY <1>2, <3>2
      <4>2. log[k].mask /\ log[k].call <= Done(r) /\ log2[k] = log[k]
        BY <2>1, <2>3, <2>6, <4>1
      <4>3. AllAt(k)
        BY <1>2, <4>1, <4>2, DoneAllAt
      <4>4. "flush" \in Mask(k)
        BY <1>18, <2>6, <4>1, <4>3
      <4>5. log[k].call \in flushed[r]
        BY <1>2, <1>4, <4>1, <4>2, <4>3, <4>4 DEF FlushedAlong
      <4> QED
        BY <1>1, <4>2, <4>5
    <3> QED
      BY <3>1, <3>2
  <2> QED
    BY <2>1, <2>4, <2>5, <2>6 DEF FlushedAlong
<1>25. ASSUME NEW CONSTANT s \in Ranks, s # r
       PROVE  Along(s, log2, was2, n2)' /\ FlushedAlong(s, log2)'
  <2>1. At(s)' = At(s) /\ Done(s)' = Done(s)
    BY <1>1, <1>25, OthersKept, AtKept
  <2>2. posted'[s] = posted[s] /\ flushed'[s] = flushed[s]
    BY <1>25, OthersKept
  <2>3. PICK h : h = Len(posted[s]) /\ h \in Nat /\ h <= n
    BY LogAt
  <2>4. AllAt(h) => \A q \in Ranks : Len(posted'[q]) >= h
    BY <1>18, <2>3 DEF AllAt
  <2>5. \A k \in 0 .. h : log2[k] = log[k]
    BY <1>16, <2>3
  <2>6. \A k \in 0 .. h - 1 : was2[k] = was[k]
    BY <1>21, <2>3
  <2>7. Along(s, log, was, n)
    BY DEF LogInv
  <2>8. ASSUME ~At(s).mask PROVE was2[h] = was[h]
    <3>1. CASE h # m + 1
      BY <1>15, <2>3, <3>1
    <3>2. CASE h = m + 1
      <4>1. ~log[h].mask
        BY <1>20, <2>3, <2>7, <2>8, <3>2 DEF Along
      <4>2. h \in 0 .. n
        BY <2>3
      <4>3. was[h] = log[h] /\ log[h] = b
        BY <1>4, <1>15, <1>16, <2>3, <3>2, <4>1, <4>2 DEF Follows
      <4> QED
        BY <1>9, <1>15, <3>2, <4>1, <4>3
    <3> QED
      BY <3>1, <3>2
  <2>9. Along(s, log2, was2, n2)'
    BY <1>1, <1>12, <2>1, <2>2, <2>3, <2>4, <2>5, <2>6, <2>7, <2>8, AlongKept
  <2>10. pc'[s] = "reduce" <=> pc[s] = "reduce"
    BY <1>25, OthersKept
  <2>11. \A k \in 1 .. Len(posted[s]) : AllAt(k) => AllAt(k)' /\ Mask(k)' = Mask(k)
    <3>1. ASSUME NEW CONSTANT k \in 1 .. h, AllAt(k) PROVE AllAt(k)' /\ Mask(k)' = Mask(k)
      <4>1. k \in Nat /\ k # 0
        BY <2>3
      <4> QED
        BY <1>18, <3>1, <4>1
    <3> QED
      BY <2>3, <3>1
  <2>12. FlushedAlong(s, log2)'
    BY <2>1, <2>2, <2>3, <2>5, <2>10, <2>11, FlushedKept
  <2> QED
    BY <2>9, <2>12
<1>26. LogInv(log2, was2, n2)'
  BY <1>22, <1>23, <1>24, <1>25 DEF LogInv
<1> QED
  BY <1>12, <1>14, <1>26

\* The log at the start: no operation has been issued.
LEMMA StartMatch ==
  ASSUME Init, TypeInv
  PROVE  MatchInv
<1>1. SyncedAll
  <2>1. \A r \in Ranks : buf[r].on /\ pc[r] = "init" /\ synced[r] = {} /\ calls[r] = 0
    BY DEF Init
  <2>2. \A c \in World : c \in Nat /\ ~(c <= 0)
    BY ProgramType DEF World
  <2> QED
    BY <2>1, <2>2 DEF SyncedAll
<1>2. PICK a : a = Norm(InitOps, Left(0))
  OBVIOUS
<1>3. a \in LogState /\ ~a.mask
  <2>1. Left(0) \in SUBSET Nat
    BY ProgramType DEF Left, World
  <2> QED
    BY <1>2, <2>1, OpsType, NormType
<1>4. PICK log : log = [k \in Nat |-> a]
  OBVIOUS
<1>5. log \in [Nat -> LogState] /\ \A k \in Nat : log[k] = a
  BY <1>3, <1>4
<1>6. Follows(log, log, 0)
  <2>1. 0 \in Nat /\ \A k \in 0 .. 0 : k \in Nat
    OBVIOUS
  <2>2. \A k \in 0 .. 0 - 1 : FALSE
    OBVIOUS
  <2> QED
    BY <1>2, <1>3, <1>5, <2>1, <2>2 DEF Follows
<1>7. ASSUME NEW r \in Ranks PROVE Along(r, log, log, 0) /\ FlushedAlong(r, log)
  <2>1. Len(posted[r]) = 0 /\ pc[r] = "init" /\ flushed[r] = {}
    BY DEF Init
  <2>2. At(r) = a
    BY <1>2, <2>1 DEF At
  <2>3. Along(r, log, log, 0)
    BY <1>3, <1>5, <2>1, <2>2 DEF Along
  <2>4. FlushedAlong(r, log)
    BY <1>3, <1>5, <2>1 DEF FlushedAlong
  <2> QED
    BY <2>3, <2>4
<1>8. LogInv(log, log, 0)
  BY <1>6, <1>7 DEF LogInv
<1> QED
  BY <1>1, <1>5, <1>8 DEF MatchInv

\* A step that changes nothing.
LEMMA StutterMatch ==
  ASSUME TypeInv, MatchInv, UNCHANGED vars
  PROVE  MatchInv'
<1>1. /\ env' = env /\ pc' = pc /\ calls' = calls /\ buf' = buf /\ recorded' = recorded
      /\ todo' = todo /\ posted' = posted /\ synced' = synced /\ flushed' = flushed
  BY DEF vars
<1>2. PICK n \in Nat : \E log, was \in [Nat -> LogState] : LogInv(log, was, n)
  BY DEF MatchInv
<1>3. PICK log \in [Nat -> LogState], was \in [Nat -> LogState] : LogInv(log, was, n)
  BY <1>2
<1>4. Follows(log, was, n)'
  BY <1>1, <1>3, FollowsKept DEF LogInv
<1>5. ASSUME NEW CONSTANT s \in Ranks PROVE Along(s, log, was, n)' /\ FlushedAlong(s, log)'
  <2>1. At(s)' = At(s) /\ Done(s)' = Done(s)
    BY <1>1, AtKept
  <2>2. AllAt(Len(posted[s])) => \A q \in Ranks : Len(posted'[q]) >= Len(posted[s])
    BY <1>1 DEF AllAt
  <2>3. Along(s, log, was, n) /\ n <= n
    BY <1>3 DEF LogInv
  <2>4. posted'[s] = posted[s] /\ flushed'[s] = flushed[s] /\ (pc'[s] = "reduce" <=> pc[s] = "reduce")
    BY <1>1
  <2>5. Along(s, log, was, n)'
    BY <1>1, <2>1, <2>2, <2>3, <2>4, AlongKept
  <2>6. ASSUME NEW CONSTANT k PROVE AllAt(k)' = AllAt(k) /\ Mask(k)' = Mask(k)
    BY <1>1 DEF AllAt, Mask
  <2>7. FlushedAlong(s, log)'
    BY <1>3, <2>1, <2>4, <2>6, FlushedKept
  <2> QED
    BY <2>5, <2>7
<1>6. LogInv(log, was, n)'
  BY <1>4, <1>5 DEF LogInv
<1>7. SyncedAll'
  <2>1. SyncedAll
    BY DEF MatchInv
  <2>2. Syncs' = Syncs /\ World' = World
    BY <1>1, EnvKept
  <2> QED
    BY <1>1, <2>1, <2>2 DEF SyncedAll, Call
<1> QED
  BY <1>6, <1>7 DEF MatchInv

\* A step keeps the ranks along one log.
LEMMA MatchStep ==
  ASSUME AlwaysRecording, TypeInv, TypeInv', MatchInv, [Next]_vars
  PROVE  MatchInv'
<1>1. CASE UNCHANGED vars
  BY <1>1, StutterMatch
<1>2. ASSUME NEW r \in Ranks, Compute(r) \/ Step(r) PROVE MatchInv'
  <2>1. SyncedAll
    BY DEF MatchInv
  <2>2. SyncedAll'
    BY <1>2, <2>1, SyncedStep
  <2>3. PICK n \in Nat : \E log, was \in [Nat -> LogState] : LogInv(log, was, n)
    BY DEF MatchInv
  <2>4. PICK log \in [Nat -> LogState], was \in [Nat -> LogState] : LogInv(log, was, n)
    BY <2>3
  <2>5. CASE Quiet(r)
    <3>1. LogInv(log, was, n)'
      BY <1>2, <2>4, <2>5, QuietLog
    <3> QED
      BY <2>2, <3>1 DEF MatchInv
  <2>6. CASE Resolves(r)
    <3>1. LogInv(log, was, n)'
      BY <1>2, <2>4, <2>6, ResolvesLog
    <3> QED
      BY <2>2, <3>1 DEF MatchInv
  <2>7. CASE \E mask \in SUBSET {"flush", "time"}, begun \in Seq(Begun) : Issues(r, mask, begun)
    <3>1. PICK mask, begun : Issues(r, mask, begun)
      BY <2>7
    <3>2. \E n2 \in Nat : \E log2, was2 \in [Nat -> LogState] : LogInv(log2, was2, n2)'
      BY <1>2, <2>4, <3>1, IssuesLog
    <3> QED
      BY <2>2, <3>2 DEF MatchInv
  <2> QED
    BY <1>2, <2>1, <2>5, <2>6, <2>7, StepKinds
<1> QED
  BY <1>1, <1>2 DEF Next

\* Ranks along one log issue the same operations.
LEMMA AlongMatch ==
  ASSUME TypeInv, MatchInv
  PROVE  CollectivesMatch
<1>1. PICK n \in Nat : \E log, was \in [Nat -> LogState] : LogInv(log, was, n)
  BY DEF MatchInv
<1>2. PICK log \in [Nat -> LogState], was \in [Nat -> LogState] : LogInv(log, was, n)
  BY <1>1
<1>3. \A r \in Ranks : \A k \in 1 .. Len(posted[r]) :
        /\ posted[r][k].op = Op(was[k - 1])
        /\ posted[r][k].begun # << >> => BegunFrom(r, posted[r][k].begun, was[k - 1])
  BY <1>2 DEF LogInv, Along
<1>4. ASSUME NEW r \in Ranks, NEW s \in Ranks, NEW k \in 1 .. Len(posted[r]), k <= Len(posted[s])
      PROVE  posted[r][k].op = posted[s][k].op
  <2>1. k \in 1 .. Len(posted[s])
    BY <1>4, PostedType
  <2> QED
    BY <1>3, <2>1
<1>5. PICK r0 : r0 \in Ranks /\ r0 = CHOOSE r \in Ranks : TRUE
  <2>1. Ranks # {}
    <3>1. Cardinality({}) = 0
      BY FS_EmptySet
    <3> QED
      BY <3>1, RanksAssumption
  <2> QED
    BY <2>1
<1>6. ASSUME NEW k \in DOMAIN posted[r0] PROVE BeginsAgree(k)
  <2>1. SUFFICES ASSUME \A r \in Ranks : k <= Len(posted[r]) /\ posted[r][k].begun # << >>
                 PROVE  BeginsAgree(k)
    BY DEF BeginsAgree
  <2>2. k \in 1 .. Len(posted[r0])
    BY <1>5, <1>6, PostedType
  <2>3. \A r \in Ranks : k \in 1 .. Len(posted[r])
    BY <2>1, <2>2, <1>5, PostedType
  <2>4. PICK a : a = was[k - 1]
    OBVIOUS
  <2>5. \A r \in Ranks : BegunFrom(r, posted[r][k].begun, a)
    BY <1>3, <2>1, <2>3, <2>4
  <2>6. PICK c : c = env.Program[FirstOf(a.left)]
    OBVIOUS
  <2>7. c \in Calls /\ Op(a) = c.op
    <3>1. FirstOf(a.left) \in World /\ a.call = 0 /\ a.todo = << >>
      BY <1>5, <2>5 DEF BegunFrom
    <3>2. FirstOf(a.left) \in 1 .. Len(env.Program)
      BY <3>1 DEF World
    <3>3. c \in Calls
      BY <2>6, <3>2, ProgramType
    <3> QED
      BY <2>6, <3>1, <3>3 DEF Op
  <2>8. \A r \in Ranks : posted[r][k].begun[1] = vt_mpi_collbegin(r, c)
    BY <2>5, <2>6 DEF BegunFrom
  <2>9. PICK b : b = [r \in Ranks |-> posted[r][k].begun[1]]
    OBVIOUS
  <2>10. \A r \in Ranks : b[r] = vt_mpi_collbegin(r, c)
    BY <2>8, <2>9
  <2>11. Agreed(c.op, b)
    BY <2>7, <2>10, CollbeginAgree
  <2>12. posted[r0][k].op = c.op
    BY <1>3, <1>5, <2>2, <2>4, <2>7
  <2> QED
    BY <1>5, <2>9, <2>11, <2>12 DEF BeginsAgree, Agreed
<1> QED
  BY <1>4, <1>5, <1>6 DEF CollectivesMatch

\* And they flush and synchronise after the same calls.
LEMMA AlongFlush ==
  ASSUME TypeInv, MatchInv
  PROVE  FlushTogether
<1>1. PICK n \in Nat : \E log, was \in [Nat -> LogState] : LogInv(log, was, n)
  BY DEF MatchInv
<1>2. PICK log \in [Nat -> LogState], was \in [Nat -> LogState] : LogInv(log, was, n)
  BY <1>1
<1>3. ASSUME NEW r \in Ranks, NEW s \in Ranks, NEW c \in flushed[r], calls[s] >= c
      PROVE  c \in flushed[s]
  <2>1. FlushedAlong(r, log) /\ FlushedAlong(s, log)
    BY <1>2 DEF LogInv
  <2>2. PICK k \in 1 .. Len(posted[r]) :
          log[k].mask /\ log[k].call = c /\ AllAt(k) /\ "flush" \in Mask(k)
    BY <2>1 DEF FlushedAlong
  <2>3. k \in 1 .. Len(posted[s])
    BY <2>2, PostedType DEF AllAt
  <2>4. c \in Nat
    <3>1. c \in 1 .. Len(env.Program)
      BY DEF TypeInv, TypeOK
    <3> QED
      BY <3>1, ProgramType
  <2>5. log[k].call <= Done(s)
    BY <1>3, <2>2, <2>4, RankTypes DEF Done, Call
  <2> QED
    BY <2>1, <2>2, <2>3, <2>5 DEF FlushedAlong
<1>4. ASSUME NEW r \in Ranks, NEW s \in Ranks, NEW c \in synced[r], calls[s] >= c
      PROVE  c \in synced[s]
  <2>1. Syncs /\ c \in World
    BY DEF MatchInv, SyncedAll
  <2>2. c <= calls[s]
    BY <1>4, <2>1, CallNumbers, RankTypes
  <2> QED
    BY <2>1, <2>2 DEF MatchInv, SyncedAll
<1> QED
  BY <1>3, <1>4 DEF FlushTogether

\* Types and log together.
LEMMA MatchAlways ==
  ASSUME AlwaysRecording
  PROVE  Spec => [](TypeInv /\ MatchInv)
<1>1. Init => TypeInv /\ MatchInv
  BY StartTypes, StartMatch
<1>2. (TypeInv /\ MatchInv) /\ [Next]_vars => (TypeInv /\ MatchInv)'
  BY NextTypes, MatchStep
<1> QED
  BY <1>1, <1>2, PTL DEF Spec

\* All ranks issue the same sequence of collective operations, the tool's and the
\* program's, and what they record of an operation fits together, for any number
\* of ranks, any program and any counts (vt_mpi_sync, vt_mpi_init, vt_mpi_finalize
\* and the wrappers of vt_mpiwrap).
THEOREM OneSequence ==
  ASSUME AlwaysRecording
  PROVE  Spec => []CollectivesMatch
<1>1. TypeInv /\ MatchInv => CollectivesMatch
  BY AlongMatch
<1> QED
  BY <1>1, MatchAlways, PTL

\* If one rank flushes at a synchronisation, all ranks do (vt_mpi_sync).
THEOREM AllFlush ==
  ASSUME AlwaysRecording
  PROVE  Spec => []FlushTogether
<1>1. TypeInv /\ MatchInv => FlushTogether
  BY AlongFlush
<1> QED
  BY <1>1, MatchAlways, PTL
=============================================================================
