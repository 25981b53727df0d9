-------------------------- MODULE MpiRequests_proofs --------------------------
(***************************************************************************)
(* Proofs about MpiRequests, for every number of handles, block size and   *)
(* array length: the list of blocks stays well formed, it holds what MPI   *)
(* knows, every completion is recorded once, and the list implements the   *)
(* plain table RequestTable.                                               *)
(***************************************************************************)
EXTENDS MpiRequests, FiniteSetTheorems, SequenceTheorems, WellFoundedInduction, TLAPS

TableType ==
  [req : [1 .. MaxBlocks -> [Index -> EntryType]],
   nblk : 0 .. MaxBlocks, last_block : 0 .. MaxBlocks,
   lastidx : 0 .. BlkSize,
   lastreq : ((1 .. MaxBlocks) \X Index) \cup {NULL}]

\* The end of a table that is in use.
EndOf(s) ==
  IF s.last_block = 0
  THEN s.lastreq = NULL /\ s.lastidx = BlkSize
  ELSE /\ s.last_block <= s.nblk
       /\ s.lastidx < BlkSize
       /\ s.lastreq = <<s.last_block, s.lastidx>>

Wf(s) == s \in TableType /\ EndOf(s)

------------------------------------------------------------------------------
(* The list of blocks. *)

\* The number of blocks is large enough for the bound on the entries.
LEMMA BlocksSuffice ==
  /\ BlkSize \in Nat \ {0} /\ MaxEntries \in Nat \ {0}
  /\ MaxBlocks \in Nat \ {0}
  /\ MaxBlocks * BlkSize >= MaxEntries
<1>1. BlkSize \in Nat \ {0} /\ MaxEntries \in Nat \ {0}
  BY SizesAssumption
<1>2. \A a \in Nat, b \in Nat \ {0} : a \div b \in Nat /\ a = b * (a \div b) + (a % b) /\ (a % b) < b
  OBVIOUS
<1> DEFINE a == MaxEntries + BlkSize - 1
<1>3. a \in Nat /\ a >= BlkSize
  BY <1>1
<1>4. /\ a \div BlkSize \in Nat
      /\ a = BlkSize * (a \div BlkSize) + (a % BlkSize)
      /\ (a % BlkSize) < BlkSize
  BY <1>1, <1>2, <1>3
<1>5. a % BlkSize \in Nat
  BY <1>1, <1>3
<1>6. MaxBlocks = a \div BlkSize
  BY DEF MaxBlocks
<1> HIDE DEF a
<1>7. MaxBlocks \in Nat /\ a = BlkSize * MaxBlocks + (a % BlkSize) /\ (a % BlkSize) < BlkSize
  BY <1>4, <1>6
<1>8. MaxBlocks # 0
  BY <1>1, <1>3, <1>5, <1>7
<1>9. BlkSize * MaxBlocks >= MaxEntries
  BY <1>1, <1>3, <1>5, <1>7 DEF a
<1> QED
  BY <1>1, <1>7, <1>8, <1>9

\* The slots in use are those up to the end.
LEMMA UsedIs ==
  ASSUME NEW s, Wf(s)
  PROVE  Used(s) = {p \in (1 .. MaxBlocks) \X Index :
                      \/ p[1] < s.last_block
                      \/ p[1] = s.last_block /\ p[2] <= s.lastidx}
<1>1. BlkSize \in Nat /\ MaxBlocks \in Nat
  BY BlocksSuffice
<1>2. s.nblk \in 0 .. MaxBlocks /\ s.last_block \in 0 .. MaxBlocks /\ s.lastidx \in 0 .. BlkSize
  BY DEF Wf, TableType
<1>3. CASE s.last_block = 0
  BY <1>1, <1>2, <1>3 DEF Used, Wf, EndOf, NULL, Index
<1>4. CASE s.last_block # 0
  <2>1. s.lastreq = <<s.last_block, s.lastidx>> /\ s.lastreq # NULL /\ s.last_block <= s.nblk
    BY <1>2, <1>4 DEF Wf, EndOf, NULL
  <2>2. s.lastreq[1] = s.last_block /\ s.lastreq[2] = s.lastidx
    BY <2>1
  <2> QED
    BY <1>1, <1>2, <1>4, <2>1, <2>2 DEF Used, Before, Index
<1> QED
  BY <1>3, <1>4

\* What an assignment to a slot does.
LEMMA StoreIs ==
  ASSUME NEW s \in TableType, NEW p \in (1 .. MaxBlocks) \X Index, NEW e \in EntryType
  PROVE  LET u == Store(s, p, e) IN
         /\ u \in TableType
         /\ u.nblk = s.nblk /\ u.last_block = s.last_block
         /\ u.lastidx = s.lastidx /\ u.lastreq = s.lastreq
         /\ \A q \in (1 .. MaxBlocks) \X Index :
              At(u, q) = IF q = p THEN e ELSE At(s, q)
<1> DEFINE u == Store(s, p, e)
<1>1. PICK b \in 1 .. MaxBlocks, i \in Index : p = <<b, i>>
  OBVIOUS
<1> DEFINE r == [s.req EXCEPT ![b] = [s.req[b] EXCEPT ![i] = e]]
<1>2. u = [s EXCEPT !.req = r]
  BY <1>1 DEF Store
<1>6. s.req \in [1 .. MaxBlocks -> [Index -> EntryType]]
  BY DEF TableType
<1>7. r \in [1 .. MaxBlocks -> [Index -> EntryType]]
  BY <1>6
<1>8. \A c \in 1 .. MaxBlocks, j \in Index :
        r[c][j] = IF <<c, j>> = <<b, i>> THEN e ELSE s.req[c][j]
  BY <1>6
<1> HIDE DEF r
<1>3. u \in TableType /\ u.req = r
  BY <1>2, <1>7 DEF TableType
<1>4. /\ u.nblk = s.nblk /\ u.last_block = s.last_block
      /\ u.lastidx = s.lastidx /\ u.lastreq = s.lastreq
  BY <1>2 DEF TableType
<1>5. ASSUME NEW c \in 1 .. MaxBlocks, NEW j \in Index
      PROVE  u.req[c][j] = IF <<c, j>> = <<b, i>> THEN e ELSE s.req[c][j]
  BY <1>3, <1>8
<1> QED
  BY <1>1, <1>3, <1>4, <1>5 DEF At

\* The entry that a fresh block is filled with.
LEMMA EmptyType == Empty \in EntryType /\ Empty.request = 0
  BY DEF Empty, EntryType, Kinds

\* A table in which every block is full holds as many entries as the bound.
LEMMA FullTable ==
  ASSUME NEW s, Wf(s), s.last_block = MaxBlocks, s.lastidx + 1 >= BlkSize
  PROVE  Cardinality(Used(s)) >= MaxEntries
<1>1. BlkSize \in Nat \ {0} /\ MaxBlocks \in Nat \ {0}
  BY BlocksSuffice
<1>2. Used(s) = (1 .. MaxBlocks) \X Index
  BY <1>1, UsedIs DEF Index, Wf, EndOf, TableType
<1>3. IsFiniteSet(1 .. MaxBlocks) /\ Cardinality(1 .. MaxBlocks) = MaxBlocks
  BY <1>1, FS_Interval
<1>4. IsFiniteSet(Index) /\ Cardinality(Index) = BlkSize
  BY <1>1, FS_Interval DEF Index
<1> QED
  BY <1>2, <1>3, <1>4, FS_Product, BlocksSuffice

\* Advance makes room for one entry behind the last one.
LEMMA AdvanceIs ==
  ASSUME NEW s, Wf(s), Cardinality(Used(s)) < MaxEntries
  PROVE  LET a == Advance(s) IN
         /\ Wf(a)
         /\ a.req = s.req
         /\ a.lastreq \in (1 .. MaxBlocks) \X Index
         /\ a.lastreq \notin Used(s)
         /\ Used(a) = Used(s) \cup {a.lastreq}
<1> DEFINE a == Advance(s)
<1>1. BlkSize \in Nat \ {0} /\ MaxBlocks \in Nat \ {0}
  BY BlocksSuffice
<1>2. s.nblk \in 0 .. MaxBlocks /\ s.last_block \in 0 .. MaxBlocks /\ s.lastidx \in 0 .. BlkSize
  BY DEF Wf, TableType
<1>3. ~(s.last_block = MaxBlocks /\ s.lastidx + 1 >= BlkSize)
  <2>1. SUFFICES ASSUME s.last_block = MaxBlocks, s.lastidx + 1 >= BlkSize PROVE FALSE
    OBVIOUS
  <2>2. Cardinality(Used(s)) >= MaxEntries
    BY <2>1, FullTable
  <2>3. IsFiniteSet(Used(s))
    <3>1. IsFiniteSet(1 .. MaxBlocks) /\ IsFiniteSet(Index)
      BY <1>1, FS_Interval DEF Index
    <3>2. IsFiniteSet((1 .. MaxBlocks) \X Index)
      BY <3>1, FS_Product
    <3> QED
      BY <3>2, UsedIs, FS_Subset
  <2> QED
    BY <2>2, <2>3, FS_CardinalityType, BlocksSuffice
<1>4. CASE s.lastidx + 1 >= BlkSize
  <2> DEFINE b == s.last_block + 1
             n == IF b > s.nblk THEN b ELSE s.nblk
  <2>1. b \in 1 .. MaxBlocks /\ n \in 0 .. MaxBlocks /\ b <= n
    BY <1>1, <1>2, <1>3, <1>4
  <2>2. (IF s.nblk = 0 \/ s.last_block = 0 THEN 1 ELSE s.last_block + 1) = b
    BY <1>2 DEF Wf, EndOf
  <2>3. a = [s EXCEPT !.nblk = n, !.last_block = b, !.lastidx = 0, !.lastreq = <<b, 0>>]
    BY <1>2, <1>4, <2>2 DEF Advance
  <2> HIDE DEF b, n
  <2>7. <<b, 0>> \in (1 .. MaxBlocks) \X Index /\ 0 \in 0 .. BlkSize /\ b \in 0 .. MaxBlocks
    BY <1>1, <2>1 DEF Index
  <2>4. a \in TableType
    BY <2>1, <2>3, <2>7 DEF Wf, TableType
  <2>5. /\ a.req = s.req /\ a.nblk = n /\ a.last_block = b /\ a.lastidx = 0
        /\ a.lastreq = <<b, 0>>
    BY <2>3 DEF Wf, TableType
  <2>6. Wf(a)
    BY <1>1, <2>1, <2>4, <2>5 DEF Wf, EndOf
  <2>8. <<b, 0>> \notin Used(s)
    BY <1>2, UsedIs, <2>1 DEF b
  <2>9. Used(a) = Used(s) \cup {<<b, 0>>}
    <3>1. ASSUME NEW c \in 1 .. MaxBlocks, NEW j \in Index
          PROVE  <<c, j>> \in Used(a) <=> <<c, j>> \in Used(s) \/ <<c, j>> = <<b, 0>>
      BY <1>1, <1>2, <1>4, <2>5, <2>6, UsedIs DEF b, Index
    <3>2. Used(a) \subseteq (1 .. MaxBlocks) \X Index /\ Used(s) \subseteq (1 .. MaxBlocks) \X Index
      BY <2>6, UsedIs
    <3> HIDE DEF a
    <3> QED
      BY <2>7, <3>1, <3>2
  <2> QED
    BY <2>5, <2>6, <2>7, <2>8, <2>9
<1>5. CASE s.lastidx + 1 < BlkSize
  <2> DEFINE i == s.lastidx + 1
             b == s.last_block
  <2>1. b \in 1 .. MaxBlocks /\ i \in Index
    BY <1>1, <1>2, <1>5 DEF Wf, EndOf, Index
  <2>2. s.lastreq = <<b, s.lastidx>>
    BY <2>1 DEF Wf, EndOf
  <2>3. a = [s EXCEPT !.lastidx = i, !.lastreq = <<b, i>>]
    BY <1>1, <1>2, <1>5, <2>2 DEF Advance
  <2>7. <<b, i>> \in (1 .. MaxBlocks) \X Index /\ i \in 0 .. BlkSize
    BY <1>1, <2>1 DEF Index
  <2>4. a \in TableType
    BY <2>1, <2>3, <2>7 DEF Wf, TableType
  <2>5. /\ a.req = s.req /\ a.nblk = s.nblk /\ a.last_block = b /\ a.lastidx = i
        /\ a.lastreq = <<b, i>>
    BY <2>3 DEF Wf, TableType
  <2>6. Wf(a)
    BY <1>1, <1>2, <1>5, <2>1, <2>4, <2>5 DEF Wf, EndOf
  <2>8. <<b, i>> \notin Used(s)
    BY <1>2, UsedIs, <2>1
  <2>9. Used(a) = Used(s) \cup {<<b, i>>}
    <3>1. ASSUME NEW c \in 1 .. MaxBlocks, NEW j \in Index
          PROVE  <<c, j>> \in Used(a) <=> <<c, j>> \in Used(s) \/ <<c, j>> = <<b, i>>
      BY <1>1, <1>2, <1>5, <2>5, <2>6, UsedIs DEF Index
    <3>2. Used(a) \subseteq (1 .. MaxBlocks) \X Index /\ Used(s) \subseteq (1 .. MaxBlocks) \X Index
      BY <2>6, UsedIs
    <3> HIDE DEF a, b, i
    <3> QED
      BY <2>7, <3>1, <3>2
  <2> QED
    BY <2>5, <2>6, <2>7, <2>8, <2>9
<1> QED
  BY <1>1, <1>2, <1>4, <1>5

\* The entry that vt_request_create fills in.
LEMMA NewEntryIs ==
  ASSUME NEW h \in Handles, NEW kind \in Kinds, NEW persistent \in BOOLEAN
  PROVE  [Empty EXCEPT !.request = h, !.kind = kind, !.persistent = persistent]
           = [request |-> h, kind |-> kind, persistent |-> persistent,
              active |-> FALSE, deallocate |-> FALSE]
<1> DEFINE e == [Empty EXCEPT !.request = h, !.kind = kind, !.persistent = persistent]
<1>1. e \in EntryType
  BY EmptyType DEF EntryType
<1>2. /\ e.request = h /\ e.kind = kind /\ e.persistent = persistent
      /\ e.active = Empty.active /\ e.deallocate = Empty.deallocate
  BY EmptyType DEF EntryType
<1>3. Empty.active = FALSE /\ Empty.deallocate = FALSE
  BY DEF Empty
<1> HIDE DEF e
<1>4. e = [request |-> e.request, kind |-> e.kind, persistent |-> e.persistent,
           active |-> e.active, deallocate |-> e.deallocate]
  BY <1>1 DEF EntryType
<1> QED
  BY <1>2, <1>3, <1>4 DEF e

\* vt_request_create puts a new entry behind the last one, and leaves the
\* others alone.
LEMMA CreateIs ==
  ASSUME NEW s, Wf(s), Cardinality(Used(s)) < MaxEntries,
         NEW h \in Handles, NEW kind \in Kinds, NEW persistent \in BOOLEAN
  PROVE  LET u == vt_request_create(s, h, kind, persistent) IN
         /\ Wf(u)
         /\ \E q \in (1 .. MaxBlocks) \X Index :
              /\ q \notin Used(s)
              /\ Used(u) = Used(s) \cup {q}
              /\ At(u, q) = [request |-> h, kind |-> kind, persistent |-> persistent,
                             active |-> FALSE, deallocate |-> FALSE]
              /\ \A p \in Used(s) : At(u, p) = At(s, p)
<1> DEFINE a == Advance(s)
           e == [Empty EXCEPT !.request = h, !.kind = kind, !.persistent = persistent]
           u == vt_request_create(s, h, kind, persistent)
           q == a.lastreq
<1>1. Wf(a) /\ a \in TableType /\ a.req = s.req /\ q \in (1 .. MaxBlocks) \X Index
      /\ q \notin Used(s) /\ Used(a) = Used(s) \cup {q}
  BY AdvanceIs DEF Wf
<1>2. e = [request |-> h, kind |-> kind, persistent |-> persistent,
           active |-> FALSE, deallocate |-> FALSE]
  BY NewEntryIs
<1>3. e \in EntryType
  BY <1>2 DEF EntryType
<1>4. u = Store(a, q, e)
  BY DEF vt_request_create
<1> HIDE DEF a, e, u, q
<1>5. /\ u \in TableType
      /\ u.nblk = a.nblk /\ u.last_block = a.last_block
      /\ u.lastidx = a.lastidx /\ u.lastreq = a.lastreq
      /\ \A p \in (1 .. MaxBlocks) \X Index : At(u, p) = IF p = q THEN e ELSE At(a, p)
  BY <1>1, <1>3, <1>4, StoreIs
<1>6. Wf(u) /\ Used(u) = Used(a)
  BY <1>1, <1>5, UsedIs DEF Wf, EndOf
<1>7. Used(s) \subseteq (1 .. MaxBlocks) \X Index
  BY UsedIs
<1>8. \A p \in Used(s) : At(u, p) = At(s, p)
  BY <1>1, <1>5, <1>7 DEF At
<1>9. At(u, q) = e
  BY <1>1, <1>5
<1> QED
  BY <1>1, <1>2, <1>6, <1>8, <1>9 DEF u

\* vt_request_free moves the last entry into the place of the deleted one.
LEMMA FreeIs ==
  ASSUME NEW s, Wf(s), NEW p \in Used(s)
  PROVE  LET u == vt_request_free(s, p) IN
         /\ Wf(u)
         /\ s.lastreq \in Used(s)
         /\ Used(u) = Used(s) \ {s.lastreq}
         /\ \A q \in Used(u) : At(u, q) = IF q = p THEN At(s, s.lastreq) ELSE At(s, q)
<1> DEFINE z == s.lastreq
           t == Store(s, p, At(s, z))
           moved == Store(t, z, Empty)
           prev == s.last_block - 1
           u == vt_request_free(s, p)
           Slots == (1 .. MaxBlocks) \X Index
<1>1. BlkSize \in Nat \ {0} /\ MaxBlocks \in Nat \ {0}
  BY BlocksSuffice
<1>2. /\ s.nblk \in 0 .. MaxBlocks /\ s.last_block \in 0 .. MaxBlocks
      /\ s.lastidx \in 0 .. BlkSize /\ s \in TableType
  BY DEF Wf, TableType
<1>3. p \in Slots /\ s.last_block # 0
  BY UsedIs, <1>2
<1>4. z = <<s.last_block, s.lastidx>> /\ s.lastidx \in Index /\ s.last_block \in 1 .. MaxBlocks
  BY <1>1, <1>2, <1>3 DEF Wf, EndOf, Index
<1>5. z \in Slots /\ z \in Used(s)
  BY <1>2, <1>4, UsedIs
<1>6. At(s, z) \in EntryType
  <2>1. s.req \in [1 .. MaxBlocks -> [Index -> EntryType]]
    BY <1>2 DEF TableType
  <2>2. z[1] = s.last_block /\ z[2] = s.lastidx
    BY <1>4
  <2> QED
    BY <1>4, <2>1, <2>2 DEF At
<1>7. /\ t \in TableType
      /\ t.nblk = s.nblk /\ t.last_block = s.last_block
      /\ t.lastidx = s.lastidx /\ t.lastreq = s.lastreq
      /\ \A q \in Slots : At(t, q) = IF q = p THEN At(s, z) ELSE At(s, q)
  BY <1>2, <1>3, <1>6, StoreIs
<1> HIDE DEF t
<1>8. /\ moved \in TableType
      /\ moved.nblk = s.nblk /\ moved.last_block = s.last_block
      /\ moved.lastidx = s.lastidx /\ moved.lastreq = s.lastreq
      /\ \A q \in Slots : At(moved, q) = IF q = z THEN Empty ELSE At(t, q)
  BY <1>5, <1>7, StoreIs, EmptyType
<1>9. u = IF s.lastidx - 1 >= 0
          THEN [moved EXCEPT !.lastidx = s.lastidx - 1, !.lastreq = <<s.last_block, s.lastidx - 1>>]
          ELSE [moved EXCEPT !.lastidx = IF prev > 0 THEN BlkSize - 1 ELSE BlkSize,
                             !.lastreq = IF prev > 0 THEN <<prev, BlkSize - 1>> ELSE NULL,
                             !.last_block = prev]
  <2>1. u = IF s.lastidx - 1 >= 0
            THEN [moved EXCEPT !.lastidx = @ - 1, !.lastreq = <<@[1], @[2] - 1>>]
            ELSE [moved EXCEPT !.lastidx = IF prev > 0 THEN BlkSize - 1 ELSE BlkSize,
                               !.lastreq = IF prev > 0 THEN <<prev, BlkSize - 1>> ELSE NULL,
                               !.last_block = prev]
    BY DEF vt_request_free, t
  <2> HIDE DEF moved, u
  <2>2. [moved EXCEPT !.lastidx = @ - 1, !.lastreq = <<@[1], @[2] - 1>>]
          = [moved EXCEPT !.lastidx = moved.lastidx - 1,
                          !.lastreq = <<moved.lastreq[1], moved.lastreq[2] - 1>>]
    BY <1>8 DEF TableType
  <2>3. moved.lastidx = s.lastidx /\ moved.lastreq[1] = s.last_block
        /\ moved.lastreq[2] = s.lastidx
    BY <1>4, <1>8
  <2> QED
    BY <2>1, <2>2, <2>3
<1> HIDE DEF moved, u
<1>10. Wf(u) /\ u.req = moved.req /\ Used(u) = Used(s) \ {z}
  <2>1. CASE s.lastidx - 1 >= 0
    <3>1. u = [moved EXCEPT !.lastidx = s.lastidx - 1, !.lastreq = <<s.last_block, s.lastidx - 1>>]
      BY <1>9, <2>1
    <3>7. s.lastidx - 1 \in Index /\ s.lastidx - 1 \in 0 .. BlkSize
      BY <1>1, <1>2, <1>4, <2>1 DEF Index
    <3>2. u \in TableType
      BY <1>4, <1>8, <3>1, <3>7 DEF TableType
    <3>3. /\ u.req = moved.req /\ u.nblk = s.nblk /\ u.last_block = s.last_block
          /\ u.lastidx = s.lastidx - 1 /\ u.lastreq = <<s.last_block, s.lastidx - 1>>
      BY <1>8, <3>1 DEF TableType
    <3>4. Wf(u)
      BY <1>1, <1>2, <1>4, <3>2, <3>3 DEF Wf, EndOf, Index
    <3>5. ASSUME NEW c \in 1 .. MaxBlocks, NEW j \in Index
          PROVE  <<c, j>> \in Used(u) <=> <<c, j>> \in Used(s) /\ <<c, j>> # z
      BY <1>1, <1>2, <1>4, <3>3, <3>4, UsedIs DEF Index
    <3>6. Used(u) \subseteq Slots /\ Used(s) \subseteq Slots
      BY <3>4, UsedIs
    <3> QED
      BY <3>3, <3>4, <3>5, <3>6
  <2>2. CASE ~(s.lastidx - 1 >= 0) /\ prev > 0
    <3>1. u = [moved EXCEPT !.lastidx = BlkSize - 1, !.lastreq = <<prev, BlkSize - 1>>,
                            !.last_block = prev]
      BY <1>9, <2>2
    <3>2. /\ prev \in 1 .. MaxBlocks /\ prev \in 0 .. MaxBlocks
          /\ BlkSize - 1 \in Index /\ BlkSize - 1 \in 0 .. BlkSize
          /\ prev = s.last_block - 1
      BY <1>1, <1>2, <2>2 DEF Index
    <3> HIDE DEF prev
    <3>3. u \in TableType
      BY <1>8, <3>1, <3>2 DEF TableType
    <3>4. /\ u.req = moved.req /\ u.nblk = s.nblk /\ u.last_block = prev
          /\ u.lastidx = BlkSize - 1 /\ u.lastreq = <<prev, BlkSize - 1>>
      BY <1>8, <3>1 DEF TableType
    <3>5. Wf(u)
      BY <1>1, <1>2, <1>3, <3>2, <3>3, <3>4 DEF Wf, EndOf
    <3>6. ASSUME NEW c \in 1 .. MaxBlocks, NEW j \in Index
          PROVE  <<c, j>> \in Used(u) <=> <<c, j>> \in Used(s) /\ <<c, j>> # z
      BY <1>1, <1>2, <1>4, <2>2, <3>2, <3>4, <3>5, UsedIs DEF Index
    <3>7. Used(u) \subseteq Slots /\ Used(s) \subseteq Slots
      BY <3>5, UsedIs
    <3> QED
      BY <3>4, <3>5, <3>6, <3>7
  <2>3. CASE ~(s.lastidx - 1 >= 0) /\ ~(prev > 0)
    <3>1. u = [moved EXCEPT !.lastidx = BlkSize, !.lastreq = NULL, !.last_block = prev]
      BY <1>9, <2>3
    <3>2. prev = 0 /\ s.lastidx = 0 /\ s.last_block = 1
      BY <1>1, <1>2, <1>3, <2>3
    <3>8. prev \in 0 .. MaxBlocks /\ BlkSize \in 0 .. BlkSize
      BY <1>1, <3>2
    <3> HIDE DEF prev
    <3>3. u \in TableType
      BY <1>8, <3>1, <3>8 DEF TableType
    <3>4. /\ u.req = moved.req /\ u.last_block = 0
          /\ u.lastidx = BlkSize /\ u.lastreq = NULL
      BY <1>8, <3>1, <3>2 DEF TableType
    <3>5. Wf(u)
      BY <3>3, <3>4 DEF Wf, EndOf
    <3>6. ASSUME NEW c \in 1 .. MaxBlocks, NEW j \in Index
          PROVE  <<c, j>> \in Used(u) <=> <<c, j>> \in Used(s) /\ <<c, j>> # z
      BY <1>1, <1>2, <1>4, <3>2, <3>4, <3>5, UsedIs DEF Index
    <3>7. Used(u) \subseteq Slots /\ Used(s) \subseteq Slots
      BY <3>5, UsedIs
    <3> QED
      BY <3>4, <3>5, <3>6, <3>7
  <2> QED
    BY <2>1, <2>2, <2>3
<1>11. ASSUME NEW q \in Used(u)
       PROVE  At(u, q) = IF q = p THEN At(s, z) ELSE At(s, q)
  <2>1. q \in Slots /\ q # z
    BY <1>10, UsedIs
  <2>2. At(u, q) = At(moved, q)
    BY <1>10 DEF At
  <2> QED
    BY <1>7, <1>8, <2>1, <2>2
<1> QED
  BY <1>5, <1>10, <1>11 DEF u

\* A set of numbers has a least one.
LEMMA LeastOf ==
  ASSUME NEW S, S # {}, S \subseteq Nat
  PROVE  \E m \in S : \A n \in S : m <= n
<1>1. PICK m \in S : \A n \in S : ~(<<n, m>> \in OpToRel(<, Nat))
  BY WFMin, NatLessThanWellFounded
<1>2. ASSUME NEW n \in S, n < m PROVE <<n, m>> \in OpToRel(<, Nat)
  BY <1>2 DEF OpToRel
<1>3. \A n \in S : ~(n < m)
  BY <1>1, <1>2
<1> QED
  BY <1>3

\* vt_request_get finds an entry with the handle, if there is one.
LEMMA GetIs ==
  ASSUME NEW s, Wf(s), NEW h
  PROVE  LET p == vt_request_get(s, h)
             found == {q \in Used(s) : At(s, q).request = h}
         IN /\ found = {} => p = NULL
            /\ found # {} => p \in found /\ p # NULL
<1> DEFINE found == {q \in Used(s) : At(s, q).request = h}
<1>1. BlkSize \in Nat \ {0} /\ MaxBlocks \in Nat \ {0}
  BY BlocksSuffice
<1>2. found \subseteq (1 .. MaxBlocks) \X Index
  BY UsedIs
<1>3. CASE found = {}
  BY <1>3 DEF vt_request_get
<1>4. CASE found # {}
  <2> DEFINE B == {q[1] : q \in found}
  <2>1. B # {} /\ B \subseteq Nat
    BY <1>1, <1>2, <1>4
  <2>2. PICK b \in B : \A c \in B : b <= c
    BY <2>1, LeastOf
  <2> DEFINE I == {q[2] : q \in {r \in found : r[1] = b}}
  <2>4. I # {} /\ I \subseteq Nat
    <3>1. PICK q \in found : q[1] = b
      BY <2>2
    <3>2. q[2] \in I
      BY <3>1
    <3>3. \A r \in found : r[2] \in Nat
      BY <1>1, <1>2 DEF Index
    <3> QED
      BY <3>2, <3>3
  <2>5. PICK i \in I : \A j \in I : i <= j
    BY <2>4, LeastOf
  <2>7. PICK q \in found : q[1] = b /\ q[2] = i
    BY <2>5
  <2>8. \A r \in found : Before(q, r)
    <3> TAKE r \in found
    <3>1. r[1] \in B /\ q[1] \in Nat /\ r[1] \in Nat
      BY <2>1
    <3>2. CASE r[1] = b
      <4>1. r[2] \in I
        BY <3>2
      <4> QED
        BY <2>5, <2>7, <3>2, <4>1 DEF Before
    <3>3. CASE r[1] # b
      BY <2>1, <2>2, <2>7, <3>1, <3>3 DEF Before
    <3> QED
      BY <3>2, <3>3
  <2>9. vt_request_get(s, h) = CHOOSE p \in found : \A r \in found : Before(p, r)
    BY <1>4 DEF vt_request_get
  <2>10. vt_request_get(s, h) \in found
    BY <2>8, <2>9
  <2>11. NULL \notin (1 .. MaxBlocks) \X Index
    BY <1>1 DEF NULL
  <2> QED
    BY <1>2, <1>4, <2>10, <2>11
<1> QED
  BY <1>3, <1>4

------------------------------------------------------------------------------
(* The inductive invariant. *)

Of(s, h) == {p \in Used(s) : At(s, p).request = h}

Waits(h) == \E i \in DOMAIN saved : saved[i].request = h

\* The table holds what MPI knows of a request that no completion call has
\* still to look up.
Agrees(s, h, m) ==
  IF ~m.tracked THEN Of(s, h) = {}
  ELSE \E p \in Used(s) :
         /\ Of(s, h) = {p}
         /\ At(s, p).kind = m.kind
         /\ At(s, p).persistent = m.persistent
         /\ m.persistent => At(s, p).active = m.active
         /\ ~At(s, p).deallocate

\* MPI has completed the request, and the lookup is still to come: the entry
\* tells whether a record is due.
AgreesWaiting(s, h, m, due) ==
  /\ m = None \/ (m.persistent /\ ~m.active)
  /\ \/ Of(s, h) = {} /\ ~m.tracked /\ ~due
     \/ \E p \in Used(s) :
          /\ Of(s, h) = {p}
          /\ ~At(s, p).deallocate
          /\ due = (At(s, p).kind \in {"recv", "io"}
                    /\ (At(s, p).persistent => At(s, p).active))
          /\ IF At(s, p).persistent
             THEN m.tracked /\ m.persistent /\ At(s, p).kind = m.kind
             ELSE m = None

RequestType ==
  [kind : Kinds \cup {"none"}, persistent : BOOLEAN, active : BOOLEAN, tracked : BOOLEAN]

\* What MPI knows of a request.
KnownOK(m) == m = None \/ (m.kind \in Kinds /\ (m.persistent \/ m.active))

TableInv ==
  phase = "running" =>
    /\ EndOf(tab)
    /\ \A p \in Used(tab) : At(tab, p).request \in Handles
    /\ \A h \in Handles \ orphans :
         /\ ~Waits(h) => Agrees(tab, h, mpi[h])
         /\ \A i \in DOMAIN saved :
              saved[i].request = h => AgreesWaiting(tab, h, mpi[h], saved[i].due)

IInv ==
  /\ TypeOK
  /\ TableInv
  /\ saved # << >> => phase = "running"
  /\ \A h \in Handles : KnownOK(mpi[h])
  /\ \A i, j \in DOMAIN saved : saved[i].request = saved[j].request => i = j
  /\ ~missed

------------------------------------------------------------------------------
(* What the operations do to the entries of one handle. *)

\* The request of a handle has the same entry before and after, or none, though
\* the entry may have moved.
Same(s, u, h) ==
  /\ Of(s, h) = {} => Of(u, h) = {}
  /\ \A p \in Used(s) : Of(s, h) = {p} =>
       \E q \in Used(u) : Of(u, h) = {q} /\ At(u, q) = At(s, p)

\* Every entry of the table has the handle of a request.
Handled(s) == \A p \in Used(s) : At(s, p).request \in Handles

\* A request whose entry only moved is still described as MPI has it.
LEMMA SameAgrees ==
  ASSUME NEW s, NEW u, NEW h, NEW m, Same(s, u, h)
  PROVE  /\ Agrees(s, h, m) => Agrees(u, h, m)
         /\ \A due \in BOOLEAN : AgreesWaiting(s, h, m, due) => AgreesWaiting(u, h, m, due)
<1>1. Agrees(s, h, m) => Agrees(u, h, m)
  BY DEF Same, Agrees
<1>2. ASSUME NEW due \in BOOLEAN, AgreesWaiting(s, h, m, due)
      PROVE  AgreesWaiting(u, h, m, due)
  <2>1. m = None \/ (m.persistent /\ ~m.active)
    BY <1>2 DEF AgreesWaiting
  <2>2. CASE Of(s, h) = {} /\ ~m.tracked /\ ~due
    BY <2>1, <2>2 DEF Same, AgreesWaiting
  <2>3. CASE \E p \in Used(s) :
               /\ Of(s, h) = {p}
               /\ ~At(s, p).deallocate
               /\ due = (At(s, p).kind \in {"recv", "io"}
                         /\ (At(s, p).persistent => At(s, p).active))
               /\ IF At(s, p).persistent
                  THEN m.tracked /\ m.persistent /\ At(s, p).kind = m.kind
                  ELSE m = None
    <3>1. PICK p \in Used(s) :
               /\ Of(s, h) = {p}
               /\ ~At(s, p).deallocate
               /\ due = (At(s, p).kind \in {"recv", "io"}
                         /\ (At(s, p).persistent => At(s, p).active))
               /\ IF At(s, p).persistent
                  THEN m.tracked /\ m.persistent /\ At(s, p).kind = m.kind
                  ELSE m = None
      BY <2>3
    <3>2. PICK q \in Used(u) : Of(u, h) = {q} /\ At(u, q) = At(s, p)
      BY <3>1 DEF Same
    <3> QED
      BY <2>1, <3>1, <3>2 DEF AgreesWaiting
  <2> QED
    BY <1>2, <2>2, <2>3 DEF AgreesWaiting
<1> QED
  BY <1>1, <1>2

\* The entries in use are entries of the blocks.
LEMMA EntryTypes ==
  ASSUME NEW s, Wf(s), NEW p \in Used(s)
  PROVE  At(s, p) \in EntryType /\ p \in (1 .. MaxBlocks) \X Index
<1>1. p \in (1 .. MaxBlocks) \X Index
  BY UsedIs
<1>2. s.req \in [1 .. MaxBlocks -> [Index -> EntryType]]
  BY DEF Wf, TableType
<1> QED
  BY <1>1, <1>2 DEF At

\* vt_request_create adds the entry of a request that has none, and leaves the
\* entries of all other requests as they are.
LEMMA CreateSame ==
  ASSUME NEW s, Wf(s), Cardinality(Used(s)) < MaxEntries, Handled(s),
         NEW h \in Handles, NEW kind \in Kinds, NEW persistent \in BOOLEAN
  PROVE  LET u == vt_request_create(s, h, kind, persistent) IN
         /\ Wf(u) /\ Handled(u)
         /\ \A k \in Handles \ {h} : Same(s, u, k)
         /\ Of(s, h) = {} =>
              Agrees(u, h, [kind |-> kind, persistent |-> persistent,
                            active |-> ~persistent, tracked |-> TRUE])
<1> DEFINE u == vt_request_create(s, h, kind, persistent)
           e == [request |-> h, kind |-> kind, persistent |-> persistent,
                 active |-> FALSE, deallocate |-> FALSE]
<1>1. Wf(u)
  BY CreateIs
<1>2. PICK q \in (1 .. MaxBlocks) \X Index :
              /\ q \notin Used(s)
              /\ Used(u) = Used(s) \cup {q}
              /\ At(u, q) = e
              /\ \A p \in Used(s) : At(u, p) = At(s, p)
  BY CreateIs
<1> HIDE DEF u
<1>3. e.request = h /\ e.kind = kind /\ e.persistent = persistent
      /\ e.active = FALSE /\ e.deallocate = FALSE
  OBVIOUS
<1> HIDE DEF e
<1>4. \A k : k # h => Of(u, k) = Of(s, k)
  BY <1>2, <1>3 DEF Of
<1>5. Of(s, h) = {} => Of(u, h) = {q}
  BY <1>2, <1>3 DEF Of
<1>6. ASSUME NEW k \in Handles \ {h} PROVE Same(s, u, k)
  <2>1. Of(u, k) = Of(s, k)
    BY <1>4
  <2> QED
    BY <1>2, <2>1 DEF Same
<1>7. Of(s, h) = {} =>
              Agrees(u, h, [kind |-> kind, persistent |-> persistent,
                            active |-> ~persistent, tracked |-> TRUE])
  <2> DEFINE m == [kind |-> kind, persistent |-> persistent,
                   active |-> ~persistent, tracked |-> TRUE]
  <2>1. m.tracked /\ m.kind = kind /\ m.persistent = persistent /\ m.active = ~persistent
    OBVIOUS
  <2> HIDE DEF m
  <2>2. Of(s, h) = {} => Agrees(u, h, m)
    BY <1>2, <1>3, <1>5, <2>1 DEF Agrees
  <2> QED
    BY <2>2 DEF m
<1>8. Handled(u)
  BY <1>2, <1>3 DEF Handled
<1> QED
  BY <1>1, <1>6, <1>7, <1>8 DEF u

\* An assignment to a field of an entry concerns the request of that entry only.
LEMMA StoreSame ==
  ASSUME NEW s, Wf(s), Handled(s), NEW p \in Used(s), NEW e \in EntryType,
         e.request = At(s, p).request
  PROVE  LET u == Store(s, p, e) IN
         /\ Wf(u) /\ Handled(u)
         /\ Used(u) = Used(s)
         /\ \A q \in Used(s) : At(u, q) = IF q = p THEN e ELSE At(s, q)
         /\ \A k : Of(u, k) = Of(s, k)
         /\ \A k : k # e.request => Same(s, u, k)
<1> DEFINE u == Store(s, p, e)
<1>1. s \in TableType /\ p \in (1 .. MaxBlocks) \X Index
  BY EntryTypes DEF Wf
<1>2. /\ u \in TableType
      /\ u.nblk = s.nblk /\ u.last_block = s.last_block
      /\ u.lastidx = s.lastidx /\ u.lastreq = s.lastreq
      /\ \A q \in (1 .. MaxBlocks) \X Index : At(u, q) = IF q = p THEN e ELSE At(s, q)
  BY <1>1, StoreIs
<1> HIDE DEF u
<1>3. Wf(u)
  BY <1>2 DEF Wf, EndOf
<1>4. Used(u) = Used(s)
  BY <1>2, <1>3, UsedIs
<1>5. \A q \in Used(s) : At(u, q) = IF q = p THEN e ELSE At(s, q)
  BY <1>2, EntryTypes
<1>6. \A k : Of(u, k) = Of(s, k)
  BY <1>4, <1>5 DEF Of
<1>7. ASSUME NEW k, k # e.request PROVE Same(s, u, k)
  BY <1>4, <1>5, <1>6, <1>7 DEF Same, Of
<1>8. Handled(u)
  BY <1>4, <1>5 DEF Handled
<1> QED
  BY <1>3, <1>4, <1>5, <1>6, <1>7, <1>8 DEF u

\* vt_request_free deletes the entry of its request and none of another one.
LEMMA FreeSame ==
  ASSUME NEW s, Wf(s), Handled(s), NEW p \in Used(s)
  PROVE  LET u == vt_request_free(s, p) IN
         /\ Wf(u) /\ Handled(u)
         /\ \A k : k # At(s, p).request => Same(s, u, k)
         /\ Of(s, At(s, p).request) = {p} => Of(u, At(s, p).request) = {}
<1> DEFINE u == vt_request_free(s, p)
           z == s.lastreq
<1>1. /\ Wf(u)
      /\ z \in Used(s)
      /\ Used(u) = Used(s) \ {z}
      /\ \A q \in Used(u) : At(u, q) = IF q = p THEN At(s, z) ELSE At(s, q)
  BY FreeIs
<1> HIDE DEF u, z
<1>2. Handled(u)
  BY <1>1 DEF Handled
<1>3. ASSUME NEW k, k # At(s, p).request PROVE Same(s, u, k)
  <2>1. Of(s, k) = {} => Of(u, k) = {}
    BY <1>1 DEF Of
  <2>2. ASSUME NEW q \in Used(s), Of(s, k) = {q}
        PROVE  \E r \in Used(u) : Of(u, k) = {r} /\ At(u, r) = At(s, q)
    <3>1. q # p /\ At(s, q).request = k
      BY <1>3, <2>2 DEF Of
    <3>2. CASE q = z
      BY <1>1, <1>3, <2>2, <3>1, <3>2 DEF Of
    <3>3. CASE q # z
      <4>1. q \in Used(u) /\ At(u, q) = At(s, q)
        BY <1>1, <3>1, <3>3
      <4>2. \A r \in Used(u) : At(u, r).request = k => r = q
        BY <1>1, <1>3, <2>2, <3>1, <3>3 DEF Of
      <4> QED
        BY <3>1, <4>1, <4>2 DEF Of
    <3> QED
      BY <3>2, <3>3
  <2> QED
    BY <2>1, <2>2 DEF Same
<1>4. Of(s, At(s, p).request) = {p} => Of(u, At(s, p).request) = {}
  BY <1>1 DEF Of
<1> QED
  BY <1>1, <1>2, <1>3, <1>4 DEF u

\* vt_request_get returns the entry of a request that has just one.
LEMMA GetOf ==
  ASSUME NEW s, Wf(s), NEW h
  PROVE  LET p == vt_request_get(s, h) IN
         /\ Of(s, h) = {} <=> p = NULL
         /\ p # NULL => p \in Used(s) /\ At(s, p).request = h
         /\ \A q \in Used(s) : Of(s, h) = {q} => p = q
  BY GetIs DEF Of

\* A lookup after the completion writes the record that is due, if the entry of
\* the call was recorded, and leaves the table as MPI has the request.
LEMMA CheckSame ==
  ASSUME NEW s, Wf(s), Handled(s), NEW h \in Handles
  PROVE  LET p == vt_request_get(s, h)
             c == vt_check_request(s, p)
         IN /\ Wf(c) /\ Handled(c)
            /\ \A k : k # h => Same(s, c, k)
            /\ \A m \in RequestType, due \in BOOLEAN : AgreesWaiting(s, h, m, due) =>
                 /\ Agrees(c, h, m)
                 /\ \A r \in BOOLEAN : Writes(s, p, r) <=> due /\ r
<1> DEFINE p == vt_request_get(s, h)
           c == vt_check_request(s, p)
           e == At(s, p)
           off == [e EXCEPT !.active = FALSE]
           d == Store(s, p, off)
<1>1. CASE p = NULL
  <2>1. c = s /\ Of(s, h) = {}
    BY <1>1, GetOf DEF vt_check_request
  <2>2. \A r : ~Writes(s, p, r)
    BY <1>1 DEF Writes
  <2>3. \A m \in RequestType, due \in BOOLEAN : AgreesWaiting(s, h, m, due) => ~m.tracked /\ ~due
    BY <2>1 DEF AgreesWaiting
  <2>4. \A m \in RequestType, due \in BOOLEAN : AgreesWaiting(s, h, m, due) => Agrees(s, h, m)
    BY <2>1, <2>3 DEF Agrees
  <2>5. \A k : Same(s, s, k)
    BY DEF Same
  <2> QED
    BY <2>1, <2>2, <2>3, <2>4, <2>5
<1>2. CASE p # NULL
  <2>1. p \in Used(s) /\ e.request = h /\ e \in EntryType
    BY <1>2, GetOf, EntryTypes
  <2>2. /\ \A m \in RequestType, due \in BOOLEAN : AgreesWaiting(s, h, m, due) =>
             /\ Of(s, h) = {p} /\ ~e.deallocate
             /\ m = None \/ (m.persistent /\ ~m.active)
             /\ due = (e.kind \in {"recv", "io"} /\ (e.persistent => e.active))
             /\ IF e.persistent THEN m.tracked /\ m.persistent /\ e.kind = m.kind
                ELSE m = None
    BY <1>2, GetOf DEF AgreesWaiting
  <2>3. \A m \in RequestType, due \in BOOLEAN : AgreesWaiting(s, h, m, due) =>
          \A r \in BOOLEAN : Writes(s, p, r) <=> due /\ r
    <3>1. e.persistent \in BOOLEAN /\ e.active \in BOOLEAN
      BY <2>1 DEF EntryType
    <3> QED
      BY <1>2, <2>2, <3>1 DEF Writes
  <2>4. off \in EntryType /\ off.request = h /\ off.kind = e.kind /\ ~off.active
        /\ off.persistent = e.persistent /\ off.deallocate = e.deallocate
    BY <2>1 DEF EntryType
  <2> HIDE DEF off
  <2>5. /\ Wf(d) /\ Handled(d)
        /\ Used(d) = Used(s)
        /\ At(d, p) = off
        /\ \A k : Of(d, k) = Of(s, k)
        /\ \A k : k # h => Same(s, d, k)
    BY <2>1, <2>4, StoreSame
  <2>6. CASE e.persistent /\ ~e.active
    <3>1. c = s
      BY <2>6 DEF vt_check_request
    <3>2. \A m \in RequestType, due \in BOOLEAN : AgreesWaiting(s, h, m, due) => Agrees(s, h, m)
      <4> TAKE m \in RequestType, due \in BOOLEAN
      <4> HAVE AgreesWaiting(s, h, m, due)
      <4>1. m.active \in BOOLEAN /\ m.persistent \in BOOLEAN /\ m.tracked \in BOOLEAN
        BY DEF RequestType
      <4>2. m.tracked /\ m.persistent /\ m.kind = e.kind /\ ~m.active
        <5>1. m.persistent /\ m # None
          BY <2>2, <2>6 DEF None
        <5> QED
          BY <2>2, <2>6, <5>1
      <4>3. e.persistent \in BOOLEAN /\ e.active \in BOOLEAN /\ e.deallocate \in BOOLEAN
        BY <2>1 DEF EntryType
      <4> QED
        BY <2>1, <2>2, <2>6, <4>1, <4>2, <4>3 DEF Agrees
    <3>3. \A k : Same(s, s, k)
      BY DEF Same
    <3> QED
      BY <2>3, <3>1, <3>2, <3>3
  <2>7. CASE e.persistent /\ e.active /\ ~e.deallocate
    <3>1. c = d
      BY <1>2, <2>7 DEF vt_check_request, off
    <3> HIDE DEF d
    <3>2. \A m \in RequestType, due \in BOOLEAN : AgreesWaiting(s, h, m, due) => Agrees(d, h, m)
      <4> TAKE m \in RequestType, due \in BOOLEAN
      <4> HAVE AgreesWaiting(s, h, m, due)
      <4>1. Of(d, h) = {p} /\ p \in Used(d)
        BY <2>1, <2>2, <2>5
      <4>2. m.tracked /\ m.persistent /\ m.kind = e.kind /\ ~m.active
        <5>1. m.persistent /\ m # None
          BY <2>2, <2>7 DEF None
        <5> QED
          BY <2>2, <2>7, <5>1
      <4>3. m.active \in BOOLEAN /\ m.persistent \in BOOLEAN /\ m.tracked \in BOOLEAN
        BY DEF RequestType
      <4>4. /\ off.persistent \in BOOLEAN /\ off.active \in BOOLEAN
            /\ off.deallocate \in BOOLEAN
        BY <2>4 DEF EntryType
      <4>5. off.persistent = m.persistent /\ off.active = m.active /\ ~off.deallocate
        BY <2>4, <2>7, <4>2, <4>3, <4>4
      <4> QED
        BY <2>4, <2>5, <2>7, <4>1, <4>2, <4>5 DEF Agrees
    <3> QED
      BY <2>3, <2>5, <3>1, <3>2
  <2>8. CASE e.persistent /\ e.active /\ e.deallocate
    <3>1. c = vt_request_free(d, p)
      BY <1>2, <2>8 DEF vt_check_request, off
    <3> HIDE DEF d
    <3>2. At(d, p).request = h
      BY <2>4, <2>5
    <3>3. Wf(c) /\ Handled(c) /\ \A k : k # h => Same(d, c, k)
      BY <2>1, <2>5, <3>1, <3>2, FreeSame
    <3>4. \A k : k # h => Same(s, c, k)
      BY <2>5, <3>3 DEF Same
    <3>5. \A m \in RequestType, due \in BOOLEAN : ~AgreesWaiting(s, h, m, due)
      BY <2>2, <2>8
    <3> QED
      BY <3>3, <3>4, <3>5
  <2>9. CASE ~e.persistent
    <3>1. c = vt_request_free(s, p)
      BY <1>2, <2>9 DEF vt_check_request
    <3>2. Wf(c) /\ Handled(c) /\ \A k : k # h => Same(s, c, k)
      BY <2>1, <3>1, FreeSame
    <3>3. \A m \in RequestType, due \in BOOLEAN : AgreesWaiting(s, h, m, due) => Agrees(c, h, m)
      <4> TAKE m \in RequestType, due \in BOOLEAN
      <4> HAVE AgreesWaiting(s, h, m, due)
      <4>1. Of(s, h) = {p} /\ m = None
        BY <2>2, <2>9
      <4>2. Of(c, h) = {}
        BY <2>1, <3>1, <4>1, FreeSame
      <4>3. ~m.tracked
        BY <4>1 DEF None
      <4> QED
        BY <4>2, <4>3 DEF Agrees
    <3> QED
      BY <2>3, <3>2, <3>3
  <2>10. e.persistent \in BOOLEAN /\ e.active \in BOOLEAN /\ e.deallocate \in BOOLEAN
    BY <2>1 DEF EntryType
  <2> QED
    BY <2>6, <2>7, <2>8, <2>9, <2>10
<1> QED
  BY <1>1, <1>2

\* Activation changes the flag of the entries it finds, and no more.
LEMMA ActivatedIs ==
  ASSUME NEW s, Wf(s), Handled(s), NEW hs
  PROVE  LET u == Activated(s, hs)
             started == {vt_request_get(s, h) : h \in CalledWith(hs)}
         IN /\ Wf(u) /\ Handled(u)
            /\ Used(u) = Used(s)
            /\ \A k : Of(u, k) = Of(s, k)
            /\ \A p \in Used(s) :
                 /\ At(u, p) \in EntryType
                 /\ At(u, p).request = At(s, p).request
                 /\ At(u, p).kind = At(s, p).kind
                 /\ At(u, p).persistent = At(s, p).persistent
                 /\ At(u, p).deallocate = At(s, p).deallocate
                 /\ At(u, p).active = (At(s, p).active \/ (p \in started /\ At(s, p).persistent))
<1> DEFINE u == Activated(s, hs)
           started == {vt_request_get(s, h) : h \in CalledWith(hs)}
           new(b, i) == [s.req[b][i] EXCEPT !.active =
                           @ \/ (<<b, i>> \in started /\ s.req[b][i].persistent)]
           r == [b \in 1 .. MaxBlocks |-> [i \in Index |-> new(b, i)]]
<1>1. s \in TableType /\ s.req \in [1 .. MaxBlocks -> [Index -> EntryType]]
  BY DEF Wf, TableType
<1>2. u = [s EXCEPT !.req = r]
  BY <1>1 DEF Activated
<1> HIDE DEF started
<1>3. ASSUME NEW b \in 1 .. MaxBlocks, NEW i \in Index
      PROVE  /\ new(b, i) \in EntryType
             /\ new(b, i).request = s.req[b][i].request
             /\ new(b, i).kind = s.req[b][i].kind
             /\ new(b, i).persistent = s.req[b][i].persistent
             /\ new(b, i).deallocate = s.req[b][i].deallocate
             /\ new(b, i).active = (s.req[b][i].active
                                    \/ (<<b, i>> \in started /\ s.req[b][i].persistent))
  <2>1. s.req[b][i] \in EntryType
    BY <1>1
  <2> QED
    BY <2>1 DEF EntryType
<1> HIDE DEF new
<1>4. r \in [1 .. MaxBlocks -> [Index -> EntryType]]
  BY <1>3
<1>5. \A b \in 1 .. MaxBlocks, i \in Index : r[b][i] = new(b, i)
  OBVIOUS
<1> HIDE DEF r
<1>6. u \in TableType /\ u.req = r /\ u.nblk = s.nblk /\ u.last_block = s.last_block
      /\ u.lastidx = s.lastidx /\ u.lastreq = s.lastreq
  BY <1>1, <1>2, <1>4 DEF TableType
<1> HIDE DEF u
<1>7. Wf(u)
  BY <1>6 DEF Wf, EndOf
<1>8. Used(u) = Used(s)
  BY <1>6, <1>7, UsedIs
<1>9. ASSUME NEW p \in Used(s)
      PROVE  /\ At(u, p) \in EntryType
             /\ At(u, p).request = At(s, p).request
             /\ At(u, p).kind = At(s, p).kind
             /\ At(u, p).persistent = At(s, p).persistent
             /\ At(u, p).deallocate = At(s, p).deallocate
             /\ At(u, p).active = (At(s, p).active \/ (p \in started /\ At(s, p).persistent))
  <2>1. PICK b \in 1 .. MaxBlocks, i \in Index : p = <<b, i>>
    BY EntryTypes
  <2>2. At(u, p) = new(b, i) /\ At(s, p) = s.req[b][i]
    BY <1>5, <1>6, <2>1 DEF At
  <2> QED
    BY <1>3, <2>1, <2>2
<1>10. \A k : Of(u, k) = Of(s, k)
  BY <1>8, <1>9 DEF Of
<1>11. Handled(u)
  BY <1>8, <1>9 DEF Handled
<1> QED
  BY <1>7, <1>8, <1>9, <1>10, <1>11 DEF u, started

\* What is left to look up after MPI has completed a request.
LEMMA CompletedWaits ==
  ASSUME NEW s, Wf(s), NEW h, NEW m \in RequestType, KnownOK(m), m # None, Agrees(s, h, m)
  PROVE  LET n == IF m.persistent THEN [m EXCEPT !.active = FALSE] ELSE None
         IN /\ n \in RequestType /\ KnownOK(n)
            /\ AgreesWaiting(s, h, n, Due(m))
<1> DEFINE n == IF m.persistent THEN [m EXCEPT !.active = FALSE] ELSE None
<1> SUFFICES n \in RequestType /\ KnownOK(n) /\ AgreesWaiting(s, h, n, Due(m))
  OBVIOUS
<1>1. m.active \in BOOLEAN /\ m.persistent \in BOOLEAN /\ m.tracked \in BOOLEAN
  BY DEF RequestType
<1>2. m.kind \in Kinds /\ (m.persistent \/ m.active)
  BY DEF KnownOK
<1>3. None \in RequestType /\ ~None.tracked /\ ~None.persistent
  BY DEF None, RequestType, Kinds
<1>4. CASE m.persistent
  <2>1. n \in RequestType /\ n.kind = m.kind /\ n.persistent = m.persistent
        /\ n.tracked = m.tracked /\ n.active = FALSE
    BY <1>4 DEF RequestType
  <2> HIDE DEF n
  <2>2. KnownOK(n)
    BY <1>2, <1>4, <2>1 DEF KnownOK
  <2>3. CASE ~m.tracked
    BY <1>4, <2>1, <2>2, <2>3 DEF Agrees, AgreesWaiting, Due
  <2>4. CASE m.tracked
    <3>1. PICK p \in Used(s) :
            /\ Of(s, h) = {p}
            /\ At(s, p).kind = m.kind
            /\ At(s, p).persistent = m.persistent
            /\ At(s, p).active = m.active
            /\ ~At(s, p).deallocate
      BY <1>4, <2>4 DEF Agrees
    <3>2. Due(m) = (At(s, p).kind \in {"recv", "io"} /\ (At(s, p).persistent => At(s, p).active))
      BY <1>1, <1>4, <2>4, <3>1 DEF Due
    <3> QED
      BY <1>4, <2>1, <2>2, <2>4, <3>1, <3>2 DEF AgreesWaiting
  <2> QED
    BY <2>1, <2>2, <2>3, <2>4 DEF n
<1>5. CASE ~m.persistent
  <2>1. n = None
    BY <1>5
  <2> HIDE DEF n
  <2>2. KnownOK(None)
    BY DEF KnownOK
  <2>3. CASE ~m.tracked
    BY <1>3, <2>1, <2>2, <2>3 DEF Agrees, AgreesWaiting, Due
  <2>4. CASE m.tracked
    <3>1. PICK p \in Used(s) :
            /\ Of(s, h) = {p}
            /\ At(s, p).kind = m.kind
            /\ At(s, p).persistent = m.persistent
            /\ ~At(s, p).deallocate
      BY <2>4 DEF Agrees
    <3>2. Due(m) = (At(s, p).kind \in {"recv", "io"} /\ (At(s, p).persistent => At(s, p).active))
      BY <1>1, <1>2, <1>5, <2>4, <3>1 DEF Due
    <3> QED
      BY <1>3, <1>5, <2>1, <2>2, <3>1, <3>2 DEF AgreesWaiting
  <2> QED
    BY <1>3, <2>1, <2>2, <2>3, <2>4 DEF n
<1> QED
  BY <1>1, <1>4, <1>5

------------------------------------------------------------------------------
(* The steps. *)

\* What the invariant says of a table in use.
LEMMA RunningFacts ==
  ASSUME IInv, phase = "running"
  PROVE  /\ Wf(tab) /\ Handled(tab)
         /\ mpi \in [Handles -> RequestType]
         /\ \A h \in Handles \ orphans :
              ~Waits(h) => Agrees(tab, h, mpi[h])
  BY DEF IInv, TableInv, TypeOK, Wf, TableType, Handled, RequestType

\* Between two calls of MPI the table agrees with MPI on every request.
LEMMA IdleFacts ==
  ASSUME IInv, Idle
  PROVE  /\ phase = "running" /\ Wf(tab) /\ Handled(tab)
         /\ mpi \in [Handles -> RequestType]
         /\ \A h \in Handles \ orphans : Agrees(tab, h, mpi[h])
         /\ \A h \in Handles : ~Waits(h) /\ KnownOK(mpi[h])
<1>1. phase = "running" /\ saved = << >>
  BY DEF Idle
<1>2. \A h : ~Waits(h)
  BY <1>1 DEF Waits
<1> QED
  BY <1>1, <1>2, RunningFacts DEF IInv

\* The invariant from its parts, for a table that is in use.
LEMMA IInvFrom ==
  ASSUME phase' = "running", Wf(tab'), Handled(tab'),
         mpi' \in [Handles -> RequestType],
         saved' \in Seq([request : Handles, due : BOOLEAN]),
         recording' \in BOOLEAN, orphans' \subseteq Handles, missed' = FALSE,
         leaked' \in BOOLEAN,
         \A h \in Handles : KnownOK(mpi'[h]),
         \A i, j \in DOMAIN saved' : saved'[i].request = saved'[j].request => i = j,
         \A h \in Handles \ orphans' :
           /\ ~Waits(h)' => Agrees(tab', h, mpi'[h])
           /\ \A i \in DOMAIN saved' :
                saved'[i].request = h => AgreesWaiting(tab', h, mpi'[h], saved'[i].due)
  PROVE  IInv'
<1>1. tab' \in TableType /\ EndOf(tab')
  BY DEF Wf
<1>2. TypeOK'
  BY <1>1 DEF TypeOK, TableType, RequestType
<1>3. TableInv'
  BY <1>1 DEF TableInv, Handled
<1> QED
  BY <1>2, <1>3 DEF IInv

\* The same between two completion calls.
LEMMA IInvIdle ==
  ASSUME phase' = "running", saved' = << >>, Wf(tab'), Handled(tab'),
         mpi' \in [Handles -> RequestType],
         recording' \in BOOLEAN, orphans' \subseteq Handles, missed' = FALSE,
         leaked' \in BOOLEAN,
         \A h \in Handles : KnownOK(mpi'[h]),
         \A h \in Handles \ orphans' : Agrees(tab', h, mpi'[h])
  PROVE  IInv'
<1>1. saved' \in Seq([request : Handles, due : BOOLEAN]) /\ \A i \in DOMAIN saved' : FALSE
  OBVIOUS
<1> QED
  BY <1>1, IInvFrom

\* The invariant does not depend on anything but the variables.
LEMMA NullStep ==
  ASSUME IInv, UNCHANGED <<tab, mpi, saved, recording, orphans, missed, phase>>,
         leaked' \in BOOLEAN
  PROVE  IInv'
  BY DEF IInv, TypeOK, TableInv, Waits

\* A call that issues a request (MPI_Isend, MPI_Irecv, MPI_Send_init, ...) keeps
\* the invariant.
LEMMA IssueStep ==
  ASSUME IInv, NEW h \in Handles, NEW kind \in Kinds, NEW persistent \in BOOLEAN,
         NEW tracked \in BOOLEAN, Issue(h, kind, persistent, tracked), missed' = missed
  PROVE  IInv'
<1> DEFINE m == [kind |-> IF tracked THEN kind ELSE "send", persistent |-> persistent,
                 active |-> ~persistent, tracked |-> tracked]
<1>1. /\ Idle /\ mpi[h] = None /\ (tracked => Room)
      /\ mpi' = [mpi EXCEPT ![h] = m]
      /\ tab' = IF tracked THEN vt_request_create(tab, h, kind, persistent) ELSE tab
      /\ saved' = saved /\ recording' = recording /\ orphans' = orphans /\ leaked' = leaked /\ phase' = phase
  BY DEF Issue
<1>2. /\ phase = "running" /\ Wf(tab) /\ Handled(tab)
      /\ mpi \in [Handles -> RequestType]
      /\ \A k \in Handles \ orphans : Agrees(tab, k, mpi[k])
      /\ \A k \in Handles : ~Waits(k) /\ KnownOK(mpi[k])
  BY <1>1, IdleFacts
<1>3. m \in RequestType /\ KnownOK(m) /\ m.tracked = tracked
  BY DEF RequestType, KnownOK, Kinds
<1>4. h \notin orphans => Of(tab, h) = {}
  BY <1>1, <1>2 DEF Agrees, None
<1>5. /\ Wf(tab') /\ Handled(tab')
      /\ \A k \in Handles \ {h} : Same(tab, tab', k)
      /\ h \notin orphans => Agrees(tab', h, m)
  <2>1. CASE tracked
    <3>1. Cardinality(Used(tab)) < MaxEntries
      BY <1>1, <2>1 DEF Room
    <3>2. tab' = vt_request_create(tab, h, kind, persistent)
      BY <1>1, <2>1
    <3>3. m = [kind |-> kind, persistent |-> persistent, active |-> ~persistent, tracked |-> TRUE]
      BY <2>1
    <3> HIDE DEF m
    <3> QED
      BY <1>2, <1>4, <3>1, <3>2, <3>3, CreateSame
  <2>2. CASE ~tracked
    <3>1. tab' = tab
      BY <1>1, <2>2
    <3> HIDE DEF m
    <3> QED
      BY <1>2, <1>3, <1>4, <2>2, <3>1 DEF Same, Agrees
  <2> QED
    BY <2>1, <2>2
<1> HIDE DEF m
<1>6. mpi' \in [Handles -> RequestType] /\ mpi'[h] = m /\ \A k \in Handles \ {h} : mpi'[k] = mpi[k]
  BY <1>1, <1>2, <1>3
<1>7. saved' = << >>
  BY <1>1 DEF Idle
<1>8. \A k \in Handles \ orphans : Agrees(tab', k, mpi'[k])
  BY <1>2, <1>5, <1>6, SameAgrees
<1>9. \A k \in Handles : KnownOK(mpi'[k])
  BY <1>2, <1>3, <1>6
<1>10. recording' \in BOOLEAN /\ orphans' \subseteq Handles /\ missed' = FALSE /\ leaked' \in BOOLEAN
  BY <1>1 DEF IInv, TypeOK
<1> QED
  BY <1>1, <1>2, <1>5, <1>6, <1>7, <1>8, <1>9, <1>10, IInvIdle

\* The requests of one call: no handle occurs twice.
IsArray(hs) ==
  /\ \E n \in Nat : hs \in [1 .. n -> Handles]
  /\ \A i, j \in DOMAIN hs : hs[i] = hs[j] => i = j

\* The arrays of requests that calls are enumerated with.
LEMMA ArraysAre ==
  ASSUME NEW hs \in Arrays
  PROVE  IsArray(hs)
  BY SizesAssumption DEF Arrays, IsArray

\* MPI_Start is MPI_Startall of one request.
LEMMA ArrayOfOne ==
  ASSUME NEW h \in Handles
  PROVE  IsArray(<<h>>)
<1>1. <<h>> \in [1 .. 1 -> Handles] /\ DOMAIN <<h>> = 1 .. 1
  OBVIOUS
<1> QED
  BY <1>1 DEF IsArray

\* MPI_Startall marks the entries of all its persistent requests, in whatever
\* order, and keeps the invariant.
LEMMA StartallStep ==
  ASSUME IInv, NEW hs, IsArray(hs), NEW was_recorded \in BOOLEAN, MPI_Startall(hs, was_recorded)
  PROVE  IInv'
<1> DEFINE called == CalledWith(hs)
           started == {vt_request_get(tab, h) : h \in called}
<1>1. /\ Idle
      /\ \A h \in called : mpi[h].persistent /\ ~mpi[h].active
      /\ mpi' = [h \in Handles |->
                   IF h \in called THEN [mpi[h] EXCEPT !.active = TRUE] ELSE mpi[h]]
      /\ tab' = Activated(tab, hs)
      /\ saved' = saved /\ recording' = recording /\ orphans' = orphans /\ leaked' = leaked /\ phase' = phase
  BY DEF MPI_Startall, CalledWith
<1>2. /\ phase = "running" /\ Wf(tab) /\ Handled(tab)
      /\ mpi \in [Handles -> RequestType]
      /\ \A k \in Handles \ orphans : Agrees(tab, k, mpi[k])
      /\ \A k \in Handles : ~Waits(k) /\ KnownOK(mpi[k])
  BY <1>1, IdleFacts
<1>3. called \subseteq Handles
  BY DEF CalledWith, IsArray
<1>4. /\ Wf(tab') /\ Handled(tab')
      /\ Used(tab') = Used(tab)
      /\ \A k : Of(tab', k) = Of(tab, k)
      /\ \A p \in Used(tab) :
           /\ At(tab', p) \in EntryType
           /\ At(tab', p).request = At(tab, p).request
           /\ At(tab', p).kind = At(tab, p).kind
           /\ At(tab', p).persistent = At(tab, p).persistent
           /\ At(tab', p).deallocate = At(tab, p).deallocate
           /\ At(tab', p).active = (At(tab, p).active \/ (p \in started /\ At(tab, p).persistent))
  BY <1>1, <1>2, ActivatedIs
<1> HIDE DEF called
<1>5. ASSUME NEW k \in Handles
      PROVE  /\ mpi'[k] \in RequestType /\ KnownOK(mpi'[k])
             /\ mpi'[k].kind = mpi[k].kind /\ mpi'[k].persistent = mpi[k].persistent
             /\ mpi'[k].tracked = mpi[k].tracked
             /\ mpi'[k].active = (mpi[k].active \/ k \in called)
  <2>1. mpi[k] \in RequestType /\ KnownOK(mpi[k])
    BY <1>2
  <2>2. mpi'[k] = IF k \in called THEN [mpi[k] EXCEPT !.active = TRUE] ELSE mpi[k]
    BY <1>1
  <2>3. k \in called => mpi[k] # None
    BY <1>1 DEF None
  <2> QED
    BY <2>1, <2>2, <2>3 DEF RequestType, KnownOK
<1>6. ASSUME NEW k \in Handles \ orphans PROVE Agrees(tab', k, mpi'[k])
  <2>1. CASE ~mpi[k].tracked
    BY <1>2, <1>4, <1>5, <2>1 DEF Agrees
  <2>2. CASE mpi[k].tracked
    <3>1. PICK p \in Used(tab) :
            /\ Of(tab, k) = {p}
            /\ At(tab, p).kind = mpi[k].kind
            /\ At(tab, p).persistent = mpi[k].persistent
            /\ mpi[k].persistent => At(tab, p).active = mpi[k].active
            /\ ~At(tab, p).deallocate
      BY <1>2, <2>2 DEF Agrees
    <3>2. At(tab, p).request = k /\ p # NULL
      <4>1. NULL \notin (1 .. MaxBlocks) \X Index
        BY BlocksSuffice DEF NULL
      <4> QED
        BY <1>2, <3>1, <4>1, EntryTypes DEF Of
    <3>3. p \in started <=> k \in called
      <4>1. vt_request_get(tab, k) = p
        BY <1>2, <3>1, GetOf
      <4>2. \A h \in called : vt_request_get(tab, h) = p => h = k
        BY <1>2, <3>2, GetOf
      <4> QED
        BY <4>1, <4>2
    <3>4. /\ mpi[k].active \in BOOLEAN /\ mpi[k].persistent \in BOOLEAN
      BY <1>2 DEF RequestType
    <3>5. mpi'[k].persistent => At(tab', p).active = mpi'[k].active
      <4> HIDE DEF started
      <4> QED
        BY <1>4, <1>5, <3>1, <3>3, <3>4
    <3> QED
      BY <1>4, <1>5, <2>2, <3>1, <3>5 DEF Agrees
  <2> QED
    BY <2>1, <2>2
<1>7. ASSUME NEW h \in called, h \notin orphans
      PROVE  StartWrites(h, was_recorded)
               = (mpi[h].kind = "send" /\ mpi[h].tracked /\ was_recorded)
  <2>1. h \in Handles /\ mpi[h] \in RequestType /\ mpi[h].persistent /\ Agrees(tab, h, mpi[h])
    BY <1>1, <1>2, <1>3, <1>7
  <2>2. CASE ~mpi[h].tracked
    <3>1. vt_request_get(tab, h) = NULL
      BY <1>2, <2>1, <2>2, GetOf DEF Agrees
    <3> QED
      BY <2>1, <2>2, <3>1 DEF StartWrites, RequestType
  <2>3. CASE mpi[h].tracked
    <3>1. PICK p \in Used(tab) :
            /\ Of(tab, h) = {p}
            /\ At(tab, p).kind = mpi[h].kind
            /\ At(tab, p).persistent = mpi[h].persistent
      BY <2>1, <2>3 DEF Agrees
    <3>2. vt_request_get(tab, h) = p /\ p # NULL
      BY <1>2, <3>1, GetOf
    <3> QED
      BY <2>1, <2>3, <3>1, <3>2 DEF StartWrites, RequestType
  <2> QED
    BY <2>2, <2>3
<1>8. missed' = FALSE
  <2>1. ~missed /\ missed \in BOOLEAN
    BY DEF IInv, TypeOK
  <2>2. missed' = (missed \/ \E i \in DOMAIN hs :
                     /\ hs[i] \notin orphans
                     /\ StartWrites(hs[i], was_recorded)
                          # (mpi[hs[i]].kind = "send" /\ mpi[hs[i]].tracked /\ was_recorded))
    BY DEF MPI_Startall
  <2>3. \A i \in DOMAIN hs : hs[i] \in called
    BY DEF called, CalledWith
  <2> QED
    BY <1>7, <2>1, <2>2, <2>3
<1>9. saved' = << >>
  BY <1>1 DEF Idle
<1>10. mpi' \in [Handles -> RequestType] /\ \A k \in Handles : KnownOK(mpi'[k])
  BY <1>1, <1>5
<1>11. recording' \in BOOLEAN /\ orphans' \subseteq Handles /\ leaked' \in BOOLEAN
  BY <1>1 DEF IInv, TypeOK
<1> QED
  BY <1>1, <1>2, <1>4, <1>6, <1>8, <1>9, <1>10, <1>11, IInvIdle

\* MPI completes the requests it is called with.
LEMMA CompletedIs ==
  ASSUME mpi \in [Handles -> RequestType], NEW hs, CalledWith(hs) \subseteq Handles
  PROVE  \A h \in Handles :
           Completed(hs)[h] = IF h \notin CalledWith(hs) THEN mpi[h]
                              ELSE IF mpi[h].persistent THEN [mpi[h] EXCEPT !.active = FALSE]
                              ELSE None
  BY DEF Completed

\* MPI_Wait looks its request up before MPI completes it.
LEMMA WaitStep ==
  ASSUME IInv, NEW h \in Handles, NEW was_recorded \in BOOLEAN, MPI_Wait(h, was_recorded)
  PROVE  IInv'
<1> DEFINE p == vt_request_get(tab, h)
           n == IF mpi[h].persistent THEN [mpi[h] EXCEPT !.active = FALSE] ELSE None
<1>1. /\ Idle /\ mpi[h] # None
      /\ mpi' = Completed(<<h>>)
      /\ tab' = vt_check_request(tab, p)
      /\ h \notin orphans => Checked(Writes(tab, p, was_recorded), Due(mpi[h]), was_recorded)
      /\ h \in orphans => missed' = missed
      /\ saved' = saved /\ recording' = recording /\ orphans' = orphans /\ leaked' = leaked /\ phase' = phase
  BY DEF MPI_Wait
<1>2. /\ phase = "running" /\ Wf(tab) /\ Handled(tab)
      /\ mpi \in [Handles -> RequestType]
      /\ \A k \in Handles \ orphans : Agrees(tab, k, mpi[k])
      /\ \A k \in Handles : ~Waits(k) /\ KnownOK(mpi[k])
  BY <1>1, IdleFacts
<1>3. CalledWith(<<h>>) = {h}
  BY DEF CalledWith
<1>4. mpi'[h] = n /\ \A k \in Handles \ {h} : mpi'[k] = mpi[k]
  BY <1>1, <1>2, <1>3, CompletedIs
<1>5. /\ n \in RequestType /\ KnownOK(n)
      /\ h \notin orphans => AgreesWaiting(tab, h, n, Due(mpi[h]))
  <2>1. mpi[h] \in RequestType /\ KnownOK(mpi[h])
    BY <1>2
  <2>2. n \in RequestType
    BY <2>1 DEF RequestType, None
  <2>3. KnownOK(n)
    BY <2>1 DEF RequestType, KnownOK, None
  <2>4. h \notin orphans => AgreesWaiting(tab, h, n, Due(mpi[h]))
    BY <1>1, <1>2, <2>1, CompletedWaits
  <2> QED
    BY <2>2, <2>3, <2>4
<1>6. Due(mpi[h]) \in BOOLEAN
  BY <1>2 DEF Due, RequestType
<1> HIDE DEF n
<1>7. /\ Wf(tab') /\ Handled(tab')
      /\ \A k : k # h => Same(tab, tab', k)
      /\ h \notin orphans =>
           /\ Agrees(tab', h, n)
           /\ Writes(tab, p, was_recorded) <=> Due(mpi[h]) /\ was_recorded
  BY <1>1, <1>2, <1>5, <1>6, CheckSame
<1>8. missed' = FALSE
  <2>1. missed = FALSE
    BY DEF IInv, TypeOK
  <2>2. CASE h \in orphans
    BY <1>1, <2>1, <2>2
  <2>3. CASE h \notin orphans
    <3>1. missed' = (missed \/ Writes(tab, p, was_recorded) # (Due(mpi[h]) /\ was_recorded))
      BY <1>1, <2>3 DEF Checked
    <3>2. Writes(tab, p, was_recorded) \in BOOLEAN
      BY DEF Writes
    <3> QED
      BY <1>6, <1>7, <2>1, <2>3, <3>1, <3>2
  <2> QED
    BY <2>2, <2>3
<1>9. \A k \in Handles \ orphans : Agrees(tab', k, mpi'[k])
  BY <1>2, <1>4, <1>7, SameAgrees
<1>10. mpi' \in [Handles -> RequestType] /\ \A k \in Handles : KnownOK(mpi'[k])
  <2>1. mpi' = [k \in Handles |-> mpi'[k]]
    BY <1>1 DEF Completed
  <2>2. \A k \in Handles : mpi'[k] \in RequestType /\ KnownOK(mpi'[k])
    BY <1>2, <1>4, <1>5
  <2> QED
    BY <2>1, <2>2
<1>11. recording' \in BOOLEAN /\ orphans' \subseteq Handles /\ leaked' \in BOOLEAN /\ saved' = << >>
  BY <1>1 DEF IInv, TypeOK, Idle
<1> QED
  BY <1>1, <1>2, <1>7, <1>8, <1>9, <1>10, <1>11, IInvIdle

\* A completion call of an array. Only requests that MPI knows are completed.
LEMMA CompleteStep ==
  ASSUME IInv, NEW hs, IsArray(hs), NEW was_recorded \in BOOLEAN, Idle,
         \A i \in DOMAIN hs : mpi[hs[i]] # None, Complete(hs, was_recorded)
  PROVE  IInv'
<1> DEFINE called == CalledWith(hs)
           n(h) == IF mpi[h].persistent THEN [mpi[h] EXCEPT !.active = FALSE] ELSE None
<1>1. /\ saved' = [i \in DOMAIN hs |-> [request |-> hs[i], due |-> Due(mpi[hs[i]])]]
      /\ recording' = was_recorded
      /\ mpi' = Completed(hs)
      /\ tab' = tab /\ orphans' = orphans /\ missed' = missed /\ leaked' = leaked /\ phase' = phase
  BY DEF Complete
<1>2. /\ phase = "running" /\ Wf(tab) /\ Handled(tab)
      /\ mpi \in [Handles -> RequestType]
      /\ \A k \in Handles \ orphans : Agrees(tab, k, mpi[k])
      /\ \A k \in Handles : ~Waits(k) /\ KnownOK(mpi[k])
  BY IdleFacts
<1>3. PICK len \in Nat : hs \in [1 .. len -> Handles]
  BY DEF IsArray
<1>4. \A i, j \in DOMAIN hs : hs[i] = hs[j] => i = j
  BY DEF IsArray
<1>5. called \subseteq Handles /\ \A i \in DOMAIN hs : hs[i] \in called
  BY <1>3 DEF CalledWith
<1>6. \A h \in called : mpi[h] # None
  BY DEF CalledWith
<1>7. \A k \in Handles : mpi'[k] = IF k \notin called THEN mpi[k] ELSE n(k)
  BY <1>1, <1>2, <1>5, CompletedIs
<1>8. ASSUME NEW h \in called
      PROVE  /\ n(h) \in RequestType /\ KnownOK(n(h)) /\ Due(mpi[h]) \in BOOLEAN
             /\ h \notin orphans => AgreesWaiting(tab, h, n(h), Due(mpi[h]))
  <2>1. h \in Handles /\ mpi[h] \in RequestType /\ KnownOK(mpi[h]) /\ mpi[h] # None
    BY <1>2, <1>5, <1>6
  <2>2. n(h) \in RequestType
    BY <2>1 DEF RequestType, None
  <2>3. KnownOK(n(h))
    BY <2>1 DEF RequestType, KnownOK, None
  <2>4. h \notin orphans => AgreesWaiting(tab, h, n(h), Due(mpi[h]))
    BY <1>2, <2>1, CompletedWaits
  <2>5. Due(mpi[h]) \in BOOLEAN
    BY <2>1 DEF Due, RequestType
  <2> QED
    BY <2>2, <2>3, <2>4, <2>5
<1> HIDE DEF n
<1>9. saved' \in Seq([request : Handles, due : BOOLEAN])
  <2>1. \A i \in 1 .. len : [request |-> hs[i], due |-> Due(mpi[hs[i]])] \in [request : Handles, due : BOOLEAN]
    BY <1>3, <1>5, <1>8
  <2>2. saved' \in [1 .. len -> [request : Handles, due : BOOLEAN]]
    BY <1>1, <1>3, <2>1
  <2> HIDE DEF called
  <2> DEFINE T == [request : Handles, due : BOOLEAN]
  <2> HIDE DEF T
  <2>3. saved' \in [1 .. len -> T]
    BY <2>2 DEF T
  <2>4. saved' \in Seq(T)
    BY <2>3, SeqDef
  <2> QED
    BY <2>4 DEF T
<1>10. \A i \in DOMAIN saved' : /\ i \in DOMAIN hs /\ saved'[i].request = hs[i]
                                /\ saved'[i].due = Due(mpi[hs[i]])
  BY <1>1
<1>11. \A i, j \in DOMAIN saved' : saved'[i].request = saved'[j].request => i = j
  BY <1>4, <1>10
<1>12. ASSUME NEW k \in Handles \ orphans
       PROVE  /\ ~Waits(k)' => Agrees(tab', k, mpi'[k])
              /\ \A i \in DOMAIN saved' :
                   saved'[i].request = k => AgreesWaiting(tab', k, mpi'[k], saved'[i].due)
  <2>1. k \in called => Waits(k)'
    <3>1. SUFFICES ASSUME k \in called PROVE Waits(k)'
      OBVIOUS
    <3>2. PICK i \in DOMAIN hs : hs[i] = k
      BY <3>1 DEF CalledWith
    <3>3. i \in DOMAIN saved' /\ saved'[i].request = k
      BY <1>1, <3>2
    <3> QED
      BY <3>3 DEF Waits
  <2>2. ~Waits(k)' => Agrees(tab', k, mpi'[k])
    BY <1>1, <1>2, <1>7, <2>1
  <2>3. ASSUME NEW i \in DOMAIN saved', saved'[i].request = k
        PROVE  AgreesWaiting(tab', k, mpi'[k], saved'[i].due)
    <3>1. k \in called /\ saved'[i].due = Due(mpi[k])
      BY <1>5, <1>10, <2>3
    <3> HIDE DEF called
    <3> QED
      BY <1>1, <1>7, <1>8, <3>1
  <2> QED
    BY <2>2, <2>3
<1>13. mpi' \in [Handles -> RequestType] /\ \A k \in Handles : KnownOK(mpi'[k])
  <2>1. mpi' = [k \in Handles |-> mpi'[k]]
    BY <1>1 DEF Completed
  <2>2. \A k \in Handles : mpi'[k] \in RequestType /\ KnownOK(mpi'[k])
    BY <1>2, <1>7, <1>8
  <2> QED
    BY <2>1, <2>2
<1>14. recording' \in BOOLEAN /\ orphans' \subseteq Handles /\ missed' = FALSE /\ leaked' \in BOOLEAN
  BY <1>1 DEF IInv, TypeOK
<1> QED
  BY <1>1, <1>2, <1>9, <1>11, <1>12, <1>13, <1>14, IInvFrom

\* The next saved handle is looked up.
LEMMA CheckNextStep ==
  ASSUME IInv, CheckNext
  PROVE  IInv'
<1> DEFINE s == Head(saved)
           h == s.request
           p == vt_request_get(tab, h)
<1>1. /\ phase = "running" /\ saved # << >>
      /\ tab' = vt_check_request(tab, p)
      /\ h \notin orphans => Checked(Writes(tab, p, recording), s.due, recording)
      /\ h \in orphans => missed' = missed
      /\ saved' = Tail(saved)
      /\ recording' = (recording \/ Tail(saved) = << >>)
      /\ mpi' = mpi /\ orphans' = orphans /\ leaked' = leaked /\ phase' = phase
  BY DEF CheckNext
<1>2. /\ Wf(tab) /\ Handled(tab)
      /\ mpi \in [Handles -> RequestType]
      /\ \A k \in Handles \ orphans : ~Waits(k) => Agrees(tab, k, mpi[k])
  BY <1>1, RunningFacts
<1>3. /\ saved \in Seq([request : Handles, due : BOOLEAN])
      /\ \A k \in Handles \ orphans : \A i \in DOMAIN saved :
           saved[i].request = k => AgreesWaiting(tab, k, mpi[k], saved[i].due)
      /\ \A i, j \in DOMAIN saved : saved[i].request = saved[j].request => i = j
      /\ \A k \in Handles : KnownOK(mpi[k])
  BY <1>1 DEF IInv, TypeOK, TableInv
<1>4. /\ 1 \in DOMAIN saved /\ s = saved[1] /\ h \in Handles /\ s.due \in BOOLEAN
      /\ saved' \in Seq([request : Handles, due : BOOLEAN])
      /\ \A i \in DOMAIN saved' : i + 1 \in DOMAIN saved /\ saved'[i] = saved[i + 1]
      /\ \A i \in DOMAIN saved : i # 1 => i - 1 \in DOMAIN saved' /\ saved'[i - 1] = saved[i]
      /\ DOMAIN saved \subseteq Nat /\ DOMAIN saved' \subseteq Nat \ {0}
      /\ \A i \in DOMAIN saved : saved[i].due \in BOOLEAN
  <2> DEFINE T == [request : Handles, due : BOOLEAN]
  <2>1. saved \in Seq(T) /\ saved # << >>
    BY <1>1, <1>3
  <2> HIDE DEF T
  <2>2. /\ Head(saved) \in T /\ Tail(saved) \in Seq(T)
        /\ Len(Tail(saved)) = Len(saved) - 1
        /\ \A i \in 1 .. Len(Tail(saved)) : Tail(saved)[i] = saved[i + 1]
    BY <2>1, HeadTailProperties
  <2>3. Len(saved) \in Nat /\ DOMAIN saved = 1 .. Len(saved) /\ Len(saved) # 0
        /\ DOMAIN Tail(saved) = 1 .. Len(Tail(saved))
    BY <2>1, <2>2, LenProperties
  <2>4. Head(saved) = saved[1]
    BY <2>1
  <2>5. s \in T
    BY <2>2
  <2>6. \A i \in DOMAIN saved : i # 1 => i - 1 \in DOMAIN saved' /\ saved'[i - 1] = saved[i]
    BY <1>1, <2>2, <2>3
  <2>7. \A i \in DOMAIN saved' : i + 1 \in DOMAIN saved /\ saved'[i] = saved[i + 1]
    BY <1>1, <2>2, <2>3
  <2>8. s.request \in Handles /\ s.due \in BOOLEAN
    BY <2>5 DEF T
  <2>9. \A i \in DOMAIN saved : saved[i] \in T
    BY <2>1, <2>3, ElementOfSeq
  <2>10. \A i \in DOMAIN saved : saved[i].due \in BOOLEAN
    BY <2>9 DEF T
  <2> QED
    BY <1>1, <2>2, <2>3, <2>4, <2>6, <2>7, <2>8, <2>10 DEF T
<1> HIDE DEF s
<1>5. recording \in BOOLEAN /\ missed = FALSE
  BY DEF IInv, TypeOK
<1>6. /\ Wf(tab') /\ Handled(tab')
      /\ \A k : k # h => Same(tab, tab', k)
      /\ h \notin orphans =>
           /\ Agrees(tab', h, mpi[h])
           /\ Writes(tab, p, recording) <=> s.due /\ recording
  <2>1. h \notin orphans => AgreesWaiting(tab, h, mpi[h], s.due)
    BY <1>3, <1>4
  <2>2. mpi[h] \in RequestType
    BY <1>2, <1>4
  <2> QED
    BY <1>1, <1>2, <1>4, <1>5, <2>1, <2>2, CheckSame
<1>7. missed' = FALSE
  <2>1. CASE h \in orphans
    BY <1>1, <1>5, <2>1
  <2>2. CASE h \notin orphans
    <3>1. missed' = (missed \/ Writes(tab, p, recording) # (s.due /\ recording))
      BY <1>1, <2>2 DEF Checked
    <3>2. Writes(tab, p, recording) \in BOOLEAN
      BY DEF Writes
    <3> QED
      BY <1>4, <1>5, <1>6, <2>2, <3>1, <3>2
  <2> QED
    BY <2>1, <2>2
<1>8. ASSUME NEW i \in DOMAIN saved', NEW j \in DOMAIN saved',
             saved'[i].request = saved'[j].request
      PROVE  i = j
  <2>1. i + 1 \in DOMAIN saved /\ j + 1 \in DOMAIN saved /\ i \in Nat /\ j \in Nat
    BY <1>4
  <2>2. saved[i + 1].request = saved[j + 1].request
    BY <1>4, <1>8
  <2>3. i + 1 = j + 1
    BY <1>3, <2>1, <2>2
  <2> QED
    BY <2>1, <2>3
<1>9. ASSUME NEW k \in Handles \ orphans
      PROVE  /\ ~Waits(k)' => Agrees(tab', k, mpi'[k])
             /\ \A i \in DOMAIN saved' :
                  saved'[i].request = k => AgreesWaiting(tab', k, mpi'[k], saved'[i].due)
  <2>1. CASE k = h
    <3>1. ASSUME NEW i \in DOMAIN saved', saved'[i].request = h PROVE FALSE
      <4>1. i + 1 \in DOMAIN saved /\ saved[i + 1].request = h /\ i \in Nat \ {0}
        BY <1>4, <3>1
      <4>2. saved[1].request = h /\ 1 \in DOMAIN saved
        BY <1>4
      <4>3. i + 1 = 1
        BY <1>3, <4>1, <4>2
      <4> QED
        BY <4>1, <4>3
    <3> QED
      BY <1>1, <1>6, <2>1, <3>1
  <2>2. CASE k # h
    <3>1. Waits(k) => Waits(k)'
      <4>1. SUFFICES ASSUME Waits(k) PROVE Waits(k)'
        OBVIOUS
      <4>2. PICK i \in DOMAIN saved : saved[i].request = k
        BY <4>1 DEF Waits
      <4>3. i # 1
        BY <1>4, <2>2, <4>2
      <4> QED
        BY <1>4, <4>2, <4>3 DEF Waits
    <3>2. ~Waits(k)' => Agrees(tab', k, mpi'[k])
      BY <1>1, <1>2, <1>6, <2>2, <3>1, SameAgrees
    <3>3. ASSUME NEW i \in DOMAIN saved', saved'[i].request = k
          PROVE  AgreesWaiting(tab', k, mpi'[k], saved'[i].due)
      <4>1. i + 1 \in DOMAIN saved /\ saved[i + 1].request = k
            /\ saved'[i].due = saved[i + 1].due
        BY <1>4, <3>3
      <4>2. AgreesWaiting(tab, k, mpi[k], saved[i + 1].due)
        BY <1>3, <4>1
      <4>3. saved[i + 1].due \in BOOLEAN
        BY <1>4, <4>1
      <4>4. Same(tab, tab', k)
        BY <1>6, <2>2
      <4>5. AgreesWaiting(tab', k, mpi[k], saved[i + 1].due)
        BY <4>2, <4>3, <4>4, SameAgrees
      <4> QED
        BY <1>1, <4>1, <4>5
    <3> QED
      BY <3>2, <3>3
  <2> QED
    BY <2>1, <2>2
<1>10. recording' \in BOOLEAN /\ orphans' \subseteq Handles /\ leaked' \in BOOLEAN
  BY <1>1 DEF IInv, TypeOK
<1> QED
  BY <1>1, <1>2, <1>3, <1>4, <1>6, <1>7, <1>8, <1>9, <1>10, IInvFrom

\* MPI_Request_free deletes the entry, or leaves it to the call that completes
\* the request.
LEMMA RequestFreeStep ==
  ASSUME IInv, NEW h \in Handles, MPI_Request_free(h)
  PROVE  IInv'
<1> DEFINE p == vt_request_get(tab, h)
           e == At(tab, p)
           dead == [e EXCEPT !.deallocate = TRUE]
<1>1. /\ Idle /\ mpi[h] # None
      /\ mpi' = [mpi EXCEPT ![h] = None]
      /\ orphans' = IF mpi[h].active /\ mpi[h].tracked THEN orphans \cup {h} ELSE orphans
      /\ tab' = IF p = NULL \/ ~e.persistent THEN tab
                ELSE IF e.active THEN Store(tab, p, dead)
                ELSE vt_request_free(tab, p)
      /\ saved' = saved /\ recording' = recording /\ missed' = missed /\ leaked' = leaked /\ phase' = phase
  BY DEF MPI_Request_free
<1>2. /\ phase = "running" /\ Wf(tab) /\ Handled(tab)
      /\ mpi \in [Handles -> RequestType]
      /\ \A k \in Handles \ orphans : Agrees(tab, k, mpi[k])
      /\ \A k \in Handles : ~Waits(k) /\ KnownOK(mpi[k])
  BY <1>1, IdleFacts
<1>3. /\ None \in RequestType /\ KnownOK(None) /\ ~None.tracked
  BY DEF None, RequestType, KnownOK
<1>4. /\ Of(tab, h) = {} <=> p = NULL
      /\ p # NULL => p \in Used(tab) /\ e.request = h
      /\ \A q \in Used(tab) : Of(tab, h) = {q} => p = q
  BY <1>2, GetOf
<1>5. p # NULL => /\ e \in EntryType /\ dead \in EntryType /\ dead.request = h
  <2>1. p # NULL => e \in EntryType
    BY <1>2, <1>4, EntryTypes
  <2> QED
    BY <1>4, <2>1 DEF EntryType
<1>6. /\ Wf(tab') /\ Handled(tab')
      /\ \A k : k # h => Same(tab, tab', k)
  <2> HIDE DEF p, e, dead
  <2>1. CASE p = NULL \/ ~e.persistent
    BY <1>1, <1>2, <2>1 DEF Same
  <2>2. CASE p # NULL /\ e.persistent /\ e.active
    BY <1>1, <1>2, <1>4, <1>5, <2>2, StoreSame DEF e
  <2>3. CASE p # NULL /\ e.persistent /\ ~e.active
    BY <1>1, <1>2, <1>4, <2>3, FreeSame DEF e
  <2> QED
    BY <2>1, <2>2, <2>3
<1>7. ASSUME h \notin orphans' PROVE Agrees(tab', h, None)
  <2>1. h \notin orphans /\ ~(mpi[h].active /\ mpi[h].tracked) /\ Agrees(tab, h, mpi[h])
    BY <1>1, <1>2, <1>7
  <2>2. CASE ~mpi[h].tracked
    <3>1. Of(tab, h) = {} /\ p = NULL
      BY <1>4, <2>1, <2>2 DEF Agrees
    <3>2. tab' = tab
      BY <1>1, <3>1
    <3> QED
      BY <1>3, <3>1, <3>2 DEF Agrees
  <2>3. CASE mpi[h].tracked
    <3>1. mpi[h].persistent /\ mpi[h].active = FALSE
      BY <1>1, <1>2, <2>1, <2>3 DEF KnownOK, RequestType
    <3>2. /\ Of(tab, h) = {p} /\ p \in Used(tab) /\ p # NULL
          /\ e.persistent = mpi[h].persistent /\ e.active = mpi[h].active
      BY <1>4, <2>1, <2>3, <3>1 DEF Agrees
    <3>3. tab' = vt_request_free(tab, p)
      BY <1>1, <3>1, <3>2
    <3>4. Of(tab', h) = {}
      BY <1>2, <1>4, <3>2, <3>3, FreeSame
    <3> QED
      BY <1>3, <3>4 DEF Agrees
  <2> QED
    BY <2>2, <2>3
<1>8. ASSUME NEW k \in Handles \ orphans' PROVE Agrees(tab', k, mpi'[k])
  <2>1. CASE k = h
    BY <1>1, <1>2, <1>7, <1>8, <2>1
  <2>2. CASE k # h
    <3>1. k \notin orphans /\ mpi'[k] = mpi[k] /\ Agrees(tab, k, mpi[k])
      BY <1>1, <1>2, <1>8, <2>2
    <3>2. Same(tab, tab', k)
      BY <1>6, <2>2
    <3> QED
      BY <3>1, <3>2, SameAgrees
  <2> QED
    BY <2>1, <2>2
<1>9. mpi' \in [Handles -> RequestType] /\ \A k \in Handles : KnownOK(mpi'[k])
  BY <1>1, <1>2, <1>3
<1>10. recording' \in BOOLEAN /\ orphans' \subseteq Handles /\ missed' = FALSE /\ leaked' \in BOOLEAN
      /\ saved' = << >>
  BY <1>1 DEF IInv, TypeOK, Idle
<1> QED
  BY <1>1, <1>2, <1>6, <1>8, <1>9, <1>10, IInvIdle

\* vt_request_finalize gives the blocks back.
LEMMA FinalizeStep ==
  ASSUME IInv, Finalize
  PROVE  IInv'
<1>1. /\ phase' = "finalized" /\ saved' = << >> /\ mpi' = [h \in Handles |-> None]
      /\ tab' = [tab EXCEPT !.nblk = 0, !.req = NoBlocks]
      /\ recording' = recording /\ orphans' = orphans /\ missed' = missed /\ leaked' = leaked
  BY DEF Finalize, Idle
<1>2. tab \in TableType /\ recording \in BOOLEAN /\ orphans \subseteq Handles /\ missed = FALSE /\ leaked \in BOOLEAN
  BY DEF IInv, TypeOK, TableType
<1>3. NoBlocks \in [1 .. MaxBlocks -> [Index -> EntryType]] /\ 0 \in 0 .. MaxBlocks
  BY EmptyType, BlocksSuffice DEF NoBlocks
<1>4. tab' \in TableType
  BY <1>1, <1>2, <1>3 DEF TableType
<1>5. None \in RequestType /\ KnownOK(None)
  BY DEF None, RequestType, KnownOK
<1>6. mpi' \in [Handles -> RequestType] /\ \A h \in Handles : KnownOK(mpi'[h])
  BY <1>1, <1>5
<1>7. saved' \in Seq([request : Handles, due : BOOLEAN]) /\ \A i \in DOMAIN saved' : FALSE
  BY <1>1
<1>8. TypeOK'
  BY <1>1, <1>2, <1>4, <1>6, <1>7 DEF TypeOK, TableType, RequestType
<1> QED
  BY <1>1, <1>2, <1>6, <1>7, <1>8 DEF IInv, TableInv

\* Blocking calls write what is due.
LEMMA BlockingStep ==
  ASSUME IInv, NEW was_recorded \in BOOLEAN, Blocking(was_recorded)
  PROVE  /\ UNCHANGED <<tab, mpi, saved, recording, orphans, missed, phase>>
         /\ leaked' \in BOOLEAN
<1> DEFINE G == /\ UNCHANGED <<tab, mpi, saved, recording, orphans, missed, phase>>
                /\ leaked' \in BOOLEAN
<1>1. missed = FALSE /\ leaked \in BOOLEAN
  BY DEF IInv, TypeOK
<1>2. ASSUME NEW dest \in Partners, MPI_Send(dest, was_recorded)
      PROVE  G
  <2>1. Checked(Peer(dest) /\ was_recorded, Peer(dest), was_recorded)
    BY <1>2 DEF MPI_Send
  <2>2. missed' = missed
    BY <1>1, <2>1 DEF Checked
  <2> QED
    BY <1>1, <1>2, <2>2 DEF MPI_Send
<1>3. ASSUME NEW source \in Partners, NEW success \in BOOLEAN,
             MPI_Recv(source, success, was_recorded)
      PROVE  G
  <2>1. Checked(Peer(source) /\ success /\ was_recorded, Peer(source) /\ success, was_recorded)
    BY <1>3 DEF MPI_Recv
  <2>2. missed' = missed
    BY <1>1, <2>1 DEF Checked
  <2> QED
    BY <1>1, <1>3, <2>2 DEF MPI_Recv
<1>4. ASSUME NEW dest \in Partners, NEW source \in Partners, NEW success \in BOOLEAN,
             MPI_Sendrecv_replace(dest, source, success, was_recorded)
      PROVE  G
  <2>1. CASE MPI_Send(dest, was_recorded)
    BY <1>2, <2>1
  <2>2. CASE ~MPI_Send(dest, was_recorded)
    <3>1. PICK is_on \in {TRUE, was_recorded} :
            /\ missed' = (missed \/ (was_recorded /\ (Peer(source) /\ success /\ is_on)
                                                     # (Peer(source) /\ success)))
            /\ leaked' = (leaked \/ ((Peer(source) /\ success /\ is_on) /\ ~was_recorded))
      BY <1>4, <2>2 DEF MPI_Sendrecv_replace
    <3>2. Peer(source) \in BOOLEAN /\ is_on \in BOOLEAN /\ (was_recorded => is_on = TRUE)
      BY DEF Peer
    <3>3. missed' = missed /\ leaked' \in BOOLEAN
      BY <1>1, <3>1, <3>2
    <3>4. UNCHANGED <<tab, mpi, saved, recording, orphans, phase>>
      BY <1>4, <2>2 DEF MPI_Sendrecv_replace
    <3> QED
      BY <3>3, <3>4
  <2> QED
    BY <2>1, <2>2
<1> QED
  BY <1>2, <1>3, <1>4 DEF Blocking, MPI_Bsend, MPI_Rsend, MPI_Ssend, MPI_Sendrecv

\* The table is empty at first, and MPI knows no request.
LEMMA InitIInv ==
  ASSUME Init
  PROVE  IInv
<1>1. BlkSize \in Nat \ {0} /\ MaxBlocks \in Nat \ {0}
  BY BlocksSuffice
<1>2. NoBlocks \in [1 .. MaxBlocks -> [Index -> EntryType]]
  BY EmptyType DEF NoBlocks
<1>3. NULL \in ((1 .. MaxBlocks) \X Index) \cup {NULL} /\ 0 \in 0 .. MaxBlocks
      /\ BlkSize \in 0 .. BlkSize
  BY <1>1
<1>4. /\ tab = [req |-> NoBlocks, nblk |-> 0, last_block |-> 0, lastidx |-> BlkSize,
                lastreq |-> NULL]
      /\ mpi = [h \in Handles |-> None] /\ saved = << >> /\ recording = TRUE
      /\ orphans = {} /\ missed = FALSE /\ leaked = FALSE /\ phase = "running"
  BY DEF Init
<1>5. tab \in TableType
  BY <1>2, <1>3, <1>4 DEF TableType
<1>6. EndOf(tab) /\ Wf(tab) /\ Used(tab) = {}
  BY <1>4, <1>5 DEF EndOf, Wf, Used
<1>7. None \in RequestType /\ KnownOK(None) /\ ~None.tracked
  BY DEF None, RequestType, KnownOK
<1>8. mpi \in [Handles -> RequestType] /\ \A h \in Handles : KnownOK(mpi[h]) /\ ~mpi[h].tracked
  BY <1>4, <1>7
<1>9. saved \in Seq([request : Handles, due : BOOLEAN]) /\ \A i \in DOMAIN saved : FALSE
  BY <1>4
<1>10. TypeOK
  BY <1>4, <1>5, <1>8, <1>9 DEF TypeOK, TableType, RequestType
<1>11. TableInv
  BY <1>6, <1>8, <1>9 DEF TableInv, Agrees, Of
<1> QED
  BY <1>4, <1>8, <1>9, <1>10, <1>11 DEF IInv

\* Every call keeps the invariant of the request table.
THEOREM NextIInv ==
  ASSUME IInv, [Next]_vars
  PROVE  IInv'
<1>1. CASE UNCHANGED vars
  BY <1>1, NullStep DEF IInv, TypeOK, vars
<1>2. ASSUME NEW was_recorded \in BOOLEAN, Blocking(was_recorded) PROVE IInv'
  BY <1>2, BlockingStep, NullStep
<1>3. ASSUME NEW was_recorded \in BOOLEAN, NEW h \in Handles, Issuing(h, was_recorded)
      PROVE  IInv'
  <2>1. ASSUME NEW dest \in Partners, MPI_Isend(h, dest, was_recorded) PROVE IInv'
    <3>1. Issue(h, "send", FALSE, FALSE) /\ missed' = missed
      BY <2>1 DEF MPI_Isend, Checked, IInv, TypeOK
    <3> QED
      BY <3>1, IssueStep DEF Kinds
  <2>2. ASSUME FileOp(h, was_recorded) PROVE IInv'
    BY <2>2, IssueStep DEF FileOp, Kinds
  <2> QED
    BY <1>3, <2>1, <2>2 DEF Issuing, MPI_Ibsend, MPI_Issend, MPI_Irsend
<1>4. ASSUME NEW h \in Handles, NEW partner \in Partners, Preparing(h, partner) PROVE IInv'
  <2>1. Peer(partner) \in BOOLEAN
    BY DEF Peer
  <2>2. CASE MPI_Irecv(h, partner)
    BY <2>1, <2>2, IssueStep DEF MPI_Irecv, Kinds
  <2>3. CASE MPI_Recv_init(h, partner)
    BY <2>1, <2>3, IssueStep DEF MPI_Recv_init, Kinds
  <2>4. CASE MPI_Send_init(h, partner)
    BY <2>1, <2>4, IssueStep DEF MPI_Send_init, Kinds
  <2> QED
    BY <1>4, <2>2, <2>3, <2>4 DEF Preparing, MPI_Bsend_init, MPI_Ssend_init, MPI_Rsend_init
<1>5. ASSUME NEW was_recorded \in BOOLEAN, NEW h \in Handles, MPI_Start(h, was_recorded)
      PROVE  IInv'
  BY <1>5, ArrayOfOne, StartallStep DEF MPI_Start
<1>6. ASSUME NEW was_recorded \in BOOLEAN, NEW hs \in Arrays, MPI_Startall(hs, was_recorded)
      PROVE  IInv'
  BY <1>6, ArraysAre, StartallStep
<1>7. \A h \in Handles : mpi[h].active => mpi[h] # None
  BY DEF None
<1>8. ASSUME NEW was_recorded \in BOOLEAN, NEW hs, IsArray(hs), Known(hs) \/ Active(hs),
             Complete(hs, was_recorded)
      PROVE  IInv'
  <2>1. Idle /\ \A i \in DOMAIN hs : hs[i] \in Handles
    BY <1>8 DEF Known, Active, IsArray
  <2>2. \A i \in DOMAIN hs : mpi[hs[i]] # None
    BY <1>7, <1>8, <2>1 DEF Known, Active
  <2> QED
    BY <1>8, <2>1, <2>2, CompleteStep
<1>9. ASSUME NEW was_recorded \in BOOLEAN, NEW h \in Handles, CompletingOne(h, was_recorded)
      PROVE  IInv'
  <2>1. CASE MPI_Wait(h, was_recorded) \/ MPI_Test(h, was_recorded)
    BY <2>1, WaitStep DEF MPI_Test
  <2>2. CASE MPI_Waitany(h, was_recorded) \/ MPI_Testany(h, was_recorded)
    BY <1>8, <2>2, ArrayOfOne DEF MPI_Waitany, MPI_Testany
  <2> QED
    BY <1>9, <2>1, <2>2 DEF CompletingOne
<1>10. ASSUME NEW was_recorded \in BOOLEAN, NEW hs \in Arrays, Completing(hs, was_recorded)
       PROVE  IInv'
  BY <1>8, <1>10, ArraysAre DEF Completing, MPI_Waitall, MPI_Testall, MPI_Waitsome, MPI_Testsome
<1>11. ASSUME NEW h \in Handles, MPI_Cancel(h) \/ NotYet(h) PROVE IInv'
  BY <1>11, NullStep DEF MPI_Cancel, NotYet, Nothing, IInv, TypeOK
<1> QED
  BY <1>1, <1>2, <1>3, <1>4, <1>5, <1>6, <1>9, <1>10, <1>11,
     RequestFreeStep, CheckNextStep, FinalizeStep DEF Next

\* The invariant of the request table holds whatever the program calls.
THEOREM SpecIInv == Spec => []IInv
<1>1. Init => IInv
  BY InitIInv
<1>2. IInv /\ [Next]_vars => IInv'
  BY NextIInv
<1> QED
  BY <1>1, <1>2, PTL DEF Spec

\* The state of the request table stays well typed, whatever is called.
THEOREM SpecTypeOK == Spec => []TypeOK
<1>1. IInv => TypeOK
  BY DEF IInv
<1> QED
  BY <1>1, SpecIInv, PTL

\* The markers of the end of the table agree, and the table holds one entry for
\* every tracked request, with the state MPI has it in, although deletions move
\* entries around and handles are used again.
THEOREM SpecTableMatchesMpi == Spec => []TableMatchesMpi
<1>1. ASSUME IInv PROVE TableMatchesMpi
  <2>1. EndAgrees
    BY <1>1 DEF IInv, TableInv, EndAgrees, EndOf
  <2>2. CASE phase # "running"
    BY <2>1, <2>2 DEF TableMatchesMpi
  <2>3. CASE phase = "running"
    <3>1. \A p \in Used(tab) : At(tab, p).request \in Handles
      BY <1>1, <2>3 DEF IInv, TableInv
    <3>2. \A h \in Handles \ orphans :
            ~Waits(h) /\ ~mpi[h].tracked => Of(tab, h) = {}
      BY <1>1, <2>3 DEF IInv, TableInv, Agrees
    <3>3. ASSUME NEW h \in Handles \ orphans, mpi[h].tracked
          PROVE  \E p \in Used(tab) :
                   /\ Of(tab, h) = {p}
                   /\ At(tab, p).kind = mpi[h].kind
                   /\ At(tab, p).persistent = mpi[h].persistent
                   /\ ~Waits(h) /\ mpi[h].persistent => At(tab, p).active = mpi[h].active
      <4>1. CASE ~Waits(h)
        BY <1>1, <2>3, <3>3, <4>1 DEF IInv, TableInv, Agrees
      <4>2. CASE Waits(h)
        <5>1. PICK i \in DOMAIN saved : saved[i].request = h
          BY <4>2 DEF Waits
        <5>2. AgreesWaiting(tab, h, mpi[h], saved[i].due)
          BY <1>1, <2>3, <5>1 DEF IInv, TableInv
        <5>3. PICK p \in Used(tab) :
                /\ Of(tab, h) = {p}
                /\ IF At(tab, p).persistent
                   THEN mpi[h].persistent /\ At(tab, p).kind = mpi[h].kind
                   ELSE mpi[h] = None
          BY <3>3, <5>2 DEF AgreesWaiting
        <5>4. At(tab, p).persistent /\ mpi[h].persistent
          BY <3>3, <5>3 DEF None
        <5>5. At(tab, p).persistent \in BOOLEAN /\ mpi[h].persistent \in BOOLEAN
          BY <1>1, <2>3, RunningFacts, EntryTypes DEF EntryType, RequestType
        <5> QED
          BY <4>2, <5>3, <5>4, <5>5
      <4> QED
        BY <4>1, <4>2
    <3> QED
      BY <2>1, <3>1, <3>2, <3>3 DEF TableMatchesMpi, Of, Waits
  <2> QED
    BY <2>2, <2>3
<1> QED
  BY <1>1, SpecIInv, PTL

\* Every message and every file operation is recorded once, in the call that has
\* to record it; the receive of MPI_Sendrecv_replace is recorded once as well, even
\* in a call that is filtered (vt_mpiwrap.c:1516).
THEOREM SpecCompletionsRecorded == Spec => []CompletionsRecorded
<1>1. IInv => CompletionsRecorded
  BY DEF IInv, CompletionsRecorded
<1> QED
  BY <1>1, SpecIInv, PTL

------------------------------------------------------------------------------
(* The list of blocks implements the plain table. *)

Entry(e) == [request |-> e.request, kind |-> e.kind, persistent |-> e.persistent,
             active |-> e.active]

\* The entries of one handle, as the plain table has them.
View(s, h) == {Entry(At(s, p)) : p \in Of(s, h)}

AtMostOne(s, h) == Of(s, h) = {} \/ \E p \in Used(s) : Of(s, h) = {p}

\* What the plain table has of an entry.
LEMMA EntryIs ==
  ASSUME NEW e
  PROVE  /\ Entry(e).request = e.request /\ Entry(e).kind = e.kind
         /\ Entry(e).persistent = e.persistent /\ Entry(e).active = e.active
  BY DEF Entry

\* The plain table has one entry for a request with one entry.
LEMMA ViewIs ==
  ASSUME NEW s, NEW h
  PROVE  /\ Of(s, h) = {} => View(s, h) = {}
         /\ \A p \in Used(s) : Of(s, h) = {p} => View(s, h) = {Entry(At(s, p))}
         /\ \A e \in View(s, h) : e.request = h
  BY EntryIs DEF View, Of

\* The plain table does not see that vt_request_free moves an entry.
LEMMA SameView ==
  ASSUME NEW s, NEW u, NEW h, Same(s, u, h), AtMostOne(s, h)
  PROVE  View(u, h) = View(s, h)
  BY ViewIs DEF Same, AtMostOne

\* The plain table is made of the entries of the requests that are not orphans.
LEMMA ContentsIs ==
  ASSUME Handled(tab)
  PROVE  \A e : e \in Contents <=> \E h \in Handles \ orphans : e \in View(tab, h)
  BY DEF Contents, View, Of, Handled, Entry

\* Whatever is not an orphan has one entry at most.
LEMMA OneEntry ==
  ASSUME IInv, phase = "running", NEW h \in Handles \ orphans
  PROVE  AtMostOne(tab, h)
<1>1. CASE Waits(h)
  BY <1>1 DEF IInv, TableInv, Waits, AgreesWaiting, AtMostOne
<1>2. CASE ~Waits(h)
  BY <1>2 DEF IInv, TableInv, Agrees, AtMostOne
<1> QED
  BY <1>1, <1>2

\* A step that leaves all entries alone but those of one handle.
LEMMA ContentsChange ==
  ASSUME IInv, phase = "running", Handled(tab'), NEW h \in Handles, orphans' \in SUBSET Handles,
         orphans \subseteq orphans', orphans' \subseteq orphans \cup {h},
         \A k \in Handles \ {h} : Same(tab, tab', k)
  PROVE  /\ h \in orphans => Contents' = Contents
         /\ h \notin orphans' => Contents' = (Contents \ View(tab, h)) \cup View(tab', h)
         /\ h \in orphans' /\ h \notin orphans => Contents' = Contents \ View(tab, h)
<1>1. Handled(tab)
  BY RunningFacts
<1>2. \A e : e \in Contents <=> \E k \in Handles \ orphans : e \in View(tab, k)
  BY <1>1, ContentsIs
<1>3. \A e : e \in Contents' <=> \E k \in Handles \ orphans' : e \in View(tab', k)
  <2>1. (Handled(tab) => \A e : e \in Contents <=> \E k \in Handles \ orphans : e \in View(tab, k))'
    BY DEF Contents, View, Of, Handled, Entry
  <2> QED
    BY <2>1
<1>4. \A k \in Handles \ (orphans \cup {h}) : View(tab', k) = View(tab, k)
  BY OneEntry, SameView
<1>5. \A k : \A e \in View(tab, k) : e.request = k
  BY ViewIs
<1>6. \A k : \A e \in View(tab', k) : e.request = k
  BY ViewIs
<1>7. h \in orphans => Contents' = Contents
  <2>1. h \in orphans => orphans' = orphans
    OBVIOUS
  <2>2. h \in orphans => \A e : e \in Contents' <=> e \in Contents
    BY <1>2, <1>3, <1>4, <2>1
  <2> QED
    BY <2>2
<1>8. h \notin orphans' => Contents' = (Contents \ View(tab, h)) \cup View(tab', h)
  <2>1. SUFFICES ASSUME h \notin orphans'
                 PROVE  \A e : e \in Contents' <=> e \in (Contents \ View(tab, h)) \cup View(tab', h)
    OBVIOUS
  <2>2. orphans' = orphans
    BY <2>1
  <2> QED
    BY <1>2, <1>3, <1>4, <1>5, <1>6, <2>1, <2>2
<1>9. h \in orphans' /\ h \notin orphans => Contents' = Contents \ View(tab, h)
  <2>1. SUFFICES ASSUME h \in orphans', h \notin orphans
                 PROVE  \A e : e \in Contents' <=> e \in Contents \ View(tab, h)
    OBVIOUS
  <2>2. orphans' = orphans \cup {h}
    BY <2>1
  <2> QED
    BY <1>2, <1>3, <1>4, <1>5, <2>1, <2>2
<1> QED
  BY <1>7, <1>8, <1>9

\* The flag of an entry changes in the plain table as it does in the block.
LEMMA EntryActive ==
  ASSUME NEW e \in EntryType, NEW v \in BOOLEAN
  PROVE  [Entry(e) EXCEPT !.active = v]
           = [request |-> e.request, kind |-> e.kind, persistent |-> e.persistent, active |-> v]
<1> DEFINE T == [request : Handles \cup {0}, kind : Kinds, persistent : BOOLEAN, active : BOOLEAN]
           r == [Entry(e) EXCEPT !.active = v]
<1>1. Entry(e) \in T
  BY DEF Entry, EntryType
<1>2. /\ r \in T /\ r.request = Entry(e).request /\ r.kind = Entry(e).kind
      /\ r.persistent = Entry(e).persistent /\ r.active = v
  BY <1>1
<1> HIDE DEF r
<1>3. r = [request |-> r.request, kind |-> r.kind, persistent |-> r.persistent, active |-> r.active]
  BY <1>2
<1> QED
  BY <1>2, <1>3, EntryIs DEF r

\* A lookup after the completion is a Complete of the plain table, or none.
LEMMA LookupImplements ==
  ASSUME NEW s, Wf(s), NEW c, Wf(c), NEW h, NEW m \in RequestType, NEW due \in BOOLEAN,
         AgreesWaiting(s, h, m, due), Agrees(c, h, m)
  PROVE  \/ View(c, h) = View(s, h)
         \/ \E e : /\ View(s, h) = {e}
                   /\ e.persistent => e.active
                   /\ View(c, h) = IF e.persistent THEN {[e EXCEPT !.active = FALSE]} ELSE {}
<1>1. CASE Of(s, h) = {} /\ ~m.tracked
  BY <1>1, ViewIs DEF Agrees
<1>2. CASE ~(Of(s, h) = {} /\ ~m.tracked)
  <2>1. PICK p \in Used(s) :
          /\ Of(s, h) = {p}
          /\ IF At(s, p).persistent
             THEN m.tracked /\ m.persistent /\ At(s, p).kind = m.kind
             ELSE m = None
    BY <1>2 DEF AgreesWaiting
  <2> DEFINE e == Entry(At(s, p))
  <2>2. At(s, p) \in EntryType /\ At(s, p).request = h
    BY <2>1, EntryTypes DEF Of
  <2>3. View(s, h) = {e}
    BY <2>1, ViewIs
  <2>4. CASE At(s, p).persistent
    <3>1. m # None /\ m.active = FALSE
      BY <2>1, <2>4 DEF AgreesWaiting, None, RequestType
    <3>2. PICK q \in Used(c) :
            /\ Of(c, h) = {q}
            /\ At(c, q).kind = m.kind
            /\ At(c, q).persistent = m.persistent
            /\ At(c, q).active = m.active
      BY <2>1, <2>4 DEF Agrees
    <3>3. At(c, q) \in EntryType /\ At(c, q).request = h
      BY <3>2, EntryTypes DEF Of
    <3>4. Entry(At(c, q)) = [e EXCEPT !.active = FALSE]
      <4>1. /\ At(c, q).request = h /\ At(c, q).kind = At(s, p).kind
            /\ At(c, q).persistent = At(s, p).persistent /\ At(c, q).active = FALSE
        BY <2>1, <2>2, <2>4, <3>1, <3>2, <3>3 DEF RequestType, EntryType
      <4>2. [e EXCEPT !.active = FALSE]
              = [request |-> At(s, p).request, kind |-> At(s, p).kind,
                 persistent |-> At(s, p).persistent, active |-> FALSE]
        BY <2>2, EntryActive
      <4> HIDE DEF e
      <4> QED
        BY <2>2, <4>1, <4>2 DEF Entry
    <3>5. View(c, h) = {[e EXCEPT !.active = FALSE]}
      BY <3>2, <3>4, ViewIs
    <3>6. CASE At(s, p).active
      BY <2>3, <2>4, <3>5, <3>6, EntryIs
    <3>7. CASE ~At(s, p).active
      <4>1. At(s, p).active = FALSE
        BY <2>2, <3>7 DEF EntryType
      <4>2. [e EXCEPT !.active = FALSE] = e
        BY <2>2, <4>1, EntryActive DEF Entry
      <4> QED
        BY <2>3, <3>5, <4>2
    <3> QED
      BY <3>6, <3>7
  <2>5. CASE ~At(s, p).persistent
    <3>1. ~m.tracked
      BY <2>1, <2>5 DEF None
    <3>2. View(c, h) = {}
      BY <3>1, ViewIs DEF Agrees
    <3>3. ~e.persistent
      BY <2>5, EntryIs
    <3> HIDE DEF e
    <3> QED
      BY <2>3, <3>2, <3>3
  <2> QED
    BY <2>4, <2>5
<1> QED
  BY <1>1, <1>2

TableVars == <<Contents, orphans, phase = "running">>

\* A step of the table that changes the entries of one handle by a lookup.
LEMMA CompleteImplements ==
  ASSUME IInv, phase = "running", phase' = phase, orphans' = orphans, Handled(tab'),
         NEW h \in Handles, \A k \in Handles \ {h} : Same(tab, tab', k),
         h \notin orphans =>
           \/ View(tab', h) = View(tab, h)
           \/ \E e : /\ View(tab, h) = {e}
                     /\ e.persistent => e.active
                     /\ View(tab', h) = IF e.persistent THEN {[e EXCEPT !.active = FALSE]} ELSE {}
  PROVE  [Table!Next]_TableVars
<1>1. orphans' \in SUBSET Handles
  BY DEF IInv, TypeOK
<1>2. CASE h \in orphans
  <2>1. Contents' = Contents
    BY <1>1, <1>2, ContentsChange
  <2> QED
    BY <2>1 DEF TableVars
<1>3. CASE h \notin orphans
  <2>1. Contents' = (Contents \ View(tab, h)) \cup View(tab', h)
    BY <1>1, <1>3, ContentsChange
  <2>2. View(tab, h) \subseteq Contents
    BY <1>3, ContentsIs, RunningFacts
  <2>3. CASE View(tab', h) = View(tab, h)
    <3>1. Contents' = Contents
      BY <2>1, <2>2, <2>3
    <3> QED
      BY <3>1 DEF TableVars
  <2>4. ASSUME NEW e, View(tab, h) = {e}, e.persistent => e.active,
               View(tab', h) = IF e.persistent THEN {[e EXCEPT !.active = FALSE]} ELSE {}
        PROVE  Table!Next
    <3>1. e \in Contents
      BY <2>2, <2>4
    <3>2. Contents' = (Contents \ {e}) \cup (IF e.persistent THEN {[e EXCEPT !.active = FALSE]} ELSE {})
      BY <2>1, <2>4
    <3>3. Table!Complete(e)
      BY <2>4, <3>2 DEF Table!Complete
    <3>4. Table!Change
      BY <3>1, <3>3 DEF Table!Change
    <3> QED
      BY <3>4 DEF Table!Next
  <2> QED
    BY <1>3, <2>3, <2>4
<1> QED
  BY <1>2, <1>3

\* MPI_Wait is a Complete of the plain table, or none.
LEMMA WaitImplements ==
  ASSUME IInv, NEW h \in Handles, NEW was_recorded \in BOOLEAN, MPI_Wait(h, was_recorded)
  PROVE  [Table!Next]_TableVars
<1> DEFINE n == IF mpi[h].persistent THEN [mpi[h] EXCEPT !.active = FALSE] ELSE None
<1>1. /\ Idle /\ mpi[h] # None /\ tab' = vt_check_request(tab, vt_request_get(tab, h))
      /\ orphans' = orphans /\ leaked' = leaked /\ phase' = phase
  BY DEF MPI_Wait
<1>2. /\ phase = "running" /\ Wf(tab) /\ Handled(tab)
      /\ mpi[h] \in RequestType /\ KnownOK(mpi[h])
      /\ h \notin orphans => Agrees(tab, h, mpi[h])
  BY <1>1, IdleFacts
<1>3. Due(mpi[h]) \in BOOLEAN
  BY <1>2 DEF Due, RequestType
<1>4. h \notin orphans => n \in RequestType /\ AgreesWaiting(tab, h, n, Due(mpi[h]))
  BY <1>1, <1>2, CompletedWaits
<1> HIDE DEF n
<1>5. /\ Wf(tab') /\ Handled(tab')
      /\ \A k : k # h => Same(tab, tab', k)
      /\ h \notin orphans => Agrees(tab', h, n)
  BY <1>1, <1>2, <1>3, <1>4, CheckSame
<1> QED
  BY <1>1, <1>2, <1>3, <1>4, <1>5, LookupImplements, CompleteImplements

\* A lookup of vt_check_request_array is a Complete of the plain table, or none.
LEMMA CheckNextImplements ==
  ASSUME IInv, CheckNext
  PROVE  [Table!Next]_TableVars
<1> DEFINE h == Head(saved).request
           due == Head(saved).due
<1>1. /\ phase = "running" /\ saved # << >>
      /\ tab' = vt_check_request(tab, vt_request_get(tab, h))
      /\ orphans' = orphans /\ leaked' = leaked /\ phase' = phase
  BY DEF CheckNext
<1>2. Wf(tab) /\ Handled(tab) /\ mpi \in [Handles -> RequestType]
  BY <1>1, RunningFacts
<1>3. saved \in Seq([request : Handles, due : BOOLEAN])
  BY DEF IInv, TypeOK
<1>4. Head(saved) \in [request : Handles, due : BOOLEAN] /\ 1 \in DOMAIN saved
      /\ saved[1] = Head(saved)
  <2> DEFINE T == [request : Handles, due : BOOLEAN]
  <2>1. saved \in Seq(T) /\ saved # << >>
    BY <1>1, <1>3
  <2> HIDE DEF T
  <2>2. Head(saved) \in T /\ Head(saved) = saved[1]
    BY <2>1
  <2>3. Len(saved) \in Nat \ {0} /\ DOMAIN saved = 1 .. Len(saved)
    BY <2>1, EmptySeq, LenProperties
  <2> QED
    BY <2>2, <2>3 DEF T
<1>5. h \in Handles /\ due \in BOOLEAN
  BY <1>4
<1>6. h \notin orphans => AgreesWaiting(tab, h, mpi[h], due)
  BY <1>1, <1>4, <1>5 DEF IInv, TableInv
<1> HIDE DEF h, due
<1>7. /\ Wf(tab') /\ Handled(tab')
      /\ \A k : k # h => Same(tab, tab', k)
      /\ h \notin orphans => Agrees(tab', h, mpi[h])
  BY <1>1, <1>2, <1>5, <1>6, CheckSame
<1> QED
  BY <1>1, <1>2, <1>5, <1>6, <1>7, LookupImplements, CompleteImplements

\* vt_request_create adds one entry to the plain table.
LEMMA CreateView ==
  ASSUME NEW s, Wf(s), Cardinality(Used(s)) < MaxEntries,
         NEW h \in Handles, NEW kind \in Kinds, NEW persistent \in BOOLEAN,
         Of(s, h) = {}, NEW u, u = vt_request_create(s, h, kind, persistent),
         NEW r, r = [request |-> h, kind |-> kind, persistent |-> persistent, active |-> FALSE]
  PROVE  View(u, h) = {r}
<1> DEFINE e == [request |-> h, kind |-> kind, persistent |-> persistent,
                 active |-> FALSE, deallocate |-> FALSE]
<1>1. PICK q \in (1 .. MaxBlocks) \X Index :
              /\ q \notin Used(s)
              /\ Used(u) = Used(s) \cup {q}
              /\ At(u, q) = e
              /\ \A p \in Used(s) : At(u, p) = At(s, p)
  BY CreateIs
<1>2. e.request = h /\ e.kind = kind /\ e.persistent = persistent /\ e.active = FALSE
  OBVIOUS
<1> HIDE DEF e
<1>3. Of(u, h) = {q}
  BY <1>1, <1>2 DEF Of
<1>4. Entry(At(u, q)) = r
  BY <1>1, <1>2 DEF Entry
<1> QED
  BY <1>3, <1>4 DEF View

\* A call that issues a request is a Create of the plain table, or none.
LEMMA IssueImplements ==
  ASSUME IInv, NEW h \in Handles, NEW kind \in Kinds, NEW persistent \in BOOLEAN,
         NEW tracked \in BOOLEAN, Issue(h, kind, persistent, tracked)
  PROVE  [Table!Next]_TableVars
<1>1. /\ Idle /\ mpi[h] = None /\ (tracked => Room)
      /\ tab' = IF tracked THEN vt_request_create(tab, h, kind, persistent) ELSE tab
      /\ orphans' = orphans /\ leaked' = leaked /\ phase' = phase
  BY DEF Issue
<1>2. /\ phase = "running" /\ Wf(tab) /\ Handled(tab)
      /\ h \notin orphans => Of(tab, h) = {}
  BY <1>1, IdleFacts DEF Agrees, None
<1>3. CASE ~tracked
  <2>1. tab' = tab
    BY <1>1, <1>3
  <2> QED
    BY <1>1, <2>1 DEF TableVars, Contents
<1>4. CASE tracked
  <2> DEFINE e == [request |-> h, kind |-> kind, persistent |-> persistent, active |-> FALSE]
             u == vt_request_create(tab, h, kind, persistent)
  <2>1. Cardinality(Used(tab)) < MaxEntries
    BY <1>1, <1>4 DEF Room
  <2>2. Handled(u) /\ \A k \in Handles \ {h} : Same(tab, u, k)
    BY <1>2, <2>1, CreateSame
  <2>3. /\ Handled(tab')
        /\ \A k \in Handles \ {h} : Same(tab, tab', k)
        /\ h \notin orphans => View(tab, h) = {} /\ View(tab', h) = {e}
    <3>1. tab' = u
      BY <1>1, <1>4
    <3>2. Of(tab, h) = {} => View(u, h) = {e}
      <4>1. u = vt_request_create(tab, h, kind, persistent)
            /\ e = [request |-> h, kind |-> kind, persistent |-> persistent, active |-> FALSE]
        OBVIOUS
      <4> HIDE DEF u, e
      <4> QED
        BY <1>2, <2>1, <4>1, CreateView
    <3> HIDE DEF u
    <3> QED
      BY <1>2, <2>2, <3>1, <3>2, ViewIs
  <2>4. orphans' \in SUBSET Handles
    BY <1>1 DEF IInv, TypeOK
  <2>5. /\ h \in orphans => Contents' = Contents
        /\ h \notin orphans => Contents' = Contents \cup {e}
    <3> HIDE DEF e, u
    <3> QED
      BY <1>1, <1>2, <2>3, <2>4, ContentsChange
  <2>6. CASE h \in orphans
    BY <1>1, <2>5, <2>6 DEF TableVars
  <2>7. CASE h \notin orphans
    <3>1. \A x \in Contents : x.request # h
      BY <1>2, <2>3, <2>7, ContentsIs, ViewIs
    <3>2. Table!NoneFor(h)
      BY <3>1 DEF Table!NoneFor
    <3>3. Table!Create(h, kind, persistent)
      BY <1>1, <2>5, <2>7, <3>2 DEF Table!Create
    <3>4. Table!Change
      BY <3>3 DEF Table!Change, Kinds, Table!Kinds
    <3> QED
      BY <1>1, <1>2, <3>4 DEF Table!Next
  <2> QED
    BY <2>6, <2>7
<1> QED
  BY <1>3, <1>4

\* MPI_Startall is an activation of the plain table.
LEMMA StartallImplements ==
  ASSUME IInv, NEW hs, IsArray(hs), NEW was_recorded \in BOOLEAN, MPI_Startall(hs, was_recorded)
  PROVE  [Table!Next]_TableVars
<1> DEFINE called == CalledWith(hs)
           started == {vt_request_get(tab, h) : h \in called}
           on(e) == [e EXCEPT !.active = TRUE]
           es == {e \in Contents : e.request \in called}
<1>1. /\ Idle
      /\ \A h \in called : mpi[h].persistent
      /\ tab' = Activated(tab, hs)
      /\ orphans' = orphans /\ leaked' = leaked /\ phase' = phase
  BY DEF MPI_Startall, CalledWith
<1>2. /\ phase = "running" /\ Wf(tab) /\ Handled(tab)
      /\ \A k \in Handles \ orphans : Agrees(tab, k, mpi[k])
  BY <1>1, IdleFacts
<1>3. /\ Wf(tab') /\ Handled(tab')
      /\ Used(tab') = Used(tab)
      /\ \A k : Of(tab', k) = Of(tab, k)
      /\ \A p \in Used(tab) :
           /\ At(tab', p) \in EntryType
           /\ At(tab', p).request = At(tab, p).request
           /\ At(tab', p).kind = At(tab, p).kind
           /\ At(tab', p).persistent = At(tab, p).persistent
           /\ At(tab', p).active = (At(tab, p).active \/ (p \in started /\ At(tab, p).persistent))
  BY <1>1, <1>2, ActivatedIs
<1>4. mpi \in [Handles -> RequestType]
  BY <1>1, IdleFacts
<1> HIDE DEF called
<1>5. ASSUME NEW k \in Handles \ orphans
      PROVE  /\ k \in called => /\ View(tab', k) = {on(e) : e \in View(tab, k)}
                                /\ \A e \in View(tab, k) : e.persistent
             /\ k \notin called => View(tab', k) = View(tab, k)
  <2>1. CASE Of(tab, k) = {}
    <3>1. View(tab, k) = {} /\ View(tab', k) = {}
      BY <1>3, <2>1, ViewIs
    <3> QED
      BY <3>1
  <2>2. CASE Of(tab, k) # {}
    <3>1. PICK p \in Used(tab) : Of(tab, k) = {p} /\ At(tab, p).persistent = mpi[k].persistent
      BY <1>2, <2>2 DEF Agrees
    <3>2. /\ At(tab, p) \in EntryType /\ At(tab, p).request = k
          /\ View(tab, k) = {Entry(At(tab, p))}
          /\ View(tab', k) = {Entry(At(tab', p))}
      BY <1>2, <1>3, <3>1, EntryTypes, ViewIs DEF Of
    <3>3. p \in started <=> k \in called
      <4>1. vt_request_get(tab, k) = p
        BY <1>2, <3>1, GetOf
      <4>2. p # NULL
        BY <3>1, <1>2, EntryTypes, BlocksSuffice DEF NULL
      <4>3. \A h \in called : vt_request_get(tab, h) = p => h = k
        BY <1>2, <3>2, <4>2, GetOf
      <4> QED
        BY <4>1, <4>3
    <3> HIDE DEF started
    <3>4. CASE k \in called
      <4>1. At(tab, p).persistent
        BY <1>1, <3>1, <3>4
      <4>2. At(tab', p).active = TRUE
        BY <1>3, <3>1, <3>3, <3>4, <4>1
      <4>3. on(Entry(At(tab, p))) = Entry(At(tab', p))
        BY <1>3, <3>1, <3>2, <4>2, EntryActive DEF Entry
      <4>4. Entry(At(tab, p)).persistent
        BY <4>1, EntryIs
      <4> HIDE DEF on
      <4> QED
        BY <3>2, <3>4, <4>3, <4>4
    <3>5. CASE k \notin called
      <4>1. At(tab', p).active = At(tab, p).active
        BY <1>3, <3>1, <3>2, <3>3, <3>5 DEF EntryType
      <4>2. Entry(At(tab', p)) = Entry(At(tab, p))
        BY <1>3, <3>1, <4>1 DEF Entry
      <4> HIDE DEF on
      <4> QED
        BY <3>2, <3>5, <4>2
    <3> QED
      BY <3>4, <3>5
  <2> QED
    BY <2>1, <2>2
<1> HIDE DEF on, started
<1>6. \A e : e \in Contents <=> \E k \in Handles \ orphans : e \in View(tab, k)
  BY <1>2, ContentsIs
<1>7. \A e : e \in Contents' <=> \E k \in Handles \ orphans : e \in View(tab', k)
  <2>1. (Handled(tab) => \A e : e \in Contents <=> \E k \in Handles \ orphans : e \in View(tab, k))'
    BY DEF Contents, View, Of, Handled, Entry
  <2> QED
    BY <1>1, <1>3, <2>1
<1>8. \A k : \A e \in View(tab, k) : e.request = k
  BY ViewIs
<1>9. Contents' = (Contents \ es) \cup {on(e) : e \in es}
  <2>1. ASSUME NEW x \in Contents' PROVE x \in (Contents \ es) \cup {on(e) : e \in es}
    <3>1. PICK k \in Handles \ orphans : x \in View(tab', k)
      BY <1>7
    <3>2. CASE k \in called
      <4>1. PICK e \in View(tab, k) : x = on(e)
        BY <1>5, <3>1, <3>2
      <4>2. e \in es
        BY <1>6, <1>8, <3>2, <4>1
      <4> QED
        BY <4>1, <4>2
    <3>3. CASE k \notin called
      BY <1>5, <1>6, <1>8, <3>1, <3>3
    <3> QED
      BY <3>2, <3>3
  <2>2. ASSUME NEW x \in Contents \ es PROVE x \in Contents'
    <3>1. PICK k \in Handles \ orphans : x \in View(tab, k)
      BY <1>6
    <3>2. k \notin called
      BY <1>8, <3>1
    <3> QED
      BY <1>5, <1>7, <3>1, <3>2
  <2>3. ASSUME NEW e \in es PROVE on(e) \in Contents'
    <3>1. PICK k \in Handles \ orphans : e \in View(tab, k)
      BY <1>6
    <3>2. k \in called
      BY <1>8, <3>1
    <3> QED
      BY <1>5, <1>7, <3>1, <3>2
  <2> QED
    BY <2>1, <2>2, <2>3
<1>10. \A e \in es : e.persistent
  BY <1>5, <1>6, <1>8
<1>11. Table!Activate(es)
  BY <1>1, <1>9, <1>10 DEF Table!Activate, on
<1>12. Table!Change
  BY <1>11 DEF Table!Change
<1> QED
  BY <1>1, <1>2, <1>12 DEF Table!Next

\* MPI_Request_free is a step of the plain table.
LEMMA RequestFreeImplements ==
  ASSUME IInv, NEW h \in Handles, MPI_Request_free(h)
  PROVE  [Table!Next]_TableVars
<1> DEFINE p == vt_request_get(tab, h)
           e == At(tab, p)
           dead == [e EXCEPT !.deallocate = TRUE]
           m == mpi[h]
<1>1. /\ Idle /\ m # None /\ phase' = phase
      /\ m.active /\ m.tracked => h \notin orphans /\ orphans' = orphans \cup {h}
      /\ ~(m.active /\ m.tracked) => orphans' = orphans
      /\ tab' = IF p = NULL \/ ~e.persistent THEN tab
                ELSE IF e.active THEN Store(tab, p, dead)
                ELSE vt_request_free(tab, p)
  BY DEF MPI_Request_free
<1>2. /\ phase = "running" /\ Wf(tab) /\ Handled(tab)
      /\ m \in RequestType /\ KnownOK(m)
      /\ h \notin orphans => Agrees(tab, h, m)
  BY <1>1, IdleFacts
<1>3. /\ Of(tab, h) = {} <=> p = NULL
      /\ p # NULL => p \in Used(tab) /\ e.request = h
      /\ \A q \in Used(tab) : Of(tab, h) = {q} => p = q
  BY <1>2, GetOf
<1>4. p # NULL => e \in EntryType /\ dead \in EntryType /\ dead.request = h
  <2>1. p # NULL => e \in EntryType
    BY <1>2, <1>3, EntryTypes
  <2> QED
    BY <1>3, <2>1 DEF EntryType
<1>5. /\ Handled(tab')
      /\ \A k : k # h => Same(tab, tab', k)
      /\ Of(tab, h) = {p} /\ p # NULL /\ e.persistent /\ ~e.active => Of(tab', h) = {}
  <2> HIDE DEF p, e, dead
  <2>1. CASE p = NULL \/ ~e.persistent
    BY <1>1, <1>2, <2>1 DEF Same
  <2>2. CASE p # NULL /\ e.persistent /\ e.active
    BY <1>1, <1>2, <1>3, <1>4, <2>2, StoreSame DEF e
  <2>3. CASE p # NULL /\ e.persistent /\ ~e.active
    BY <1>1, <1>2, <1>3, <2>3, FreeSame DEF e
  <2> QED
    BY <2>1, <2>2, <2>3
<1>6. /\ orphans' \in SUBSET Handles /\ orphans \subseteq orphans' /\ orphans' \subseteq orphans \cup {h}
  BY <1>1 DEF IInv, TypeOK
<1>7. /\ h \in orphans => Contents' = Contents
      /\ h \notin orphans' => Contents' = (Contents \ View(tab, h)) \cup View(tab', h)
      /\ h \in orphans' /\ h \notin orphans => Contents' = Contents \ View(tab, h)
  BY <1>2, <1>5, <1>6, ContentsChange
<1>8. CASE h \in orphans
  <2>1. orphans' = orphans
    BY <1>1, <1>8
  <2> QED
    BY <1>1, <1>7, <1>8, <2>1 DEF TableVars
<1>9. CASE h \notin orphans /\ ~m.tracked
  <2>1. Of(tab, h) = {} /\ p = NULL
    BY <1>2, <1>3, <1>9 DEF Agrees
  <2>2. tab' = tab /\ orphans' = orphans
    BY <1>1, <1>9, <2>1
  <2> QED
    BY <1>1, <2>2 DEF TableVars, Contents
<1>10. CASE h \notin orphans /\ m.tracked
  <2> DEFINE x == Entry(e)
  <2>1. /\ Of(tab, h) = {p} /\ p \in Used(tab) /\ p # NULL
        /\ e.persistent = m.persistent
        /\ m.persistent => e.active = m.active
    BY <1>2, <1>3, <1>10 DEF Agrees
  <2>2. View(tab, h) = {x} /\ x \in Contents /\ x.request = h
        /\ x.persistent = e.persistent /\ x.active = e.active
    <3>1. View(tab, h) = {x}
      BY <2>1, ViewIs
    <3>2. x \in Contents
      BY <1>2, <1>10, <3>1, ContentsIs
    <3> QED
      BY <1>3, <2>1, <3>1, <3>2, EntryIs
  <2>3. /\ m.active \in BOOLEAN /\ m.persistent \in BOOLEAN
        /\ e.active \in BOOLEAN /\ e.persistent \in BOOLEAN
    BY <1>2, <1>4, <2>1 DEF RequestType, EntryType
  <2> HIDE DEF x, m
  <2>4. Table!Free(x)
    <3>1. CASE m.active
      <4>1. orphans' = orphans \cup {h} /\ Contents' = Contents \ {x}
        BY <1>1, <1>7, <1>10, <2>2, <3>1
      <4>2. ~(x.persistent /\ ~x.active)
        BY <2>1, <2>2, <2>3, <3>1
      <4> QED
        BY <2>2, <4>1, <4>2 DEF Table!Free
    <3>2. CASE ~m.active
      <4>1. m.persistent /\ x.persistent /\ ~x.active
        BY <1>1, <1>2, <2>1, <2>2, <2>3, <3>2 DEF KnownOK
      <4>2. orphans' = orphans
        BY <1>1, <3>2
      <4>3. View(tab', h) = {}
        BY <1>5, <2>1, <2>2, <4>1, ViewIs
      <4>4. Contents' = Contents \ {x}
        BY <1>7, <1>10, <2>2, <4>2, <4>3
      <4> QED
        BY <4>1, <4>2, <4>4 DEF Table!Free
    <3> QED
      BY <3>1, <3>2
  <2>5. Table!Change
    BY <2>2, <2>4 DEF Table!Change
  <2> QED
    BY <1>1, <1>2, <2>5 DEF Table!Next
<1> QED
  BY <1>8, <1>9, <1>10

\* vt_request_finalize empties the plain table.
LEMMA FinalizeImplements ==
  ASSUME IInv, Finalize
  PROVE  Table!Next
<1>1. phase = "running" /\ phase' = "finalized" /\ orphans' = orphans
      /\ tab' = [tab EXCEPT !.nblk = 0, !.req = NoBlocks]
  BY DEF Finalize, Idle
<1>2. tab \in TableType
  BY DEF IInv, TypeOK, TableType
<1>3. tab'.nblk = 0
  BY <1>1, <1>2 DEF TableType
<1>4. Used(tab') = {}
  BY <1>3 DEF Used
<1>5. Contents' = {}
  <2>1. Used(tab)' = {}
    BY <1>4 DEF Used
  <2> QED
    BY <2>1 DEF Contents
<1> QED
  BY <1>1, <1>5 DEF Table!Next, Table!Finalize

\* Every call of the program is a step of the plain table, or changes nothing of
\* it.
THEOREM NextImplements ==
  ASSUME IInv, [Next]_vars
  PROVE  [Table!Next]_TableVars
<1>1. UNCHANGED vars => UNCHANGED TableVars
  BY DEF vars, TableVars, Contents
<1>2. ASSUME NEW was_recorded \in BOOLEAN, Blocking(was_recorded) PROVE UNCHANGED TableVars
  BY <1>2, BlockingStep DEF TableVars, Contents
<1>3. ASSUME NEW was_recorded \in BOOLEAN, NEW h \in Handles, Issuing(h, was_recorded)
      PROVE  [Table!Next]_TableVars
  <2>1. Issue(h, "send", FALSE, FALSE) \/ Issue(h, "io", FALSE, was_recorded)
    BY <1>3 DEF Issuing, MPI_Isend, MPI_Ibsend, MPI_Issend, MPI_Irsend, FileOp
  <2> QED
    BY <2>1, IssueImplements DEF Kinds
<1>4. ASSUME NEW h \in Handles, NEW partner \in Partners, Preparing(h, partner)
      PROVE  [Table!Next]_TableVars
  <2>1. Peer(partner) \in BOOLEAN
    BY DEF Peer
  <2>2. \E kind \in Kinds, persistent \in BOOLEAN : Issue(h, kind, persistent, Peer(partner))
    BY <1>4 DEF Preparing, MPI_Irecv, MPI_Recv_init, MPI_Send_init, MPI_Bsend_init,
                MPI_Ssend_init, MPI_Rsend_init, Kinds
  <2> QED
    BY <2>1, <2>2, IssueImplements
<1>5. ASSUME NEW was_recorded \in BOOLEAN, NEW h \in Handles, MPI_Start(h, was_recorded)
      PROVE  [Table!Next]_TableVars
  BY <1>5, ArrayOfOne, StartallImplements DEF MPI_Start
<1>6. ASSUME NEW was_recorded \in BOOLEAN, NEW hs \in Arrays, MPI_Startall(hs, was_recorded)
      PROVE  [Table!Next]_TableVars
  BY <1>6, ArraysAre, StartallImplements
<1>7. ASSUME NEW hs, NEW was_recorded \in BOOLEAN, Complete(hs, was_recorded)
      PROVE  UNCHANGED TableVars
  BY <1>7 DEF Complete, TableVars, Contents
<1>8. ASSUME NEW was_recorded \in BOOLEAN, NEW h \in Handles, CompletingOne(h, was_recorded)
      PROVE  [Table!Next]_TableVars
  <2>1. MPI_Wait(h, was_recorded) \/ Complete(<<h>>, was_recorded)
    BY <1>8 DEF CompletingOne, MPI_Test, MPI_Waitany, MPI_Testany
  <2> QED
    BY <1>7, <2>1, WaitImplements
<1>9. ASSUME NEW was_recorded \in BOOLEAN, NEW hs \in Arrays, Completing(hs, was_recorded)
      PROVE  UNCHANGED TableVars
  <2>1. Complete(hs, was_recorded)
    BY <1>9 DEF Completing, MPI_Waitall, MPI_Testall, MPI_Waitsome, MPI_Testsome
  <2> QED
    BY <1>7, <2>1
<1>10. ASSUME NEW h \in Handles, MPI_Cancel(h) \/ NotYet(h) PROVE UNCHANGED TableVars
  BY <1>1, <1>10 DEF MPI_Cancel, NotYet, Nothing, vars
<1> QED
  BY <1>1, <1>2, <1>3, <1>4, <1>5, <1>6, <1>8, <1>9, <1>10,
     RequestFreeImplements, CheckNextImplements, FinalizeImplements DEF Next

\* The list of blocks starts as the plain table does.
LEMMA InitImplements ==
  ASSUME Init
  PROVE  Table!Init
<1>1. Used(tab) = {} /\ orphans = {} /\ phase = "running"
  BY DEF Init, Used
<1>2. Contents = {}
  BY <1>1 DEF Contents
<1> QED
  BY <1>1, <1>2 DEF Table!Init

\* The list of blocks implements the plain table of RequestTable.
THEOREM SpecImplementsTable == Spec => ImplementsTable
<1>1. Init => Table!Init
  BY InitImplements
<1>2. IInv /\ [Next]_vars => [Table!Next]_<<Contents, orphans, phase = "running">>
  BY NextImplements DEF TableVars
<1> QED
  BY <1>1, <1>2, SpecIInv, PTL DEF Spec, ImplementsTable, Table!Spec

===============================================================================
