-------------------------- MODULE ClockSync_proofs --------------------------
(***************************************************************************)
(* Proofs about the clock offset measurements (ClockSync): whatever the    *)
(* number of ranks, their clocks and the transfer times, what vt_esync     *)
(* stores and what vt_sync hands to the nodes is as accurate as the        *)
(* ping-pong messages allow (MeasuredWell), the partners of a slot are     *)
(* mutual, and the measurements connect all ranks (MeetingsRight). IInv is *)
(* the invariant of a meeting, MeasuredAll that of the measurements.       *)
(***************************************************************************)
EXTENDS ClockSync, TLAPS, WellFoundedInduction

------------------------------------------------------------------------------
(* The inductive invariant. *)

States == {"idle", "ping", "await", "pong", "result"}
Samples == [t1 : Int, t2 : Int, t3 : Int, t4 : Int, min : Nat]
Trips == [with : Nat, of : Seq(Int \X Int \X Int)]

\* Every rank's variables are of their type.
Types ==
  /\ size \in Sizes /\ enhanced \in BOOLEAN
  /\ slot \in [Ranks -> Nat] /\ st \in [Ranks -> States] /\ i \in [Ranks -> Nat]
  /\ now \in [Ranks -> Nat] /\ tsend \in [Ranks -> Int]
  /\ best \in [Ranks -> {<< >>} \cup Samples]
  /\ stamps \in [Ranks -> Seq(Int)] /\ offset \in [Ranks -> Seq(Int)]
  /\ trips \in [Ranks -> Trips]

\* A rank in a meeting: who it meets, and how far it has got.
Meetings ==
  \A r \in Ranks :
    /\ st[r] # "idle" => Peer(r) \in Ranks /\ trips[r].with = Peer(r)
    /\ st[r] \in {"ping", "await"} => /\ r < Peer(r) /\ i[r] < LoopCount
                                      /\ i[r] = Len(trips[r].of)
    /\ st[r] = "pong" => Peer(r) <= r /\ i[r] < LoopCount /\ Len(stamps[r]) = i[r]
    /\ st[r] = "result" => Peer(r) <= r /\ ~enhanced /\ Len(stamps[r]) = LoopCount

\* The ping of m's sender that waits for an answer: sent before it arrives.
IsPing(m) ==
  /\ st[m.from] = "await" /\ Peer(m.from) = m.to /\ m.from < m.to
  /\ m.tag = i[m.from] /\ m.stamp = tsend[m.from]
  /\ tsend[m.from] - Skew[m.from] <= m.arrives

\* The answer to the ping of m's receiver, stamped after the ping was sent and
\* before the answer arrives; vt_sync's slave has kept the stamp.
IsPong(m) ==
  /\ st[m.to] = "await" /\ Peer(m.to) = m.from /\ m.to < m.from
  /\ m.tag = i[m.to] /\ m.stamp \in Int
  /\ tsend[m.to] - Skew[m.to] <= m.stamp - Skew[m.from]
  /\ m.stamp - Skew[m.from] <= m.arrives
  /\ ~enhanced => /\ st[m.from] \in {"pong", "result"}
                  /\ m.tag + 1 <= Len(stamps[m.from])
                  /\ stamps[m.from][m.tag + 1] = m.stamp

\* An offset of vt_sync for rank q is as good as the trips of the meeting.
Accurate(q, off) ==
  trips[0].with = q =>
    \A k \in DOMAIN trips[0].of :
      LET round == trips[0].of[k][3] - trips[0].of[k][1]
          err == off - (Skew[0] - Skew[q])
      IN 2 * err <= round + 1 /\ -2 * err <= round + 1

\* Index and time that sync_master has selected, on their way to the slave.
IsResult(m) ==
  /\ ~enhanced /\ m.from = 0 /\ m.to # 0 /\ m.tag = LoopCount
  /\ st[m.to] = "result" /\ slot[0] >= m.to
  /\ m.stamp[1] \in Nat /\ m.stamp[1] < LoopCount /\ m.stamp[2] \in Int
  /\ Accurate(m.to, m.stamp[2] - stamps[m.to][m.stamp[1] + 1])

\* The master of the meeting that m belongs to.
MasterOf(m) == IF m.from < m.to THEN m.from ELSE m.to

\* The messages under way: a meeting has one at a time, a slave one result.
Mail ==
  /\ \A m \in net : /\ m.from \in Ranks /\ m.to \in Ranks /\ m.arrives \in Nat
                    /\ IsPing(m) \/ IsPong(m) \/ IsResult(m)
  /\ \A m, n \in net : m.tag < LoopCount /\ n.tag < LoopCount /\ MasterOf(m) = MasterOf(n)
                       => m = n
  /\ \A m, n \in net : m.tag = LoopCount /\ n.tag = LoopCount /\ m.to = n.to => m = n

\* The time stamps of a trip are those of moments one after the other.
TripsTrue ==
  \A r \in Ranks : \A k \in DOMAIN trips[r].of :
    /\ trips[r].with \in Ranks
    /\ trips[r].of[k][1] - Skew[r] <= trips[r].of[k][2] - Skew[trips[r].with]
    /\ trips[r].of[k][2] - Skew[trips[r].with] <= trips[r].of[k][3] - Skew[r]

\* sync_master has kept the times of the shortest trip so far.
ShortestKept ==
  ~enhanced /\ trips[0].of # << >> =>
    /\ best[0].min + 1 \in DOMAIN trips[0].of
    /\ best[0].t1 = trips[0].of[best[0].min + 1][1]
    /\ best[0].t2 = trips[0].of[best[0].min + 1][2]
    /\ best[0].t4 = trips[0].of[best[0].min + 1][3]
    /\ \A k \in DOMAIN trips[0].of :
         best[0].t4 - best[0].t1 <= trips[0].of[k][3] - trips[0].of[k][1]

\* The stamps of sync_slave are those of the trips, and it cannot be through
\* with its meeting before rank 0.
StampsKept ==
  ~enhanced => \A q \in Ranks : q # 0 =>
    /\ slot[q] >= q => slot[0] >= q
    /\ slot[0] + 1 = q /\ trips[0].with = q /\ trips[0].of # << >> =>
         /\ st[q] \in {"pong", "result"}
         /\ \A k \in DOMAIN trips[0].of :
              k <= Len(stamps[q]) /\ stamps[q][k] = trips[0].of[k][2]

\* The offsets found so far.
OffsetsFound ==
  \A q \in Ranks : offset[q] # << >> =>
    /\ ~enhanced /\ q # 0 /\ slot[q] >= q
    /\ Accurate(q, offset[q][1])

\* Whoever has an answer has a sample of it.
Sampled == \A r \in Ranks : trips[r].of # << >> => best[r] \in Samples

IInv ==
  /\ Types /\ Meetings /\ Mail /\ TripsTrue /\ Sampled /\ SkewBracketed /\ ShortestKept
  /\ StampsKept /\ OffsetsFound

------------------------------------------------------------------------------
(* Lemmas about the operators. *)

\* esync_commpartner names a rank, or one that is too high.
LEMMA PartnerType ==
  ASSUME size \in Nat \ {0, 1}, NEW r \in Nat, NEW s \in Nat
  PROVE  Partner(r, s) \in Nat
<1>1. Half \in Nat \ {0}
  BY DEF Half
<1>2. esync_commpartner(r, s) \in Nat
  <2> HIDE DEF Half
  <2>1. \A x \in Int : (x % Half) \in Nat
    BY <1>1
  <2>2. (s % Half) \in Nat
    BY <2>1
  <2>3. CASE r < Half
    <3>1. (Half - 1 - (r - (s % Half))) \in Int
      BY <1>1, <2>2
    <3>2. ((Half - 1 - (r - (s % Half))) % Half) \in Nat
      BY <2>1, <3>1
    <3> QED
      BY <1>1, <2>3, <3>2 DEF esync_commpartner
  <2>4. CASE ~(r < Half)
    <3> DEFINE x == ((Half - 1) * (r - Half + 1)) % Half
      <3>1. x \in Nat
      <4>1. ((Half - 1) * (r - Half + 1)) \in Int
        BY <1>1
      <4> QED
        BY <2>1, <4>1
    <3>2. (x + Half + s) \in Int
      BY <1>1, <3>1
    <3>3. ((x + Half + s) % Half) \in Nat
      BY <2>1, <3>2
    <3> QED
      BY <2>4, <3>3 DEF esync_commpartner
  <2> QED
    BY <2>3, <2>4
<1> QED
  BY <1>2 DEF Partner

\* vt_sync: rank 0 meets all other ranks in turn.
LEMMA SyncPartner ==
  ASSUME ~enhanced
  PROVE  /\ Peer(0) = slot[0] + 1
         /\ \A r : r # 0 => Peer(r) = IF r = slot[r] + 1 THEN 0 ELSE size
BY DEF Peer, Partner

\* The partner of a rank depends on its slot only.
LEMMA PeerSame ==
  ASSUME NEW r, UNCHANGED <<size, enhanced>>, slot'[r] = slot[r]
  PROVE  Peer(r)' = Peer(r)
BY DEF Peer, Partner, esync_commpartner, Half

\* What the invariant says of the types of single ranks.
LEMMA Basics ==
  ASSUME IInv
  PROVE  /\ size \in Nat \ {0, 1} /\ 0 \in Ranks /\ Ranks \subseteq Nat
         /\ LoopCount \in Nat \ {0} /\ Delays[size] \subseteq Nat
         /\ \A r \in Ranks :
              /\ r \in Nat /\ r < size /\ Skew[r] \in Int /\ slot[r] \in Nat /\ i[r] \in Nat
              /\ now[r] \in Nat /\ tsend[r] \in Int /\ Peer(r) \in Nat
              /\ stamps[r] \in Seq(Int) /\ Len(stamps[r]) \in Nat
              /\ trips[r] \in Trips /\ trips[r].of \in Seq(Int \X Int \X Int)
              /\ trips[r].with \in Nat /\ Len(trips[r].of) \in Nat
              /\ DOMAIN trips[r].of = 1 .. Len(trips[r].of)
              /\ \A k \in DOMAIN trips[r].of : trips[r].of[k] \in Int \X Int \X Int
<1>1. size \in Nat \ {0, 1} /\ size \in Sizes
  BY ClockAssumption DEF IInv, Types
<1>2. 0 \in Ranks /\ Ranks \subseteq Nat /\ \A r \in Ranks : r < size
  BY <1>1 DEF Ranks
<1>3. \A r \in Ranks : Skew[r] \in Int
  <2>1. Ranks \subseteq AllRanks
    BY <1>1 DEF Ranks, AllRanks
  <2> QED
    BY <2>1, ClockAssumption
<1>4. LoopCount \in Nat \ {0} /\ Delays[size] \subseteq Nat
  BY <1>1, ClockAssumption
<1>5. ASSUME NEW r \in Ranks
      PROVE  /\ slot[r] \in Nat /\ i[r] \in Nat
             /\ now[r] \in Nat /\ tsend[r] \in Int
             /\ stamps[r] \in Seq(Int) /\ trips[r] \in Trips
  BY DEF IInv, Types
<1>6. ASSUME NEW r \in Ranks PROVE Peer(r) \in Nat
  BY <1>1, <1>2, <1>5, PartnerType DEF Peer
<1>7. ASSUME NEW r \in Ranks
      PROVE  /\ trips[r].of \in Seq(Int \X Int \X Int) /\ trips[r].with \in Nat
             /\ Len(trips[r].of) \in Nat
             /\ DOMAIN trips[r].of = 1 .. Len(trips[r].of)
             /\ \A k \in DOMAIN trips[r].of : trips[r].of[k] \in Int \X Int \X Int
  <2>1. trips[r].of \in Seq(Int \X Int \X Int) /\ trips[r].with \in Nat
    BY <1>5 DEF Trips
  <2> DEFINE o == trips[r].of
  <2> HIDE DEF o
  <2>2. o \in Seq(Int \X Int \X Int)
    BY <2>1 DEF o
  <2>3. Len(o) \in Nat /\ DOMAIN o = 1 .. Len(o) /\ \A k \in 1 .. Len(o) : o[k] \in Int \X Int \X Int
    BY <2>2
  <2> QED
    BY <2>1, <2>3 DEF o
<1>8. \A r \in Ranks : Len(stamps[r]) \in Nat
  BY <1>5
<1> QED
  BY <1>1, <1>2, <1>3, <1>4, <1>5, <1>6, <1>7, <1>8

------------------------------------------------------------------------------
(* Every step keeps the invariant. *)

\* esync_master and sync_master send a ping.
LEMMA PingIInv ==
  ASSUME IInv, NEW r \in Ranks, NEW delay \in Delays[size], Ping(r, delay)
  PROVE  IInv'
<1>0. PICK n : n = [from |-> r, to |-> Peer(r), tag |-> i[r], arrives |-> now[r] + delay,
                    stamp |-> now[r] + Skew[r]]
  OBVIOUS
<1>1. /\ st[r] = "ping" /\ st' = [st EXCEPT ![r] = "await"]
      /\ tsend' = [tsend EXCEPT ![r] = now[r] + Skew[r]]
      /\ net' = net \cup {n}
      /\ UNCHANGED <<size, enhanced, slot, i, now, best, stamps, measured, offset, trips>>
  BY <1>0 DEF Ping, Message, Clock
<1>2. /\ size \in Nat \ {0, 1} /\ 0 \in Ranks /\ LoopCount \in Nat \ {0} /\ delay \in Nat
      /\ \A q \in Ranks : /\ Skew[q] \in Int /\ i[q] \in Nat /\ now[q] \in Nat
                          /\ Peer(q)' = Peer(q)
      /\ Ranks' = Ranks
  BY <1>1, Basics, PeerSame DEF Ranks
<1>3. /\ st'[r] = "await" /\ \A q \in Ranks : q # r => st'[q] = st[q]
      /\ tsend'[r] = now[r] + Skew[r] /\ \A q \in Ranks : q # r => tsend'[q] = tsend[q]
  BY <1>1 DEF IInv, Types
<1>4. Peer(r) \in Ranks /\ r < Peer(r) /\ i[r] < LoopCount
  BY <1>1 DEF IInv, Meetings
<1>5. Types'
  <2>1. tsend' \in [Ranks -> Int] /\ st' \in [Ranks -> States]
    BY <1>1, <1>2 DEF IInv, Types, States
  <2> QED
    BY <1>1, <1>2, <2>1 DEF IInv, Types
<1>6. Meetings'
  BY <1>1, <1>2, <1>3, <1>4 DEF IInv, Meetings
<1>7. /\ n.from = r /\ n.to = Peer(r) /\ n.tag = i[r] /\ n.arrives = now[r] + delay
      /\ n.stamp = now[r] + Skew[r]
  BY <1>0
<1>8. ASSUME NEW m \in net
      PROVE  (IsPing(m) \/ IsPong(m) \/ IsResult(m))'
  <2>1. m.from \in Ranks /\ m.to \in Ranks /\ (IsPing(m) \/ IsPong(m) \/ IsResult(m))
    BY DEF IInv, Mail
  <2>2. CASE IsPing(m)
    BY <1>1, <1>2, <1>3, <2>1, <2>2 DEF IsPing
  <2>3. CASE IsPong(m)
    BY <1>1, <1>2, <1>3, <2>1, <2>3 DEF IsPong
  <2>4. CASE IsResult(m)
    BY <1>1, <1>2, <1>3, <2>1, <2>4 DEF IsResult, Accurate
  <2> QED
    BY <2>1, <2>2, <2>3, <2>4
<1>9. n.arrives \in Nat /\ IsPing(n)'
  <2>1. n.arrives \in Nat /\ tsend'[r] - Skew[r] <= n.arrives
    BY <1>2, <1>3, <1>7
  <2> QED
    BY <1>1, <1>2, <1>3, <1>4, <1>7, <2>1 DEF IsPing
<1>10. ASSUME NEW m \in net, m.tag < LoopCount PROVE MasterOf(m) # r
  <2>1. m.from \in Ranks /\ m.to \in Ranks /\ (IsPing(m) \/ IsPong(m) \/ IsResult(m))
    BY DEF IInv, Mail
  <2>2. MasterOf(m) \in Ranks /\ st[MasterOf(m)] = "await"
    <3>1. ~IsResult(m)
      BY <1>2, <1>10 DEF IsResult
    <3>2. CASE IsPing(m)
      BY <2>1, <3>2 DEF IsPing, MasterOf
    <3>3. CASE IsPong(m)
      BY <2>1, <3>3, Basics DEF IsPong, MasterOf
    <3> QED
      BY <2>1, <3>1, <3>2, <3>3
  <2> QED
    BY <1>1, <2>2
<1>11. MasterOf(n) = r
  BY <1>4, <1>7 DEF MasterOf
<1>12. Mail'
  <2>1. ASSUME NEW m \in net'
        PROVE  /\ m.from \in Ranks /\ m.to \in Ranks /\ m.arrives \in Nat
               /\ (IsPing(m) \/ IsPong(m) \/ IsResult(m))'
    <3>1. CASE m = n
      BY <1>4, <1>7, <1>9, <3>1
    <3>2. CASE m \in net
      BY <1>8, <3>2 DEF IInv, Mail
    <3> QED
      BY <1>1, <3>1, <3>2
  <2>2. ASSUME NEW m \in net', NEW o \in net', m.tag < LoopCount, o.tag < LoopCount,
               MasterOf(m) = MasterOf(o)
        PROVE  m = o
    BY <1>1, <1>10, <1>11, <2>2 DEF IInv, Mail
  <2>3. ASSUME NEW m \in net', NEW o \in net', m.tag = LoopCount, o.tag = LoopCount, m.to = o.to
        PROVE  m = o
    BY <1>1, <1>2, <1>4, <1>7, <2>3, Basics DEF IInv, Mail
  <2> QED
    BY <1>2, <2>1, <2>2, <2>3 DEF Mail, MasterOf
<1>13. TripsTrue' /\ Sampled' /\ SkewBracketed' /\ ShortestKept'
  BY <1>1, <1>2 DEF IInv, TripsTrue, Sampled, SkewBracketed, ShortestKept
<1>14. StampsKept' /\ OffsetsFound'
  BY <1>1, <1>2, <1>3 DEF IInv, StampsKept, OffsetsFound, Accurate
<1> QED
  BY <1>5, <1>6, <1>12, <1>13, <1>14 DEF IInv

\* A rank without partner goes on to its next slot.
LEMMA SkipIInv ==
  ASSUME IInv, NEW r \in Ranks, Meet(r), Peer(r) >= size
  PROVE  IInv'
<1>1. /\ st[r] = "idle" /\ slot[r] < Slots /\ slot' = [slot EXCEPT ![r] = slot[r] + 1]
      /\ UNCHANGED <<size, enhanced, st, i, now, tsend, best, stamps, net, offset, trips>>
  BY DEF Meet
<1>2. /\ size \in Nat \ {0, 1} /\ 0 \in Ranks
      /\ \A q \in Ranks : q \in Nat /\ q < size /\ slot[q] \in Nat
      /\ Ranks' = Ranks
  BY <1>1, Basics DEF Ranks
<1>3. slot'[r] = slot[r] + 1 /\ \A q \in Ranks : q # r => slot'[q] = slot[q]
  BY <1>1 DEF IInv, Types
<1>4. \A q \in Ranks : q # r => Peer(q)' = Peer(q)
  BY <1>1, <1>3, PeerSame
<1>5. \A q \in Ranks : slot'[q] \in Nat /\ slot'[q] >= slot[q]
  BY <1>2, <1>3
<1>6. ~enhanced => r # 0 /\ r # slot[r] + 1
  BY <1>1, <1>2, SyncPartner DEF Slots
<1>7. Types'
  BY <1>1, <1>2, <1>5 DEF IInv, Types
<1>8. Meetings'
  BY <1>1, <1>2, <1>4 DEF IInv, Meetings
<1>9. ASSUME NEW m \in net
      PROVE  (IsPing(m) \/ IsPong(m) \/ IsResult(m))'
  <2>1. m.from \in Ranks /\ m.to \in Ranks /\ (IsPing(m) \/ IsPong(m) \/ IsResult(m))
    BY DEF IInv, Mail
  <2>2. CASE IsPing(m)
    BY <1>1, <1>4, <2>1, <2>2 DEF IsPing
  <2>3. CASE IsPong(m)
    BY <1>1, <1>4, <2>1, <2>3 DEF IsPong
  <2>4. CASE IsResult(m)
    <3>1. slot'[0] >= m.to
      BY <1>2, <1>5, <2>1, <2>4 DEF IsResult
    <3> QED
      BY <1>1, <2>1, <2>4, <3>1 DEF IsResult, Accurate
  <2> QED
    BY <2>1, <2>2, <2>3, <2>4
<1>10. Mail'
  BY <1>1, <1>2, <1>9 DEF IInv, Mail, MasterOf
<1>11. TripsTrue' /\ Sampled' /\ SkewBracketed' /\ ShortestKept'
  BY <1>1, <1>2 DEF IInv, TripsTrue, Sampled, SkewBracketed, ShortestKept
<1>12. StampsKept'
  <2> SUFFICES ASSUME ~enhanced, NEW q \in Ranks, q # 0
               PROVE  /\ slot'[q] >= q => slot[0] >= q
                      /\ slot[0] + 1 = q /\ trips[0].with = q /\ trips[0].of # << >> =>
                           /\ st[q] \in {"pong", "result"}
                           /\ \A k \in DOMAIN trips[0].of :
                                k <= Len(stamps[q]) /\ stamps[q][k] = trips[0].of[k][2]
    BY <1>1, <1>2, <1>3, <1>6 DEF StampsKept
  <2>1. slot'[q] >= q => slot[q] >= q
    BY <1>2, <1>3, <1>6
  <2> QED
    BY <2>1 DEF IInv, StampsKept
<1>13. OffsetsFound'
  <2> SUFFICES ASSUME NEW q \in Ranks, offset[q] # << >>
               PROVE  ~enhanced /\ q # 0 /\ slot'[q] >= q /\ Accurate(q, offset[q][1])
    BY <1>1, <1>2 DEF OffsetsFound, Accurate
  <2>1. ~enhanced /\ q # 0 /\ slot[q] >= q /\ Accurate(q, offset[q][1])
    BY DEF IInv, OffsetsFound
  <2>2. slot'[q] >= q
    BY <1>2, <1>5, <2>1
  <2> QED
    BY <2>1, <2>2
<1> QED
  BY <1>7, <1>8, <1>10, <1>11, <1>12, <1>13 DEF IInv

\* A rank turns to its partner.
LEMMA MeetIInv ==
  ASSUME IInv, NEW r \in Ranks, Meet(r), ~(Peer(r) >= size)
  PROVE  IInv'
<1>1. /\ st[r] = "idle" /\ slot[r] < Slots
      /\ st' = [st EXCEPT ![r] = IF r < Peer(r) THEN "ping" ELSE "pong"]
      /\ i' = [i EXCEPT ![r] = 0]
      /\ stamps' = [stamps EXCEPT ![r] = << >>]
      /\ trips' = [trips EXCEPT ![r] = [with |-> Peer(r), of |-> << >>]]
      /\ UNCHANGED <<size, enhanced, slot, now, tsend, best, net, offset>>
  BY DEF Meet
<1>2. /\ size \in Nat \ {0, 1} /\ 0 \in Ranks /\ LoopCount \in Nat \ {0}
      /\ \A q \in Ranks : q \in Nat /\ q < size /\ slot[q] \in Nat /\ Peer(q)' = Peer(q)
      /\ Ranks' = Ranks /\ Peer(r) \in Nat
  BY <1>1, Basics, PeerSame DEF Ranks
<1>3. Peer(r) \in Ranks
  BY <1>2 DEF Ranks
<1>4. /\ st'[r] = IF r < Peer(r) THEN "ping" ELSE "pong"
      /\ i'[r] = 0 /\ stamps'[r] = << >> /\ trips'[r].with = Peer(r) /\ trips'[r].of = << >>
      /\ Len(stamps'[r]) = 0 /\ Len(trips'[r].of) = 0 /\ DOMAIN trips'[r].of = {}
  BY <1>1 DEF IInv, Types
<1>5. \A q \in Ranks : q # r => /\ st'[q] = st[q] /\ i'[q] = i[q]
                                /\ stamps'[q] = stamps[q] /\ trips'[q] = trips[q]
  BY <1>1 DEF IInv, Types
<1>6. Types'
  <2>1. [with |-> Peer(r), of |-> << >>] \in Trips
    BY <1>2 DEF Trips
  <2>2. stamps' \in [Ranks -> Seq(Int)] /\ trips' \in [Ranks -> Trips] /\ i' \in [Ranks -> Nat]
    BY <1>1, <2>1 DEF IInv, Types
  <2>3. st' \in [Ranks -> States]
    BY <1>1 DEF IInv, Types, States
  <2> QED
    BY <1>1, <1>2, <2>2, <2>3 DEF IInv, Types
<1>7. Meetings'
  <2> SUFFICES ASSUME NEW q \in Ranks
               PROVE  /\ st'[q] # "idle" => Peer(q) \in Ranks /\ trips'[q].with = Peer(q)
                      /\ st'[q] \in {"ping", "await"} => /\ q < Peer(q) /\ i'[q] < LoopCount
                                                         /\ i'[q] = Len(trips'[q].of)
                      /\ st'[q] = "pong" => Peer(q) <= q /\ i'[q] < LoopCount
                                            /\ Len(stamps'[q]) = i'[q]
                      /\ st'[q] = "result" => Peer(q) <= q /\ ~enhanced
                                              /\ Len(stamps'[q]) = LoopCount
    BY <1>1, <1>2 DEF Meetings
  <2>1. CASE q = r
    BY <1>2, <1>3, <1>4, <2>1
  <2>2. CASE q # r
    BY <1>5, <2>2 DEF IInv, Meetings
  <2> QED
    BY <2>1, <2>2
\* A result is for a rank that rank 0 has left behind.
<1>8. ASSUME NEW q \in Ranks, NEW off, ~enhanced, slot[0] >= q, Accurate(q, off)
      PROVE  Accurate(q, off)'
  <2>1. CASE r = 0
    <3>1. trips'[0].with # q
      BY <1>2, <1>4, <1>8, <2>1, SyncPartner
    <3> QED
      BY <3>1 DEF Accurate
  <2>2. CASE r # 0
    BY <1>2, <1>5, <1>8, <2>2 DEF Accurate
  <2> QED
    BY <2>1, <2>2
<1>9. ASSUME NEW m \in net
      PROVE  (IsPing(m) \/ IsPong(m) \/ IsResult(m))'
  <2>1. m.from \in Ranks /\ m.to \in Ranks /\ (IsPing(m) \/ IsPong(m) \/ IsResult(m))
    BY DEF IInv, Mail
  <2>2. CASE IsPing(m)
    BY <1>1, <1>2, <1>5, <2>1, <2>2 DEF IsPing
  <2>3. CASE IsPong(m)
    BY <1>1, <1>2, <1>5, <2>1, <2>3 DEF IsPong
  <2>4. CASE IsResult(m)
    <3>1. m.to # r /\ ~enhanced /\ slot[0] >= m.to
          /\ Accurate(m.to, m.stamp[2] - stamps[m.to][m.stamp[1] + 1])
      BY <1>1, <2>4 DEF IsResult
    <3>2. PICK off : off = m.stamp[2] - stamps[m.to][m.stamp[1] + 1]
      OBVIOUS
    <3>3. Accurate(m.to, off)'
      BY <1>8, <2>1, <3>1, <3>2
    <3>4. m.stamp[2] - stamps'[m.to][m.stamp[1] + 1] = off
      BY <1>5, <2>1, <3>1, <3>2
    <3> QED
      BY <1>1, <1>5, <2>1, <2>4, <3>1, <3>3, <3>4 DEF IsResult, Accurate
  <2> QED
    BY <2>1, <2>2, <2>3, <2>4
<1>10. Mail'
  BY <1>1, <1>2, <1>9 DEF IInv, Mail, MasterOf
<1>11. TripsTrue' /\ Sampled' /\ SkewBracketed' /\ ShortestKept'
  BY <1>1, <1>2, <1>4, <1>5 DEF IInv, TripsTrue, Sampled, SkewBracketed, ShortestKept
<1>12. StampsKept'
  <2> SUFFICES ASSUME ~enhanced, NEW q \in Ranks, q # 0
               PROVE  /\ slot[q] >= q => slot[0] >= q
                      /\ slot[0] + 1 = q /\ trips'[0].with = q /\ trips'[0].of # << >> =>
                           /\ st'[q] \in {"pong", "result"}
                           /\ \A k \in DOMAIN trips'[0].of :
                                k <= Len(stamps'[q]) /\ stamps'[q][k] = trips'[0].of[k][2]
    BY <1>1, <1>2 DEF StampsKept
  <2>1. slot[q] >= q => slot[0] >= q
    BY DEF IInv, StampsKept
  <2>2. CASE r = 0
    BY <1>4, <2>1, <2>2
  <2>3. CASE r # 0
    <3>1. trips'[0] = trips[0]
      BY <1>2, <1>5, <2>3
    <3>2. CASE q = r
      BY <1>1, <2>1, <3>1, <3>2 DEF IInv, StampsKept
    <3>3. CASE q # r
      BY <1>5, <2>1, <3>1, <3>3 DEF IInv, StampsKept
    <3> QED
      BY <3>2, <3>3
  <2> QED
    BY <2>2, <2>3
<1>13. OffsetsFound'
  <2> SUFFICES ASSUME NEW q \in Ranks, offset[q] # << >>
               PROVE  ~enhanced /\ q # 0 /\ slot[q] >= q /\ Accurate(q, offset[q][1])'
    BY <1>1, <1>2 DEF OffsetsFound, Accurate
  <2>1. ~enhanced /\ q # 0 /\ slot[q] >= q /\ Accurate(q, offset[q][1])
    BY DEF IInv, OffsetsFound
  <2>2. slot[0] >= q
    BY <2>1 DEF IInv, StampsKept
  <2>3. PICK off : off = offset[q][1]
    OBVIOUS
  <2>4. Accurate(q, off)'
    BY <1>8, <2>1, <2>2, <2>3
  <2> QED
    BY <1>1, <2>1, <2>3, <2>4 DEF Accurate
<1> QED
  BY <1>6, <1>7, <1>10, <1>11, <1>12, <1>13 DEF IInv

\* The later of two moments.
LEMMA LaterFacts ==
  ASSUME NEW a \in Nat, NEW b \in Nat
  PROVE  Later(a, b) \in Nat /\ a <= Later(a, b) /\ b <= Later(a, b)
BY DEF Later

\* A sequence that has gained an element.
LEMMA AppendFacts ==
  ASSUME NEW S, NEW s \in Seq(S), NEW e \in S
  PROVE  /\ Append(s, e) \in Seq(S) /\ Len(Append(s, e)) = Len(s) + 1 /\ Len(s) \in Nat
         /\ \A k \in 1 .. Len(s) : Append(s, e)[k] = s[k]
         /\ Append(s, e)[Len(s) + 1] = e
         /\ DOMAIN Append(s, e) = 1 .. Len(s) + 1 /\ DOMAIN s = 1 .. Len(s)
         /\ Append(s, e) # << >>
OBVIOUS

\* esync_slave and sync_slave answer a ping.
LEMMA PongIInv ==
  ASSUME IInv, NEW r \in Ranks, NEW delay \in Delays[size], Pong(r, delay)
  PROVE  IInv'
<1>0. PICK m \in net : /\ m.from = Peer(r) /\ m.to = r /\ m.tag = i[r]
                       /\ LET t == Later(now[r], m.arrives) IN
                          /\ now' = [now EXCEPT ![r] = t]
                          /\ net' = (net \ {m}) \cup {Message(r, i[r], t + delay, Clock(r, t))}
                          /\ stamps' = [stamps EXCEPT ![r] = Append(@, Clock(r, t))]
  BY DEF Pong
<1>1. PICK t, n : /\ t = Later(now[r], m.arrives)
                  /\ n = [from |-> r, to |-> Peer(r), tag |-> i[r], arrives |-> t + delay,
                          stamp |-> t + Skew[r]]
  OBVIOUS
<1>2. /\ st[r] = "pong" /\ now' = [now EXCEPT ![r] = t]
      /\ net' = (net \ {m}) \cup {n}
      /\ stamps' = [stamps EXCEPT ![r] = Append(stamps[r], t + Skew[r])]
      /\ i' = [i EXCEPT ![r] = i[r] + 1]
      /\ st' = [st EXCEPT ![r] = IF i[r] # LoopCount - 1 THEN "pong"
                                 ELSE IF enhanced THEN "idle" ELSE "result"]
      /\ slot' = IF i[r] = LoopCount - 1 /\ enhanced THEN [slot EXCEPT ![r] = slot[r] + 1] ELSE slot
      /\ UNCHANGED <<size, enhanced, tsend, best, offset, trips>>
  BY <1>0, <1>1 DEF Pong, Message, Clock
<1>3. /\ size \in Nat \ {0, 1} /\ 0 \in Ranks /\ LoopCount \in Nat \ {0} /\ delay \in Nat
      /\ \A q \in Ranks : /\ q \in Nat /\ q < size /\ slot[q] \in Nat /\ i[q] \in Nat
                          /\ Skew[q] \in Int /\ tsend[q] \in Int /\ now[q] \in Nat
                          /\ stamps[q] \in Seq(Int) /\ Len(stamps[q]) \in Nat
      /\ Ranks' = Ranks
  BY <1>2, Basics DEF Ranks
<1>4. /\ Peer(r) \in Ranks /\ trips[r].with = Peer(r) /\ Peer(r) <= r
      /\ i[r] < LoopCount /\ Len(stamps[r]) = i[r]
  BY <1>2 DEF IInv, Meetings
<1>5. /\ m.from \in Ranks /\ m.to \in Ranks /\ m.arrives \in Nat
      /\ IsPing(m) \/ IsPong(m) \/ IsResult(m)
  BY DEF IInv, Mail
<1>6. IsPing(m)
  BY <1>0, <1>2, <1>5 DEF IsPong, IsResult
<1>a. PICK p : p = Peer(r)
  OBVIOUS
<1>7. st[p] = "await" /\ Peer(p) = r /\ p < r /\ i[p] = i[r] /\ tsend[p] - Skew[p] <= m.arrives
  BY <1>0, <1>6, <1>a DEF IsPing
<1>8. t \in Nat /\ now[r] <= t /\ m.arrives <= t
  BY <1>1, <1>3, <1>5, LaterFacts
<1>9. /\ i'[r] = i[r] + 1
      /\ st'[r] = (IF i[r] # LoopCount - 1 THEN "pong" ELSE IF enhanced THEN "idle" ELSE "result")
      /\ \A q \in Ranks : q # r => /\ st'[q] = st[q] /\ i'[q] = i[q]
                                   /\ slot'[q] = slot[q] /\ stamps'[q] = stamps[q]
  BY <1>2 DEF IInv, Types
<1>10. /\ stamps'[r] \in Seq(Int) /\ Len(stamps'[r]) = i[r] + 1
       /\ \A k \in 1 .. i[r] : stamps'[r][k] = stamps[r][k]
       /\ stamps'[r][i[r] + 1] = t + Skew[r]
  <2>1. t + Skew[r] \in Int
    BY <1>3, <1>8
  <2>2. stamps'[r] = Append(stamps[r], t + Skew[r])
    BY <1>2 DEF IInv, Types
  <2> QED
    BY <1>3, <1>4, <2>1, <2>2, AppendFacts
<1>11. \A q \in Ranks : q # r \/ slot'[q] = slot[q] => Peer(q)' = Peer(q)
  BY <1>2, <1>9, PeerSame
<1>12. /\ ~enhanced => slot' = slot /\ st'[r] \in {"pong", "result"}
       /\ \A q \in Ranks : slot'[q] \in Nat /\ slot'[q] >= slot[q]
       /\ st'[r] # "idle" => slot' = slot
  <2>1. slot'[r] \in {slot[r], slot[r] + 1}
    BY <1>2 DEF IInv, Types
  <2> QED
    BY <1>2, <1>3, <1>9, <2>1
<1>13. Types'
  <2>1. st' \in [Ranks -> States]
    BY <1>2 DEF IInv, Types, States
  <2>2. slot' \in [Ranks -> Nat]
    <3>1. slot[r] + 1 \in Nat /\ slot \in [Ranks -> Nat]
      BY <1>3 DEF IInv, Types
    <3>2. [slot EXCEPT ![r] = slot[r] + 1] \in [Ranks -> Nat]
      BY <3>1
    <3> QED
      BY <1>2, <3>1, <3>2
  <2>4. now' \in [Ranks -> Nat]
    BY <1>2, <1>8 DEF IInv, Types
  <2>5. i' \in [Ranks -> Nat]
    <3>1. i[r] + 1 \in Nat
      BY <1>3
    <3> QED
      BY <1>2, <3>1 DEF IInv, Types
  <2>3. stamps' \in [Ranks -> Seq(Int)]
    BY <1>2, <1>10 DEF IInv, Types
  <2> QED
    BY <1>2, <1>3, <2>1, <2>2, <2>3, <2>4, <2>5 DEF IInv, Types
<1>14. Meetings'
  <2> SUFFICES ASSUME NEW q \in Ranks
               PROVE  /\ st'[q] # "idle" => Peer(q)' \in Ranks /\ trips[q].with = Peer(q)'
                      /\ st'[q] \in {"ping", "await"} => /\ q < Peer(q)' /\ i'[q] < LoopCount
                                                         /\ i'[q] = Len(trips[q].of)
                      /\ st'[q] = "pong" => Peer(q)' <= q /\ i'[q] < LoopCount
                                            /\ Len(stamps'[q]) = i'[q]
                      /\ st'[q] = "result" => Peer(q)' <= q /\ ~enhanced
                                              /\ Len(stamps'[q]) = LoopCount
    BY <1>2, <1>3 DEF Meetings
  <2>1. CASE q = r
    <3>1. st'[r] # "idle" => Peer(r)' = Peer(r)
      BY <1>11, <1>12
    <3>2. st'[r] \notin {"ping", "await"}
      BY <1>9
    <3>3. st'[r] = "pong" => i'[r] < LoopCount /\ Len(stamps'[r]) = i'[r]
      <4>1. i[r] # LoopCount - 1 => i[r] + 1 < LoopCount
        BY <1>3, <1>4
      <4> QED
        BY <1>9, <1>10, <4>1
    <3>4. st'[r] = "result" => ~enhanced /\ Len(stamps'[r]) = LoopCount
      <4>1. i[r] = LoopCount - 1 => i[r] + 1 = LoopCount
        BY <1>3
      <4> QED
        BY <1>9, <1>10, <4>1
    <3> QED
      BY <1>4, <2>1, <3>1, <3>2, <3>3, <3>4
  <2>2. CASE q # r
    BY <1>9, <1>11, <2>2 DEF IInv, Meetings
  <2> QED
    BY <2>1, <2>2
<1>15. /\ n.from = r /\ n.to = p /\ n.tag = i[r] /\ n.arrives = t + delay
       /\ n.stamp = t + Skew[r] /\ n.arrives \in Nat /\ p \in Ranks
  BY <1>1, <1>3, <1>4, <1>8, <1>a
<1>16. IsPong(n)'
  <2>1. /\ n.stamp \in Int /\ tsend[p] - Skew[p] <= n.stamp - Skew[r]
        /\ n.stamp - Skew[r] <= n.arrives
    <3>1. Skew[p] \in Int /\ tsend[p] \in Int /\ Skew[r] \in Int
      BY <1>3, <1>15
    <3>2. n.stamp \in Int /\ n.stamp - Skew[r] = t
      BY <1>8, <1>15, <3>1
    <3>3. tsend[p] - Skew[p] <= m.arrives /\ m.arrives <= t /\ m.arrives \in Nat
      BY <1>5, <1>7, <1>8
    <3>4. tsend[p] - Skew[p] <= t /\ t <= t + delay
      <4>1. PICK y \in Int : y = tsend[p] - Skew[p]
        BY <3>1
      <4>2. y <= m.arrives /\ m.arrives <= t /\ m.arrives \in Nat /\ t \in Nat /\ delay \in Nat
        BY <1>3, <1>8, <3>3, <4>1
      <4>3. y <= t /\ t <= t + delay
        BY <4>2
      <4> QED
        BY <4>1, <4>3
    <3> QED
      BY <1>15, <3>2, <3>4
  <2>2. p # r /\ st'[p] = "await" /\ Peer(p)' = r /\ i'[p] = i[r] /\ tsend'[p] = tsend[p]
    BY <1>2, <1>3, <1>7, <1>9, <1>11, <1>15
  <2>3. ~enhanced => /\ st'[r] \in {"pong", "result"} /\ n.tag + 1 <= Len(stamps'[r])
                     /\ stamps'[r][n.tag + 1] = n.stamp
    BY <1>3, <1>10, <1>12, <1>15
  <2> QED
    BY <1>2, <1>7, <1>15, <2>1, <2>2, <2>3 DEF IsPong
<1>17. ASSUME NEW o \in net, o # m
       PROVE  (IsPing(o) \/ IsPong(o) \/ IsResult(o))'
  <2>1. o.from \in Ranks /\ o.to \in Ranks /\ (IsPing(o) \/ IsPong(o) \/ IsResult(o))
    BY DEF IInv, Mail
  <2>2. CASE IsPing(o)
    BY <1>2, <1>9, <1>11, <2>1, <2>2 DEF IsPing
  <2>3. CASE IsPong(o)
    <3>1. /\ o.to # r /\ st'[o.to] = "await" /\ Peer(o.to)' = o.from /\ i'[o.to] = i[o.to]
          /\ i[o.to] \in Nat
      BY <1>2, <1>3, <1>9, <1>11, <2>1, <2>3 DEF IsPong
    <3>2. ~enhanced => /\ st'[o.from] \in {"pong", "result"}
                       /\ o.tag + 1 <= Len(stamps'[o.from])
                       /\ stamps'[o.from][o.tag + 1] = o.stamp
      <4>1. CASE o.from = r
        <5>1. o.tag = i[o.to] /\ (~enhanced => o.tag + 1 <= i[r] /\ stamps[r][o.tag + 1] = o.stamp)
          BY <1>4, <2>3, <4>1 DEF IsPong
        <5>2. ~enhanced => o.tag + 1 \in 1 .. i[r] /\ o.tag + 1 <= i[r] + 1
          BY <1>3, <2>1, <3>1, <5>1
        <5> QED
          BY <1>10, <1>12, <4>1, <5>1, <5>2
      <4>2. CASE o.from # r
        BY <1>9, <2>1, <2>3, <4>2 DEF IsPong
      <4> QED
        BY <4>1, <4>2
    <3> QED
      BY <1>2, <2>1, <2>3, <3>1, <3>2 DEF IsPong
  <2>4. CASE IsResult(o)
    BY <1>2, <1>9, <1>12, <2>1, <2>4 DEF IsResult, Accurate
  <2> QED
    BY <2>1, <2>2, <2>3, <2>4
<1>18. Mail'
  <2>1. ASSUME NEW o \in net'
        PROVE  /\ o.from \in Ranks /\ o.to \in Ranks /\ o.arrives \in Nat
               /\ (IsPing(o) \/ IsPong(o) \/ IsResult(o))'
    <3>1. CASE o = n
      BY <1>15, <1>16, <3>1
    <3>2. CASE o \in net /\ o # m
      BY <1>17, <3>2 DEF IInv, Mail
    <3> QED
      BY <1>2, <3>1, <3>2
  <2>2. MasterOf(n) = p /\ MasterOf(m) = p /\ m.tag < LoopCount /\ n.tag < LoopCount
    BY <1>0, <1>3, <1>4, <1>7, <1>15, <1>a DEF MasterOf
  <2>3. ASSUME NEW o \in net', NEW x \in net', o.tag < LoopCount, x.tag < LoopCount,
               MasterOf(o) = MasterOf(x)
        PROVE  o = x
    BY <1>2, <2>2, <2>3 DEF IInv, Mail
  <2>4. ASSUME NEW o \in net', NEW x \in net', o.tag = LoopCount, x.tag = LoopCount, o.to = x.to
        PROVE  o = x
    BY <1>2, <1>3, <2>2, <2>4 DEF IInv, Mail
  <2> QED
    BY <1>3, <2>1, <2>3, <2>4 DEF Mail, MasterOf
<1>19. TripsTrue' /\ Sampled' /\ SkewBracketed' /\ ShortestKept'
  BY <1>2, <1>3 DEF IInv, TripsTrue, Sampled, SkewBracketed, ShortestKept
<1>20. StampsKept'
  <2> SUFFICES ASSUME ~enhanced, NEW q \in Ranks, q # 0
               PROVE  /\ slot[q] >= q => slot[0] >= q
                      /\ slot[0] + 1 = q /\ trips[0].with = q /\ trips[0].of # << >> =>
                           /\ st'[q] \in {"pong", "result"}
                           /\ \A k \in DOMAIN trips[0].of :
                                k <= Len(stamps'[q]) /\ stamps'[q][k] = trips[0].of[k][2]
    <3>1. UNCHANGED <<enhanced, trips>> /\ (~enhanced => slot' = slot) /\ Ranks' = Ranks
      BY <1>2, <1>3, <1>12
    <3> QED
      BY <3>1 DEF StampsKept
  <2>1. /\ slot[q] >= q => slot[0] >= q
        /\ slot[0] + 1 = q /\ trips[0].with = q /\ trips[0].of # << >> =>
             /\ st[q] \in {"pong", "result"}
             /\ \A k \in DOMAIN trips[0].of :
                  k <= Len(stamps[q]) /\ stamps[q][k] = trips[0].of[k][2]
    BY DEF IInv, StampsKept
  <2>2. CASE q = r
    <3>1. ASSUME NEW k \in DOMAIN trips[0].of, k <= Len(stamps[r])
          PROVE  k <= Len(stamps'[r]) /\ stamps'[r][k] = stamps[r][k]
      <4>1. k \in Nat \ {0}
        <5>1. DOMAIN trips[0].of = 1 .. Len(trips[0].of) /\ Len(trips[0].of) \in Nat
          BY <1>3, Basics
        <5> QED
          BY <3>1, <5>1
      <4> QED
        BY <1>3, <1>4, <1>10, <3>1, <4>1
    <3> QED
      BY <1>12, <2>1, <2>2, <3>1
  <2>3. CASE q # r
    BY <1>9, <2>1, <2>3
  <2> QED
    BY <2>2, <2>3
<1>21. OffsetsFound'
  BY <1>2, <1>3, <1>12 DEF IInv, OffsetsFound, Accurate
<1> QED
  BY <1>13, <1>14, <1>18, <1>19, <1>20, <1>21 DEF IInv

\* esync_master keeps the smallest difference of each direction.
LEMMA DirectionsKept ==
  ASSUME NEW b \in Samples, NEW s \in Int, NEW v \in Int, NEW e \in Int,
         NEW c, c = KeepDirections(b, s, v, e)
  PROVE  /\ c \in Samples
         /\ c.t2 - c.t1 \in {b.t2 - b.t1, v - s} /\ c.t2 - c.t1 <= b.t2 - b.t1
         /\ c.t2 - c.t1 <= v - s
         /\ c.t4 - c.t3 \in {b.t4 - b.t3, e - v} /\ c.t4 - c.t3 <= b.t4 - b.t3
         /\ c.t4 - c.t3 <= e - v
<1>1. PICK d : d = IF v - s < b.t2 - b.t1 THEN [b EXCEPT !.t1 = s, !.t2 = v] ELSE b
  OBVIOUS
<1>2. /\ d \in Samples /\ d.t3 = b.t3 /\ d.t4 = b.t4
      /\ d.t2 - d.t1 \in {b.t2 - b.t1, v - s} /\ d.t2 - d.t1 <= b.t2 - b.t1
      /\ d.t2 - d.t1 <= v - s
  <2>1. CASE v - s < b.t2 - b.t1
    <3>1. d = [b EXCEPT !.t1 = s, !.t2 = v]
      BY <1>1, <2>1
    <3>2. d \in Samples /\ d.t3 = b.t3 /\ d.t4 = b.t4 /\ d.t1 = s /\ d.t2 = v
      BY <3>1 DEF Samples
    <3> QED
      BY <2>1, <3>2 DEF Samples
  <2>2. CASE ~(v - s < b.t2 - b.t1)
    BY <1>1, <2>2 DEF Samples
  <2> QED
    BY <2>1, <2>2
<1>3. c = IF e - v < d.t4 - d.t3 THEN [d EXCEPT !.t3 = v, !.t4 = e] ELSE d
  BY <1>1 DEF KeepDirections
<1>4. CASE e - v < d.t4 - d.t3
  <2>1. c = [d EXCEPT !.t3 = v, !.t4 = e]
    BY <1>3, <1>4
  <2>2. c \in Samples /\ c.t1 = d.t1 /\ c.t2 = d.t2 /\ c.t3 = v /\ c.t4 = e
    BY <1>2, <2>1 DEF Samples
  <2> QED
    BY <1>2, <1>4, <2>2 DEF Samples
<1>5. CASE ~(e - v < d.t4 - d.t3)
  BY <1>2, <1>3, <1>5 DEF Samples
<1> QED
  BY <1>4, <1>5

\* sync_time lies in the middle: the offset is wrong by half the round trip.
LEMMA MiddleFits ==
  ASSUME NEW t1 \in Int, NEW t4 \in Int, NEW x \in Int, t1 <= x, x <= t4,
         NEW round \in Int, t4 - t1 <= round, NEW y, y = t1 + (t4 - t1) \div 2
  PROVE  y \in Int /\ 2 * (y - x) <= round + 1 /\ -2 * (y - x) <= round + 1
<1>1. PICK h \in Int : h = (t4 - t1) \div 2
  OBVIOUS
<1>2. 2 * h <= t4 - t1 /\ t4 - t1 <= 2 * h + 1
  BY <1>1
<1>3. t1 + h \in Int /\ 2 * (t1 + h - x) <= round + 1 /\ -2 * (t1 + h - x) <= round + 1
  BY <1>2
<1> QED
  BY <1>1, <1>3

\* A true trip brackets the difference of the clocks.
LEMMA TripBrackets ==
  ASSUME NEW s \in Int, NEW v \in Int, NEW e \in Int, NEW x \in Int, NEW y \in Int,
         s - y <= v - x, v - x <= e - y
  PROVE  x - y \in Int /\ v - e <= x - y /\ x - y <= v - s
OBVIOUS

\* Differences are whole numbers.
LEMMA DifferenceType ==
  ASSUME NEW a \in Int, NEW b \in Int
  PROVE  a - b \in Int
OBVIOUS

\* The slave's stamp, told by the master's clock, lies within the trip.
LEMMA BetweenTimes ==
  ASSUME NEW a \in Int, NEW b \in Int, NEW c \in Int, NEW sm \in Int, NEW ss \in Int,
         a - sm <= b - ss, b - ss <= c - sm, NEW x, x = b - ss + sm
  PROVE  a <= x /\ x <= c
OBVIOUS

\* The backward difference kept still bounds the difference of the clocks.
LEMMA BracketKept ==
  ASSUME NEW a \in Int, NEW b \in Int, NEW c \in Int, NEW d \in Int, NEW v \in Int, NEW e \in Int,
         NEW theta \in Int, d - c = b - a \/ d - c = e - v, a - b <= theta, v - e <= theta
  PROVE  c - d <= theta
OBVIOUS

\* Bounds may be chained.
LEMMA BoundOfBound ==
  ASSUME NEW a \in Int, NEW b \in Int, NEW c \in Int, a <= b, b <= c
  PROVE  a <= c
OBVIOUS

\* esync_master and sync_master receive an answer.
LEMMA AnswerIInv ==
  ASSUME IInv, NEW r \in Ranks, NEW delay \in Delays[size], Answer(r, delay)
  PROVE  IInv'
<1>0. PICK m \in net :
        /\ m.from = Peer(r) /\ m.to = r /\ m.tag = i[r]
        /\ LET t    == Later(now[r], m.arrives)
               b    == Keep(best[r], i[r], tsend[r], m.stamp, Clock(r, t))
               last == i[r] = LoopCount - 1
           IN /\ now' = [now EXCEPT ![r] = t]
              /\ best' = [best EXCEPT ![r] = b]
              /\ trips' = [trips EXCEPT ![r].of = Append(@, <<tsend[r], m.stamp, Clock(r, t)>>)]
              /\ i' = [i EXCEPT ![r] = @ + 1]
              /\ st' = [st EXCEPT ![r] = IF last THEN "idle" ELSE "ping"]
              /\ slot' = IF last THEN [slot EXCEPT ![r] = @ + 1] ELSE slot
              /\ net' = (net \ {m}) \cup
                   (IF last /\ ~enhanced
                    THEN {Message(r, LoopCount, t + delay, <<b.min, SyncTime(b)>>)} ELSE {})
  BY DEF Answer
<1>1. PICK t, s, v, e, b, p, n, trip :
        /\ t = Later(now[r], m.arrives) /\ s = tsend[r] /\ v = m.stamp /\ e = t + Skew[r]
        /\ b = Keep(best[r], i[r], s, v, e) /\ p = Peer(r) /\ trip = <<s, v, e>>
        /\ n = [from |-> r, to |-> p, tag |-> LoopCount, arrives |-> t + delay,
                stamp |-> <<b.min, SyncTime(b)>>]
  OBVIOUS
<1>2. /\ st[r] = "await" /\ now' = [now EXCEPT ![r] = t] /\ best' = [best EXCEPT ![r] = b]
      /\ trips' = [trips EXCEPT ![r].of = Append(@, trip)]
      /\ i' = [i EXCEPT ![r] = i[r] + 1]
      /\ st' = [st EXCEPT ![r] = IF i[r] = LoopCount - 1 THEN "idle" ELSE "ping"]
      /\ slot' = IF i[r] = LoopCount - 1 THEN [slot EXCEPT ![r] = slot[r] + 1] ELSE slot
      /\ net' = (net \ {m}) \cup (IF i[r] = LoopCount - 1 /\ ~enhanced THEN {n} ELSE {})
      /\ UNCHANGED <<size, enhanced, tsend, stamps, offset>>
  BY <1>0, <1>1 DEF Answer, Message, Clock
<1>3. /\ size \in Nat \ {0, 1} /\ 0 \in Ranks /\ LoopCount \in Nat \ {0} /\ delay \in Nat
      /\ \A q \in Ranks : /\ q \in Nat /\ q < size /\ slot[q] \in Nat /\ i[q] \in Nat
                          /\ Skew[q] \in Int /\ tsend[q] \in Int /\ now[q] \in Nat
                          /\ stamps[q] \in Seq(Int) /\ Len(stamps[q]) \in Nat
                          /\ trips[q].of \in Seq(Int \X Int \X Int) /\ trips[q].with \in Nat
                          /\ Len(trips[q].of) \in Nat
                          /\ DOMAIN trips[q].of = 1 .. Len(trips[q].of)
      /\ Ranks' = Ranks
  BY <1>2, Basics DEF Ranks
<1>4. /\ p \in Ranks /\ trips[r].with = p /\ r < p /\ i[r] < LoopCount
      /\ i[r] = Len(trips[r].of)
  BY <1>1, <1>2 DEF IInv, Meetings
<1>5. /\ m.from \in Ranks /\ m.to \in Ranks /\ m.arrives \in Nat
      /\ IsPing(m) \/ IsPong(m) \/ IsResult(m)
  BY DEF IInv, Mail
<1>6. m.from = p /\ m.to = r /\ m.tag = i[r] /\ IsPong(m)
  BY <1>0, <1>1, <1>3, <1>4, <1>5 DEF IsPing, IsResult
<1>7. t \in Nat /\ now[r] <= t /\ m.arrives <= t
  BY <1>1, <1>3, <1>5, LaterFacts
\* The new trip is a true one.
<1>8. s \in Int /\ v \in Int /\ e \in Int /\ trip \in Int \X Int \X Int
  BY <1>1, <1>3, <1>6, <1>7 DEF IsPong
<1>b. s \in Int /\ v \in Int /\ e \in Int
  BY <1>8
<1>9. s - Skew[r] <= v - Skew[p] /\ v - Skew[p] <= e - Skew[r]
  <2>1. s - Skew[r] <= v - Skew[p] /\ v - Skew[p] <= m.arrives
    BY <1>1, <1>6 DEF IsPong
  <2>2. e - Skew[r] = t
    BY <1>1, <1>3, <1>7
  <2>3. PICK y \in Int : y = v - Skew[p]
    BY <1>3, <1>4, <1>8
  <2>4. y <= t
    BY <1>5, <1>7, <2>1, <2>3
  <2> QED
    BY <2>1, <2>2, <2>3, <2>4
<1>10. /\ trips'[r].of \in Seq(Int \X Int \X Int) /\ Len(trips'[r].of) = i[r] + 1
       /\ DOMAIN trips'[r].of = 1 .. i[r] + 1 /\ DOMAIN trips[r].of = 1 .. i[r]
       /\ \A k \in 1 .. i[r] : trips'[r].of[k] = trips[r].of[k]
       /\ trips'[r].of[i[r] + 1] = trip /\ trips'[r].of # << >>
       /\ trips'[r].with = p /\ trips'[r] \in Trips
  <2>1. trips[r] \in Trips /\ trips \in [Ranks -> Trips]
    BY DEF IInv, Types
  <2>2. trips'[r] = [trips[r] EXCEPT !.of = Append(trips[r].of, trip)]
    BY <1>2, <2>1
  <2>3. trips'[r].of = Append(trips[r].of, trip) /\ trips'[r].with = trips[r].with
    BY <2>1, <2>2 DEF Trips
  <2>4. PICK o : o = trips[r].of
    OBVIOUS
  <2>5. /\ Append(o, trip) \in Seq(Int \X Int \X Int) /\ Len(Append(o, trip)) = Len(o) + 1
        /\ \A k \in 1 .. Len(o) : Append(o, trip)[k] = o[k]
        /\ Append(o, trip)[Len(o) + 1] = trip
        /\ DOMAIN Append(o, trip) = 1 .. Len(o) + 1 /\ DOMAIN o = 1 .. Len(o)
        /\ Append(o, trip) # << >>
    BY <1>3, <1>8, <2>4, AppendFacts
  <2>6. trips'[r] \in Trips
    BY <2>1, <2>2, <2>3, <2>4, <2>5 DEF Trips
  <2> QED
    BY <1>4, <2>3, <2>4, <2>5, <2>6
<1>11. /\ i'[r] = i[r] + 1 /\ best'[r] = b
       /\ st'[r] = (IF i[r] = LoopCount - 1 THEN "idle" ELSE "ping")
       /\ \A q \in Ranks : q # r => /\ st'[q] = st[q] /\ i'[q] = i[q] /\ best'[q] = best[q]
                                    /\ slot'[q] = slot[q] /\ trips'[q] = trips[q]
  BY <1>2 DEF IInv, Types
<1>12. \A q \in Ranks : q # r \/ slot'[q] = slot[q] => Peer(q)' = Peer(q)
  BY <1>2, <1>11, PeerSame
<1>13. /\ slot'[r] = IF i[r] = LoopCount - 1 THEN slot[r] + 1 ELSE slot[r]
       /\ \A q \in Ranks : slot'[q] \in Nat /\ slot'[q] >= slot[q]
       /\ st'[r] # "idle" => slot' = slot
  <2>1. slot'[r] = IF i[r] = LoopCount - 1 THEN slot[r] + 1 ELSE slot[r]
    BY <1>2 DEF IInv, Types
  <2> QED
    BY <1>2, <1>3, <1>11, <2>1
\* The times kept.
<1>14. i[r] # 0 => trips[r].of # << >> /\ best[r] \in Samples
  <2>1. i[r] # 0 => Len(trips[r].of) # 0
    BY <1>4
  <2>2. i[r] # 0 => trips[r].of # << >>
    BY <2>1
  <2> QED
    BY <2>2 DEF IInv, Sampled
<1>15. b \in Samples
  <2>1. CASE i[r] = 0
    <3>1. b = Sample(0, s, v, e)
      BY <1>1, <2>1 DEF Keep
    <3> QED
      BY <1>b, <3>1 DEF Sample, Samples
  <2>2. CASE i[r] # 0 /\ enhanced
    BY <1>1, <1>8, <1>14, <2>2, DirectionsKept DEF Keep
  <2>3. CASE i[r] # 0 /\ ~enhanced
    BY <1>1, <1>3, <1>b, <1>14, <2>3 DEF Keep, KeepShortest, Sample, Samples
  <2> QED
    BY <2>1, <2>2, <2>3
<1>16. Types'
  <2>1. st' \in [Ranks -> States]
    BY <1>2 DEF IInv, Types, States
  <2>2. slot' \in [Ranks -> Nat]
    <3>1. slot[r] + 1 \in Nat /\ slot \in [Ranks -> Nat]
      BY <1>3 DEF IInv, Types
    <3>2. [slot EXCEPT ![r] = slot[r] + 1] \in [Ranks -> Nat]
      BY <3>1
    <3> QED
      BY <1>2, <3>1, <3>2
  <2>3. now' \in [Ranks -> Nat]
    BY <1>2, <1>7 DEF IInv, Types
  <2>4. i' \in [Ranks -> Nat]
    <3>1. i[r] + 1 \in Nat
      BY <1>3
    <3> QED
      BY <1>2, <3>1 DEF IInv, Types
  <2>5. best' \in [Ranks -> {<< >>} \cup Samples]
    <3>1. best \in [Ranks -> {<< >>} \cup Samples]
      BY DEF IInv, Types
    <3> QED
      BY <1>2, <1>15, <3>1
  <2>6. trips' \in [Ranks -> Trips]
    <3>1. trips \in [Ranks -> Trips]
      BY DEF IInv, Types
    <3>2. trips' = [trips EXCEPT ![r] = trips'[r]]
      BY <1>2, <3>1
    <3> QED
      BY <1>10, <3>1, <3>2
  <2> QED
    BY <1>2, <1>3, <2>1, <2>2, <2>3, <2>4, <2>5, <2>6 DEF IInv, Types
<1>17. Meetings'
  <2> SUFFICES ASSUME NEW q \in Ranks
               PROVE  /\ st'[q] # "idle" => Peer(q)' \in Ranks /\ trips'[q].with = Peer(q)'
                      /\ st'[q] \in {"ping", "await"} => /\ q < Peer(q)' /\ i'[q] < LoopCount
                                                         /\ i'[q] = Len(trips'[q].of)
                      /\ st'[q] = "pong" => Peer(q)' <= q /\ i'[q] < LoopCount
                                            /\ Len(stamps[q]) = i'[q]
                      /\ st'[q] = "result" => Peer(q)' <= q /\ ~enhanced
                                              /\ Len(stamps[q]) = LoopCount
    BY <1>2, <1>3 DEF Meetings
  <2>1. CASE q = r
    <3>1. st'[r] # "idle" => Peer(r)' = p
      BY <1>1, <1>12, <1>13
    <3>2. st'[r] \notin {"await", "pong", "result"}
      BY <1>11
    <3>3. st'[r] = "ping" => i'[r] < LoopCount /\ i'[r] = Len(trips'[r].of)
      <4>1. i[r] # LoopCount - 1 => i[r] + 1 < LoopCount
        <5>1. i[r] \in Nat /\ LoopCount \in Nat /\ i[r] < LoopCount
          BY <1>3, <1>4
        <5> QED
          BY <5>1
      <4> QED
        BY <1>10, <1>11, <4>1
    <3> QED
      BY <1>4, <1>10, <2>1, <3>1, <3>2, <3>3
  <2>2. CASE q # r
    BY <1>11, <1>12, <2>2 DEF IInv, Meetings
  <2> QED
    BY <2>1, <2>2
<1>18. Sampled'
  BY <1>2, <1>3, <1>11, <1>15 DEF IInv, Sampled
<1>19. TripsTrue'
  <2> SUFFICES ASSUME NEW q \in Ranks, NEW k \in DOMAIN trips'[q].of
               PROVE  /\ trips'[q].with \in Ranks
                      /\ trips'[q].of[k][1] - Skew[q] <= trips'[q].of[k][2] - Skew[trips'[q].with]
                      /\ trips'[q].of[k][2] - Skew[trips'[q].with] <= trips'[q].of[k][3] - Skew[q]
    BY <1>2, <1>3 DEF TripsTrue
  <2>1. CASE q # r
    BY <1>11, <2>1 DEF IInv, TripsTrue
  <2>2. CASE q = r /\ k = i[r] + 1
    <3>1. trip[1] = s /\ trip[2] = v /\ trip[3] = e
      BY <1>1
    <3> QED
      BY <1>4, <1>9, <1>10, <2>2, <3>1
  <2>3. CASE q = r /\ k # i[r] + 1
    <3>1. k \in 1 .. i[r]
      <4>1. i[r] \in Nat /\ k \in 1 .. i[r] + 1
        BY <1>3, <1>10, <2>3
      <4> QED
        BY <2>3, <4>1
    <3> QED
      BY <1>4, <1>10, <2>3, <3>1 DEF IInv, TripsTrue
  <2> QED
    BY <2>1, <2>2, <2>3
<1>20. SkewBracketed'
  <2> SUFFICES ASSUME NEW q \in Ranks, enhanced, trips'[q].of # << >>
               PROVE  /\ best'[q].t3 - best'[q].t4 <= Skew[trips'[q].with] - Skew[q]
                      /\ Skew[trips'[q].with] - Skew[q] <= best'[q].t2 - best'[q].t1
                      /\ \A k \in DOMAIN trips'[q].of :
                           /\ best'[q].t2 - best'[q].t1 <= trips'[q].of[k][2] - trips'[q].of[k][1]
                           /\ best'[q].t4 - best'[q].t3 <= trips'[q].of[k][3] - trips'[q].of[k][2]
    BY <1>2, <1>3 DEF SkewBracketed
  <2>1. CASE q # r
    BY <1>11, <2>1 DEF IInv, SkewBracketed
  <2>2. CASE q = r
    <3>1. trip[1] = s /\ trip[2] = v /\ trip[3] = e
      BY <1>1
    <3>2. PICK theta : theta = Skew[p] - Skew[r]
      OBVIOUS
    <3>3. theta \in Int /\ v - e <= theta /\ theta <= v - s
      <4>1. PICK x \in Int, y \in Int : x = Skew[p] /\ y = Skew[r]
        BY <1>3, <1>4
      <4>2. s - y <= v - x /\ v - x <= e - y
        BY <1>9, <4>1
      <4>3. x - y \in Int /\ v - e <= x - y /\ x - y <= v - s
        BY <1>b, <4>2, TripBrackets
      <4>4. theta = x - y
        BY <3>2, <4>1
      <4> QED
        BY <4>3, <4>4
    <3>4. /\ b.t3 - b.t4 <= theta /\ theta <= b.t2 - b.t1
          /\ b.t2 - b.t1 <= v - s /\ b.t4 - b.t3 <= e - v
          /\ \A k \in 1 .. i[r] :
               /\ b.t2 - b.t1 <= trips[r].of[k][2] - trips[r].of[k][1]
               /\ b.t4 - b.t3 <= trips[r].of[k][3] - trips[r].of[k][2]
      <4>1. CASE i[r] = 0
        <5>1. b = Sample(0, s, v, e)
          BY <1>1, <4>1 DEF Keep
        <5>2. b.t1 = s /\ b.t2 = v /\ b.t3 = v /\ b.t4 = e
          BY <1>b, <5>1 DEF Sample
        <5>3. /\ v - e <= theta /\ theta <= v - s
              /\ v - s <= v - s /\ e - v <= e - v
          BY <1>b, <3>3
        <5>4. 1 .. i[r] = {}
          BY <4>1
        <5> QED
          BY <5>2, <5>3, <5>4
      <4>2. CASE i[r] # 0
        <5>1. PICK a : a = best[r]
          OBVIOUS
        <5>2. a \in Samples /\ b = KeepDirections(a, s, v, e)
          BY <1>1, <1>14, <4>2, <5>1 DEF Keep
        <5>3. /\ a.t3 - a.t4 <= theta /\ theta <= a.t2 - a.t1
              /\ \A k \in 1 .. i[r] :
                   /\ a.t2 - a.t1 <= trips[r].of[k][2] - trips[r].of[k][1]
                   /\ a.t4 - a.t3 <= trips[r].of[k][3] - trips[r].of[k][2]
          BY <1>4, <1>10, <1>14, <3>2, <4>2, <5>1 DEF IInv, SkewBracketed
        <5>4. /\ b.t2 - b.t1 \in {a.t2 - a.t1, v - s} /\ b.t2 - b.t1 <= a.t2 - a.t1
              /\ b.t2 - b.t1 <= v - s
              /\ b.t4 - b.t3 \in {a.t4 - a.t3, e - v} /\ b.t4 - b.t3 <= a.t4 - a.t3
              /\ b.t4 - b.t3 <= e - v
          BY <1>b, <5>2, DirectionsKept
        <5>5. /\ a.t1 \in Int /\ a.t2 \in Int /\ a.t3 \in Int /\ a.t4 \in Int
              /\ b.t1 \in Int /\ b.t2 \in Int /\ b.t3 \in Int /\ b.t4 \in Int
          BY <1>15, <5>2 DEF Samples
        <5>6. theta <= b.t2 - b.t1
          BY <3>3, <5>3, <5>4
        <5>7. b.t3 - b.t4 <= theta
          <6>1. PICK a3 \in Int, a4 \in Int, b3 \in Int, b4 \in Int :
                  a3 = a.t3 /\ a4 = a.t4 /\ b3 = b.t3 /\ b4 = b.t4
            BY <5>5
          <6>2. b4 - b3 = a4 - a3 \/ b4 - b3 = e - v
            BY <5>4, <6>1
          <6>3. a3 - a4 <= theta /\ v - e <= theta /\ theta \in Int
            BY <3>3, <5>3, <6>1
          <6>4. b3 - b4 <= theta
            BY <1>b, <6>2, <6>3, BracketKept
          <6> QED
            BY <6>1, <6>4
        <5>8. ASSUME NEW k \in 1 .. i[r]
              PROVE  /\ b.t2 - b.t1 <= trips[r].of[k][2] - trips[r].of[k][1]
                     /\ b.t4 - b.t3 <= trips[r].of[k][3] - trips[r].of[k][2]
          <6>1. PICK x, y, z : x = trips[r].of[k][1] /\ y = trips[r].of[k][2] /\ z = trips[r].of[k][3]
            OBVIOUS
          <6>2. x \in Int /\ y \in Int /\ z \in Int
            BY <1>10, <6>1, Basics
          <6>3. a.t2 - a.t1 <= y - x /\ a.t4 - a.t3 <= z - y
            BY <5>3, <6>1
          <6>4. b.t2 - b.t1 <= y - x /\ b.t4 - b.t3 <= z - y
            <7>1. PICK f \in Int, g \in Int, h \in Int, j \in Int :
                    /\ f = a.t2 - a.t1 /\ g = a.t4 - a.t3 /\ h = b.t2 - b.t1 /\ j = b.t4 - b.t3
              <8>1. /\ a.t2 - a.t1 \in Int /\ a.t4 - a.t3 \in Int
                    /\ b.t2 - b.t1 \in Int /\ b.t4 - b.t3 \in Int
                BY <5>5, DifferenceType
              <8> QED
                BY <8>1
            <7>2. h <= f /\ j <= g /\ f <= y - x /\ g <= z - y
              BY <5>4, <6>3, <7>1
            <7>3. y - x \in Int /\ z - y \in Int
              BY <6>2, DifferenceType
            <7>4. h <= y - x
              BY <7>1, <7>2, <7>3, BoundOfBound
            <7>5. j <= z - y
              BY <7>1, <7>2, <7>3, BoundOfBound
            <7> QED
              BY <7>1, <7>4, <7>5
          <6> QED
            BY <6>1, <6>4
        <5> QED
          BY <5>4, <5>6, <5>7, <5>8
      <4> QED
        BY <4>1, <4>2
    <3>5. ASSUME NEW k \in 1 .. i[r] + 1
          PROVE  /\ b.t2 - b.t1 <= trips'[r].of[k][2] - trips'[r].of[k][1]
                 /\ b.t4 - b.t3 <= trips'[r].of[k][3] - trips'[r].of[k][2]
      <4>1. k = i[r] + 1 \/ k \in 1 .. i[r]
        <5>1. i[r] \in Nat
          BY <1>3
        <5> QED
          BY <5>1
      <4>2. CASE k = i[r] + 1
        BY <1>10, <3>1, <3>4, <4>2
      <4>3. CASE k \in 1 .. i[r]
        BY <1>10, <3>4, <4>3
      <4> QED
        BY <4>1, <4>2, <4>3
    <3> QED
      BY <1>10, <1>11, <2>2, <3>2, <3>4, <3>5
  <2> QED
    BY <2>1, <2>2
<1>21. ~enhanced => r = 0 /\ p = slot[0] + 1
  <2> SUFFICES ASSUME ~enhanced PROVE r = 0 /\ p = slot[0] + 1
    OBVIOUS
  <2>1. Peer(0) = slot[0] + 1 /\ (r # 0 => p \in {0, size})
    BY <1>1, SyncPartner
  <2>2. r \in Nat /\ r < p /\ p < size /\ p \in Nat /\ size \in Nat
    BY <1>3, <1>4
  <2>3. r = 0
    BY <2>1, <2>2
  <2> QED
    BY <1>1, <2>1, <2>3
<1>22. ShortestKept'
  <2> SUFFICES ASSUME ~enhanced, r = 0
               PROVE  /\ b.min + 1 \in 1 .. i[0] + 1
                      /\ b.t1 = trips'[0].of[b.min + 1][1]
                      /\ b.t2 = trips'[0].of[b.min + 1][2]
                      /\ b.t4 = trips'[0].of[b.min + 1][3]
                      /\ \A k \in 1 .. i[0] + 1 :
                           b.t4 - b.t1 <= trips'[0].of[k][3] - trips'[0].of[k][1]
    <3>1. UNCHANGED enhanced /\ (~enhanced => r = 0) /\ best'[r] = b
          /\ DOMAIN trips'[r].of = 1 .. i[r] + 1
      BY <1>2, <1>10, <1>11, <1>21
    <3> QED
      BY <3>1 DEF ShortestKept
  <2>1. trip[1] = s /\ trip[2] = v /\ trip[3] = e /\ i[0] \in Nat
    BY <1>1, <1>3
  <2>2. \A k \in 1 .. i[0] + 1 : k = i[0] + 1 \/ k \in 1 .. i[0]
    BY <2>1
  <2>3. CASE i[0] = 0
    <3>1. b = Sample(0, s, v, e)
      BY <1>1, <2>3 DEF Keep
    <3>2. b.t1 = s /\ b.t2 = v /\ b.t4 = e /\ b.min = 0
      BY <1>b, <3>1 DEF Sample
    <3>3. \A k \in 1 .. i[0] + 1 : k = 1
      BY <2>3
    <3> QED
      BY <1>b, <1>10, <2>1, <2>3, <3>2, <3>3
  <2>4. CASE i[0] # 0
    <3>1. PICK a : a = best[0]
      OBVIOUS
    <3>2. a \in Samples /\ b = KeepShortest(a, i[0], s, v, e) /\ trips[0].of # << >>
      BY <1>1, <1>14, <2>4, <3>1 DEF Keep
    <3>3. /\ a.min + 1 \in 1 .. i[0]
          /\ a.t1 = trips[0].of[a.min + 1][1]
          /\ a.t2 = trips[0].of[a.min + 1][2]
          /\ a.t4 = trips[0].of[a.min + 1][3]
          /\ \A k \in 1 .. i[0] : a.t4 - a.t1 <= trips[0].of[k][3] - trips[0].of[k][1]
      BY <1>10, <3>1, <3>2 DEF IInv, ShortestKept
    <3>4. a.t1 \in Int /\ a.t4 \in Int /\ a.min \in Nat
      BY <3>2 DEF Samples
    <3>5. CASE e - s < a.t4 - a.t1
      <4>1. b = Sample(i[0], s, v, e)
        BY <3>2, <3>5 DEF KeepShortest
      <4>2. b.t1 = s /\ b.t2 = v /\ b.t4 = e /\ b.min = i[0]
        BY <1>b, <4>1 DEF Sample
      <4>3. ASSUME NEW k \in 1 .. i[0]
            PROVE  e - s <= trips[0].of[k][3] - trips[0].of[k][1]
        <5>1. PICK x, z : x = trips[0].of[k][1] /\ z = trips[0].of[k][3]
          OBVIOUS
        <5>2. x \in Int /\ z \in Int
          BY <1>3, <1>10, <5>1, Basics
        <5>3. a.t4 - a.t1 <= z - x
          BY <3>3, <5>1
        <5>4. e - s <= z - x
          BY <1>b, <3>4, <3>5, <5>2, <5>3
        <5> QED
          BY <5>1, <5>4
      <4>4. i[0] + 1 \in 1 .. i[0] + 1 /\ e - s <= e - s
        BY <1>b, <2>1
      <4> QED
        BY <1>10, <2>1, <2>2, <4>2, <4>3, <4>4
    <3>6. CASE ~(e - s < a.t4 - a.t1)
      <4>1. b = a
        BY <3>2, <3>6 DEF KeepShortest
      <4>2. a.min + 1 \in 1 .. i[0] + 1 /\ a.t4 - a.t1 <= e - s
        BY <1>b, <2>1, <3>3, <3>4, <3>6
      <4> QED
        BY <1>10, <2>1, <2>2, <3>3, <4>1, <4>2
    <3> QED
      BY <3>5, <3>6
  <2> QED
    BY <2>3, <2>4
\* The samples of sync_master and the stamps of sync_slave are those of the
\* same ping-pong messages.
<1>23. ~enhanced =>
         /\ st[p] \in {"pong", "result"}
         /\ \A k \in 1 .. i[r] + 1 : k <= Len(stamps[p]) /\ stamps[p][k] = trips'[r].of[k][2]
  <2> SUFFICES ASSUME ~enhanced
               PROVE  /\ st[p] \in {"pong", "result"}
                      /\ \A k \in 1 .. i[0] + 1 : /\ k <= Len(stamps[p])
                                                  /\ stamps[p][k] = trips'[0].of[k][2]
    BY <1>21
  <2>1. r = 0 /\ p = slot[0] + 1 /\ i[0] \in Nat /\ p # 0
    BY <1>3, <1>4, <1>21
  <2>2. /\ st[p] \in {"pong", "result"} /\ i[0] + 1 <= Len(stamps[p])
        /\ stamps[p][i[0] + 1] = v /\ trip[2] = v
    BY <1>1, <1>6, <2>1 DEF IsPong
  <2>3. ASSUME NEW k \in 1 .. i[0]
        PROVE  k <= Len(stamps[p]) /\ stamps[p][k] = trips[0].of[k][2]
    <3>1. trips[0].of # << >>
      BY <1>14, <2>1
    <3> QED
      BY <1>4, <1>10, <2>1, <3>1 DEF IInv, StampsKept
  <2>4. \A k \in 1 .. i[0] + 1 : k = i[0] + 1 \/ k \in 1 .. i[0]
    BY <2>1
  <2> QED
    BY <1>10, <2>1, <2>2, <2>3, <2>4
<1>24. StampsKept'
  <2> SUFFICES ASSUME ~enhanced, NEW q \in Ranks, q # 0
               PROVE  /\ slot'[q] >= q => slot'[0] >= q
                      /\ slot'[0] + 1 = q /\ trips'[0].with = q /\ trips'[0].of # << >> =>
                           /\ st'[q] \in {"pong", "result"}
                           /\ \A k \in DOMAIN trips'[0].of :
                                k <= Len(stamps[q]) /\ stamps[q][k] = trips'[0].of[k][2]
    BY <1>2, <1>3 DEF StampsKept
  <2>1. r = 0 /\ p = slot[0] + 1 /\ q # r
    BY <1>21
  <2>2. slot'[q] >= q => slot'[0] >= q
    <3>1. slot[q] >= q => slot[0] >= q
      BY DEF IInv, StampsKept
    <3>2. slot'[q] = slot[q] /\ slot'[0] >= slot[0] /\ slot'[0] \in Nat /\ slot[0] \in Nat /\ q \in Nat
      BY <1>3, <1>11, <1>13, <2>1
    <3> QED
      BY <3>1, <3>2
  <2>3. ASSUME slot'[0] + 1 = q, trips'[0].with = q
        PROVE  /\ st'[q] \in {"pong", "result"}
               /\ \A k \in DOMAIN trips'[0].of :
                    k <= Len(stamps[q]) /\ stamps[q][k] = trips'[0].of[k][2]
    <3>1. p = q
      BY <1>10, <2>1, <2>3
    <3> QED
      BY <1>10, <1>11, <1>23, <2>1, <3>1
  <2> QED
    BY <2>2, <2>3
\* A result is for a rank that rank 0 has left behind.
<1>25. ASSUME NEW q \in Ranks, NEW off, ~enhanced, slot[0] >= q, Accurate(q, off)
       PROVE  Accurate(q, off)'
  <2>1. r = 0 /\ p = slot[0] + 1
    BY <1>21, <1>25
  <2>2. trips'[0].with # q
    BY <1>3, <1>10, <1>25, <2>1
  <2> QED
    BY <2>2 DEF Accurate
<1>26. OffsetsFound'
  <2> SUFFICES ASSUME NEW q \in Ranks, offset[q] # << >>
               PROVE  ~enhanced /\ q # 0 /\ slot'[q] >= q /\ Accurate(q, offset[q][1])'
    BY <1>2, <1>3 DEF OffsetsFound, Accurate
  <2>1. ~enhanced /\ q # 0 /\ slot[q] >= q /\ Accurate(q, offset[q][1])
    BY DEF IInv, OffsetsFound
  <2>2. slot[0] >= q
    BY <2>1 DEF IInv, StampsKept
  <2>3. PICK off : off = offset[q][1]
    OBVIOUS
  <2>4. Accurate(q, off)'
    BY <1>25, <2>1, <2>2, <2>3
  <2>5. slot'[q] >= q
    BY <1>3, <1>13, <2>1
  <2> QED
    BY <1>2, <2>1, <2>3, <2>4, <2>5 DEF Accurate
\* The other messages.
<1>27. m.tag < LoopCount /\ MasterOf(m) = r
  BY <1>3, <1>4, <1>6 DEF MasterOf
<1>28. ASSUME NEW o \in net, o # m
       PROVE  (IsPing(o) \/ IsPong(o) \/ IsResult(o))'
  <2>1. o.from \in Ranks /\ o.to \in Ranks /\ (IsPing(o) \/ IsPong(o) \/ IsResult(o))
    BY DEF IInv, Mail
  <2>2. o.tag < LoopCount => MasterOf(o) # r
    BY <1>27, <1>28 DEF IInv, Mail
  <2>3. CASE IsPing(o)
    <3>1. o.tag < LoopCount /\ MasterOf(o) = o.from
      BY <2>1, <2>3 DEF IsPing, MasterOf, IInv, Meetings
    <3>2. o.from # r
      BY <2>2, <3>1
    <3> QED
      BY <1>2, <1>11, <1>12, <2>1, <2>3, <3>2 DEF IsPing
  <2>4. CASE IsPong(o)
    <3>1. o.tag < LoopCount /\ o.to < o.from
      BY <2>1, <2>4 DEF IsPong, IInv, Meetings
    <3>2. o.to # r
      BY <1>3, <2>1, <2>2, <3>1 DEF MasterOf
    <3>3. ~enhanced => o.from # r
      BY <1>2, <2>4 DEF IsPong
    <3>4. /\ st'[o.to] = "await" /\ Peer(o.to)' = o.from /\ i'[o.to] = i[o.to]
          /\ (~enhanced => st'[o.from] = st[o.from])
      BY <1>11, <1>12, <2>1, <2>4, <3>2, <3>3 DEF IsPong
    <3> QED
      BY <1>2, <2>1, <2>4, <3>4 DEF IsPong
  <2>5. CASE IsResult(o)
    <3>1. /\ ~enhanced /\ o.to # r /\ slot[0] >= o.to
          /\ Accurate(o.to, o.stamp[2] - stamps[o.to][o.stamp[1] + 1])
      BY <1>2, <2>5 DEF IsResult
    <3>2. PICK off : off = o.stamp[2] - stamps[o.to][o.stamp[1] + 1]
      OBVIOUS
    <3>3. Accurate(o.to, off)'
      BY <1>25, <2>1, <3>1, <3>2
    <3>4. slot'[0] >= o.to /\ st'[o.to] = st[o.to]
      <4>1. /\ slot'[0] >= slot[0] /\ slot[0] >= o.to /\ st'[o.to] = st[o.to]
            /\ slot'[0] \in Nat /\ slot[0] \in Nat /\ o.to \in Nat
        BY <1>3, <1>11, <1>13, <2>1, <3>1
      <4> QED
        BY <4>1
    <3> QED
      <4>1. o.stamp[2] - stamps'[o.to][o.stamp[1] + 1] = off
        BY <1>2, <3>2
      <4>2. Accurate(o.to, o.stamp[2] - stamps[o.to][o.stamp[1] + 1])'
        BY <3>3, <4>1 DEF Accurate
      <4> QED
        BY <1>2, <2>5, <3>4, <4>2 DEF IsResult
  <2> QED
    BY <2>1, <2>3, <2>4, <2>5
\* The time sync_master sends is as accurate as the shortest trip.
<1>29. ASSUME i[r] = LoopCount - 1, ~enhanced
       PROVE  n.from \in Ranks /\ n.to \in Ranks /\ n.arrives \in Nat /\ n.to = p /\ p # 0
              /\ n.tag = LoopCount /\ IsResult(n)'
  <2>1. r = 0 /\ p = slot[0] + 1 /\ p # 0 /\ i[0] + 1 = LoopCount
    BY <1>3, <1>21, <1>29
  <2>2. /\ n.from = 0 /\ n.to = p /\ n.tag = LoopCount /\ n.arrives = t + delay
        /\ n.stamp[1] = b.min /\ n.stamp[2] = SyncTime(b)
    BY <1>1, <2>1
  <2>3. st'[p] = "result"
    <3>1. LoopCount <= Len(stamps[p]) /\ st[p] \in {"pong", "result"}
      BY <1>1, <1>6, <1>29, <2>1 DEF IsPong
    <3>2. st[p] # "pong"
      <4>1. st[p] = "pong" => i[p] < LoopCount /\ Len(stamps[p]) = i[p]
        BY <1>4 DEF IInv, Meetings
      <4>2. i[p] \in Nat /\ LoopCount \in Nat
        BY <1>3, <1>4
      <4> QED
        BY <3>1, <4>1, <4>2
    <3> QED
      BY <1>4, <1>11, <2>1, <3>1, <3>2
  <2>4. slot'[0] = p
    BY <1>13, <1>29, <2>1
  <2>5. /\ b.min \in Nat /\ b.min + 1 \in 1 .. LoopCount
        /\ b.t1 = trips'[0].of[b.min + 1][1]
        /\ b.t2 = trips'[0].of[b.min + 1][2]
        /\ b.t4 = trips'[0].of[b.min + 1][3]
        /\ \A k \in 1 .. LoopCount : b.t4 - b.t1 <= trips'[0].of[k][3] - trips'[0].of[k][1]
    <3>1. b.min \in Nat
      BY <1>15 DEF Samples
    <3>2. ~enhanced' /\ best'[0] = b /\ DOMAIN trips'[0].of = 1 .. LoopCount /\ trips'[0].of # << >>
      BY <1>2, <1>10, <1>11, <1>29, <2>1
    <3> QED
      BY <1>22, <3>1, <3>2 DEF ShortestKept
  <2>6. stamps[p][b.min + 1] = b.t2
    BY <1>23, <1>29, <2>1, <2>5
  <2>7. /\ b.t1 - Skew[0] <= b.t2 - Skew[p] /\ b.t2 - Skew[p] <= b.t4 - Skew[0]
    <3>1. b.min + 1 \in DOMAIN trips'[0].of /\ trips'[0].with = p /\ 0 \in Ranks'
      BY <1>3, <1>10, <2>1, <2>5
    <3> QED
      BY <1>19, <2>5, <3>1 DEF TripsTrue
  <2>8. PICK x \in Int : x = b.t2 - Skew[p] + Skew[0]
    <3>1. b.t2 \in Int /\ Skew[p] \in Int /\ Skew[0] \in Int
      BY <1>3, <1>4, <1>15 DEF Samples
    <3> QED
      BY <3>1
  <2>9. b.t1 \in Int /\ b.t2 \in Int /\ b.t4 \in Int /\ Skew[p] \in Int /\ Skew[0] \in Int
    BY <1>3, <1>4, <1>15 DEF Samples
  <2>10. b.t1 <= x /\ x <= b.t4
    BY <2>7, <2>8, <2>9, BetweenTimes
  <2>11. PICK off : off = n.stamp[2] - stamps[p][n.stamp[1] + 1]
    OBVIOUS
  <2>12. off = SyncTime(b) - b.t2
    BY <2>2, <2>6, <2>11
  <2>13. ASSUME NEW k \in 1 .. LoopCount
         PROVE  /\ 2 * (off - (Skew[0] - Skew[p])) <= trips'[0].of[k][3] - trips'[0].of[k][1] + 1
                /\ -2 * (off - (Skew[0] - Skew[p])) <= trips'[0].of[k][3] - trips'[0].of[k][1] + 1
    <3>1. PICK round : round = trips'[0].of[k][3] - trips'[0].of[k][1]
      OBVIOUS
    <3>2. round \in Int
      <4>1. trips'[0].of[k] \in Int \X Int \X Int
        BY <1>10, <2>1, <2>13
      <4> QED
        BY <3>1, <4>1
    <3>3. b.t4 - b.t1 <= round
      BY <2>5, <3>1
    <3>4. PICK y : y = SyncTime(b)
      OBVIOUS
    <3>7. y \in Int /\ 2 * (y - x) <= round + 1 /\ -2 * (y - x) <= round + 1
      <4>1. y = b.t1 + (b.t4 - b.t1) \div 2
        BY <3>4 DEF SyncTime
      <4> QED
        BY <2>8, <2>9, <2>10, <3>2, <3>3, <4>1, MiddleFits
    <3>5. y - b.t2 - (Skew[0] - Skew[p]) = y - x
      BY <2>8, <2>9, <3>7
    <3>6. off - (Skew[0] - Skew[p]) = y - x
      BY <2>12, <3>4, <3>5
    <3> QED
      BY <3>1, <3>6, <3>7
  <2>14. SyncTime(b) \in Int
    BY <2>9 DEF SyncTime
  <2>15. Accurate(p, off)'
    <3>1. DOMAIN trips'[0].of = 1 .. LoopCount
      BY <1>10, <2>1
    <3> QED
      BY <2>13, <3>1 DEF Accurate
  <2>16. n.stamp[1] \in Nat /\ n.stamp[1] < LoopCount /\ n.stamp[2] \in Int /\ slot'[0] >= p
    BY <1>3, <1>4, <2>2, <2>4, <2>5, <2>14
  <2>17. n.arrives \in Nat
    BY <1>3, <1>7, <2>2
  <2> QED
    BY <1>2, <1>3, <1>4, <1>29, <2>1, <2>2, <2>3, <2>11, <2>15, <2>16, <2>17 DEF IsResult, Accurate
<1>30. Mail'
  <2>1. net' \subseteq net \cup {n}
    BY <1>2
  <2>2. ASSUME NEW o \in net'
        PROVE  (o \in net /\ o # m) \/ (o = n /\ i[r] = LoopCount - 1 /\ ~enhanced)
    <3>1. CASE i[r] = LoopCount - 1 /\ ~enhanced
      BY <1>2, <2>2, <3>1
    <3>2. CASE ~(i[r] = LoopCount - 1 /\ ~enhanced)
      BY <1>2, <2>2, <3>2
    <3> QED
      BY <3>1, <3>2
  <2>3. ASSUME NEW o \in net'
        PROVE  /\ o.from \in Ranks /\ o.to \in Ranks /\ o.arrives \in Nat
               /\ (IsPing(o) \/ IsPong(o) \/ IsResult(o))'
    <3>1. CASE o = n /\ i[r] = LoopCount - 1 /\ ~enhanced
      BY <1>29, <3>1
    <3>2. CASE o \in net /\ o # m
      BY <1>28, <3>2 DEF IInv, Mail
    <3> QED
      BY <2>2, <3>1, <3>2
  <2>4. ASSUME NEW o \in net', NEW x \in net', o.tag < LoopCount, x.tag < LoopCount,
               MasterOf(o) = MasterOf(x)
        PROVE  o = x
    <3>1. ~(LoopCount < LoopCount)
      BY <1>3
    <3>2. o \in net /\ x \in net
      BY <1>29, <2>2, <2>4, <3>1
    <3> QED
      BY <2>4, <3>2 DEF IInv, Mail
  \* A rank for which a result is under way is behind rank 0.
  <2>5. ASSUME NEW o \in net, o.tag = LoopCount, ~enhanced, i[r] = LoopCount - 1
        PROVE  o.to # p
    <3>1. o.from \in Ranks /\ o.to \in Ranks /\ (IsPing(o) \/ IsPong(o) \/ IsResult(o))
      BY DEF IInv, Mail
    <3>2. IsResult(o)
      <4>1. ~IsPing(o)
        BY <1>3, <2>5, <3>1 DEF IsPing, IInv, Meetings
      <4>2. ~IsPong(o)
        <5>1. IsPong(o) => i[o.to] < LoopCount /\ o.tag = i[o.to]
          BY <3>1 DEF IsPong, IInv, Meetings
        <5> QED
          BY <1>3, <2>5, <5>1
      <4> QED
        BY <3>1, <4>1, <4>2
    <3>3. slot[0] >= o.to /\ p = slot[0] + 1
      BY <1>21, <2>5, <3>2 DEF IsResult
    <3> QED
      BY <1>3, <3>1, <3>3
  <2>6. ASSUME NEW o \in net', NEW x \in net', o.tag = LoopCount, x.tag = LoopCount, o.to = x.to
        PROVE  o = x
    <3>1. CASE o \in net /\ x \in net
      BY <2>6, <3>1 DEF IInv, Mail
    <3>2. CASE ~(o \in net /\ x \in net)
      <4>1. ~enhanced /\ i[r] = LoopCount - 1
        BY <2>2, <3>2
      <4>2. n.to = p
        BY <1>29, <4>1
      <4>3. (o \in net => o.to # p) /\ (x \in net => x.to # p)
        BY <2>5, <2>6, <4>1
      <4> QED
        BY <2>2, <2>6, <3>2, <4>2, <4>3
    <3> QED
      BY <3>1, <3>2
  <2> QED
    BY <1>3, <2>3, <2>4, <2>6 DEF Mail, MasterOf
<1> QED
  BY <1>16, <1>17, <1>18, <1>19, <1>20, <1>22, <1>24, <1>26, <1>30 DEF IInv

\* sync_slave finds its offset.
LEMMA ResultIInv ==
  ASSUME IInv, NEW r \in Ranks, Result(r)
  PROVE  IInv'
<1>0. PICK m \in net :
        /\ m.from = Peer(r) /\ m.to = r /\ m.tag = LoopCount
        /\ now' = [now EXCEPT ![r] = Later(@, m.arrives)]
        /\ offset' = [offset EXCEPT ![r] = <<m.stamp[2] - stamps[r][m.stamp[1] + 1]>>]
        /\ net' = net \ {m}
  BY DEF Result
<1>1. PICK t, off : t = Later(now[r], m.arrives) /\ off = m.stamp[2] - stamps[r][m.stamp[1] + 1]
  OBVIOUS
<1>2. /\ st[r] = "result" /\ now' = [now EXCEPT ![r] = t] /\ offset' = [offset EXCEPT ![r] = <<off>>]
      /\ net' = net \ {m} /\ st' = [st EXCEPT ![r] = "idle"]
      /\ slot' = [slot EXCEPT ![r] = slot[r] + 1]
      /\ UNCHANGED <<size, enhanced, i, tsend, best, stamps, trips>>
  BY <1>0, <1>1 DEF Result
<1>3. /\ size \in Nat \ {0, 1} /\ 0 \in Ranks /\ LoopCount \in Nat \ {0}
      /\ \A q \in Ranks : /\ q \in Nat /\ q < size /\ slot[q] \in Nat /\ i[q] \in Nat
                          /\ now[q] \in Nat /\ stamps[q] \in Seq(Int) /\ Len(stamps[q]) \in Nat
      /\ Ranks' = Ranks
  BY <1>2, Basics DEF Ranks
<1>4. Peer(r) \in Ranks /\ ~enhanced /\ Len(stamps[r]) = LoopCount
  BY <1>2 DEF IInv, Meetings
<1>5. /\ m.from \in Ranks /\ m.to \in Ranks /\ m.arrives \in Nat
      /\ IsPing(m) \/ IsPong(m) \/ IsResult(m)
  BY DEF IInv, Mail
<1>6. IsResult(m)
  <2>1. ~IsPing(m)
    BY <1>0, <1>3, <1>5 DEF IsPing, IInv, Meetings
  <2>2. ~IsPong(m)
    BY <1>0, <1>2 DEF IsPong
  <2> QED
    BY <1>5, <2>1, <2>2
<1>7. /\ r # 0 /\ slot[0] >= r /\ m.stamp[1] \in Nat /\ m.stamp[1] < LoopCount
      /\ m.stamp[2] \in Int /\ Accurate(r, off)
  BY <1>0, <1>1, <1>6 DEF IsResult
<1>8. t \in Nat
  BY <1>1, <1>3, <1>5, LaterFacts
<1>9. off \in Int
  <2>1. PICK k \in Nat : k = m.stamp[1] /\ k < LoopCount
    BY <1>7
  <2>2. stamps[r][k + 1] \in Int
    <3>1. k + 1 \in 1 .. LoopCount
      BY <1>3, <2>1
    <3>2. stamps[r] \in Seq(Int) /\ Len(stamps[r]) = LoopCount
      BY <1>3, <1>4
    <3> QED
      BY <3>1, <3>2
  <2> QED
    BY <1>1, <1>7, <2>2
\* The slave is in its only meeting.
<1>10. r = slot[r] + 1
  <2>1. r # slot[r] + 1 => Peer(r) = size
    BY <1>4, <1>7, SyncPartner
  <2>2. Peer(r) # size
    BY <1>3, <1>4
  <2> QED
    BY <2>1, <2>2
<1>11. /\ st'[r] = "idle" /\ slot'[r] = slot[r] + 1 /\ slot'[r] = r
       /\ offset'[r] = <<off>> /\ offset'[r][1] = off
       /\ \A q \in Ranks : q # r => /\ st'[q] = st[q] /\ slot'[q] = slot[q]
                                    /\ offset'[q] = offset[q]
  BY <1>2, <1>10 DEF IInv, Types
<1>12. \A q \in Ranks : q # r => Peer(q)' = Peer(q)
  BY <1>2, <1>11, PeerSame
<1>13. Types'
  <2>1. st' \in [Ranks -> States] /\ now' \in [Ranks -> Nat]
    BY <1>2, <1>8 DEF IInv, Types, States
  <2>2. slot' \in [Ranks -> Nat]
    <3>1. slot[r] + 1 \in Nat
      BY <1>3
    <3> QED
      BY <1>2, <3>1 DEF IInv, Types
  <2>3. offset' \in [Ranks -> Seq(Int)]
    <3>1. <<off>> \in Seq(Int)
      BY <1>9
    <3> QED
      BY <1>2, <3>1 DEF IInv, Types
  <2> QED
    BY <1>2, <1>3, <2>1, <2>2, <2>3 DEF IInv, Types
<1>14. Meetings'
  BY <1>2, <1>3, <1>11, <1>12 DEF IInv, Meetings
<1>15. ASSUME NEW o \in net, o # m
       PROVE  (IsPing(o) \/ IsPong(o) \/ IsResult(o))'
  <2>1. o.from \in Ranks /\ o.to \in Ranks /\ (IsPing(o) \/ IsPong(o) \/ IsResult(o))
    BY DEF IInv, Mail
  <2>2. CASE IsPing(o)
    BY <1>2, <1>11, <1>12, <2>1, <2>2 DEF IsPing
  <2>3. CASE IsPong(o)
    <3>1. o.to # r /\ st[o.to] = "await" /\ Peer(o.to) = o.from /\ o.to < o.from
      BY <1>2, <2>3 DEF IsPong
    \* Rank 0 is past the slot in which it met r.
    <3>2. o.from # r
      <4>1. CASE o.to = 0
        <5>1. o.from = slot[0] + 1
          BY <1>4, <3>1, <4>1, SyncPartner
        <5> QED
          BY <1>3, <1>7, <5>1
      <4>2. CASE o.to # 0
        <5>1. o.from \in {0, size}
          BY <1>4, <3>1, <4>2, SyncPartner
        <5> QED
          BY <1>3, <1>7, <2>1, <5>1
      <4> QED
        BY <4>1, <4>2
    <3> QED
      BY <1>2, <1>11, <1>12, <2>1, <2>3, <3>1, <3>2 DEF IsPong
  <2>4. CASE IsResult(o)
    <3>1. o.to # r
      BY <1>0, <1>15, <2>4 DEF IsResult, IInv, Mail
    <3>2. slot'[0] = slot[0]
      BY <1>3, <1>7, <1>11
    <3> QED
      BY <1>2, <1>11, <2>1, <2>4, <3>1, <3>2 DEF IsResult, Accurate
  <2> QED
    BY <2>1, <2>2, <2>3, <2>4
<1>16. Mail'
  BY <1>2, <1>3, <1>15 DEF IInv, Mail, MasterOf
<1>17. TripsTrue' /\ Sampled' /\ SkewBracketed' /\ ShortestKept'
  BY <1>2, <1>3 DEF IInv, TripsTrue, Sampled, SkewBracketed, ShortestKept
<1>18. StampsKept'
  <2> SUFFICES ASSUME NEW q \in Ranks, q # 0
               PROVE  /\ slot'[q] >= q => slot'[0] >= q
                      /\ slot'[0] + 1 = q /\ trips[0].with = q /\ trips[0].of # << >> =>
                           /\ st'[q] \in {"pong", "result"}
                           /\ \A k \in DOMAIN trips[0].of :
                                k <= Len(stamps[q]) /\ stamps[q][k] = trips[0].of[k][2]
    BY <1>2, <1>3, <1>4 DEF StampsKept
  <2>1. slot'[0] = slot[0]
    BY <1>3, <1>7, <1>11
  <2>2. CASE q = r
    <3>1. slot[0] >= q /\ slot[0] + 1 # q
      BY <1>3, <1>7, <2>2
    <3> QED
      BY <2>1, <3>1
  <2>3. CASE q # r
    BY <1>4, <1>11, <2>1, <2>3 DEF IInv, StampsKept
  <2> QED
    BY <2>2, <2>3
<1>19. OffsetsFound'
  <2> SUFFICES ASSUME NEW q \in Ranks, offset'[q] # << >>
               PROVE  ~enhanced /\ q # 0 /\ slot'[q] >= q /\ Accurate(q, offset'[q][1])
    BY <1>2, <1>3 DEF OffsetsFound, Accurate
  <2>1. CASE q = r
    BY <1>3, <1>4, <1>7, <1>11, <2>1
  <2>2. CASE q # r
    BY <1>4, <1>11, <2>2 DEF IInv, OffsetsFound
  <2> QED
    BY <2>1, <2>2
<1> QED
  BY <1>13, <1>14, <1>16, <1>17, <1>18, <1>19 DEF IInv

------------------------------------------------------------------------------
(* The theorem. *)

\* Before the first meeting there are no messages and no samples.
LEMMA InitIInv ==
  Init => IInv
<1> SUFFICES ASSUME Init PROVE IInv
  OBVIOUS
<1>1. size \in Nat \ {0, 1} /\ LoopCount \in Nat \ {0}
  BY ClockAssumption DEF Init
<1>2. 0 \in Ranks /\ Ranks \subseteq Nat
  BY <1>1 DEF Ranks
<1>3. Types
  <2>1. st \in [Ranks -> States] /\ best \in [Ranks -> {<< >>} \cup Samples]
    BY DEF Init, States
  <2>2. trips \in [Ranks -> Trips]
    <3>1. \A r \in Ranks : [with |-> r, of |-> << >>] \in Trips
      BY <1>2 DEF Trips
    <3> QED
      BY <3>1 DEF Init
  <2>3. stamps \in [Ranks -> Seq(Int)] /\ offset \in [Ranks -> Seq(Int)]
    BY DEF Init
  <2> QED
    BY <2>1, <2>2, <2>3 DEF Init, Types
<1>4. \A r \in Ranks : /\ st[r] = "idle" /\ trips[r].of = << >> /\ DOMAIN trips[r].of = {}
                       /\ offset[r] = << >> /\ slot[r] = 0
  BY DEF Init
<1>5. Meetings
  BY <1>4 DEF Meetings
<1>6. Mail
  BY DEF Init, Mail
<1>7. TripsTrue /\ Sampled /\ SkewBracketed /\ ShortestKept
  BY <1>2, <1>4 DEF TripsTrue, Sampled, SkewBracketed, ShortestKept
<1>8. StampsKept /\ OffsetsFound
  <2>1. \A q \in Ranks : q # 0 => ~(slot[q] >= q)
    BY <1>2, <1>4
  <2> QED
    BY <1>2, <1>4, <2>1 DEF StampsKept, OffsetsFound
<1> QED
  BY <1>3, <1>5, <1>6, <1>7, <1>8 DEF IInv

\* Each step of the meetings, and standing still.
LEMMA NextIInv ==
  IInv /\ [Next]_vars => IInv'
<1> SUFFICES ASSUME IInv, [Next]_vars PROVE IInv'
  OBVIOUS
<1>1. ASSUME NEW r \in Ranks, Meet(r) PROVE IInv'
  BY <1>1, SkipIInv, MeetIInv
<1>2. ASSUME NEW r \in Ranks, NEW delay \in Delays[size],
             Ping(r, delay) \/ Pong(r, delay) \/ Answer(r, delay)
      PROVE  IInv'
  BY <1>2, PingIInv, PongIInv, AnswerIInv
<1>3. ASSUME NEW r \in Ranks, Result(r) PROVE IInv'
  BY <1>3, ResultIInv
<1>4. CASE UNCHANGED vars
  BY <1>4 DEF vars, IInv, Types, Meetings, Mail, TripsTrue, Sampled, SkewBracketed, ShortestKept,
              StampsKept, OffsetsFound, IsPing, IsPong, IsResult, Accurate, MasterOf, Ranks, Peer,
              Partner, esync_commpartner, Half
<1> QED
  BY <1>1, <1>2, <1>3, <1>4 DEF Next, Step

\* What the invariant says of the offsets handed to the nodes.
LEMMA IInvMeasuredWell ==
  IInv => MeasuredWell
<1> SUFFICES ASSUME IInv PROVE OffsetAccurate
  BY DEF IInv, MeasuredWell
<1>1. ASSUME NEW r \in Ranks, offset[r] # << >>, trips[0].with = r
      PROVE  \A k \in DOMAIN trips[0].of :
               LET round == trips[0].of[k][3] - trips[0].of[k][1]
                   err   == offset[r][1] - (Skew[0] - Skew[r])
               IN 2 * err <= round + 1 /\ -2 * err <= round + 1
  BY <1>1 DEF IInv, OffsetsFound, Accurate
<1> QED
  BY <1>1 DEF OffsetAccurate

\* Whatever the transfer times and the clocks, the measurement esync_master
\* stores brackets the true difference of the two clocks as tightly as its
\* ping-pong messages allow, and the offset sync_slave finds is wrong by no
\* more than half of its shortest round trip.
THEOREM ClocksMeasuredWell == Spec => []MeasuredWell
<1>1. Init => IInv
  BY InitIInv
<1>2. IInv /\ [Next]_vars => IInv'
  BY NextIInv
<1>3. IInv => MeasuredWell
  BY IInvMeasuredWell
<1> QED
  BY <1>1, <1>2, <1>3, PTL DEF Spec
\* Every meeting that a master of vt_esync has left behind is stored.
MeasuredAll ==
  enhanced => \A r \in Ranks : \A s \in 0 .. slot[r] - 1 :
    r < Partner(r, s) /\ Partner(r, s) < size =>
      \E e \in measured : e.id1 = r /\ e.id2 = Partner(r, s)

------------------------------------------------------------------------------
(* The schedule of the meetings. *)

\* A number that is a multiple of h and a rest.
LEMMA RestOf ==
  ASSUME NEW h \in Nat \ {0}, NEW q \in Int, NEW r \in 0 .. h - 1, NEW n, n = h * q + r
  PROVE  (n % h) = r
OBVIOUS

\* Every number is a multiple of h and a rest.
LEMMA Division ==
  ASSUME NEW h \in Nat \ {0}, NEW n \in Int
  PROVE  \E q \in Int : (n % h) \in 0 .. h - 1 /\ n = h * q + (n % h)
<1>1. PICK q \in Int, r \in Int : q = n \div h /\ r = (n % h)
  OBVIOUS
<1>2. n = h * q + r /\ 0 <= r /\ r < h
  BY <1>1
<1>3. r \in 0 .. h - 1
  BY <1>2
<1> QED
  BY <1>1, <1>2, <1>3

\* The first half's formula, in numbers of one round.
LEMMA FirstRest ==
  ASSUME NEW h \in Nat \ {0}, NEW id \in 0 .. h - 1, NEW m \in 0 .. h - 1
  PROVE  ((h - 1 - (id - m)) % h) = IF m <= id THEN h - 1 - id + m ELSE m - id - 1
OBVIOUS

\* The second half's formula, if the round has not yet wrapped around.
LEMMA SecondRestBelow ==
  ASSUME NEW h \in Nat \ {0}, NEW y \in 0 .. h - 1, NEW m \in 0 .. h - 1, NEW q \in Int, m <= y
  PROVE  ((h - 1 - y + h + (h * q + m)) % h) = h - 1 - y + m
<1>1. PICK a \in Int, b \in 0 .. h - 1 : a = q + 1 /\ b = h - 1 - y + m
  <2>1. q + 1 \in Int /\ h - 1 - y + m \in 0 .. h - 1
    OBVIOUS
  <2> QED
    BY <2>1
<1>2. h - 1 - y + h + (h * q + m) = h * (q + 1) + (h - 1 - y + m)
  OBVIOUS
<1>3. PICK n : n = h - 1 - y + h + (h * q + m)
  OBVIOUS
<1>4. n = h * a + b
  BY <1>1, <1>2, <1>3
<1>5. (n % h) = b
  BY <1>1, <1>4, RestOf
<1> QED
  BY <1>1, <1>3, <1>5

\* The second half's formula, if it has.
LEMMA SecondRestAbove ==
  ASSUME NEW h \in Nat \ {0}, NEW y \in 0 .. h - 1, NEW m \in 0 .. h - 1, NEW q \in Int, ~(m <= y)
  PROVE  ((h - 1 - y + h + (h * q + m)) % h) = m - y - 1
<1>1. m - y - 1 \in 0 .. h - 1
  OBVIOUS
<1>2. h - 1 - y + h + (h * q + m) = h * (q + 2) + (m - y - 1)
  OBVIOUS
<1>3. q + 2 \in Int
  OBVIOUS
<1> QED
  BY <1>1, <1>2, <1>3, RestOf

\* The reflection that the second half's formula starts with.
LEMMA Reflection ==
  ASSUME NEW h \in Nat \ {0}, NEW y \in 0 .. h - 1
  PROVE  (((h - 1) * (h + y - h + 1)) % h) = h - 1 - y
<1>1. h + y - h + 1 = y + 1
  OBVIOUS
<1>2. (h - 1) * (y + 1) = h * y + (h - 1 - y)
  OBVIOUS
<1>3. h - 1 - y \in 0 .. h - 1
  OBVIOUS
<1> QED
  BY <1>1, <1>2, <1>3, RestOf

\* The partner of a rank in the first half.
LEMMA FirstHalf ==
  ASSUME size \in Nat \ {0, 1}, NEW id \in 0 .. Half - 1, NEW s \in Nat, NEW m, m = (s % Half)
  PROVE  /\ m \in 0 .. Half - 1
         /\ esync_commpartner(id, s) = Half + (IF m <= id THEN Half - 1 - id + m ELSE m - id - 1)
<1>1. PICK h \in Nat \ {0} : h = Half
  BY DEF Half
<1>2. m \in 0 .. h - 1 /\ (s % h) = m
  <2>1. (s % h) = m /\ s \in Int
    BY <1>1
  <2> QED
    BY <2>1, Division
<1>3. id \in 0 .. h - 1 /\ id < h
  BY <1>1
<1>4. PICK x : x = ((h - 1 - (id - m)) % h)
  OBVIOUS
<1>5. x = IF m <= id THEN h - 1 - id + m ELSE m - id - 1
  BY <1>2, <1>3, <1>4, FirstRest
<1>6. esync_commpartner(id, s) = x + h
  BY <1>1, <1>2, <1>3, <1>4 DEF esync_commpartner
<1>7. x + h = h + x
  BY <1>2, <1>3, <1>5
<1> QED
  BY <1>1, <1>2, <1>5, <1>6, <1>7

\* The partner of a rank in the second half.
LEMMA SecondHalf ==
  ASSUME size \in Nat \ {0, 1}, NEW y \in 0 .. Half - 1, NEW s \in Nat, NEW m, m = (s % Half)
  PROVE  /\ m \in 0 .. Half - 1
         /\ esync_commpartner(Half + y, s) = IF m <= y THEN Half - 1 - y + m ELSE m - y - 1
<1>1. PICK h \in Nat \ {0} : h = Half
  BY DEF Half
<1>2. PICK q \in Int : m \in 0 .. h - 1 /\ s = h * q + m
  <2>1. (s % h) = m /\ s \in Int
    BY <1>1
  <2> QED
    BY <2>1, Division
<1>3. y \in 0 .. h - 1 /\ ~(h + y < h)
  BY <1>1
<1>4. (((h - 1) * (h + y - h + 1)) % h) = h - 1 - y
  BY <1>3, Reflection
<1>5. PICK z : z = ((h - 1 - y + h + (h * q + m)) % h)
  OBVIOUS
<1>6. CASE m <= y
  <2>1. z = h - 1 - y + m
    BY <1>2, <1>3, <1>5, <1>6, SecondRestBelow
  <2>2. esync_commpartner(h + y, s) = z
    BY <1>1, <1>2, <1>3, <1>4, <1>5 DEF esync_commpartner
  <2> QED
    BY <1>1, <1>2, <1>6, <2>1, <2>2
<1>7. CASE ~(m <= y)
  <2>1. z = m - y - 1
    BY <1>2, <1>3, <1>5, <1>7, SecondRestAbove
  <2>2. esync_commpartner(h + y, s) = z
    BY <1>1, <1>2, <1>3, <1>4, <1>5 DEF esync_commpartner
  <2> QED
    BY <1>1, <1>2, <1>7, <2>1, <2>2
<1> QED
  BY <1>6, <1>7

\* Whoever has a partner in a slot is that rank's partner in the slot.
LEMMA Mutual ==
  ASSUME size \in Nat \ {0, 1}, NEW r \in Ranks, NEW s \in Nat, Partner(r, s) < size
  PROVE  Partner(Partner(r, s), s) = r
<1>1. CASE ~enhanced
  BY <1>1 DEF Partner, Ranks
<1>2. CASE enhanced
  <2>1. PICK h \in Nat \ {0} : h = Half /\ size <= 2 * h
    BY DEF Half
  <2>2. PICK m : m = (s % Half)
    OBVIOUS
  <2>3. CASE r < h
    <3>1. r \in 0 .. Half - 1
      BY <2>1, <2>3 DEF Ranks
    <3>2. PICK y : y = IF m <= r THEN Half - 1 - r + m ELSE m - r - 1
      OBVIOUS
    <3>3. m \in 0 .. Half - 1 /\ Partner(r, s) = Half + y
      BY <1>2, <2>2, <3>1, <3>2, FirstHalf DEF Partner
    <3>4. y \in 0 .. Half - 1
      BY <2>1, <3>1, <3>2, <3>3
    <3>5. Partner(Half + y, s) = IF m <= y THEN Half - 1 - y + m ELSE m - y - 1
      BY <1>2, <2>2, <3>4, SecondHalf DEF Partner
    <3>6. (IF m <= y THEN Half - 1 - y + m ELSE m - y - 1) = r
      BY <2>1, <3>1, <3>2, <3>3, <3>4
    <3> QED
      BY <3>3, <3>5, <3>6
  <2>4. CASE ~(r < h)
    <3>1. PICK y \in 0 .. Half - 1 : r = Half + y
      <4>1. r - h \in 0 .. h - 1 /\ r = h + (r - h)
        BY <2>1, <2>4 DEF Ranks
      <4> QED
        BY <2>1, <4>1
    <3>2. PICK p : p = IF m <= y THEN Half - 1 - y + m ELSE m - y - 1
      OBVIOUS
    <3>3. m \in 0 .. Half - 1 /\ Partner(r, s) = p
      BY <1>2, <2>2, <3>1, <3>2, SecondHalf DEF Partner
    <3>4. p \in 0 .. Half - 1
      BY <2>1, <3>1, <3>2, <3>3
    <3>5. Partner(p, s) = Half + (IF m <= p THEN Half - 1 - p + m ELSE m - p - 1)
      BY <1>2, <2>2, <3>4, FirstHalf DEF Partner
    <3>6. (IF m <= p THEN Half - 1 - p + m ELSE m - p - 1) = y
      BY <2>1, <3>1, <3>2, <3>3, <3>4
    <3> QED
      BY <3>1, <3>3, <3>5, <3>6
  <2> QED
    BY <2>3, <2>4
<1> QED
  BY <1>1, <1>2

------------------------------------------------------------------------------
(* The number of slots. *)

\* Induction over the natural numbers, for a set of them.
LEMMA NaturalsBySet ==
  ASSUME NEW S, 0 \in S, \A n \in Nat : n \in S => n + 1 \in S
  PROVE  Nat \subseteq S
<1> DEFINE T == Nat \ S
<1>1. SUFFICES ASSUME T # {} PROVE FALSE
  OBVIOUS
<1>2. PICK m \in T : \A n \in T : ~(<<n, m>> \in OpToRel(<, Nat))
  BY <1>1, WFMin, NatLessThanWellFounded, Zenon
<1>3. m \in Nat /\ m # 0 /\ m - 1 \in Nat
  OBVIOUS
<1>4. m - 1 \in T
  BY <1>3
<1>5. <<m - 1, m>> \in OpToRel(<, Nat)
  BY <1>3 DEF OpToRel
<1> QED
  BY <1>2, <1>4, <1>5, Zenon

\* The first n values of g are powers of two.
Doubles(g, n) == g[0] = 1 /\ \A k \in 1 .. n : g[k] = 2 * g[k - 1]

\* The recursive definition defines what it says.
LEMMA PowerOfTwoIs ==
  ASSUME size \in Nat
  PROVE  Doubles(PowerOfTwo, size)
<1> DEFINE Eq(F) == F = [k \in 0 .. size |-> IF k = 0 THEN 1 ELSE 2 * F[k - 1]]
           C == CHOOSE F : Eq(F)
           S == {n \in Nat : \E g : Doubles(g, n)}
<1>1. PowerOfTwo = C
  BY DEF PowerOfTwo
<1>2. 0 \in S
  <2>1. Doubles([k \in {0} |-> 1], 0)
    BY DEF Doubles
  <2> QED
    BY <2>1
<1>3. ASSUME NEW n \in Nat, n \in S PROVE n + 1 \in S
  <2>1. PICK g : Doubles(g, n)
    BY <1>3
  <2> DEFINE h == [k \in 0 .. n + 1 |-> IF k = n + 1 THEN 2 * g[n] ELSE g[k]]
  <2>2. h[0] = 1
    BY <2>1 DEF Doubles
  <2>3. ASSUME NEW k \in 1 .. n + 1
        PROVE  h[k] = 2 * h[k - 1]
    <3>1. CASE k = n + 1
      <4>1. h[n + 1] = 2 * g[n] /\ h[n] = g[n] /\ k - 1 = n
        BY <3>1
      <4> HIDE DEF h
      <4> QED
        BY <3>1, <4>1
    <3>2. CASE k # n + 1
      <4>1. k \in 1 .. n /\ k \in 0 .. n + 1 /\ k - 1 \in 0 .. n + 1 /\ k - 1 # n + 1
        BY <3>2
      <4>2. h[k] = g[k] /\ h[k - 1] = g[k - 1]
        BY <3>2, <4>1
      <4> HIDE DEF h
      <4> QED
        BY <2>1, <4>1, <4>2 DEF Doubles
    <3> QED
      BY <3>1, <3>2
  <2> HIDE DEF h
  <2>4. Doubles(h, n + 1)
    BY <2>2, <2>3 DEF Doubles
  <2> QED
    BY <2>4
<1>4. PICK g : Doubles(g, size)
  <2> HIDE DEF S
  <2>1. Nat \subseteq S
    BY <1>2, <1>3, NaturalsBySet
  <2> QED
    BY <2>1 DEF S
<1> DEFINE G == [k \in 0 .. size |-> g[k]]
<1>5. Eq(G)
  <2> DEFINE H == [k \in 0 .. size |-> IF k = 0 THEN 1 ELSE 2 * G[k - 1]]
  <2>1. ASSUME NEW k \in 0 .. size PROVE G[k] = H[k]
    <3>1. CASE k = 0
      BY <1>4, <3>1 DEF Doubles
    <3>2. CASE k # 0
      <4>1. k \in 1 .. size /\ k - 1 \in 0 .. size
        BY <3>2
      <4>2. g[k] = 2 * g[k - 1]
        BY <1>4, <4>1 DEF Doubles
      <4>3. G[k] = g[k] /\ G[k - 1] = g[k - 1]
        BY <4>1
      <4>4. H[k] = 2 * G[k - 1]
        BY <3>2
      <4> HIDE DEF G, H
      <4> QED
        BY <4>2, <4>3, <4>4
    <3> QED
      BY <3>1, <3>2
  <2> QED
    BY <2>1
<1>6. Eq(C)
  <2> HIDE DEF Eq, G
  <2> QED
    BY <1>5
<1>7. Doubles(C, size)
  <2> HIDE DEF C
  <2>1. C[0] = 1
    BY <1>6
  <2>2. ASSUME NEW k \in 1 .. size
        PROVE  C[k] = 2 * C[k - 1]
    <3>1. k \in 0 .. size /\ k # 0
      OBVIOUS
    <3> QED
      BY <1>6, <3>1
  <2> QED
    BY <2>1, <2>2 DEF Doubles
<1> QED
  BY <1>1, <1>7

\* There are enough slots for the ranks to be connected: one for two of them,
\* two for more.
LEMMA SlotsEnough ==
  ASSUME size \in Nat \ {0, 1}
  PROVE  NumSlots \in Nat /\ NumSlots >= 1 /\ (size # 2 => NumSlots >= 2)
<1> DEFINE P == PowerOfTwo
           Fits(k) == P[k] >= size /\ (k = 0 \/ P[k - 1] < size)
           S == {n \in Nat : n <= size => P[n] \in Nat /\ P[n] >= n + 1}
           T == {k \in Nat : k <= size /\ P[k] >= size}
<1>1. P[0] = 1 /\ \A k \in 1 .. size : P[k] = 2 * P[k - 1]
  BY PowerOfTwoIs DEF Doubles
<1> HIDE DEF P
<1>2. Nat \subseteq S
  <2>1. 0 \in S
    BY <1>1
  <2>2. ASSUME NEW n \in Nat, n \in S PROVE n + 1 \in S
    <3>1. CASE n + 1 <= size
      <4>1. P[n] \in Nat /\ P[n] >= n + 1
        BY <2>2, <3>1
      <4>2. n + 1 \in 1 .. size /\ n + 1 - 1 = n
        BY <3>1
      <4>3. P[n + 1] = 2 * P[n]
        BY <1>1, <4>2
      <4>4. P[n + 1] \in Nat /\ P[n + 1] >= n + 1 + 1
        BY <4>1, <4>3
      <4> QED
        BY <4>4
    <3>2. CASE ~(n + 1 <= size)
      BY <3>2
    <3> QED
      BY <3>1, <3>2
  <2> HIDE DEF S
  <2> QED
    BY <2>1, <2>2, NaturalsBySet
<1>3. \A k \in 0 .. size : P[k] \in Nat /\ P[k] >= k + 1
  BY <1>2
<1>4. \E k \in 0 .. size : Fits(k)
  <2>1. size \in T
    <3>1. P[size] \in Nat /\ P[size] >= size + 1
      BY <1>3
    <3> QED
      BY <3>1
  <2>2. T \subseteq Nat /\ T # {}
    BY <2>1
  <2> HIDE DEF T
  <2>3. PICK m \in T : \A n \in T : ~(<<n, m>> \in OpToRel(<, Nat))
    BY <2>2, WFMin, NatLessThanWellFounded, Zenon
  <2>4. m \in Nat /\ m <= size /\ P[m] >= size
    <3>1. m \in T
      OBVIOUS
    <3> QED
      BY <3>1 DEF T
  <2>5. m # 0 => P[m - 1] < size
    <3> SUFFICES ASSUME m # 0 PROVE P[m - 1] < size
      OBVIOUS
    <3>1. m - 1 \in Nat /\ m - 1 < m /\ m - 1 <= size /\ m - 1 \in 0 .. size
      BY <2>4
    <3>2. <<m - 1, m>> \in OpToRel(<, Nat)
      BY <2>4, <3>1 DEF OpToRel
    <3>3. ~(P[m - 1] >= size)
      <4>1. m - 1 \notin T
        BY <2>3, <3>2, Zenon
      <4> QED
        BY <3>1, <4>1 DEF T
    <3>4. P[m - 1] \in Nat
      BY <1>3, <3>1
    <3> QED
      BY <3>3, <3>4
  <2> QED
    BY <2>4, <2>5
<1>5. NumSlots \in 0 .. size /\ Fits(NumSlots)
  <2>1. NumSlots = CHOOSE k \in 0 .. size : Fits(k)
    BY DEF NumSlots, P
  <2> HIDE DEF Fits
  <2> QED
    BY <1>4, <2>1
<1>6. NumSlots # 0
  BY <1>1, <1>5
<1>7. size # 2 => NumSlots # 1
  <2>1. 1 \in 1 .. size /\ 1 - 1 = 0
    OBVIOUS
  <2>2. P[1] = 2
    BY <1>1, <2>1
  <2> QED
    BY <1>5, <2>2
<1> QED
  BY <1>5, <1>6, <1>7

------------------------------------------------------------------------------
(* The measurements connect all ranks. *)

\* The ends of a measurement are linked.
LEMMA LinkedEnds ==
  ASSUME NEW reach, Linked(reach) = reach, NEW e \in measured
  PROVE  e.id1 \in reach <=> e.id2 \in reach
<1>1. e.id1 \in reach => e.id2 \in Linked(reach)
  BY DEF Linked
<1>2. e.id2 \in reach => e.id1 \in Linked(reach)
  BY DEF Linked
<1> QED
  BY <1>1, <1>2

\* A rank of the first half is linked to its partners in the first two slots.
LEMMA LinkedPartner ==
  ASSUME size \in Nat \ {0, 1}, enhanced, MeasuredAll, NEW reach, Linked(reach) = reach,
         NEW id \in 0 .. Half - 1, NEW s \in Nat, slot[id] \in Nat, s < slot[id], id \in Ranks,
         NEW p, p = esync_commpartner(id, s), p < size
  PROVE  id \in reach <=> p \in reach
<1>1. PICK h \in Nat : h = Half
  BY DEF Half
<1>2. PICK m : m = (s % Half)
  OBVIOUS
<1>3. p = Half + (IF m <= id THEN Half - 1 - id + m ELSE m - id - 1) /\ m \in 0 .. Half - 1
  BY <1>2, FirstHalf
<1>4. id < p
  BY <1>1, <1>3
<1>5. s \in 0 .. slot[id] - 1
  OBVIOUS
<1>6. Partner(id, s) = p
  BY DEF Partner
<1>7. PICK e \in measured : e.id1 = id /\ e.id2 = p
  BY <1>4, <1>5, <1>6 DEF MeasuredAll
<1> QED
  BY <1>7, LinkedEnds

\* The partners in the first two slots.
LEMMA FirstSlots ==
  ASSUME size \in Nat \ {0, 1}, NEW id \in 0 .. Half - 1
  PROVE  /\ esync_commpartner(id, 0) = Half + (Half - 1 - id)
         /\ size # 2 => esync_commpartner(id, 1) = Half + (IF id = 0 THEN 0 ELSE Half - id)
<1>1. PICK h \in Nat \ {0} : h = Half /\ (size # 2 => h # 1)
  BY DEF Half
<1>2. (0 % Half) = 0
  BY <1>1
<1>3. 0 <= id /\ Half - 1 - id + 0 = Half - 1 - id
  BY <1>1
<1>4. esync_commpartner(id, 0) = Half + (Half - 1 - id)
  <2>1. PICK m : m = (0 % Half)
    OBVIOUS
  <2>2. esync_commpartner(id, 0) = Half + (IF m <= id THEN Half - 1 - id + m ELSE m - id - 1)
    BY <2>1, FirstHalf
  <2> QED
    BY <1>2, <1>3, <2>1, <2>2
<1>5. ASSUME size # 2
      PROVE  esync_commpartner(id, 1) = Half + (IF id = 0 THEN 0 ELSE Half - id)
  <2>1. PICK m : m = (1 % Half)
    OBVIOUS
  <2>2. m = 1
    BY <1>1, <1>5, <2>1
  <2>3. esync_commpartner(id, 1) = Half + (IF m <= id THEN Half - 1 - id + m ELSE m - id - 1)
    BY <2>1, FirstHalf
  <2>4. (IF 1 <= id THEN Half - 1 - id + 1 ELSE 1 - id - 1) = (IF id = 0 THEN 0 ELSE Half - id)
    BY <1>1
  <2> QED
    BY <2>2, <2>3, <2>4
<1> QED
  BY <1>4, <1>5

\* From rank 0 the first two slots lead through all ranks: to the first of the
\* second half, from there to the last of the first half, to the second of the
\* second half, and so on.
LEMMA Connected ==
  ASSUME size \in Nat \ {0, 1}, enhanced, MeasuredAll, AllDone,
         NEW reach \in SUBSET Ranks, 0 \in reach, Linked(reach) = reach
  PROVE  reach = Ranks
<1>1. PICK h \in Nat \ {0} : /\ h = Half /\ size <= 2 * h /\ 2 * h <= size + 1
                             /\ (size # 2 => h # 1) /\ (size = 2 => h = 1)
  BY DEF Half
<1>2. NumSlots \in Nat /\ NumSlots >= 1 /\ (size # 2 => NumSlots >= 2)
  BY SlotsEnough
<1>3. \A id \in Ranks : slot[id] = NumSlots
  BY DEF AllDone, Slots
<1>4. \A id \in 0 .. h - 1 : id \in Ranks
  BY <1>1 DEF Ranks
<1>5. ASSUME NEW id \in 0 .. h - 1, NEW p, p = h + (h - 1 - id), p < size
      PROVE  id \in reach <=> p \in reach
  <2>1. slot[id] \in Nat /\ 0 < slot[id] /\ id \in Ranks
    BY <1>2, <1>3, <1>4
  <2>2. p = esync_commpartner(id, 0) /\ id \in 0 .. Half - 1
    BY <1>1, <1>5, FirstSlots
  <2> QED
    BY <1>5, <2>1, <2>2, LinkedPartner
<1>6. ASSUME NEW id \in 0 .. h - 1, NEW p, size # 2, p < size,
             p = h + (IF id = 0 THEN 0 ELSE h - id)
      PROVE  id \in reach <=> p \in reach
  <2>1. slot[id] \in Nat /\ 1 < slot[id] /\ id \in Ranks
    BY <1>2, <1>3, <1>4, <1>6
  <2>2. p = esync_commpartner(id, 1) /\ id \in 0 .. Half - 1
    BY <1>1, <1>6, FirstSlots
  <2> QED
    BY <1>6, <2>1, <2>2, LinkedPartner
<1>7. CASE size = 2
  <2>1. 1 \in reach
    BY <1>1, <1>5, <1>7
  <2>2. \A q \in Ranks : q = 0 \/ q = 1
    BY <1>7 DEF Ranks
  <2> QED
    BY <2>1, <2>2
<1>8. CASE size # 2
  <2> DEFINE S == {j \in Nat : j <= h - 1 /\ h + j < size => h + j \in reach /\ h - 1 - j \in reach}
  <2>1. 0 \in S
    <3>1. h < size /\ 0 \in 0 .. h - 1 /\ h - 1 \in 0 .. h - 1
      BY <1>1, <1>8
    <3>2. h \in reach
      <4>1. PICK p : p = h + 0
        OBVIOUS
      <4>2. p = h
        BY <4>1
      <4>3. p \in reach
        BY <1>6, <1>8, <3>1, <4>1, <4>2
      <4> QED
        BY <4>2, <4>3
    <3>3. h - 1 \in reach
      <4>1. h = h + (h - 1 - (h - 1))
        OBVIOUS
      <4> QED
        BY <1>5, <3>1, <3>2, <4>1
    <3>4. h + 0 = h /\ h - 1 - 0 = h - 1
      OBVIOUS
    <3> QED
      BY <3>2, <3>3, <3>4
  <2>2. ASSUME NEW j \in Nat, j \in S PROVE j + 1 \in S
    <3> SUFFICES ASSUME j + 1 <= h - 1, h + (j + 1) < size
                 PROVE  h + (j + 1) \in reach /\ h - 1 - (j + 1) \in reach
      OBVIOUS
    <3>1. h - 1 - j \in reach
      <4>1. j <= h - 1 /\ h + j < size
        OBVIOUS
      <4> QED
        BY <2>2, <4>1
    <3>2. PICK a \in 0 .. h - 1, p \in Nat, b \in 0 .. h - 1 :
            a = h - 1 - j /\ p = h + (j + 1) /\ b = h - 1 - (j + 1) /\ a # 0 /\ p < size
      <4>1. /\ h - 1 - j \in 0 .. h - 1 /\ h + (j + 1) \in Nat /\ h - 1 - (j + 1) \in 0 .. h - 1
            /\ h - 1 - j # 0
        OBVIOUS
      <4> QED
        BY <4>1
    <3>3. p = h + (h - a) /\ p = h + (h - 1 - b)
      BY <3>2
    <3>4. p \in reach
      BY <1>6, <1>8, <3>1, <3>2, <3>3
    <3>5. b \in reach
      BY <1>5, <3>2, <3>3, <3>4
    <3> QED
      BY <3>2, <3>4, <3>5
  <2>3. Nat \subseteq S
    <3> HIDE DEF S
    <3> QED
      BY <2>1, <2>2, NaturalsBySet
  <2>4. ASSUME NEW q \in Ranks PROVE q \in reach
    <3>1. CASE q >= h
      <4>1. PICK j \in Nat : j = q - h /\ j <= h - 1 /\ h + j = q /\ q < size
        <5>1. q - h \in Nat /\ q - h <= h - 1 /\ h + (q - h) = q /\ q < size
          BY <1>1, <3>1 DEF Ranks
        <5> QED
          BY <5>1
      <4>2. h + j \in reach
        BY <2>3, <4>1
      <4> QED
        BY <4>1, <4>2
    <3>2. CASE ~(q >= h) /\ q # 0
      <4>1. PICK j \in Nat : j = h - 1 - q /\ j <= h - 1 /\ h + j < size /\ h - 1 - j = q
        <5>1. /\ h - 1 - q \in Nat /\ h - 1 - q <= h - 1 /\ h + (h - 1 - q) < size
              /\ h - 1 - (h - 1 - q) = q
          BY <1>1, <3>2 DEF Ranks
        <5> QED
          BY <5>1
      <4>2. h - 1 - j \in reach
        BY <2>3, <4>1
      <4> QED
        BY <4>1, <4>2
    <3> QED
      BY <3>1, <3>2
  <2> QED
    BY <2>4
<1> QED
  BY <1>7, <1>8

------------------------------------------------------------------------------
(* Every meeting is stored. *)

\* A step keeps the record of the meetings: esync_master stores the last one
\* before it turns to the next slot, a slave or a rank without partner has
\* nothing to store.
LEMMA NextMeasuredAll ==
  IInv /\ MeasuredAll /\ [Next]_vars => MeasuredAll'
<1> SUFFICES ASSUME IInv, MeasuredAll, [Next]_vars PROVE MeasuredAll'
  OBVIOUS
<1>1. /\ size \in Nat \ {0, 1} /\ 0 \in Ranks
      /\ \A q \in Ranks : q \in Nat /\ slot[q] \in Nat /\ Peer(q) \in Nat
  BY Basics
\* The three ways to go on.
<1>2. ASSUME UNCHANGED <<size, enhanced>>, measured \subseteq measured', NEW r \in Ranks,
             \A q \in Ranks : q # r => slot'[q] = slot[q],
             slot'[r] = slot[r] \/ slot'[r] = slot[r] + 1,
             enhanced /\ slot'[r] # slot[r] /\ r < Peer(r) /\ Peer(r) < size =>
               \E e \in measured' : e.id1 = r /\ e.id2 = Peer(r)
      PROVE  MeasuredAll'
  <2>1. \A q, s : Partner(q, s)' = Partner(q, s)
    BY <1>2 DEF Partner, esync_commpartner, Half
  <2>2. Ranks' = Ranks
    BY <1>2 DEF Ranks
  <2> SUFFICES ASSUME enhanced, NEW q \in Ranks, NEW s \in 0 .. slot'[q] - 1,
                      q < Partner(q, s), Partner(q, s) < size
               PROVE  \E e \in measured' : e.id1 = q /\ e.id2 = Partner(q, s)
    BY <1>2, <2>1, <2>2 DEF MeasuredAll
  <2>3. CASE s \in 0 .. slot[q] - 1
    BY <1>2, <2>3 DEF MeasuredAll
  <2>4. CASE s \notin 0 .. slot[q] - 1
    <3>1. q = r /\ slot'[r] = slot[r] + 1 /\ s = slot[r]
      BY <1>1, <1>2, <2>4
    <3>2. Partner(q, s) = Peer(r)
      BY <3>1 DEF Peer
    <3>3. slot'[r] # slot[r]
      BY <1>1, <3>1
    <3> QED
      BY <1>2, <3>1, <3>2, <3>3
  <2> QED
    BY <2>3, <2>4
<1>3. ASSUME NEW r \in Ranks, Meet(r) PROVE MeasuredAll'
  <2>1. /\ UNCHANGED <<size, enhanced>> /\ measured \subseteq measured'
        /\ slot' = IF Peer(r) >= size THEN [slot EXCEPT ![r] = slot[r] + 1] ELSE slot
    BY <1>3 DEF Meet
  <2>2. /\ \A q \in Ranks : q # r => slot'[q] = slot[q]
        /\ slot'[r] = slot[r] \/ slot'[r] = slot[r] + 1
        /\ slot'[r] # slot[r] => Peer(r) >= size
    BY <2>1 DEF IInv, Types
  <2>3. Peer(r) >= size => ~(Peer(r) < size)
    BY <1>1
  <2> QED
    BY <1>2, <2>1, <2>2, <2>3
<1>4. ASSUME NEW r \in Ranks, NEW delay \in Delays[size], Ping(r, delay) PROVE MeasuredAll'
  BY <1>2, <1>4 DEF Ping
<1>5. ASSUME NEW r \in Ranks, NEW delay \in Delays[size], Pong(r, delay) PROVE MeasuredAll'
  <2>1. /\ UNCHANGED <<size, enhanced>> /\ measured \subseteq measured' /\ st[r] = "pong"
        /\ slot' \in {[slot EXCEPT ![r] = slot[r] + 1], slot}
    BY <1>5 DEF Pong
  <2>2. /\ \A q \in Ranks : q # r => slot'[q] = slot[q]
        /\ slot'[r] = slot[r] \/ slot'[r] = slot[r] + 1
    BY <2>1 DEF IInv, Types
  <2>3. ~(r < Peer(r))
    <3>1. Peer(r) <= r
      BY <2>1 DEF IInv, Meetings
    <3> QED
      BY <1>1, <3>1
  <2> QED
    BY <1>2, <2>1, <2>2, <2>3
<1>6. ASSUME NEW r \in Ranks, NEW delay \in Delays[size], Answer(r, delay) PROVE MeasuredAll'
  <2>1. /\ UNCHANGED <<size, enhanced>> /\ measured \subseteq measured'
        /\ slot' \in {[slot EXCEPT ![r] = slot[r] + 1], slot}
        /\ slot' # slot /\ enhanced => \E e \in measured' : e.id1 = r /\ e.id2 = Peer(r)
    <3>1. PICK b :
            /\ slot' = IF i[r] = LoopCount - 1 THEN [slot EXCEPT ![r] = @ + 1] ELSE slot
            /\ measured' = IF i[r] = LoopCount - 1 /\ enhanced
                 THEN measured \cup {[id1 |-> r, id2 |-> Peer(r), slot |-> slot[r], t1 |-> b.t1,
                                      t2 |-> b.t2, t3 |-> b.t3, t4 |-> b.t4]}
                 ELSE measured
      <4>1. PICK m \in net :
              LET t    == Later(now[r], m.arrives)
                  b    == Keep(best[r], i[r], tsend[r], m.stamp, Clock(r, t))
                  last == i[r] = LoopCount - 1
              IN /\ slot' = IF last THEN [slot EXCEPT ![r] = @ + 1] ELSE slot
                 /\ measured' = IF last /\ enhanced
                      THEN measured \cup {[id1 |-> r, id2 |-> Peer(r), slot |-> slot[r],
                                           t1 |-> b.t1, t2 |-> b.t2, t3 |-> b.t3, t4 |-> b.t4]}
                      ELSE measured
        BY <1>6 DEF Answer
      <4>2. PICK b : b = Keep(best[r], i[r], tsend[r], m.stamp,
                              Clock(r, Later(now[r], m.arrives)))
        OBVIOUS
      <4> QED
        BY <4>1, <4>2
    <3>2. UNCHANGED <<size, enhanced>>
      BY <1>6 DEF Answer
    <3>3. PICK n : n = [id1 |-> r, id2 |-> Peer(r), slot |-> slot[r], t1 |-> b.t1,
                        t2 |-> b.t2, t3 |-> b.t3, t4 |-> b.t4]
      OBVIOUS
    <3>4. n.id1 = r /\ n.id2 = Peer(r)
      BY <3>3
    <3>5. measured' = IF i[r] = LoopCount - 1 /\ enhanced THEN measured \cup {n} ELSE measured
      BY <3>1, <3>3
    <3> QED
      BY <3>1, <3>2, <3>4, <3>5
  <2>2. /\ \A q \in Ranks : q # r => slot'[q] = slot[q]
        /\ slot'[r] = slot[r] \/ slot'[r] = slot[r] + 1
    BY <2>1 DEF IInv, Types
  <2> QED
    BY <1>2, <2>1, <2>2
<1>7. ASSUME NEW r \in Ranks, Result(r) PROVE MeasuredAll'
  <2>1. /\ UNCHANGED <<size, enhanced>> /\ measured \subseteq measured' /\ st[r] = "result"
        /\ slot' = [slot EXCEPT ![r] = slot[r] + 1]
    BY <1>7 DEF Result
  <2>2. /\ \A q \in Ranks : q # r => slot'[q] = slot[q]
        /\ slot'[r] = slot[r] \/ slot'[r] = slot[r] + 1
    BY <2>1 DEF IInv, Types
  <2>3. ~enhanced
    BY <2>1 DEF IInv, Meetings
  <2> QED
    BY <1>2, <2>1, <2>2, <2>3
<1>8. CASE UNCHANGED vars
  BY <1>8 DEF vars, MeasuredAll, Ranks, Partner, esync_commpartner, Half
<1> QED
  BY <1>3, <1>4, <1>5, <1>6, <1>7, <1>8 DEF Next, Step

\* The meetings are those of the schedule, so they are mutual, and stored, so
\* they connect the ranks.
LEMMA MeetingsRightFrom ==
  IInv /\ MeasuredAll => MeetingsRight
<1> SUFFICES ASSUME IInv, MeasuredAll PROVE MeetingsRight
  OBVIOUS
<1>1. size \in Nat \ {0, 1} /\ \A r \in Ranks : slot[r] \in Nat
  BY Basics
<1>2. PartnersMutual
  BY <1>1, Mutual DEF PartnersMutual, Peer
<1>3. MeasurementsConnect
  BY <1>1, Connected DEF MeasurementsConnect
<1> QED
  BY <1>2, <1>3 DEF MeetingsRight

\* Whatever the number of ranks, whoever is in a slot with a partner is that
\* rank's partner in the slot, and when all meetings of vt_esync are over the
\* measurements connect all ranks, as vtunify needs.
THEOREM ClockMeetingsRight == Spec => []MeetingsRight
<1>1. Init => IInv /\ MeasuredAll
  <2>1. ASSUME Init PROVE MeasuredAll
    <3>1. \A r \in Ranks : 0 .. slot[r] - 1 = {}
      BY <2>1 DEF Init
    <3> QED
      BY <3>1 DEF MeasuredAll
  <2> QED
    BY <2>1, InitIInv
<1>2. IInv /\ MeasuredAll /\ [Next]_vars => IInv' /\ MeasuredAll'
  BY NextIInv, NextMeasuredAll
<1>3. IInv /\ MeasuredAll => MeetingsRight
  BY MeetingsRightFrom
<1> QED
  BY <1>1, <1>2, <1>3, PTL DEF Spec
=============================================================================
