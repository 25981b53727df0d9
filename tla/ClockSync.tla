------------------------------ MODULE ClockSync ------------------------------
(***************************************************************************)
(* The clock offset measurements of vtlib/vt_esync.c (every rank meets a   *)
(* partner in each of ceil(log2 size) slots) and vtlib/vt_sync.c (rank 0   *)
(* meets the first rank of every other node in turn), between the barriers *)
(* at entry and at exit. A meeting is LOOP_COUNT ping-pong messages; MPI   *)
(* does not lose or reorder the messages of a pair.                        *)
(*                                                                         *)
(* Ranks have no common clock: rank r reads now[r] + Skew[r], where now[r] *)
(* is the moment of its last action. A message takes a time from Delays.   *)
(***************************************************************************)
EXTENDS Integers, Sequences, FiniteSets

CONSTANTS
  Sizes,      \* possible numbers of ranks (vt_sync: of nodes)
  LoopCount,  \* LOOP_COUNT
  Delays,     \* possible transfer times, for each size
  Skew        \* what each rank's clock is ahead of the true time

AllRanks == UNION {0 .. k - 1 : k \in Sizes}

ASSUME ClockAssumption ==
  /\ Sizes \subseteq Nat \ {0, 1}
  /\ LoopCount \in Nat \ {0}
  /\ Delays \in [Sizes -> SUBSET Nat] /\ \A k \in Sizes : Delays[k] # {}
  /\ Skew \in [AllRanks -> Int]

VARIABLES
  size,      \* number of ranks
  enhanced,  \* VT_ETIMESYNC: vt_esync is called, else vt_sync
  slot,      \* index of the current meeting
  st,        \* "idle", "ping", "await", "pong", "result"
  i,         \* loop counter
  now,       \* true time of the rank's last action
  tsend,     \* time stamp of the ping under way
  best,      \* master: t1, t2, t3, t4; [t1, t4, min] for vt_sync
  stamps,    \* slave: tsendrecv
  net,       \* messages under way
  measured,  \* Sync_TsPerPhase records of all ranks
  offset,    \* results of sync_slave
  trips      \* history: peer and samples <<send, slave, receive>> of the last meeting

vars == <<size, enhanced, slot, st, i, now, tsend, best, stamps, net, measured, offset, trips>>

Ranks == 0 .. size - 1

------------------------------------------------------------------------------
(* Who meets whom. *)

Half == (size + 1) \div 2

\* Mutant: the second half forgets the round.
PartnerFixed(id, round) ==
  IF id < Half
  THEN ((Half - 1 - (id - (round % Half))) % Half) + Half
  ELSE ((((Half - 1) * (id - Half + 1)) % Half) + Half) % Half

esync_commpartner(id, round) ==
  IF id < Half
  THEN ((Half - 1 - (id - (round % Half))) % Half) + Half
  ELSE ((((Half - 1) * (id - Half + 1)) % Half) + Half + round) % Half

\* Mutant: one meeting whatever the number of ranks.
OneSlot == 1

PowerOfTwo[k \in 0 .. size] == IF k = 0 THEN 1 ELSE 2 * PowerOfTwo[k - 1]

\* ceil(log2 size)
NumSlots ==
  CHOOSE k \in 0 .. size : PowerOfTwo[k] >= size /\ (k = 0 \/ PowerOfTwo[k - 1] < size)

Slots == IF enhanced THEN NumSlots ELSE size - 1

\* The partner of r, or size and more if it has none in this slot.
Partner(r, s) ==
  IF enhanced THEN esync_commpartner(r, s)
  ELSE IF r = 0 THEN s + 1 ELSE IF r = s + 1 THEN 0 ELSE size

------------------------------------------------------------------------------
(* The meetings. *)

Later(a, b) == IF a > b THEN a ELSE b
Clock(r, t) == t + Skew[r]
Peer(r) == Partner(r, slot[r])

Init ==
  /\ size \in Sizes
  /\ enhanced \in BOOLEAN
  /\ slot = [r \in Ranks |-> 0]
  /\ st = [r \in Ranks |-> "idle"]
  /\ i = [r \in Ranks |-> 0]
  /\ now = [r \in Ranks |-> 0]
  /\ tsend = [r \in Ranks |-> 0]
  /\ best = [r \in Ranks |-> << >>]
  /\ stamps = [r \in Ranks |-> << >>]
  /\ net = {}
  /\ measured = {}
  /\ offset = [r \in Ranks |-> << >>]
  /\ trips = [r \in Ranks |-> [with |-> r, of |-> << >>]]

\* A rank turns to its next slot; vt_sync has a barrier there.
Meet(r) ==
  /\ st[r] = "idle" /\ slot[r] < Slots
  /\ enhanced \/ \A q \in Ranks : slot[q] >= slot[r]
  /\ IF Peer(r) >= size
     THEN slot' = [slot EXCEPT ![r] = @ + 1] /\ UNCHANGED <<st, i, stamps, trips>>
     ELSE /\ st' = [st EXCEPT ![r] = IF r < Peer(r) THEN "ping" ELSE "pong"]
          /\ i' = [i EXCEPT ![r] = 0]
          /\ stamps' = [stamps EXCEPT ![r] = << >>]
          /\ trips' = [trips EXCEPT ![r] = [with |-> Peer(r), of |-> << >>]]
          /\ UNCHANGED slot
  /\ UNCHANGED <<size, enhanced, now, tsend, best, net, measured, offset>>

Message(r, tag, at, stamp) ==
  [from |-> r, to |-> Peer(r), tag |-> tag, arrives |-> at, stamp |-> stamp]

\* The master's next message.
Ping(r, delay) ==
  /\ st[r] = "ping"
  /\ tsend' = [tsend EXCEPT ![r] = Clock(r, now[r])]
  /\ net' = net \cup {Message(r, i[r], now[r] + delay, Clock(r, now[r]))}
  /\ st' = [st EXCEPT ![r] = "await"]
  /\ UNCHANGED <<size, enhanced, slot, i, now, best, stamps, measured, offset, trips>>

\* Mutant: the slave answers one ping less.
PongShort(r, delay) ==
  /\ st[r] = "pong"
  /\ \E m \in net :
       /\ m.from = Peer(r) /\ m.to = r /\ m.tag = i[r]
       /\ LET t == Later(now[r], m.arrives) IN
          /\ now' = [now EXCEPT ![r] = t]
          /\ net' = (net \ {m}) \cup {Message(r, i[r], t + delay, Clock(r, t))}
          /\ stamps' = [stamps EXCEPT ![r] = Append(@, Clock(r, t))]
  /\ LET last == i[r] = LoopCount - 2 IN
     /\ i' = [i EXCEPT ![r] = @ + 1]
     /\ st' = [st EXCEPT ![r] = IF ~last THEN "pong"
                                ELSE IF enhanced THEN "idle" ELSE "result"]
     /\ slot' = IF last /\ enhanced THEN [slot EXCEPT ![r] = @ + 1] ELSE slot
  /\ UNCHANGED <<size, enhanced, tsend, best, measured, offset, trips>>

\* esync_slave and sync_slave: receive, read the clock, answer.
Pong(r, delay) ==
  /\ st[r] = "pong"
  /\ \E m \in net :
       /\ m.from = Peer(r) /\ m.to = r /\ m.tag = i[r]
       /\ LET t == Later(now[r], m.arrives) IN
          /\ now' = [now EXCEPT ![r] = t]
          /\ net' = (net \ {m}) \cup {Message(r, i[r], t + delay, Clock(r, t))}
          /\ stamps' = [stamps EXCEPT ![r] = Append(@, Clock(r, t))]
  /\ LET last == i[r] = LoopCount - 1 IN
     /\ i' = [i EXCEPT ![r] = @ + 1]
     /\ st' = [st EXCEPT ![r] = IF ~last THEN "pong"
                                ELSE IF enhanced THEN "idle" ELSE "result"]
     /\ slot' = IF last /\ enhanced THEN [slot EXCEPT ![r] = @ + 1] ELSE slot
  /\ UNCHANGED <<size, enhanced, tsend, best, measured, offset, trips>>

Sample(k, s, v, e) == [t1 |-> s, t2 |-> v, t3 |-> v, t4 |-> e, min |-> k]

\* Mutant: the differences are compared as unsigned numbers (of 8 bits here).
KeepDirectionsUnsigned(b, s, v, e) ==
  LET there == IF (v - s) % 256 < (b.t2 - b.t1) % 256
               THEN [b EXCEPT !.t1 = s, !.t2 = v] ELSE b
  IN IF (e - v) % 256 < (b.t4 - b.t3) % 256
     THEN [there EXCEPT !.t3 = v, !.t4 = e] ELSE there

\* esync_master: the smallest signed difference of each direction.
KeepDirections(b, s, v, e) ==
  LET there == IF v - s < b.t2 - b.t1 THEN [b EXCEPT !.t1 = s, !.t2 = v] ELSE b
  IN IF e - v < b.t4 - b.t3 THEN [there EXCEPT !.t3 = v, !.t4 = e] ELSE there

\* Mutant: the index of the shortest round trip is not kept with its times.
KeepShortestFirst(b, k, s, v, e) ==
  IF e - s < b.t4 - b.t1 THEN Sample(0, s, v, e) ELSE b

\* sync_master: the shortest round trip.
KeepShortest(b, k, s, v, e) ==
  IF e - s < b.t4 - b.t1 THEN Sample(k, s, v, e) ELSE b

\* The times worth keeping after the k-th answer.
Keep(b, k, s, v, e) ==
  IF k = 0 THEN Sample(0, s, v, e)
  ELSE IF enhanced THEN KeepDirections(b, s, v, e) ELSE KeepShortest(b, k, s, v, e)

\* sync_time
SyncTime(b) == b.t1 + (b.t4 - b.t1) \div 2

\* The master receives the answer. After the last one esync_master stores the
\* measurement, sync_master sends the index and the time it has selected.
Answer(r, delay) ==
  /\ st[r] = "await"
  /\ \E m \in net :
       /\ m.from = Peer(r) /\ m.to = r /\ m.tag = i[r]
       /\ LET t    == Later(now[r], m.arrives)
              b    == Keep(best[r], i[r], tsend[r], m.stamp, Clock(r, t))
              last == i[r] = LoopCount - 1
          IN /\ now' = [now EXCEPT ![r] = t]
             /\ best' = [best EXCEPT ![r] = b]
             /\ trips' = [trips EXCEPT ![r].of = Append(@, <<tsend[r], m.stamp, Clock(r, t)>>)]
             /\ i' = [i EXCEPT ![r] = @ + 1]
             /\ st' = [st EXCEPT ![r] = IF last THEN "idle" ELSE "ping"]
             /\ slot' = IF last THEN [slot EXCEPT ![r] = @ + 1] ELSE slot
             /\ net' = (net \ {m}) \cup
                  (IF last /\ ~enhanced
                   THEN {Message(r, LoopCount, t + delay, <<b.min, SyncTime(b)>>)} ELSE {})
             /\ measured' = IF last /\ enhanced
                  THEN measured \cup {[id1 |-> r, id2 |-> Peer(r), slot |-> slot[r], t1 |-> b.t1,
                                       t2 |-> b.t2, t3 |-> b.t3, t4 |-> b.t4]}
                  ELSE measured
  /\ UNCHANGED <<size, enhanced, tsend, stamps, offset>>

\* sync_slave receives index and time: its offset to the root's clock.
Result(r) ==
  /\ st[r] = "result"
  /\ \E m \in net :
       /\ m.from = Peer(r) /\ m.to = r /\ m.tag = LoopCount
       /\ now' = [now EXCEPT ![r] = Later(@, m.arrives)]
       /\ offset' = [offset EXCEPT ![r] = <<m.stamp[2] - stamps[r][m.stamp[1] + 1]>>]
       /\ net' = net \ {m}
  /\ st' = [st EXCEPT ![r] = "idle"]
  /\ slot' = [slot EXCEPT ![r] = @ + 1]
  /\ UNCHANGED <<size, enhanced, i, tsend, best, stamps, measured, trips>>

Step(r) ==
  \/ Meet(r)
  \/ \E delay \in Delays[size] : Ping(r, delay) \/ Pong(r, delay) \/ Answer(r, delay)
  \/ Result(r)

Next == \E r \in Ranks : Step(r)

\* A rank runs on unless it waits for a message or at a barrier.
Fairness == \A r \in AllRanks : WF_vars(r \in Ranks /\ Step(r))

Spec == Init /\ [][Next]_vars /\ Fairness

------------------------------------------------------------------------------
(* Properties. *)

AllDone == \A r \in Ranks : slot[r] = Slots

\* A rank that waits for a message waits for one its partner sends it in the
\* same slot: whoever is in a slot with a partner finds that partner heading
\* for the same meeting, so a ping is never taken by a rank that expects one
\* of another slot.
PartnersMutual ==
  \A r \in Ranks : slot[r] < Slots /\ Peer(r) < size => Partner(Peer(r), slot[r]) = r

\* The ranks of the set and those with a measurement to one of them.
Linked(reach) ==
  reach \cup {e.id2 : e \in {m \in measured : m.id1 \in reach}}
        \cup {e.id1 : e \in {m \in measured : m.id2 \in reach}}

\* The measurements connect all ranks: the clock of each one can be related to
\* that of each other one, as vtunify needs.
MeasurementsConnect ==
  AllDone /\ enhanced =>
    \A reach \in SUBSET Ranks : 0 \in reach /\ Linked(reach) = reach => reach = Ranks

\* The meetings are mutual and leave no rank apart.
MeetingsRight == PartnersMutual /\ MeasurementsConnect

\* The measurement of a pair brackets the true difference of the two clocks,
\* whatever the delays, and no ping-pong of the meeting would have given a
\* tighter bracket.
SkewBracketed ==
  \A r \in Ranks : enhanced /\ trips[r].of # << >> =>
    LET b     == best[r]
        theta == Skew[trips[r].with] - Skew[r]
    IN /\ b.t3 - b.t4 <= theta /\ theta <= b.t2 - b.t1
       /\ \A k \in DOMAIN trips[r].of :
            LET trip == trips[r].of[k]
            IN b.t2 - b.t1 <= trip[2] - trip[1] /\ b.t4 - b.t3 <= trip[3] - trip[2]

\* The offset vt_sync hands to a node is wrong by no more than half of the
\* shortest round trip of its meeting (and the rounding of a half).
OffsetAccurate ==
  \A r \in Ranks : offset[r] # << >> /\ trips[0].with = r =>
    LET err == offset[r][1] - (Skew[0] - Skew[r])
    IN \A k \in DOMAIN trips[0].of :
         LET round == trips[0].of[k][3] - trips[0].of[k][1]
         IN 2 * err <= round + 1 /\ -2 * err <= round + 1

\* What either synchronisation hands on is as accurate as its messages allow.
MeasuredWell == SkewBracketed /\ OffsetAccurate

\* Every rank gets through all its meetings.
EveryoneFinishes == <>AllDone
==============================================================================
