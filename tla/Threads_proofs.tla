--------------------------- MODULE Threads_proofs ---------------------------
(***************************************************************************)
(* Proofs about Threads, for every number of threads and every             *)
(* VT_MAX_THREADS: thread IDs are never shared, the lists of idle IDs are  *)
(* well kept, and an ID is handed over with all that was counted with it.  *)
(***************************************************************************)
EXTENDS Threads, TLAPS

(* What the list operations do. *)

\* idle_tid_list_push_back: what Append does to a sequence.
LEMMA AppendFacts ==
  ASSUME NEW S, NEW s \in Seq(S), NEW e \in S
  PROVE  /\ Append(s, e) \in Seq(S)
         /\ DOMAIN s = 1 .. Len(s) /\ Len(s) \in Nat
         /\ DOMAIN Append(s, e) = 1 .. Len(s) + 1
         /\ \A k \in 1 .. Len(s) : Append(s, e)[k] = s[k]
         /\ Append(s, e)[Len(s) + 1] = e
  OBVIOUS

\* idle_tid_list_pop_front: what Head and Tail do to a sequence.
LEMMA TailFacts ==
  ASSUME NEW S, NEW s \in Seq(S), s # << >>
  PROVE  /\ Tail(s) \in Seq(S)
         /\ DOMAIN s = 1 .. Len(s) /\ Len(s) \in Nat /\ 1 \in DOMAIN s
         /\ Head(s) = s[1] /\ Head(s) \in S
         /\ DOMAIN Tail(s) = 1 .. Len(s) - 1
         /\ \A k \in DOMAIN Tail(s) : k + 1 \in DOMAIN s /\ Tail(s)[k] = s[k + 1]
  OBVIOUS

\* VTThrd_create makes a proper object.
LEMMA ObjectFacts ==
  /\ 0 \in Tids /\ NoObject \in ObjectType
  /\ \A t \in Tids : NewObject(t) \in ObjectType /\ NewObject(t).exists
BY ThreadsAssumption DEF NoObject, NewObject, ObjectType, Tids

------------------------------------------------------------------------------
(* The inductive invariant. *)

\* Only IDs below VTThrdn are held or idle, so that a new ID is really new; and
\* only a thread that has no object yet may have the ID VTThrdMaxNum.
IdsGiven ==
  /\ \A p \in All : Holds(p) \/ life[p] \in Ending =>
        /\ tidOf[p] \in 0 .. VTThrdn - 1
        /\ life[p] # "named" => tidOf[p] \in Tids
  /\ \A t \in Tids : \A k \in DOMAIN idle[t] : idle[t][k] \in 0 .. VTThrdn - 1

\* A thread that has got through its registration has an object, and so has the
\* main thread for ever.
HeldExists ==
  /\ VTThrdv[0].exists
  /\ \A p \in All : life[p] \in {"reuse", "run", "freed"} => VTThrdv[tidOf[p]].exists

IInv == TypeOK /\ IdsGiven /\ UniqueIds /\ IdleWellKept /\ ObjectsReady /\ HeldExists

\* Initially only the main thread has an ID, and all lists are empty.
LEMMA InitIInv == Init => IInv
<1> SUFFICES ASSUME Init PROVE IInv
  OBVIOUS
<1> USE ThreadsAssumption DEF Init
<1>1. \A t \in Tids : idle[t] = << >> /\ DOMAIN idle[t] = {}
  OBVIOUS
<1>2. TypeOK
  <2>1. life \in [All -> {"none", "run", "gone"} \cup Starting \cup Ending]
    OBVIOUS
  <2>2. VTThrdv \in [Tids -> ObjectType]
    BY ObjectFacts
  <2>3. VTThrdn \in 1 .. VTThrdMaxNum + 1
    OBVIOUS
  <2>4. tidOf \in [All -> 0 .. VTThrdMaxNum \cup {NoTid}] /\ ptid \in [All -> Tids]
    BY ObjectFacts
  <2>5. written \in [Tids -> 0 .. MaxCount]
    OBVIOUS
  <2>6. idle \in [Tids -> Seq(Tids)]
    OBVIOUS
  <2> QED
    BY <2>1, <2>2, <2>3, <2>4, <2>5, <2>6 DEF TypeOK
<1>3. \A p \in All : Holds(p) \/ life[p] \in Ending => p = Main /\ tidOf[p] = 0
  BY DEF Holds, Ending
<1>4. IdsGiven
  BY <1>1, <1>3, ObjectFacts DEF IdsGiven
<1>5. UniqueIds
  BY <1>1, <1>3 DEF UniqueIds
<1>6. IdleWellKept
  BY <1>1 DEF IdleWellKept
<1>7. VTThrdv[0].exists
  BY ObjectFacts
<1>8. \A p \in All : /\ life[p] \notin Starting
                     /\ life[p] \in {"reuse", "run", "freed"} => tidOf[p] = 0
  BY DEF Starting
<1>9. ObjectsReady /\ HeldExists
  BY <1>7, <1>8 DEF ObjectsReady, HeldExists
<1> QED
  BY <1>2, <1>4, <1>5, <1>6, <1>9 DEF IInv

\* A step that leaves the IDs, the lists and the number of IDs alone, lets
\* nobody hold an ID who did not, and keeps every object with its parent.
LEMMA QuietStep ==
  ASSUME IInv, TypeOK', UNCHANGED <<tidOf, idle, VTThrdn>>,
         \A p \in All : Holds(p)' => Holds(p),
         \A p \in All : life'[p] \in Ending => Holds(p) \/ life[p] \in Ending,
         \A p \in All : life[p] = "named" => life'[p] = "named",
         \A t \in Tids : VTThrdv[t].exists => /\ VTThrdv'[t].exists
                                              /\ VTThrdv'[t].parent = VTThrdv[t].parent
  PROVE  IdsGiven' /\ UniqueIds' /\ IdleWellKept'
<1>1. IdsGiven'
  <2>1. ASSUME NEW p \in All, Holds(p)' \/ life'[p] \in Ending
        PROVE  /\ tidOf[p] \in 0 .. VTThrdn - 1
               /\ life'[p] # "named" => tidOf[p] \in Tids
    BY <2>1 DEF IInv, IdsGiven
  <2> QED
    BY <2>1 DEF IInv, IdsGiven
<1>2. UniqueIds'
  BY DEF IInv, UniqueIds
<1>3. IdleWellKept'
  <2> SUFFICES ASSUME NEW t \in Tids, NEW k \in DOMAIN idle[t]
               PROVE  /\ VTThrdv'[idle[t][k]].exists /\ VTThrdv'[idle[t][k]].parent = t
                      /\ \A j \in DOMAIN idle[t] : idle[t][j] = idle[t][k] => j = k
    BY DEF IdleWellKept
  <2>1. idle[t][k] \in Tids
    BY DEF IInv, TypeOK
  <2> QED
    BY <2>1 DEF IInv, IdleWellKept
<1> QED
  BY <1>1, <1>2, <1>3

\* A step that keeps all objects and starts nothing.
LEMMA QuietReady ==
  ASSUME IInv, UNCHANGED <<tidOf, ptid>>,
         \A t \in Tids : VTThrdv[t].exists => VTThrdv'[t].exists,
         \A p \in All : life'[p] \in Starting => life[p] \in Starting,
         \A p \in All : life'[p] \in {"reuse", "run", "freed"} =>
                        life[p] \in {"reuse", "run", "freed"}
  PROVE  ObjectsReady' /\ HeldExists'
<1>1. \A p \in All : ptid[p] \in Tids
  BY DEF IInv, TypeOK
<1>2. \A p \in All : life[p] \in {"reuse", "run", "freed"} => tidOf[p] \in Tids
  <2> SUFFICES ASSUME NEW p \in All, life[p] \in {"reuse", "run", "freed"}
               PROVE  tidOf[p] \in Tids
    OBVIOUS
  <2> QED
    BY DEF IInv, IdsGiven, Holds
<1>3. ObjectsReady'
  BY <1>1, <1>2 DEF IInv, ObjectsReady, HeldExists
<1>4. HeldExists'
  BY <1>2, ObjectFacts DEF IInv, HeldExists
<1> QED
  BY <1>3, <1>4

\* An object whose existence and parent stay as they are.
LEMMA UpdateFacts ==
  ASSUME NEW f \in [Tids -> ObjectType], NEW t \in Tids, NEW o \in ObjectType,
         o.exists = f[t].exists, o.parent = f[t].parent
  PROVE  /\ [f EXCEPT ![t] = o] \in [Tids -> ObjectType]
         /\ \A u \in Tids : /\ [f EXCEPT ![t] = o][u].exists = f[u].exists
                            /\ [f EXCEPT ![t] = o][u].parent = f[u].parent
OBVIOUS

\* Every step of every thread preserves the invariant.
LEMMA NextIInv == IInv /\ [Next]_vars => IInv'
<1> SUFFICES ASSUME IInv, [Next]_vars PROVE IInv'
  OBVIOUS
<1> USE ThreadsAssumption
<1>0. 0 \in Tids /\ VTThrdn \in Nat
  BY DEF IInv, TypeOK, Tids
<1>1. ASSUME NEW q \in All, NEW p \in All, NEW wrapped \in BOOLEAN,
             pthread_create(q, p, wrapped)
      PROVE  IInv'
  <2>1. tidOf[q] \in 0 .. VTThrdn - 1 /\ tidOf[q] \in Tids /\ VTThrdv[tidOf[q]].exists
    BY <1>1 DEF IInv, IdsGiven, HeldExists, Holds, pthread_create
  <2>2. TypeOK'
    BY <1>0, <1>1, <2>1 DEF IInv, TypeOK, pthread_create, Goto, Starting
  <2>3. IdsGiven' /\ UniqueIds' /\ IdleWellKept'
    BY <1>1, <2>2, QuietStep DEF pthread_create, Goto, Holds, Ending, IInv, TypeOK
  <2>4. ObjectsReady' /\ HeldExists'
    BY <1>1, <2>1 DEF IInv, TypeOK, ObjectsReady, HeldExists, pthread_create, Goto, Starting
  <2> QED
    BY <2>2, <2>3, <2>4 DEF IInv
<1>2. ASSUME NEW p \in All, TakeIdle(p) PROVE IInv'
  <2> DEFINE s == idle[ptid[p]]
  <2>1. ptid[p] \in Tids /\ s \in Seq(Tids)
    BY DEF IInv, TypeOK
  <2>2. CASE reuseThreadIds /\ s # << >>
    <3>1. /\ tidOf' = [tidOf EXCEPT ![p] = Head(s)]
          /\ idle' = [idle EXCEPT ![ptid[p]] = Tail(s)]
          /\ life' = [life EXCEPT ![p] = "reuse"]
          /\ raced' = IF StillEnding(Head(s)) THEN raced \cup {Head(s)} ELSE raced
          /\ UNCHANGED <<ptid, VTThrdn, VTThrdv, written, decreased, ended>>
      BY <1>2, <2>2 DEF TakeIdle, Goto
    <3>2. /\ Tail(s) \in Seq(Tids) /\ 1 \in DOMAIN s /\ Head(s) = s[1]
          /\ Head(s) \in Tids /\ DOMAIN s = 1 .. Len(s) /\ Len(s) \in Nat
          /\ DOMAIN Tail(s) = 1 .. Len(s) - 1
          /\ \A k \in DOMAIN Tail(s) : k + 1 \in DOMAIN s /\ Tail(s)[k] = s[k + 1]
      BY <2>1, <2>2, TailFacts
    <3>a. \A t \in Tids : t \in 0 .. VTThrdMaxNum
      BY DEF Tids
    <3>3. TypeOK'
      BY <3>1, <3>2, <3>a DEF IInv, TypeOK, Starting
    <3>4. /\ Head(s) \in 0 .. VTThrdn - 1
          /\ VTThrdv[Head(s)].exists /\ VTThrdv[Head(s)].parent = ptid[p]
          /\ \A q \in All : Holds(q) => tidOf[q] # Head(s)
      BY <2>1, <3>2 DEF IInv, IdsGiven, IdleWellKept, UniqueIds
    \* What is idle after the step was idle before, and is not the ID taken.
    <3>5. ASSUME NEW t \in Tids, NEW k \in DOMAIN idle'[t]
          PROVE  /\ idle'[t][k] # Head(s)
                 /\ \E j \in DOMAIN idle[t] : idle[t][j] = idle'[t][k]
      <4>1. CASE t = ptid[p]
        <5>1. idle'[t] = Tail(s)
          BY <2>1, <3>1, <4>1 DEF IInv, TypeOK
        <5>2. k + 1 \in DOMAIN s /\ idle'[t][k] = s[k + 1] /\ k \in 1 .. Len(s) - 1
          BY <3>2, <3>5, <5>1
        <5>3. s[k + 1] # s[1]
          BY <2>1, <3>2, <5>2 DEF IInv, IdleWellKept
        <5> QED
          BY <3>2, <4>1, <5>2, <5>3
      <4>2. CASE t # ptid[p]
        <5>1. idle'[t] = idle[t]
          BY <3>1, <4>2 DEF IInv, TypeOK
        <5>2. VTThrdv[idle[t][k]].parent = t
          BY <3>5, <5>1 DEF IInv, IdleWellKept
        <5> QED
          BY <3>4, <4>2, <5>1, <5>2, <3>5
      <4> QED
        BY <4>1, <4>2
    <3>6. \A q \in All : q # p => (Holds(q)' <=> Holds(q)) /\ tidOf'[q] = tidOf[q] /\ life'[q] = life[q]
      BY <3>1 DEF IInv, TypeOK, Holds
    <3>7. tidOf'[p] = Head(s)
      BY <3>1 DEF IInv, TypeOK
    <3>8. IdsGiven'
      <4>1. \A q \in All : Holds(q)' \/ life'[q] \in Ending =>
              /\ tidOf'[q] \in 0 .. VTThrdn' - 1
              /\ life'[q] # "named" => tidOf'[q] \in Tids
        BY <3>1, <3>2, <3>4, <3>6, <3>7 DEF IInv, IdsGiven, TypeOK, Ending
      <4>2. \A t \in Tids : \A k \in DOMAIN idle'[t] : idle'[t][k] \in 0 .. VTThrdn' - 1
        BY <3>1, <3>5 DEF IInv, IdsGiven
      <4> QED
        BY <4>1, <4>2 DEF IdsGiven
    <3>9. UniqueIds'
      <4>1. \A q, r \in All : q # r /\ Holds(q)' /\ Holds(r)' => tidOf'[q] # tidOf'[r]
        BY <3>4, <3>6, <3>7 DEF IInv, UniqueIds
      <4>2. ASSUME NEW q \in All, NEW t \in Tids, Holds(q)', NEW k \in DOMAIN idle'[t]
            PROVE  idle'[t][k] # tidOf'[q]
        BY <3>5, <3>6, <3>7, <4>2 DEF IInv, UniqueIds
      <4> QED
        BY <4>1, <4>2 DEF UniqueIds
    <3>10. IdleWellKept'
      <4> SUFFICES ASSUME NEW t \in Tids, NEW k \in DOMAIN idle'[t]
                   PROVE  /\ VTThrdv[idle'[t][k]].exists /\ VTThrdv[idle'[t][k]].parent = t
                          /\ \A j \in DOMAIN idle'[t] : idle'[t][j] = idle'[t][k] => j = k
        BY <3>1 DEF IdleWellKept
      <4>1. VTThrdv[idle'[t][k]].exists /\ VTThrdv[idle'[t][k]].parent = t
        BY <3>5 DEF IInv, IdleWellKept
      <4>2. CASE t = ptid[p]
        <5>1. idle'[t] = Tail(s)
          BY <2>1, <3>1, <4>2 DEF IInv, TypeOK
        <5>2. ASSUME NEW j \in DOMAIN idle'[t], idle'[t][j] = idle'[t][k] PROVE j = k
          <6>1. /\ j + 1 \in DOMAIN s /\ k + 1 \in DOMAIN s /\ s[j + 1] = s[k + 1]
                /\ j \in 1 .. Len(s) - 1 /\ k \in 1 .. Len(s) - 1
            BY <3>2, <5>1, <5>2
          <6>2. j + 1 = k + 1
            BY <2>1, <6>1 DEF IInv, IdleWellKept
          <6> QED
            BY <3>2, <6>1, <6>2
        <5> QED
          BY <4>1, <5>2
      <4>3. CASE t # ptid[p]
        <5>1. idle'[t] = idle[t]
          BY <3>1, <4>3 DEF IInv, TypeOK
        <5> QED
          BY <4>1, <5>1 DEF IInv, IdleWellKept
      <4> QED
        BY <4>2, <4>3
    <3>11. ObjectsReady' /\ HeldExists'
      BY <1>2, <3>1, <3>4, <3>6, <3>7
      DEF IInv, TypeOK, ObjectsReady, HeldExists, Starting, TakeIdle
    <3> QED
      BY <3>3, <3>8, <3>9, <3>10, <3>11 DEF IInv
  <2>3. CASE ~(reuseThreadIds /\ s # << >>)
    <3>1. /\ life' = [life EXCEPT ![p] = "new"]
          /\ UNCHANGED <<tidOf, idle, ptid, VTThrdn, VTThrdv, written, decreased, raced, ended>>
      BY <1>2, <2>3 DEF TakeIdle, Goto
    <3>2. TypeOK'
      BY <3>1 DEF IInv, TypeOK, Starting
    <3>3. IdsGiven' /\ UniqueIds' /\ IdleWellKept'
      BY <1>2, <3>1, <3>2, QuietStep DEF Holds, Ending, IInv, TypeOK, TakeIdle
    <3>4. ObjectsReady' /\ HeldExists'
      BY <1>2, <3>1 DEF IInv, TypeOK, ObjectsReady, HeldExists, Starting, TakeIdle
    <3> QED
      BY <3>2, <3>3, <3>4 DEF IInv
  <2> QED
    BY <2>2, <2>3
<1>3. ASSUME NEW p \in All, VTThrd_createNewThreadId(p) PROVE IInv'
  <2>1. CASE VTThrdn > VTThrdMaxNum
    <3>1. UNCHANGED <<life, tidOf, VTThrdn, ptid, VTThrdv, idle, written, decreased, raced>>
          /\ ended' = "aborted"
      BY <1>3, <2>1 DEF VTThrd_createNewThreadId
    <3>2. TypeOK'
      BY <3>1 DEF IInv, TypeOK
    <3>3. IdsGiven' /\ UniqueIds' /\ IdleWellKept'
      BY <3>1, <3>2, QuietStep DEF Holds
    <3>4. ObjectsReady' /\ HeldExists'
      BY <3>1 DEF IInv, ObjectsReady, HeldExists
    <3> QED
      BY <3>2, <3>3, <3>4 DEF IInv
  <2>2. CASE ~(VTThrdn > VTThrdMaxNum)
    <3>1. /\ tidOf' = [tidOf EXCEPT ![p] = VTThrdn]
          /\ VTThrdn' = VTThrdn + 1
          /\ life' = [life EXCEPT ![p] = "named"]
          /\ UNCHANGED <<ptid, VTThrdv, idle, written, decreased, raced, ended>>
      BY <1>3, <2>2 DEF VTThrd_createNewThreadId, Goto
    <3>2. VTThrdn \in 0 .. VTThrdMaxNum /\ VTThrdn \in Nat /\ VTThrdn' \in 1 .. VTThrdMaxNum + 1
      BY <2>2, <3>1 DEF IInv, TypeOK
    <3>3. TypeOK'
      BY <3>1, <3>2 DEF IInv, TypeOK, Starting
    <3>4. \A q \in All : q # p => (Holds(q)' <=> Holds(q)) /\ tidOf'[q] = tidOf[q] /\ life'[q] = life[q]
      BY <3>1 DEF IInv, TypeOK, Holds
    <3>5. tidOf'[p] = VTThrdn
      BY <3>1 DEF IInv, TypeOK
    <3>6. IdsGiven'
      <4>1. life'[p] = "named"
        BY <3>1 DEF IInv, TypeOK
      <4> QED
        BY <3>1, <3>2, <3>4, <3>5, <4>1 DEF IInv, IdsGiven, TypeOK, Ending
    <3>7. UniqueIds'
      <4>1. \A q \in All : Holds(q) => tidOf[q] # VTThrdn
        BY <3>2 DEF IInv, IdsGiven
      <4>2. \A t \in Tids : \A k \in DOMAIN idle[t] : idle[t][k] # VTThrdn
        BY <3>2 DEF IInv, IdsGiven
      <4> QED
        BY <3>1, <3>4, <3>5, <4>1, <4>2 DEF IInv, UniqueIds
    <3>8. IdleWellKept'
      BY <3>1 DEF IInv, IdleWellKept
    <3>9. ObjectsReady' /\ HeldExists'
      BY <1>3, <3>1, <3>4
      DEF IInv, TypeOK, ObjectsReady, HeldExists, Starting, VTThrd_createNewThreadId
    <3> QED
      BY <3>3, <3>6, <3>7, <3>8, <3>9 DEF IInv
  <2> QED
    BY <2>1, <2>2
<1>4. ASSUME NEW p \in All, VTThrd_create(p) PROVE IInv'
  <2>1. CASE tidOf[p] \notin Tids
    <3>1. /\ UNCHANGED <<life, tidOf, ptid, VTThrdn, VTThrdv, idle, written, decreased, raced>>
          /\ ended' = "overrun"
      BY <1>4, <2>1 DEF VTThrd_create
    <3>2. TypeOK'
      BY <3>1 DEF IInv, TypeOK
    <3>3. IdsGiven' /\ UniqueIds' /\ IdleWellKept'
      BY <3>1, <3>2, QuietStep DEF Holds
    <3>4. ObjectsReady' /\ HeldExists'
      BY <3>1 DEF IInv, ObjectsReady, HeldExists
    <3> QED
      BY <3>2, <3>3, <3>4 DEF IInv
  <2>2. CASE tidOf[p] \in Tids
    <3> DEFINE o == NewObject(ptid[p])
    <3>1. /\ VTThrdv' = [VTThrdv EXCEPT ![tidOf[p]] = o]
          /\ life' = [life EXCEPT ![p] = "run"]
          /\ UNCHANGED <<tidOf, ptid, VTThrdn, idle, written, decreased, raced, ended>>
          /\ life[p] = "named"
      BY <1>4, <2>2 DEF VTThrd_create, Goto
    <3>2. tidOf[p] \in Tids /\ Holds(p)
      BY <2>2, <3>1 DEF Holds
    <3>3. o.exists /\ o \in ObjectType
      BY ObjectFacts DEF IInv, TypeOK
    <3> HIDE DEF o
    <3>4. TypeOK'
      BY <3>1, <3>2, <3>3 DEF IInv, TypeOK
    <3>5. IdsGiven' /\ UniqueIds'
      BY <3>1, <3>2 DEF IInv, TypeOK, IdsGiven, UniqueIds, Holds, Ending
    <3>6. IdleWellKept'
      <4> SUFFICES ASSUME NEW t \in Tids, NEW k \in DOMAIN idle[t]
                   PROVE  VTThrdv'[idle[t][k]] = VTThrdv[idle[t][k]]
        BY <3>1 DEF IInv, IdleWellKept
      <4>1. idle[t][k] # tidOf[p] /\ idle[t][k] \in Tids
        BY <3>2 DEF IInv, TypeOK, UniqueIds
      <4> QED
        BY <3>1, <4>1 DEF IInv, TypeOK
    <3>7. \A t \in Tids : VTThrdv[t].exists => VTThrdv'[t].exists
      BY <3>1, <3>2, <3>3 DEF IInv, TypeOK
    <3>8. VTThrdv'[tidOf[p]].exists
      BY <3>1, <3>2, <3>3 DEF IInv, TypeOK
    <3>9. \A q \in All : q # p => life'[q] = life[q]
      BY <3>1 DEF IInv, TypeOK
    <3>10. life'[p] = "run"
      BY <3>1 DEF IInv, TypeOK
    <3>11. \A q \in All : Holds(q) => life[q] = "named" \/ tidOf[q] \in Tids
      BY DEF IInv, IdsGiven
    <3>12. ObjectsReady'
      <4>1. ASSUME NEW q \in All, life'[q] \in Starting PROVE VTThrdv'[ptid'[q]].exists
        BY <3>1, <3>7, <3>9, <3>10, <4>1 DEF IInv, TypeOK, ObjectsReady, Starting
      <4>2. ASSUME NEW q \in All, life'[q] = "run" PROVE VTThrdv'[tidOf'[q]].exists
        BY <3>1, <3>7, <3>8, <3>9, <3>11, <4>2 DEF IInv, ObjectsReady, Holds
      <4> QED
        BY <4>1, <4>2 DEF ObjectsReady
    <3>13. HeldExists'
      BY <1>0, <3>1, <3>7, <3>8, <3>9, <3>11 DEF IInv, HeldExists, Holds
    <3> QED
      BY <3>4, <3>5, <3>6, <3>12, <3>13 DEF IInv
  <2> QED
    BY <2>1, <2>2
<1>5. ASSUME NEW p \in All, Reuse(p) PROVE IInv'
  <2> DEFINE o == [VTThrdv[tidOf[p]] EXCEPT !.metv = TRUE, !.plugin = TRUE]
  <2>1. tidOf[p] \in Tids /\ VTThrdv \in [Tids -> ObjectType]
    BY <1>0, <1>5 DEF IInv, TypeOK, IdsGiven, Holds, Ending, Reuse
  <2>2. /\ VTThrdv' = [VTThrdv EXCEPT ![tidOf[p]] = o]
        /\ UNCHANGED <<tidOf, ptid, VTThrdn, idle>>
    BY <1>5 DEF Reuse
  <2>3. VTThrdv[tidOf[p]] \in ObjectType
    BY <2>1
  <2>4. /\ o \in ObjectType
        /\ o.exists = VTThrdv[tidOf[p]].exists /\ o.parent = VTThrdv[tidOf[p]].parent
    BY <2>3 DEF ObjectType
  <2> HIDE DEF o
  <2>5. /\ VTThrdv' \in [Tids -> ObjectType]
        /\ \A t \in Tids : /\ VTThrdv'[t].exists = VTThrdv[t].exists
                           /\ VTThrdv'[t].parent = VTThrdv[t].parent
    BY <2>1, <2>2, <2>4, UpdateFacts
  <2>6. TypeOK'
    BY <1>5, <2>1, <2>2, <2>5 DEF IInv, TypeOK, Reuse, Goto
  <2>7. IdsGiven' /\ UniqueIds' /\ IdleWellKept'
    BY <1>5, <2>2, <2>5, <2>6, QuietStep DEF Reuse, Holds, Ending, IInv, TypeOK, Goto
  <2>8. ObjectsReady' /\ HeldExists'
    BY <1>5, <2>2, <2>5, QuietReady DEF Reuse, Starting, IInv, TypeOK, Goto
  <2> QED
    BY <2>6, <2>7, <2>8 DEF IInv
<1>6. ASSUME NEW p \in All, Event(p) PROVE IInv'
  <2> DEFINE old == VTThrdv[tidOf[p]]
             v == old.raw + 1 + old.off
             o == [old EXCEPT !.raw = old.raw + 1, !.val = v]
  <2>1. tidOf[p] \in Tids /\ VTThrdv \in [Tids -> ObjectType]
    BY <1>0, <1>6 DEF IInv, TypeOK, IdsGiven, Holds, Ending, Event
  <2>2. /\ VTThrdv' = [VTThrdv EXCEPT ![tidOf[p]] = o]
        /\ UNCHANGED <<tidOf, ptid, VTThrdn, idle>>
    BY <1>6 DEF Event
  <2>3. VTThrdv[tidOf[p]] \in ObjectType
    BY <2>1
  <2>4. v \in 0 .. MaxCount /\ old.raw + 1 \in 0 .. MaxCount
    BY <1>6, <2>3 DEF ObjectType, Event
  <2>5. /\ o \in ObjectType
        /\ o.exists = VTThrdv[tidOf[p]].exists /\ o.parent = VTThrdv[tidOf[p]].parent
    BY <2>3, <2>4 DEF ObjectType
  <2> HIDE DEF o
  <2>6. /\ VTThrdv' \in [Tids -> ObjectType]
        /\ \A t \in Tids : /\ VTThrdv'[t].exists = VTThrdv[t].exists
                           /\ VTThrdv'[t].parent = VTThrdv[t].parent
    BY <2>1, <2>2, <2>5, UpdateFacts
  <2>7. TypeOK'
    BY <1>6, <2>1, <2>2, <2>4, <2>6 DEF IInv, TypeOK, Event
  <2>8. IdsGiven' /\ UniqueIds' /\ IdleWellKept'
    BY <1>6, <2>2, <2>6, <2>7, QuietStep DEF Event, Holds, Ending, IInv, TypeOK
  <2>9. ObjectsReady' /\ HeldExists'
    BY <1>6, <2>2, <2>6, QuietReady DEF Event, Starting, IInv, TypeOK
  <2> QED
    BY <2>7, <2>8, <2>9 DEF IInv
<1>7. ASSUME NEW p \in All, FreeMetrics(p) PROVE IInv'
  <2> DEFINE o == [VTThrdv[tidOf[p]] EXCEPT !.metv = FALSE, !.raw = 0]
  <2>1. tidOf[p] \in Tids /\ VTThrdv \in [Tids -> ObjectType]
    BY <1>0, <1>7 DEF IInv, TypeOK, IdsGiven, Holds, Ending, FreeMetrics
  <2>2. /\ VTThrdv' = [VTThrdv EXCEPT ![tidOf[p]] = o]
        /\ UNCHANGED <<tidOf, ptid, VTThrdn, idle>>
    BY <1>7 DEF FreeMetrics
  <2>3. VTThrdv[tidOf[p]] \in ObjectType
    BY <2>1
  <2>4. 0 \in 0 .. MaxCount
    OBVIOUS
  <2>5. /\ o \in ObjectType
        /\ o.exists = VTThrdv[tidOf[p]].exists /\ o.parent = VTThrdv[tidOf[p]].parent
    BY <2>3, <2>4 DEF ObjectType
  <2> HIDE DEF o
  <2>6. /\ VTThrdv' \in [Tids -> ObjectType]
        /\ \A t \in Tids : /\ VTThrdv'[t].exists = VTThrdv[t].exists
                           /\ VTThrdv'[t].parent = VTThrdv[t].parent
    BY <2>1, <2>2, <2>5, UpdateFacts
  <2>7. TypeOK'
    BY <1>7, <2>1, <2>2, <2>6 DEF IInv, TypeOK, FreeMetrics, Goto, Ending
  <2>8. IdsGiven' /\ UniqueIds' /\ IdleWellKept'
    BY <1>7, <2>2, <2>6, <2>7, QuietStep DEF FreeMetrics, Holds, Ending, IInv, TypeOK, Goto
  <2>9. ObjectsReady' /\ HeldExists'
    BY <1>7, <2>2, <2>6, QuietReady DEF FreeMetrics, Starting, IInv, TypeOK, Goto
  <2> QED
    BY <2>7, <2>8, <2>9 DEF IInv
<1>8. ASSUME NEW p \in All, idle_tid_list_push_back(p) PROVE IInv'
  <2> DEFINE u == VTThrdv[tidOf[p]].parent
             s == idle[u]
  <2>1. /\ idle' = [idle EXCEPT ![u] = Append(s, tidOf[p])]
        /\ life' = [life EXCEPT ![p] = "pushed"]
        /\ UNCHANGED <<tidOf, ptid, VTThrdn, VTThrdv, written, decreased, raced, ended>>
        /\ life[p] = "freed" /\ Holds(p)
    BY <1>8 DEF idle_tid_list_push_back, Goto, Holds
  <2>2. tidOf[p] \in 0 .. VTThrdn - 1 /\ tidOf[p] \in Tids /\ VTThrdv[tidOf[p]].exists
    BY <2>1 DEF IInv, IdsGiven, HeldExists
  <2>3. u \in Tids /\ s \in Seq(Tids)
    BY <2>2 DEF IInv, TypeOK, ObjectType
  <2> HIDE DEF u, s
  <2>4. /\ Append(s, tidOf[p]) \in Seq(Tids)
        /\ DOMAIN s = 1 .. Len(s) /\ Len(s) \in Nat
        /\ DOMAIN Append(s, tidOf[p]) = 1 .. Len(s) + 1
        /\ \A k \in 1 .. Len(s) : Append(s, tidOf[p])[k] = s[k]
        /\ Append(s, tidOf[p])[Len(s) + 1] = tidOf[p]
    BY <2>2, <2>3, AppendFacts
  <2>5. /\ idle'[u] = Append(s, tidOf[p])
        /\ \A t \in Tids : t # u => idle'[t] = idle[t]
    BY <2>1, <2>3 DEF IInv, TypeOK, s
  <2>6. \A q \in All : (Holds(q)' <=> Holds(q) /\ q # p) /\ tidOf'[q] = tidOf[q]
    BY <2>1 DEF IInv, TypeOK, Holds
  \* What is idle after the step is the ID itself or was idle before.
  <2>7. ASSUME NEW t \in Tids, NEW k \in DOMAIN idle'[t]
        PROVE  \/ t = u /\ k = Len(s) + 1 /\ idle'[t][k] = tidOf[p]
               \/ k \in DOMAIN idle[t] /\ idle'[t][k] = idle[t][k]
    <3>1. CASE t = u
      <4>1. k \in 1 .. Len(s) + 1
        BY <2>4, <2>5, <2>7, <3>1
      <4>2. CASE k = Len(s) + 1
        BY <2>4, <2>5, <3>1, <4>2
      <4>3. CASE k # Len(s) + 1
        <5>1. k \in 1 .. Len(s)
          BY <2>4, <4>1, <4>3
        <5> QED
          BY <2>4, <2>5, <3>1, <5>1 DEF s
      <4> QED
        BY <4>2, <4>3
    <3>2. CASE t # u
      BY <2>5, <2>7, <3>2
    <3> QED
      BY <3>1, <3>2
  <2>8. TypeOK'
    BY <2>1, <2>3, <2>4 DEF IInv, TypeOK, Ending
  <2>9. IdsGiven'
    <3>1. \A q \in All : Holds(q)' \/ life'[q] \in Ending =>
            /\ tidOf'[q] \in 0 .. VTThrdn' - 1
            /\ life'[q] # "named" => tidOf'[q] \in Tids
      BY <2>1, <2>2, <2>6 DEF IInv, IdsGiven, TypeOK, Ending
    <3>2. \A t \in Tids : \A k \in DOMAIN idle'[t] : idle'[t][k] \in 0 .. VTThrdn' - 1
      BY <2>1, <2>2, <2>7 DEF IInv, IdsGiven
    <3> QED
      BY <3>1, <3>2 DEF IdsGiven
  <2>10. UniqueIds'
    <3>1. \A q, r \in All : q # r /\ Holds(q)' /\ Holds(r)' => tidOf'[q] # tidOf'[r]
      BY <2>6 DEF IInv, UniqueIds
    <3>2. ASSUME NEW q \in All, NEW t \in Tids, Holds(q)', NEW k \in DOMAIN idle'[t]
          PROVE  idle'[t][k] # tidOf'[q]
      <4>1. Holds(q) /\ q # p /\ tidOf'[q] = tidOf[q] /\ tidOf[q] # tidOf[p]
        BY <2>1, <2>6, <3>2 DEF IInv, UniqueIds
      <4> QED
        BY <2>7, <4>1 DEF IInv, UniqueIds
    <3> QED
      BY <3>1, <3>2 DEF UniqueIds
  <2>11. IdleWellKept'
    <3>1. \A t \in Tids : \A k \in DOMAIN idle[t] : idle[t][k] # tidOf[p]
      BY <2>1 DEF IInv, UniqueIds
    <3>2. ASSUME NEW t \in Tids, NEW k \in DOMAIN idle'[t]
          PROVE  VTThrdv[idle'[t][k]].exists /\ VTThrdv[idle'[t][k]].parent = t
      BY <2>2, <2>7, <3>2 DEF IInv, IdleWellKept, u
    <3>3. ASSUME NEW t \in Tids, NEW k \in DOMAIN idle'[t], NEW j \in DOMAIN idle'[t],
                 idle'[t][j] = idle'[t][k]
          PROVE  j = k
      <4>1. \/ t = u /\ k = Len(s) + 1 /\ idle'[t][k] = tidOf[p]
            \/ k \in DOMAIN idle[t] /\ idle'[t][k] = idle[t][k]
        BY <2>7
      <4>2. \/ t = u /\ j = Len(s) + 1 /\ idle'[t][j] = tidOf[p]
            \/ j \in DOMAIN idle[t] /\ idle'[t][j] = idle[t][j]
        BY <2>7
      <4> QED
        BY <3>1, <3>3, <4>1, <4>2 DEF IInv, IdleWellKept
    <3> QED
      BY <2>1, <3>2, <3>3 DEF IdleWellKept
  <2>12. ObjectsReady' /\ HeldExists'
    BY <2>1 DEF IInv, TypeOK, ObjectsReady, HeldExists, Starting
  <2> QED
    BY <2>8, <2>9, <2>10, <2>11, <2>12 DEF IInv
<1>9. ASSUME NEW p \in All, SaveOffsets(p) PROVE IInv'
  <2> DEFINE o == [VTThrdv[tidOf[p]] EXCEPT !.off = VTThrdv[tidOf[p]].val]
  <2>1. tidOf[p] \in Tids /\ VTThrdv \in [Tids -> ObjectType]
    BY <1>0, <1>9 DEF IInv, TypeOK, IdsGiven, Holds, Ending, SaveOffsets
  <2>2. /\ VTThrdv' = [VTThrdv EXCEPT ![tidOf[p]] = o]
        /\ UNCHANGED <<tidOf, ptid, VTThrdn, idle>>
    BY <1>9 DEF SaveOffsets
  <2>3. VTThrdv[tidOf[p]] \in ObjectType
    BY <2>1
  <2>4. /\ o \in ObjectType
        /\ o.exists = VTThrdv[tidOf[p]].exists /\ o.parent = VTThrdv[tidOf[p]].parent
    BY <2>3 DEF ObjectType
  <2> HIDE DEF o
  <2>5. /\ VTThrdv' \in [Tids -> ObjectType]
        /\ \A t \in Tids : /\ VTThrdv'[t].exists = VTThrdv[t].exists
                           /\ VTThrdv'[t].parent = VTThrdv[t].parent
    BY <2>1, <2>2, <2>4, UpdateFacts
  <2>6. TypeOK'
    BY <1>9, <2>1, <2>2, <2>5 DEF IInv, TypeOK, SaveOffsets, Goto, Ending
  <2>7. IdsGiven' /\ UniqueIds' /\ IdleWellKept'
    BY <1>9, <2>2, <2>5, <2>6, QuietStep DEF SaveOffsets, Holds, Ending, IInv, TypeOK, Goto
  <2>8. ObjectsReady' /\ HeldExists'
    BY <1>9, <2>2, <2>5, QuietReady DEF SaveOffsets, Starting, IInv, TypeOK, Goto
  <2> QED
    BY <2>6, <2>7, <2>8 DEF IInv
<1>10. ASSUME NEW p \in All, DisablePlugin(p) PROVE IInv'
  <2> DEFINE o == [VTThrdv[tidOf[p]] EXCEPT !.plugin = FALSE]
  <2>1. tidOf[p] \in Tids /\ VTThrdv \in [Tids -> ObjectType]
    BY <1>0, <1>10 DEF IInv, TypeOK, IdsGiven, Holds, Ending, DisablePlugin
  <2>2. /\ VTThrdv' = [VTThrdv EXCEPT ![tidOf[p]] = o]
        /\ UNCHANGED <<tidOf, ptid, VTThrdn, idle>>
    BY <1>10 DEF DisablePlugin
  <2>3. VTThrdv[tidOf[p]] \in ObjectType
    BY <2>1
  <2>4. /\ o \in ObjectType
        /\ o.exists = VTThrdv[tidOf[p]].exists /\ o.parent = VTThrdv[tidOf[p]].parent
    BY <2>3 DEF ObjectType
  <2> HIDE DEF o
  <2>5. /\ VTThrdv' \in [Tids -> ObjectType]
        /\ \A t \in Tids : /\ VTThrdv'[t].exists = VTThrdv[t].exists
                           /\ VTThrdv'[t].parent = VTThrdv[t].parent
    BY <2>1, <2>2, <2>4, UpdateFacts
  <2>6. TypeOK'
    BY <1>10, <2>1, <2>2, <2>5 DEF IInv, TypeOK, DisablePlugin, Goto
  <2>7. IdsGiven' /\ UniqueIds' /\ IdleWellKept'
    BY <1>10, <2>2, <2>5, <2>6, QuietStep DEF DisablePlugin, Holds, Ending, IInv, TypeOK, Goto
  <2>8. ObjectsReady' /\ HeldExists'
    BY <1>10, <2>2, <2>5, QuietReady DEF DisablePlugin, Starting, IInv, TypeOK, Goto
  <2> QED
    BY <2>6, <2>7, <2>8 DEF IInv
<1>11. CASE UNCHANGED vars
  BY <1>11 DEF IInv, vars, TypeOK, IdsGiven, UniqueIds, IdleWellKept, ObjectsReady,
               HeldExists, Holds
<1> QED
  BY <1>1, <1>2, <1>3, <1>4, <1>5, <1>6, <1>7, <1>8, <1>9, <1>10, <1>11 DEF Next, Step

------------------------------------------------------------------------------
(* IDs that are handed over. *)

\* The threads that may change the object of their ID: as Holds, until the last
\* step of their end.
Uses(p) == Holds(p) \/ life[p] \in Ending

\* Two threads use an ID only if it was handed over too early.
OneUser ==
  \A p, q \in All : p # q /\ Uses(p) /\ Uses(q) /\ tidOf[p] = tidOf[q] => tidOf[p] \in raced

\* An ID without an object is a new one, and one with an ending thread has one.
Fresh ==
  /\ \A t \in Tids : ~VTThrdv[t].exists => /\ VTThrdv[t] = NoObject
                                          /\ written[t] = 0 /\ t \notin raced
  /\ \A t \in Tids : t >= VTThrdn => ~VTThrdv[t].exists
  /\ \A p \in All : /\ life[p] = "named" /\ tidOf[p] \in Tids => ~VTThrdv[tidOf[p]].exists
                    /\ life[p] \in Ending => VTThrdv[tidOf[p]].exists

\* What the object of a thread's ID has, as far as the thread has got with it.
Proper(p) ==
  LET o == VTThrdv[tidOf[p]] IN
  /\ life[p] \in {"reuse", "run"} => o.val = o.raw + o.off
  /\ life[p] \in Ending => o.raw = 0
  /\ life[p] = "saved" => o.off = o.val
  /\ life[p] = "run" => o.plugin

\* What the next owner of an idle ID finds: the offset has all that was counted.
Rested(t) == VTThrdv[t].raw = 0 /\ VTThrdv[t].off = VTThrdv[t].val

\* The invariant of the handing over of IDs.
HInv ==
  /\ OneUser /\ Fresh
  /\ \A t \in Tids : written[t] = VTThrdv[t].val
  /\ \A p \in All : Uses(p) /\ tidOf[p] \notin raced => Proper(p)
  /\ \A u \in Tids : \A k \in DOMAIN idle[u] :
        idle[u][k] \notin raced /\ ~StillEnding(idle[u][k]) => Rested(idle[u][k])
  /\ decreased \subseteq raced

\* HInv does not depend on anything but the variables.
LEMMA StutterHInv == HInv /\ UNCHANGED vars => HInv'
BY DEF HInv, vars, OneUser, Fresh, Proper, Rested, Uses, Holds, StillEnding

\* The IDs that are used and the lists of idle ones are within range.
LEMMA UsedIds ==
  ASSUME IInv
  PROVE  /\ VTThrdn \in Nat /\ raced \subseteq Tids
         /\ \A p \in All : Uses(p) => tidOf[p] \in 0 .. VTThrdn - 1
         /\ \A p \in All : Uses(p) => life[p] = "named" \/ tidOf[p] \in Tids
         /\ \A u \in Tids : \A k \in DOMAIN idle[u] :
               /\ idle[u][k] \in Tids /\ idle[u][k] \in 0 .. VTThrdn - 1
               /\ \A p \in All : Holds(p) => tidOf[p] # idle[u][k]
<1>1. VTThrdn \in Nat
  BY ThreadsAssumption DEF IInv, TypeOK
<1> QED
  BY <1>1 DEF IInv, TypeOK, IdsGiven, UniqueIds, Uses

\* A step of a thread that has an ID and works on its own object.
LEMMA OwnStep ==
  ASSUME IInv, HInv, NEW p \in All, Uses(p), tidOf[p] \in Tids,
         NEW o \in ObjectType, o.exists,
         NEW l, l \in {"run", "freed", "saved", "gone"},
         l \in {"run", "freed"} => Holds(p),
         VTThrdv' = [VTThrdv EXCEPT ![tidOf[p]] = o],
         life' = [life EXCEPT ![p] = l],
         UNCHANGED <<tidOf, idle, VTThrdn, raced>>,
         \A t \in Tids : t # tidOf[p] => written'[t] = written[t],
         written'[tidOf[p]] = o.val,
         decreased' \subseteq raced,
         tidOf[p] \notin raced =>
            /\ l = "run" => o.val = o.raw + o.off /\ o.plugin
            /\ l \in Ending => o.raw = 0
            /\ l = "saved" => o.off = o.val
            /\ l = "gone" /\ ~Holds(p) => o.raw = 0 /\ o.off = o.val
  PROVE  HInv'
<1> DEFINE c == tidOf[p]
<1>1. /\ VTThrdn \in Nat /\ c \in Tids /\ c \in 0 .. VTThrdn - 1
      /\ \A q \in All : Uses(q) => life[q] = "named" \/ tidOf[q] \in Tids
      /\ \A u \in Tids : \A k \in DOMAIN idle[u] :
            /\ idle[u][k] \in Tids
            /\ \A q \in All : Holds(q) => tidOf[q] # idle[u][k]
  BY UsedIds
<1>2. /\ VTThrdv'[c] = o
      /\ \A t \in Tids : t # c => VTThrdv'[t] = VTThrdv[t]
  BY <1>1 DEF IInv, TypeOK
<1>3. life'[p] = l /\ \A q \in All : q # p => life'[q] = life[q]
  BY DEF IInv, TypeOK
<1>4. \A q \in All : q # p => (Uses(q)' <=> Uses(q)) /\ (Holds(q)' <=> Holds(q))
  BY <1>3 DEF Uses, Holds
<1>5. OneUser'
  BY <1>4 DEF HInv, OneUser
<1>6. Fresh'
  <2>1. ASSUME NEW t \in Tids, ~VTThrdv'[t].exists
        PROVE  VTThrdv'[t] = NoObject /\ written'[t] = 0 /\ t \notin raced'
    BY <1>2, <2>1 DEF HInv, Fresh
  <2>2. ASSUME NEW t \in Tids, t >= VTThrdn' PROVE ~VTThrdv'[t].exists
    <3>1. t # c
      BY <1>1, <2>2 DEF Tids
    <3> QED
      BY <1>2, <2>2, <3>1 DEF HInv, Fresh
  <2>3. ASSUME NEW q \in All, life'[q] = "named", tidOf'[q] \in Tids
        PROVE  ~VTThrdv'[tidOf'[q]].exists
    <3>1. q # p /\ life[q] = "named" /\ Uses(q)
      BY <1>3, <2>3 DEF Uses, Holds
    <3>2. tidOf[q] \in Tids /\ ~VTThrdv[tidOf[q]].exists /\ tidOf[q] \notin raced
      BY <2>3, <3>1 DEF HInv, Fresh
    <3>3. tidOf[q] # c
      BY <3>1, <3>2 DEF HInv, OneUser
    <3> QED
      BY <1>2, <3>2, <3>3
  <2>4. ASSUME NEW q \in All, life'[q] \in Ending PROVE VTThrdv'[tidOf'[q]].exists
    <3>1. CASE tidOf[q] = c
      BY <1>2, <3>1
    <3>2. CASE tidOf[q] # c
      <4>1. life[q] \in Ending /\ Uses(q)
        BY <1>3, <2>4, <3>2 DEF Uses
      <4>2. tidOf[q] \in Tids
        BY <1>1, <4>1 DEF Ending
      <4> QED
        BY <1>2, <3>2, <4>1, <4>2 DEF HInv, Fresh
    <3> QED
      BY <3>1, <3>2
  <2> QED
    BY <2>1, <2>2, <2>3, <2>4 DEF Fresh
<1>7. \A t \in Tids : written'[t] = VTThrdv'[t].val
  BY <1>2 DEF HInv
<1>8. ASSUME NEW q \in All, Uses(q)', tidOf'[q] \notin raced' PROVE Proper(q)'
  <2>1. CASE q = p
    BY <1>2, <1>3, <1>8, <2>1 DEF Proper, Ending
  <2>2. CASE q # p /\ life[q] = "named"
    BY <1>3, <2>2 DEF Proper, Ending
  <2>3. CASE q # p /\ life[q] # "named"
    <3>1. Uses(q) /\ tidOf[q] # c /\ tidOf[q] \in Tids
      BY <1>1, <1>4, <1>8, <2>3 DEF HInv, OneUser
    <3>2. Proper(q) /\ VTThrdv'[tidOf[q]] = VTThrdv[tidOf[q]] /\ life'[q] = life[q]
      BY <1>2, <1>3, <1>8, <2>3, <3>1 DEF HInv
    <3> QED
      BY <3>2 DEF Proper
  <2> QED
    BY <2>1, <2>2, <2>3
<1>9. ASSUME NEW u \in Tids, NEW k \in DOMAIN idle[u], idle[u][k] \notin raced,
             ~StillEnding(idle[u][k])'
      PROVE  Rested(idle[u][k])'
  <2> DEFINE i == idle[u][k]
  <2>1. CASE i = c
    <3>1. ~Holds(p) /\ l \notin {"pushed", "saved"}
      BY <1>1, <1>3, <1>9, <2>1 DEF StillEnding
    <3>2. l = "gone"
      BY <3>1
    <3> QED
      BY <1>2, <1>9, <2>1, <3>1, <3>2 DEF Rested
  <2>2. CASE i # c
    <3>1. ~StillEnding(i)
      BY <1>3, <1>9, <2>2 DEF StillEnding
    <3> QED
      BY <1>1, <1>2, <1>9, <2>2, <3>1 DEF HInv, Rested
  <2> QED
    BY <2>1, <2>2
<1> QED
  BY <1>5, <1>6, <1>7, <1>8, <1>9 DEF HInv

\* Every step of every thread keeps the invariant of the handing over.
LEMMA NextHInv == IInv /\ HInv /\ [Next]_vars => HInv'
<1> SUFFICES ASSUME IInv, HInv, [Next]_vars PROVE HInv'
  OBVIOUS
<1>0. /\ VTThrdn \in Nat /\ raced \subseteq Tids
      /\ \A p \in All : Uses(p) => tidOf[p] \in 0 .. VTThrdn - 1
      /\ \A p \in All : Uses(p) => life[p] = "named" \/ tidOf[p] \in Tids
      /\ \A u \in Tids : \A k \in DOMAIN idle[u] :
            /\ idle[u][k] \in Tids /\ idle[u][k] \in 0 .. VTThrdn - 1
            /\ \A p \in All : Holds(p) => tidOf[p] # idle[u][k]
  BY UsedIds
<1>a. VTThrdv \in [Tids -> ObjectType] /\ written \in [Tids -> 0 .. MaxCount] /\ MaxCount \in Nat
  BY ThreadsAssumption DEF IInv, TypeOK
<1>1. ASSUME NEW q \in All, NEW p \in All, NEW wrapped \in BOOLEAN,
             pthread_create(q, p, wrapped)
      PROVE  HInv'
  <2>1. life' = [life EXCEPT ![p] = "born"] /\ life[p] = "none"
        /\ UNCHANGED <<tidOf, VTThrdn, VTThrdv, idle, written, decreased, raced, ended>>
    BY <1>1 DEF pthread_create, Goto
  <2>2. \A r \in All : /\ Uses(r)' <=> Uses(r)
                       /\ Uses(r) => life'[r] = life[r]
                       /\ life'[r] = "named" => life[r] = "named"
                       /\ life'[r] \in Ending <=> life[r] \in Ending
    BY <2>1 DEF IInv, TypeOK, Uses, Holds, Ending
  <2>3. \A t \in Tids : StillEnding(t)' <=> StillEnding(t)
    BY <2>1 DEF IInv, TypeOK, StillEnding
  <2>4. OneUser' /\ Fresh'
    BY <2>1, <2>2 DEF HInv, OneUser, Fresh
  <2> QED
    BY <1>0, <2>1, <2>2, <2>3, <2>4 DEF HInv, Proper, Rested
<1>2. ASSUME NEW p \in All, TakeIdle(p) PROVE HInv'
  <2> DEFINE s == idle[ptid[p]]
             h == Head(s)
  <2>1. ptid[p] \in Tids /\ s \in Seq(Tids) /\ life[p] = "born" /\ ~Uses(p)
    BY <1>2 DEF IInv, TypeOK, TakeIdle, Uses, Holds, Ending
  <2>2. CASE reuseThreadIds /\ s # << >>
    <3>1. /\ tidOf' = [tidOf EXCEPT ![p] = h]
          /\ idle' = [idle EXCEPT ![ptid[p]] = Tail(s)]
          /\ life' = [life EXCEPT ![p] = "reuse"]
          /\ raced' = IF StillEnding(h) THEN raced \cup {h} ELSE raced
          /\ UNCHANGED <<VTThrdn, VTThrdv, written, decreased>>
      BY <1>2, <2>2 DEF TakeIdle, Goto
    <3>2. /\ 1 \in DOMAIN s /\ h = s[1]
          /\ \A k \in DOMAIN Tail(s) : k + 1 \in DOMAIN s /\ Tail(s)[k] = s[k + 1]
      BY <2>1, <2>2, TailFacts
    <3>3. /\ h \in Tids /\ VTThrdv[h].exists
          /\ \A q \in All : Holds(q) => tidOf[q] # h
          /\ h \notin raced /\ ~StillEnding(h) => Rested(h)
      BY <1>0, <2>1, <3>2 DEF HInv, IInv, IdleWellKept
    <3>4. ASSUME NEW u \in Tids, NEW k \in DOMAIN idle'[u]
          PROVE  \E j \in DOMAIN idle[u] : idle[u][j] = idle'[u][k]
      <4>1. CASE u = ptid[p]
        <5>1. idle'[u] = Tail(s)
          BY <2>1, <3>1, <4>1 DEF IInv, TypeOK
        <5> QED
          BY <3>2, <3>4, <4>1, <5>1
      <4>2. CASE u # ptid[p]
        BY <2>1, <3>1, <4>2 DEF IInv, TypeOK
      <4> QED
        BY <4>1, <4>2
    <3> HIDE DEF s, h
    <3>5. /\ life'[p] = "reuse" /\ tidOf'[p] = h
          /\ \A q \in All : q # p => life'[q] = life[q] /\ tidOf'[q] = tidOf[q]
      BY <3>1 DEF IInv, TypeOK
    <3>6. /\ raced \subseteq raced' /\ (StillEnding(h) => h \in raced')
          /\ \A t : t # h => (t \in raced' <=> t \in raced)
      BY <3>1
    <3>7. \A q \in All : q # p => (Uses(q)' <=> Uses(q))
      BY <3>5 DEF Uses, Holds
    <3>8. \A t : StillEnding(t)' <=> StillEnding(t)
      BY <2>1, <3>5 DEF StillEnding, Uses, Ending
    <3>9. OneUser'
      <4>1. ASSUME NEW q \in All, q # p, Uses(q), tidOf[q] = h PROVE h \in raced'
        <5>1. ~Holds(q)
          BY <3>3, <4>1
        <5>2. StillEnding(h)
          BY <4>1, <5>1 DEF Uses, Holds, Ending, StillEnding
        <5> QED
          BY <3>6, <5>2
      <4> QED
        BY <3>5, <3>6, <3>7, <4>1 DEF HInv, OneUser
    <3>10. Fresh'
      <4>1. \A t \in Tids : ~VTThrdv[t].exists => t \notin raced'
        BY <3>3, <3>6 DEF HInv, Fresh
      <4>2. \A q \in All : life'[q] = "named" => life[q] = "named" /\ tidOf'[q] = tidOf[q]
        BY <3>5
      <4>3. \A q \in All : life'[q] \in Ending => life[q] \in Ending /\ tidOf'[q] = tidOf[q]
        BY <3>5 DEF Ending
      <4> QED
        BY <3>1, <4>1, <4>2, <4>3 DEF HInv, Fresh
    <3>11. ASSUME NEW q \in All, Uses(q)', tidOf'[q] \notin raced' PROVE Proper(q)'
      <4>1. CASE q = p
        <5>1. VTThrdv[h].raw = 0 /\ VTThrdv[h].off = VTThrdv[h].val
              /\ VTThrdv[h].val \in Nat
          BY <1>a, <3>3, <3>5, <3>6, <3>11, <4>1 DEF Rested, ObjectType
        <5> QED
          BY <3>1, <3>5, <4>1, <5>1 DEF Proper, Ending
      <4>2. CASE q # p
        <5>1. Proper(q)
          BY <3>5, <3>6, <3>7, <3>11, <4>2 DEF HInv
        <5> QED
          BY <3>1, <3>5, <4>2, <5>1 DEF Proper
      <4> QED
        BY <4>1, <4>2
    <3>12. ASSUME NEW u \in Tids, NEW k \in DOMAIN idle'[u], NEW i, i = idle'[u][k],
                  i \notin raced', ~StillEnding(i)'
           PROVE  Rested(i)'
      <4>1. PICK j \in DOMAIN idle[u] : idle[u][j] = i
        BY <3>4, <3>12
      <4>2. i \notin raced /\ ~StillEnding(i)
        BY <3>6, <3>8, <3>12
      <4>3. Rested(i)
        BY <4>1, <4>2 DEF HInv
      <4> QED
        BY <3>1, <4>3 DEF Rested
    <3>13. \A u \in Tids : \A k \in DOMAIN idle'[u] :
             (idle[u][k] \notin raced /\ ~StillEnding(idle[u][k]) => Rested(idle[u][k]))'
      BY <3>12 DEF StillEnding, Rested
    <3>14. (\A t \in Tids : written[t] = VTThrdv[t].val)' /\ (decreased \subseteq raced)'
      BY <3>1, <3>6 DEF HInv
    <3> QED
      BY <3>9, <3>10, <3>11, <3>13, <3>14 DEF HInv
  <2>3. CASE ~(reuseThreadIds /\ s # << >>)
    <3>1. /\ life' = [life EXCEPT ![p] = "new"]
          /\ UNCHANGED <<tidOf, idle, VTThrdn, VTThrdv, written, decreased, raced>>
      BY <1>2, <2>3 DEF TakeIdle, Goto
    <3>2. \A r \in All : /\ Uses(r)' <=> Uses(r)
                         /\ Uses(r) => life'[r] = life[r]
                         /\ life'[r] = "named" => life[r] = "named"
                         /\ life'[r] \in Ending <=> life[r] \in Ending
      BY <2>1, <3>1 DEF IInv, TypeOK, Uses, Holds, Ending
    <3>3. \A t \in Tids : StillEnding(t)' <=> StillEnding(t)
      BY <2>1, <3>1 DEF IInv, TypeOK, StillEnding
    <3>4. OneUser' /\ Fresh'
      BY <3>1, <3>2 DEF HInv, OneUser, Fresh
    <3> QED
      BY <1>0, <3>1, <3>2, <3>3, <3>4 DEF HInv, Proper, Rested
  <2> QED
    BY <2>2, <2>3
<1>3. ASSUME NEW p \in All, VTThrd_createNewThreadId(p) PROVE HInv'
  <2>1. CASE VTThrdn > VTThrdMaxNum
    <3>1. UNCHANGED <<life, tidOf, VTThrdn, VTThrdv, idle, written, decreased, raced>>
      BY <1>3, <2>1 DEF VTThrd_createNewThreadId
    <3> QED
      BY <3>1 DEF HInv, OneUser, Fresh, Proper, Rested, Uses, Holds, StillEnding
  <2>2. CASE ~(VTThrdn > VTThrdMaxNum)
    <3>1. /\ tidOf' = [tidOf EXCEPT ![p] = VTThrdn]
          /\ VTThrdn' = VTThrdn + 1
          /\ life' = [life EXCEPT ![p] = "named"]
          /\ life[p] = "new"
          /\ UNCHANGED <<VTThrdv, idle, written, decreased, raced>>
      BY <1>3, <2>2 DEF VTThrd_createNewThreadId, Goto
    <3>2. /\ life'[p] = "named" /\ tidOf'[p] = VTThrdn
          /\ \A q \in All : q # p => life'[q] = life[q] /\ tidOf'[q] = tidOf[q]
      BY <3>1 DEF IInv, TypeOK
    <3>3. \A q \in All : q # p => (Uses(q)' <=> Uses(q))
      BY <3>2 DEF Uses, Holds
    <3>4. VTThrdn \in Tids => ~VTThrdv[VTThrdn].exists
      <4>1. VTThrdn >= VTThrdn
        BY <1>0
      <4> QED
        BY <4>1 DEF HInv, Fresh
    <3>5. \A q \in All : Uses(q) => tidOf[q] # VTThrdn
      BY <1>0
    <3>6. OneUser'
      BY <3>1, <3>2, <3>3, <3>5 DEF HInv, OneUser
    <3>7. Fresh'
      <4>1. \A t \in Tids : t >= VTThrdn + 1 => t >= VTThrdn
        BY <1>0 DEF Tids
      <4>2. \A q \in All : life'[q] \in Ending => life[q] \in Ending /\ tidOf'[q] = tidOf[q]
        BY <3>2 DEF Ending
      <4>3. \A q \in All : life'[q] = "named" /\ tidOf'[q] \in Tids => ~VTThrdv[tidOf'[q]].exists
        BY <3>2, <3>4 DEF HInv, Fresh
      <4> QED
        BY <3>1, <4>1, <4>2, <4>3 DEF HInv, Fresh
    <3>8. \A t \in Tids : StillEnding(t)' <=> StillEnding(t)
      BY <3>1, <3>2 DEF StillEnding
    <3>9. \A q \in All : Uses(q)' /\ tidOf'[q] \notin raced' => Proper(q)'
      BY <3>1, <3>2, <3>3 DEF HInv, Proper, Ending
    <3> QED
      BY <1>0, <3>1, <3>6, <3>7, <3>8, <3>9 DEF HInv, Rested
  <2> QED
    BY <2>1, <2>2
<1>4. ASSUME NEW p \in All, VTThrd_create(p) PROVE HInv'
  <2>1. CASE tidOf[p] \notin Tids
    <3>1. UNCHANGED <<life, tidOf, VTThrdn, VTThrdv, idle, written, decreased, raced>>
      BY <1>4, <2>1 DEF VTThrd_create
    <3> QED
      BY <3>1 DEF HInv, OneUser, Fresh, Proper, Rested, Uses, Holds, StillEnding
  <2>2. CASE tidOf[p] \in Tids
    <3> DEFINE o == NewObject(ptid[p])
    <3>1. /\ VTThrdv' = [VTThrdv EXCEPT ![tidOf[p]] = o]
          /\ life' = [life EXCEPT ![p] = "run"]
          /\ UNCHANGED <<tidOf, VTThrdn, idle, written, decreased, raced>>
          /\ life[p] = "named" /\ Uses(p) /\ Holds(p)
      BY <1>4, <2>2 DEF VTThrd_create, Goto, Uses, Holds
    <3>2. o \in ObjectType /\ o.exists /\ o.val = 0 /\ o.raw = 0 /\ o.off = 0 /\ o.plugin
      BY ObjectFacts DEF IInv, TypeOK, NewObject
    <3>3. written'[tidOf[p]] = o.val
      BY <2>2, <3>1, <3>2 DEF HInv, Fresh
    <3>4. decreased' \subseteq raced
      BY <3>1 DEF HInv
    <3>5. o.val = o.raw + o.off /\ "run" \notin Ending
      BY <3>2 DEF Ending
    <3>6. /\ VTThrdv' = [VTThrdv EXCEPT ![tidOf[p]] = o]
          /\ \A t \in Tids : t # tidOf[p] => written'[t] = written[t]
      BY <3>1
    <3> HIDE DEF o
    <3> QED
      BY <2>2, <3>1, <3>2, <3>3, <3>4, <3>5, <3>6, OwnStep
  <2> QED
    BY <2>1, <2>2
<1>5. ASSUME NEW p \in All, Reuse(p) PROVE HInv'
  <2> DEFINE old == VTThrdv[tidOf[p]]
             o == [old EXCEPT !.metv = TRUE, !.plugin = TRUE]
  <2>1. /\ VTThrdv' = [VTThrdv EXCEPT ![tidOf[p]] = o]
        /\ life' = [life EXCEPT ![p] = "run"]
        /\ UNCHANGED <<tidOf, VTThrdn, idle, written, decreased, raced>>
        /\ life[p] = "reuse" /\ Uses(p) /\ Holds(p)
    BY <1>5 DEF Reuse, Goto, Uses, Holds
  <2>2. old \in ObjectType /\ old.exists /\ written[tidOf[p]] = old.val
        /\ tidOf[p] \in Tids
    BY <1>0, <1>a, <2>1 DEF IInv, HeldExists, HInv
  <2>3. /\ o \in ObjectType /\ o.exists /\ o.plugin
        /\ o.val = old.val /\ o.raw = old.raw /\ o.off = old.off
    BY <2>2 DEF ObjectType
  <2>4. tidOf[p] \notin raced => old.val = old.raw + old.off
    BY <2>1 DEF HInv, Proper
  <2>5. decreased' \subseteq raced
    BY <2>1 DEF HInv
  <2> HIDE DEF o, old
  <2> QED
    BY <2>1, <2>2, <2>3, <2>4, <2>5, OwnStep DEF Ending
<1>6. ASSUME NEW p \in All, Event(p) PROVE HInv'
  <2> DEFINE old == VTThrdv[tidOf[p]]
             v == old.raw + 1 + old.off
             o == [old EXCEPT !.raw = old.raw + 1, !.val = v]
  <2>1. /\ VTThrdv' = [VTThrdv EXCEPT ![tidOf[p]] = o]
        /\ written' = [written EXCEPT ![tidOf[p]] = v]
        /\ decreased' = (IF v < written[tidOf[p]] THEN decreased \cup {tidOf[p]} ELSE decreased)
        /\ UNCHANGED <<life, tidOf, VTThrdn, idle, raced>>
        /\ life[p] = "run" /\ Uses(p) /\ Holds(p) /\ v <= MaxCount
    BY <1>6 DEF Event, Uses, Holds
  <2>2. /\ old \in ObjectType /\ old.exists /\ written[tidOf[p]] = old.val
        /\ tidOf[p] \in Tids
    BY <1>0, <1>a, <2>1 DEF IInv, HeldExists, HInv
  <2>3. old.raw \in Nat /\ old.off \in Nat /\ old.val \in Nat
    BY <2>2, <1>a DEF ObjectType
  <2>4. v \in 0 .. MaxCount /\ old.raw + 1 \in 0 .. MaxCount
    <3> HIDE DEF old
    <3> QED
      BY <1>a, <2>1, <2>3
  <2>5. /\ o \in ObjectType /\ o.exists /\ o.plugin = old.plugin
        /\ o.val = v /\ o.raw = old.raw + 1 /\ o.off = old.off
    BY <2>2, <2>4 DEF ObjectType
  <2>6. tidOf[p] \notin raced => old.val = old.raw + old.off /\ old.plugin
    BY <2>1 DEF HInv, Proper
  <2>7. v = (old.raw + 1) + old.off /\ (tidOf[p] \notin raced => ~(v < old.val))
    <3> HIDE DEF old
    <3> QED
      BY <2>3, <2>6
  <2>8. decreased' \subseteq raced
    BY <2>1, <2>2, <2>7 DEF HInv
  <2>9. /\ written'[tidOf[p]] = v
        /\ \A t \in Tids : t # tidOf[p] => written'[t] = written[t]
    BY <1>a, <2>1, <2>2
  <2>10. life' = [life EXCEPT ![p] = "run"]
    BY <2>1 DEF IInv, TypeOK
  <2> HIDE DEF o, old, v
  <2> QED
    BY <2>1, <2>2, <2>5, <2>6, <2>7, <2>8, <2>9, <2>10, OwnStep DEF Ending
<1>7. ASSUME NEW p \in All, FreeMetrics(p) PROVE HInv'
  <2> DEFINE old == VTThrdv[tidOf[p]]
             o == [old EXCEPT !.metv = FALSE, !.raw = 0]
             l == IF reuseThreadIds THEN "freed" ELSE "gone"
  <2>1. /\ VTThrdv' = [VTThrdv EXCEPT ![tidOf[p]] = o]
        /\ life' = [life EXCEPT ![p] = l] /\ l \in {"freed", "gone"}
        /\ UNCHANGED <<tidOf, VTThrdn, idle, written, decreased, raced>>
        /\ Uses(p) /\ Holds(p) /\ life[p] = "run"
    BY <1>7 DEF FreeMetrics, Goto, Uses, Holds
  <2>2. old \in ObjectType /\ old.exists /\ written[tidOf[p]] = old.val
        /\ tidOf[p] \in Tids
    BY <1>0, <1>a, <2>1 DEF IInv, HeldExists, HInv
  <2>3. 0 \in 0 .. MaxCount
    BY <1>a
  <2>4. o \in ObjectType /\ o.exists /\ o.val = old.val /\ o.raw = 0
    BY <2>2, <2>3 DEF ObjectType
  <2>5. decreased' \subseteq raced
    BY <2>1 DEF HInv
  <2> HIDE DEF o, old, l
  <2> QED
    BY <2>1, <2>2, <2>4, <2>5, OwnStep DEF Ending
<1>8. ASSUME NEW p \in All, idle_tid_list_push_back(p) PROVE HInv'
  <2> DEFINE u == VTThrdv[tidOf[p]].parent
             s == idle[u]
  <2>1. /\ idle' = [idle EXCEPT ![u] = Append(s, tidOf[p])]
        /\ life' = [life EXCEPT ![p] = "pushed"]
        /\ UNCHANGED <<tidOf, VTThrdn, VTThrdv, written, decreased, raced>>
        /\ life[p] = "freed" /\ Uses(p)
    BY <1>8 DEF idle_tid_list_push_back, Goto, Uses, Holds
  <2>2. tidOf[p] \in Tids /\ u \in Tids /\ s \in Seq(Tids)
    BY <1>0, <1>a, <2>1 DEF IInv, TypeOK, ObjectType
  <2> HIDE DEF u, s
  <2>3. /\ DOMAIN s = 1 .. Len(s) /\ Len(s) \in Nat
        /\ DOMAIN Append(s, tidOf[p]) = 1 .. Len(s) + 1
        /\ \A k \in 1 .. Len(s) : Append(s, tidOf[p])[k] = s[k]
        /\ Append(s, tidOf[p])[Len(s) + 1] = tidOf[p]
    BY <2>2, AppendFacts
  <2>4. /\ life'[p] = "pushed" /\ \A q \in All : q # p => life'[q] = life[q]
    BY <2>1 DEF IInv, TypeOK
  <2>5. \A q \in All : /\ Uses(q)' <=> Uses(q)
                       /\ life'[q] = "named" => life[q] = "named"
                       /\ life'[q] \in Ending => life[q] \in Ending
                       /\ Proper(q) => Proper(q)'
    BY <2>1, <2>4 DEF Uses, Holds, Ending, Proper
  <2>6. \A t : StillEnding(t)' <=> (StillEnding(t) \/ t = tidOf[p])
    BY <2>1, <2>4 DEF StillEnding
  <2>7. ASSUME NEW w \in Tids, NEW k \in DOMAIN idle'[w], idle'[w][k] # tidOf[p]
        PROVE  k \in DOMAIN idle[w] /\ idle'[w][k] = idle[w][k]
    <3>1. CASE w = u
      <4>1. idle'[w] = Append(s, tidOf[p]) /\ idle[w] = s
        BY <2>1, <2>2, <3>1 DEF IInv, TypeOK, s
      <4>2. k \in 1 .. Len(s) + 1 /\ k # Len(s) + 1
        BY <2>3, <2>7, <4>1
      <4>3. k \in 1 .. Len(s)
        BY <2>3, <4>2
      <4> QED
        BY <2>3, <4>1, <4>3
    <3>2. CASE w # u
      BY <2>1, <2>2, <2>7, <3>2 DEF IInv, TypeOK
    <3> QED
      BY <3>1, <3>2
  <2>8. OneUser' /\ Fresh'
    BY <2>1, <2>5 DEF HInv, OneUser, Fresh
  <2>9. ASSUME NEW w \in Tids, NEW k \in DOMAIN idle'[w], NEW i, i = idle'[w][k],
               i \notin raced', ~StillEnding(i)'
        PROVE  Rested(i)'
    <3>1. i # tidOf[p] /\ ~StillEnding(i)
      BY <2>6, <2>9
    <3>2. k \in DOMAIN idle[w] /\ i = idle[w][k] /\ i \notin raced
      BY <2>1, <2>7, <2>9, <3>1
    <3>3. Rested(i)
      BY <3>1, <3>2 DEF HInv
    <3> QED
      BY <2>1, <3>3 DEF Rested
  <2>10. \A w \in Tids : \A k \in DOMAIN idle'[w] :
           (idle[w][k] \notin raced /\ ~StillEnding(idle[w][k]) => Rested(idle[w][k]))'
    BY <2>9 DEF StillEnding, Rested
  <2>11. \A q \in All : (Uses(q) /\ tidOf[q] \notin raced => Proper(q))'
    BY <2>1, <2>5 DEF HInv
  <2> QED
    BY <2>1, <2>8, <2>10, <2>11 DEF HInv
<1>9. ASSUME NEW p \in All, SaveOffsets(p) PROVE HInv'
  <2> DEFINE old == VTThrdv[tidOf[p]]
             o == [old EXCEPT !.off = old.val]
  <2>1. /\ VTThrdv' = [VTThrdv EXCEPT ![tidOf[p]] = o]
        /\ life' = [life EXCEPT ![p] = "saved"]
        /\ UNCHANGED <<tidOf, VTThrdn, idle, written, decreased, raced>>
        /\ life[p] = "pushed" /\ life[p] \in Ending /\ Uses(p)
    BY <1>9 DEF SaveOffsets, Goto, Uses, Ending
  <2>2. old \in ObjectType /\ old.exists /\ written[tidOf[p]] = old.val
        /\ tidOf[p] \in Tids
    BY <1>0, <1>a, <2>1 DEF HInv, Fresh
  <2>3. o \in ObjectType /\ o.exists /\ o.val = old.val /\ o.raw = old.raw /\ o.off = old.val
    BY <2>2 DEF ObjectType
  <2>4. tidOf[p] \notin raced => old.raw = 0
    BY <2>1 DEF HInv, Proper
  <2>5. decreased' \subseteq raced
    BY <2>1 DEF HInv
  <2> HIDE DEF o, old
  <2> QED
    BY <2>1, <2>2, <2>3, <2>4, <2>5, OwnStep
<1>10. ASSUME NEW p \in All, DisablePlugin(p) PROVE HInv'
  <2> DEFINE old == VTThrdv[tidOf[p]]
             o == [old EXCEPT !.plugin = FALSE]
  <2>1. /\ VTThrdv' = [VTThrdv EXCEPT ![tidOf[p]] = o]
        /\ life' = [life EXCEPT ![p] = "gone"]
        /\ UNCHANGED <<tidOf, VTThrdn, idle, written, decreased, raced>>
        /\ life[p] = "saved" /\ life[p] \in Ending /\ Uses(p)
    BY <1>10 DEF DisablePlugin, Goto, Uses, Ending
  <2>2. old \in ObjectType /\ old.exists /\ written[tidOf[p]] = old.val
        /\ tidOf[p] \in Tids
    BY <1>0, <1>a, <2>1 DEF HInv, Fresh
  <2>3. o \in ObjectType /\ o.exists /\ o.val = old.val /\ o.raw = old.raw /\ o.off = old.off
    BY <2>2 DEF ObjectType
  <2>4. tidOf[p] \notin raced => old.raw = 0 /\ old.off = old.val
    BY <2>1 DEF HInv, Proper
  <2>5. decreased' \subseteq raced
    BY <2>1 DEF HInv
  <2> HIDE DEF o, old
  <2> QED
    BY <2>1, <2>2, <2>3, <2>4, <2>5, OwnStep DEF Ending
<1>11. CASE UNCHANGED vars
  BY <1>11, StutterHInv
<1> QED
  BY <1>1, <1>2, <1>3, <1>4, <1>5, <1>6, <1>7, <1>8, <1>9, <1>10, <1>11 DEF Next, Step

\* At first only the main thread uses an ID, whose object is new.
LEMMA InitHInv == Init => HInv
<1> SUFFICES ASSUME Init PROVE HInv
  OBVIOUS
<1>1. \A p \in All : /\ life[p] = (IF p = Main THEN "run" ELSE "none")
                     /\ tidOf[p] = (IF p = Main THEN 0 ELSE NoTid)
  BY DEF Init
<1>2. \A p \in All : Uses(p) => p = Main /\ tidOf[p] = 0 /\ life[p] = "run"
  BY <1>1 DEF Uses, Holds, Ending
<1>3. /\ raced = {} /\ decreased = {} /\ VTThrdn = 1 /\ 0 \in Tids
      /\ VTThrdv[0] = NewObject(0)
      /\ \A t \in Tids : t # 0 => VTThrdv[t] = NoObject
      /\ \A t \in Tids : written[t] = 0 /\ idle[t] = << >>
  BY ObjectFacts DEF Init
<1>4. NewObject(0).exists /\ NewObject(0).val = 0 /\ NewObject(0).raw = 0
      /\ NewObject(0).off = 0 /\ NewObject(0).plugin /\ ~NoObject.exists /\ NoObject.val = 0
  BY DEF NewObject, NoObject
<1>5. OneUser
  BY <1>2 DEF OneUser
<1>6. Fresh
  <2>1. \A t \in Tids : t >= 1 => t # 0
    BY DEF Tids
  <2>2. \A p \in All : life[p] # "named" /\ life[p] \notin Ending
    BY <1>1 DEF Ending
  <2> QED
    BY <1>3, <1>4, <2>1, <2>2 DEF Fresh
<1>7. \A t \in Tids : written[t] = VTThrdv[t].val
  BY <1>3, <1>4
<1>8. \A p \in All : Uses(p) => Proper(p)
  BY <1>2, <1>3, <1>4 DEF Proper, Ending
<1>9. \A u \in Tids : DOMAIN idle[u] = {}
  BY <1>3
<1> QED
  BY <1>3, <1>5, <1>6, <1>7, <1>8, <1>9 DEF HInv

------------------------------------------------------------------------------
(* The theorems. *)

\* IInv holds in every reachable state.
LEMMA Invariance == Spec => []IInv
BY InitIInv, NextIInv, PTL DEF Spec

\* The types of all variables, the tables having VTThrdMaxNum entries: up to the
\* moment at which an object is stored behind the end of VTThrdv, only a thread
\* that has no object yet has the ID VTThrdMaxNum.
THEOREM TypeCorrect == Spec => []TypeOK
<1>1. IInv => TypeOK
  BY DEF IInv
<1> QED
  BY <1>1, Invariance, PTL

\* Two threads never record with the same ID, and an idle ID is nobody's,
\* however threads start and end.
THEOREM IdsNeverShared == Spec => []UniqueIds
<1>1. IInv => UniqueIds
  BY DEF IInv
<1> QED
  BY <1>1, Invariance, PTL

\* An ID is idle once, and only for children of the parent it was made for.
THEOREM ListsWellKept == Spec => []IdleWellKept
<1>1. IInv => IdleWellKept
  BY DEF IInv
<1> QED
  BY <1>1, Invariance, PTL

\* The objects a thread needs when it registers and when it records exist.
THEOREM ObjectsAlwaysReady == Spec => []ObjectsReady
<1>1. IInv => ObjectsReady
  BY DEF IInv
<1> QED
  BY <1>1, Invariance, PTL

\* The three together: whatever threads start and end at the same time, the
\* registry is sound.
THEOREM RegistryAlwaysSound == Spec => []RegistrySound
<1>1. IInv => RegistrySound
  BY DEF IInv, RegistrySound
<1> QED
  BY <1>1, Invariance, PTL
\* What a thread records under an ID goes on from where the last owner of the
\* ID stopped, and its plugin counters are enabled, however threads start and
\* end; only an ID that was handed over during its owner's end is excepted.
THEOREM IdsHandedOverWell == Spec => []HandedOverWell
<1>1. Init => IInv /\ HInv
  BY InitIInv, InitHInv
<1>2. IInv /\ HInv /\ [Next]_vars => IInv' /\ HInv'
  BY NextIInv, NextHInv
<1>3. HInv => HandedOverWell
  BY DEF HInv, HandedOverWell, CountersContinue, PluginEnabled, Proper, Uses, Holds
<1> QED
  BY <1>1, <1>2, <1>3, PTL DEF Spec
=============================================================================
