----------------------------- MODULE FilterTrace -----------------------------
(***************************************************************************)
(* vtfilter-mpi --filt (tools/vtfilter): rank 0 reads the definitions and  *)
(* the filter file, deals the enabled processes to output streams, and     *)
(* sends every worker rank its streams and rules; each rank then reads the *)
(* events of its streams and writes what the rules let through, while rank *)
(* 0 shows the progress of all of them. MPI is external: messages between  *)
(* two ranks arrive in order, and a small message is either copied when it *)
(* is sent or read from its sender when a receive takes it. Built without OpenMP, a rank processes *)
(* its streams one after the other.                                        *)
(***************************************************************************)
EXTENDS FilterRules, FiniteSets

CONSTANT Confs
\* Traces and command lines: the number of ranks, the processes in the order of
\* their definitions (id, parent; a process has its rank plus 1), the process
\* groups, the events of all in the order of their times (proc, kind, func), the
\* number of statistics per process (stats), the filter file (rules), the numbers
\* of streams of the trace and of the command line (input, max), the record limit
\* of a call of the reader (batch), whether progress is shown (progress), whether
\* small messages are copied when they are sent (eager), and whether a stream may
\* fail to be closed (unchecked).

ASSUME ConfsAssumption ==
  \A c \in Confs :
    /\ c.ranks \in Nat \ {0} /\ c.input \in Nat \ {0} /\ c.max \in Nat
    /\ c.batch \in Nat \ {0} /\ c.stats \in Nat
    /\ \A i, j \in DOMAIN c.procs : i # j => c.procs[i].id # c.procs[j].id
    /\ \A i \in DOMAIN c.procs : \* a parent is defined before its children
         c.procs[i].parent \in {0} \cup {c.procs[j].id : j \in 1 .. i - 1}
    /\ \A i \in DOMAIN c.rules :
         c.rules[i].kind = "rule" => c.rules[i].limit >= -1

VARIABLES
  conf,
  rank,     \* per rank: where it is and what it knows
  mail,     \* the filter rules sent to a rank
  chan,     \* progress messages from a rank to rank 0
  request,  \* rank 0: its persistent request for a rank: "none" (inactive),
            \* "posted", or "arrived" (a message was received)
  recvBuffers, \* rank 0: what was received from a rank
  known,    \* rank 0: rankCurBytes
  out,      \* the output trace: control, definitions, streams
  end       \* how the program ended

vars == <<conf, rank, mail, chan, request, recvBuffers, known, out, end>>

Ranks == 0 .. conf.ranks - 1
Procs == ToSet(conf.procs)
Ids == {p.id : p \in Procs}

Empty == [x \in {} |-> 0]
NoFilter == [off |-> {}, limits |-> Empty]

------------------------------------------------------------------------------
(* The rules of all processes. *)

\* The functions a reading limits, each with its limit.
Limits(f) ==
  LET limited == {func \in {e.func : e \in ToSet(conf.events)} :
                    RFG_Filter_get(f, func) # Unlimited}
  IN [func \in limited |-> RFG_Filter_get(f, func)]

\* One process of readFilter: a process whose parent is off is off; the limits of
\* functions without a global limit are its own.
ReadProcess(filter, p) ==
  LET f == RFG_Filter_readDefFile(conf.rules, p.id - 1)
      global == DOMAIN filter.limits[0]
      own == [func \in DOMAIN Limits(f) \ global |-> Limits(f)[func]] IN
  IF p.parent \in filter.off \/ f.off THEN [filter EXCEPT !.off = @ \cup {p.id}]
  ELSE IF own = Empty THEN filter
  ELSE [filter EXCEPT !.limits = (p.id :> own) @@ @]

\* Process 0 stands for the global rules.
readFilter ==
  Folded(ReadProcess,
    [off |-> {}, limits |-> 0 :> Limits(RFG_Filter_readDefFile(conf.rules, NoRank))],
    conf.procs)

MaxStreams ==
  IF conf.max # 0 THEN conf.max
  ELSE IF conf.input < conf.ranks THEN conf.ranks ELSE conf.input

\* The enabled processes are dealt to the streams in turn.
Distribution(filter) ==
  LET enabled == SelectSeq(conf.procs, LAMBDA p : p.id \notin filter.off)
      n == Len(enabled)
      used == 1 .. IF n < MaxStreams THEN n ELSE MaxStreams
  IN [s \in used |-> {enabled[i].id : i \in {i \in 1 .. n : ((i - 1) % MaxStreams) + 1 = s}}]

\* The worker rank that gets a stream.
Worker(s, workers) == (s - 1) % workers

\* pack and unpack of the rules of a worker's processes and of the global ones.
Packed(filter, procs) ==
  [off |-> filter.off,
   limits |-> [p \in (DOMAIN filter.limits) \cap (procs \cup {0}) |-> filter.limits[p]]]

\* Mutant: the global rules are not sent.
UnpackOwn(m) == [m EXCEPT !.filter.limits[0] = Empty]

unpack(m) == m

------------------------------------------------------------------------------
(* The handlers: state of a reader of one stream [limits, stack, out]. *)

\* The local copy of the rules: the global limits are added to the process's own.
Opened(filter, procs) ==
  [limits |-> [p \in procs |->
                 filter.limits[0] @@ (IF p \in DOMAIN filter.limits THEN filter.limits[p] ELSE Empty)],
   stack |-> [p \in procs |-> << >>], out |-> << >>]

\* The limit of the next call.
NextLimit(h, p, func) ==
  IF func \notin DOMAIN h.limits[p] THEN 1
  ELSE LET limit == h.limits[p][func] IN IF limit > 0 THEN limit - 1 ELSE limit

stackPush(h, p, func) ==
  LET limit == NextLimit(h, p, func) IN
  [h EXCEPT !.stack[p] = Append(@, limit),
            !.limits[p] = IF func \in DOMAIN @ THEN [@ EXCEPT ![func] = limit] ELSE @]

stackPop(h, p) == [h EXCEPT !.stack[p] = Front(@)]

stackTop(h, p) == h.stack[p] = << >> \/ Last(h.stack[p]) > 0

WriteIf(h, e, write) == IF write THEN [h EXCEPT !.out = Append(@, e)] ELSE h

Handle_Enter(h, e) ==
  WriteIf(stackPush(h, e.proc, e.func), e, NextLimit(h, e.proc, e.func) > 0)

Handle_Leave(h, e) == stackPop(WriteIf(h, e, stackTop(h, e.proc)), e.proc)

\* Collective, file and counter events
Handle_Operation(h, e) == WriteIf(h, e, stackTop(h, e.proc))

\* Messages and one-sided communication
Handle_Message(h, e) == WriteIf(h, e, stackTop(h, e.proc))

\* Records without a handler of vtfilter's, comments for example, are copied by OTF.
Handle_Copy(h, e) == WriteIf(h, e, TRUE)

Handle(h, e) ==
  CASE e.kind = "enter" -> Handle_Enter(h, e)
    [] e.kind = "leave" -> Handle_Leave(h, e)
    [] e.kind = "operation" -> Handle_Operation(h, e)
    [] e.kind = "message" -> Handle_Message(h, e)
    [] e.kind = "comment" -> Handle_Copy(h, e)

------------------------------------------------------------------------------
(* The master's part. *)

Idle == [at |-> "barrier", filter |-> NoFilter, streams |-> Empty, todo |-> << >>,
         part |-> "open", pos |-> 0, h |-> Opened([limits |-> 0 :> Empty], {}),
         bytes |-> 0, cur |-> 0, max |-> 0, workers |-> 0, error |-> FALSE]

Init ==
  /\ conf \in Confs
  /\ rank = [r \in Ranks |-> IF r = 0 THEN [Idle EXCEPT !.at = "definitions"] ELSE Idle]
  /\ mail = [r \in Ranks |-> << >>]
  /\ chan = [r \in Ranks |-> << >>]
  /\ request = [r \in Ranks |-> "none"]
  /\ recvBuffers = [r \in Ranks |-> 0]
  /\ known = [r \in Ranks |-> 0]
  /\ out = [control |-> Empty, procs |-> {}, groups |-> {}, streams |-> Empty]
  /\ end = "no"

Go(r, at) == rank' = [rank EXCEPT ![r].at = at]

\* readDefinitions and readFilter; the distribution of the processes.
ReadRules ==
  /\ rank[0].at = "definitions"
  /\ \E filter \in {readFilter} :
       rank' = [rank EXCEPT ![0].at = "control", ![0].filter = filter,
                            ![0].streams = Distribution(filter)]
  /\ UNCHANGED <<conf, mail, chan, request, recvBuffers, known, out, end>>

writeMasterControl ==
  /\ rank[0].at = "control"
  /\ out' = [out EXCEPT !.control = rank[0].streams]
  /\ Go(0, "write") /\ UNCHANGED <<conf, mail, chan, request, recvBuffers, known, end>>

\* FiltTrc__Handle_DefProcess and _DefProcessGroup: what is off is left out,
\* and so are groups without members.
processDefinitions ==
  /\ rank[0].at = "write"
  /\ out' = [out EXCEPT
       !.procs = {p \in Procs : p.id \notin rank[0].filter.off},
       !.groups = {g \ rank[0].filter.off : g \in conf.groups} \ {{}}]
  /\ Go(0, "markers") /\ UNCHANGED <<conf, mail, chan, request, recvBuffers, known, end>>

\* Markers are copied; a single rank goes on alone.
processMarkers ==
  /\ rank[0].at = "markers"
  /\ rank' = [rank EXCEPT ![0].at = IF conf.ranks = 1 THEN "prepare" ELSE "barrier",
                          ![0].workers = conf.ranks]
  /\ UNCHANGED <<conf, mail, chan, request, recvBuffers, known, out, end>>

\* A step of the master's fails, or an input cannot be read: MPI_Abort.
MasterFails ==
  /\ rank[0].at \in {"definitions", "control", "write", "markers"}
  /\ end' = "aborted"
  /\ UNCHANGED <<conf, rank, mail, chan, request, recvBuffers, known, out>>

------------------------------------------------------------------------------
(* Sharing the work. *)

\* getWorkerComm: after a barrier of all ranks those without a stream are done.
getWorkerComm ==
  LET n == Cardinality(DOMAIN rank[0].streams)
      workers == IF conf.ranks > n THEN n ELSE conf.ranks IN
  /\ conf.ranks > 1 /\ \A r \in Ranks : rank[r].at = "barrier"
  /\ rank' = [r \in Ranks |->
       [rank[r] EXCEPT !.workers = workers, !.at = IF r < workers THEN "share" ELSE "done"]]
  /\ UNCHANGED <<conf, mail, chan, request, recvBuffers, known, out, end>>

\* shareFilter of the master, which keeps the streams of its own. An assertion
\* demands more than one worker.
shareFilter ==
  LET me == rank[0]
      Of(r) == [s \in {s \in DOMAIN me.streams : Worker(s, me.workers) = r} |-> me.streams[s]]
      procs(r) == UNION {me.streams[s] : s \in DOMAIN Of(r)} IN
  /\ me.at = "share"
  /\ IF me.workers <= 1 THEN end' = "aborted" /\ UNCHANGED <<rank, mail>>
     ELSE /\ mail' = [r \in Ranks |->
               IF r \in 1 .. me.workers - 1
               THEN <<[streams |-> Of(r), filter |-> Packed(me.filter, procs(r))]>> ELSE << >>]
          /\ rank' = [rank EXCEPT ![0].streams = Of(0), ![0].at = "sent"]
          /\ UNCHANGED end
  /\ UNCHANGED <<conf, chan, request, recvBuffers, known, out>>

\* The master waits until all its messages were received.
AllShared ==
  /\ rank[0].at = "sent" /\ \A r \in Ranks : mail[r] = << >>
  /\ Go(0, "prepare") /\ UNCHANGED <<conf, mail, chan, request, recvBuffers, known, out, end>>

ReceiveFilter(r) ==
  /\ r # 0 /\ rank[r].at = "share" /\ mail[r] # << >>
  /\ LET m == unpack(mail[r][1]) IN
     rank' = [rank EXCEPT ![r].at = "prepare", ![r].streams = m.streams, ![r].filter = m.filter]
  /\ mail' = [mail EXCEPT ![r] = << >>]
  /\ UNCHANGED <<conf, chan, request, recvBuffers, known, out, end>>

------------------------------------------------------------------------------
(* Progress (vt_filter_common.cc). *)

EventsOf(procs) == SelectSeq(conf.events, LAMBDA e : e.proc \in procs)

\* What a stream counts for: its events and statistics.
Size(procs) == Len(EventsOf(procs)) + conf.stats * Cardinality(procs)

InOrder(S) == SetToSortSeq(S, <)

getMaxBytesToRead(r) ==
  FoldLeft(LAMBDA n, s : n + Size(rank[r].streams[s]), 0,
           InOrder(DOMAIN rank[r].streams))

Sum(f, n) == FoldLeft(LAMBDA a, i : a + f[i], 0, [i \in 1 .. n |-> i - 1])

Workers == 0 .. rank[0].workers - 1

Started(r, max) ==
  [rank[r] EXCEPT !.at = "read", !.todo = InOrder(DOMAIN rank[r].streams), !.max = max]

\* prepareProgress: all worker ranks meet and add up their bytes; rank 0 posts a
\* request for each of the others.
prepareProgress ==
  LET max == [r \in Workers |-> getMaxBytesToRead(r)] IN
  /\ conf.progress /\ rank[0].workers # 0 /\ \A r \in Workers : rank[r].at = "prepare"
  /\ rank' = [r \in Ranks |->
       IF r \in Workers THEN Started(r, IF r = 0 THEN Sum(max, rank[0].workers) ELSE max[r])
       ELSE rank[r]]
  /\ request' = [r \in Ranks |-> IF r \in Workers \ {0} THEN "posted" ELSE "none"]
  /\ UNCHANGED <<conf, mail, chan, recvBuffers, known, out, end>>

\* Without progress a rank just starts.
StartReading(r) ==
  /\ ~conf.progress /\ rank[r].at = "prepare"
  /\ rank' = [rank EXCEPT ![r] = Started(r, 0)]
  /\ UNCHANGED <<conf, mail, chan, request, recvBuffers, known, out, end>>

\* The values a message may deliver: that of its sending, if it was copied; else
\* MPI_Issend reads the counter when a receive takes it, and the rank may have gone
\* on counting.
Delivered(r) ==
  LET m == chan[r][1] IN
  {m.value} \cup
  (IF m.kind = "issend" /\ ~conf.eager THEN {rank[r].cur, rank[r].cur + rank[r].bytes} ELSE {})

\* MPI: the receive that rank 0 has posted takes a message; an MPI_Issend is
\* complete with that, whether or not rank 0 has asked for it.
Deliver(r) ==
  /\ request[r] = "posted" /\ chan[r] # << >>
  /\ \E value \in Delivered(r) : recvBuffers' = [recvBuffers EXCEPT ![r] = value]
  /\ request' = [request EXCEPT ![r] = "arrived"]
  /\ chan' = [chan EXCEPT ![r] = Tail(@)]
  /\ UNCHANGED <<conf, rank, mail, known, out, end>>

Arrived == {r \in Workers : request[r] = "arrived"}

\* Mutant: the marker is counted like any other value.
NeverFinished(value) == value # value

Finished(value) == value = -1

\* Rank 0 takes what has arrived and restarts the requests; the last message of a
\* rank, the marker -1, leaves its request inactive.
Take(cur0) ==
  LET now == [r \in Ranks |->
        IF r = 0 THEN cur0
        ELSE IF r \in Arrived /\ ~Finished(recvBuffers[r]) THEN recvBuffers[r] ELSE known[r]] IN
  /\ known' = now
  /\ request' = [r \in Ranks |->
       CASE r \notin Arrived -> request[r]
         [] Finished(recvBuffers[r]) -> "none"
         [] OTHER -> "posted"]
  /\ rank' = [rank EXCEPT ![0].cur = Sum(now, rank[0].workers),
                          ![0].at = IF @ = "update" THEN "read" ELSE @,
                          ![0].bytes = 0]

\* updateProgress of the master: MPI_Testsome, or MPI_Waitsome if there are no
\* bytes to add, which holds at the end of every stream, too.
UpdateMaster ==
  /\ rank[0].at = "update"
  /\ IF rank[0].workers = 1 \/ \A r \in Workers : request[r] = "none"
     THEN /\ known' = [known EXCEPT ![0] = @ + rank[0].bytes]
          /\ rank' = [rank EXCEPT ![0].cur = @ + rank[0].bytes, ![0].bytes = 0, ![0].at = "read"]
          /\ UNCHANGED request
     ELSE /\ rank[0].bytes = 0 => Arrived # {}
          /\ Take(known[0] + rank[0].bytes)
  /\ UNCHANGED <<conf, mail, chan, recvBuffers, out, end>>

\* No receive has taken the message of this rank yet.
Pending(r) == chan[r] # << >>

\* updateProgress of a worker: it sends the counter unless the previous message
\* is still pending.
UpdateWorker(r) ==
  /\ r # 0 /\ rank[r].at = "update"
  /\ rank' = [rank EXCEPT ![r].cur = @ + rank[r].bytes, ![r].bytes = 0, ![r].at = "read"]
  /\ chan' = IF Pending(r) THEN chan
             ELSE [chan EXCEPT ![r] = << [kind |-> "issend", value |-> rank'[r].cur] >>]
  /\ UNCHANGED <<conf, mail, request, recvBuffers, known, out, end>>

\* finishProgress of a worker: it waits for its last message, then sends the
\* counter and the marker.
FinishWorker(r) ==
  /\ r # 0 /\ rank[r].at = "finish" /\ ~Pending(r)
  /\ chan' = [chan EXCEPT ![r] = << [kind |-> "send", value |-> rank[r].cur] >>]
  /\ Go(r, "marker") /\ UNCHANGED <<conf, mail, request, recvBuffers, known, out, end>>

\* A message that is not copied is sent when a receive takes it.
Sent(r) == conf.eager \/ ~Pending(r)

SendMarker(r) ==
  /\ rank[r].at = "marker" /\ Sent(r)
  /\ chan' = [chan EXCEPT ![r] = Append(@, [kind |-> "send", value |-> -1])]
  /\ Go(r, "last") /\ UNCHANGED <<conf, mail, request, recvBuffers, known, out, end>>

MarkerSent(r) ==
  /\ rank[r].at = "last" /\ Sent(r)
  /\ Go(r, "done") /\ UNCHANGED <<conf, mail, chan, request, recvBuffers, known, out, end>>

\* finishProgress of the master: until all bytes are read it waits for messages;
\* then one more for every request that is active.
FinishMaster ==
  /\ rank[0].at = "finish" /\ rank[0].cur < rank[0].max
  /\ Arrived # {} /\ Take(known[0])
  /\ UNCHANGED <<conf, mail, chan, recvBuffers, out, end>>

Waitall ==
  /\ rank[0].at = "finish" /\ rank[0].cur >= rank[0].max
  /\ \A r \in Workers : request[r] # "posted"
  /\ request' = [r \in Ranks |-> "none"]
  /\ Go(0, "done") /\ UNCHANGED <<conf, mail, chan, recvBuffers, known, out, end>>

------------------------------------------------------------------------------
(* processEventsAndStatistics *)

Stream(r) == Head(rank[r].todo)
StreamProcs(r) == rank[r].streams[Stream(r)]

OpenStream(r) ==
  /\ rank[r].at = "read" /\ rank[r].todo # << >> /\ rank[r].part = "open"
  /\ rank' = [rank EXCEPT ![r].part = "events", ![r].pos = 0,
                          ![r].h = Opened(rank[r].filter, StreamProcs(r))]
  /\ UNCHANGED <<conf, mail, chan, request, recvBuffers, known, out, end>>

\* Without progress there is no record limit.
Batch(left) == IF conf.progress /\ conf.batch < left THEN conf.batch ELSE left

Progressed(r, n, part) ==
  [rank[r] EXCEPT !.bytes = n, !.at = IF conf.progress THEN "update" ELSE "read",
                  !.part = IF n = 0 THEN part ELSE @, !.pos = IF n = 0 THEN 0 ELSE @ + n]

\* A call of the reader: a part is read when a call has read nothing.
ReadEvents(r) ==
  LET all == EventsOf(StreamProcs(r))
      n == Batch(Len(all) - rank[r].pos)
      events == SubSeq(all, rank[r].pos + 1, rank[r].pos + n) IN
  /\ rank[r].at = "read" /\ rank[r].todo # << >> /\ rank[r].part = "events"
  /\ rank' = [rank EXCEPT ![r] = [Progressed(r, n, IF @.error THEN "close" ELSE "stats")
                                    EXCEPT !.h = Folded(Handle, @, events)]]
  /\ UNCHANGED <<conf, mail, chan, request, recvBuffers, known, out, end>>

\* Statistics are copied. Without any, the reader fails and nothing is counted.
ReadStatistics(r) ==
  /\ rank[r].at = "read" /\ rank[r].todo # << >> /\ rank[r].part = "stats"
  /\ rank' = [rank EXCEPT ![r] = IF conf.stats = 0 THEN [@ EXCEPT !.part = "close"] ELSE
       Progressed(r, Batch(conf.stats * Cardinality(StreamProcs(r)) - @.pos), "close")]
  /\ UNCHANGED <<conf, mail, chan, request, recvBuffers, known, out, end>>

\* Events cannot be read or written; the next streams are still processed.
ReadingFails(r) ==
  /\ rank[r].at = "read" /\ rank[r].todo # << >> /\ rank[r].part = "events"
  /\ rank' = [rank EXCEPT ![r].error = TRUE, ![r].part = "close"]
  /\ UNCHANGED <<conf, mail, chan, request, recvBuffers, known, out, end>>

\* Nothing asks whether the stream was closed: its end may be missing.
CloseStream(r) ==
  /\ rank[r].at = "read" /\ rank[r].todo # << >> /\ rank[r].part = "close"
  /\ \E written \in {rank[r].h.out} \cup (IF conf.unchecked THEN {<< >>} ELSE {}) :
       out' = [out EXCEPT !.streams = (Stream(r) :> written) @@ @]
  /\ rank' = [rank EXCEPT ![r].todo = Tail(@), ![r].part = "open"]
  /\ UNCHANGED <<conf, mail, chan, request, recvBuffers, known, end>>

\* All streams are processed. After an error the program is aborted.
StreamsDone(r) ==
  /\ rank[r].at = "read" /\ rank[r].todo = << >>
  /\ IF rank[r].error THEN end' = "aborted" /\ UNCHANGED rank
     ELSE /\ Go(r, IF conf.progress /\ (r = 0 \/ rank[0].workers > 1) THEN "finish" ELSE "done")
          /\ UNCHANGED end
  /\ UNCHANGED <<conf, mail, chan, request, recvBuffers, known, out>>

\* The barrier before MPI_Finalize.
Finalize ==
  /\ \A r \in Ranks : rank[r].at = "done"
  /\ end' = "success" /\ UNCHANGED <<conf, rank, mail, chan, request, recvBuffers, known, out>>

Step(r) ==
  \/ ReceiveFilter(r) \/ StartReading(r) \/ OpenStream(r) \/ ReadEvents(r) \/ ReadStatistics(r) \/ CloseStream(r)
  \/ StreamsDone(r) \/ UpdateWorker(r) \/ FinishWorker(r) \/ SendMarker(r) \/ MarkerSent(r)

MasterStep ==
  \/ ReadRules \/ writeMasterControl \/ processDefinitions \/ processMarkers
  \/ shareFilter \/ AllShared \/ UpdateMaster \/ FinishMaster \/ Waitall

Messages == \E r \in Ranks : Deliver(r)

Together == getWorkerComm \/ prepareProgress \/ Finalize

Fails == MasterFails \/ \E r \in Ranks : ReadingFails(r)

Running == end = "no"

Next ==
  /\ Running
  /\ \/ MasterStep
     \/ \E r \in Ranks : Step(r)
     \/ Together
     \/ Messages
     \/ Fails

AllRanks == UNION {0 .. c.ranks - 1 : c \in Confs}

\* Ranks run, and MPI delivers; nothing has to fail.
Spec ==
  /\ Init /\ [][Next]_vars
  /\ WF_vars(Running /\ MasterStep) /\ WF_vars(Running /\ Together)
  /\ \A r \in AllRanks : WF_vars(Running /\ r \in Ranks /\ (Step(r) \/ Deliver(r)))

------------------------------------------------------------------------------
(* Properties. *)

\* A process is enabled unless the file switches it or its parent off.
Enabled ==
  LET ParentOf(id) == (CHOOSE p \in Procs : p.id = id).parent
      on[id \in Ids] == ~SwitchedOff(conf.rules, id - 1) /\ (ParentOf(id) = 0 \/ on[ParentOf(id)])
  IN {id \in Ids : on[id]}

\* The number of events of a kind of a process between two events, by function.
Count(p, kind, funcs, from, to) ==
  Cardinality({i \in from .. to : /\ conf.events[i].proc = p /\ conf.events[i].kind = kind
                                  /\ conf.events[i].func \in funcs})

AllFuncs == {e.func : e \in ToSet(conf.events)}

\* The call an event happens in: the last one begun and not ended before it; an
\* enter and a leave are in their own.
CallOf(i) ==
  LET p == conf.events[i].proc
      open == {j \in 1 .. i : /\ conf.events[j].proc = p /\ conf.events[j].kind = "enter"
                              /\ \A k \in j .. i - 1 :
                                   Count(p, "leave", AllFuncs, j, k) < Count(p, "enter", AllFuncs, j, k)}
  IN IF open = {} THEN 0 ELSE CHOOSE j \in open : \A k \in open : k <= j

\* The filter lets an event through if it lets its call through, and every comment.
Kept(i) ==
  LET j == CallOf(i)
      e == conf.events[j] IN
  conf.events[i].kind = "comment" \/ j = 0 \/ Admits(conf.rules, e.proc - 1, e.func, Count(e.proc, "enter", {e.func}, 1, j))

Expected(procs) ==
  LET kept == SelectSeq([i \in DOMAIN conf.events |-> i],
                        LAMBDA i : conf.events[i].proc \in procs /\ Kept(i))
  IN [i \in DOMAIN kept |-> conf.events[kept[i]]]

\* When vtfilter succeeds, every enabled process is in one stream of the output,
\* the others in none and in no definition, and each stream has exactly the
\* events the filter file lets through: the first N calls of a limited function
\* of each process with what happens in them, whatever rank wrote the stream and
\* whatever processes it shares it with. If streams may fail to be closed, nothing
\* else is in a stream, but its end may be missing.
OutputRight ==
  end = "success" =>
    /\ UNION {out.control[s] : s \in DOMAIN out.control} = Enabled
    /\ \A s, t \in DOMAIN out.control : s # t => out.control[s] \cap out.control[t] = {}
    /\ {p.id : p \in out.procs} = Enabled
    /\ out.groups = {g \cap Enabled : g \in conf.groups} \ {{}}
    /\ DOMAIN out.streams = DOMAIN out.control
    /\ \A s \in DOMAIN out.streams :
         /\ IsPrefix(out.streams[s], Expected(out.control[s]))
         /\ ~conf.unchecked => out.streams[s] = Expected(out.control[s])

\* Every stream that is written has events or statistics.
NoStreamEmpty ==
  LET streams == Distribution(readFilter) IN \A s \in DOMAIN streams : Size(streams[s]) > 0

\* vtfilter ends: no rank waits for ever for the rules, for progress messages or
\* in a barrier. With progress it takes an MPI library that copies small messages,
\* and streams that have something to read: rank 0 leaves its loop when it knows
\* that all bytes are read, and takes only one message more from each rank.
Ends == (conf.progress => conf.eager /\ NoStreamEmpty) => <>(end # "no")

\* vtfilter ends if small messages are copied. Rank 0 is to "update progress until
\* all worker ranks are finished / all bytes are read" (vt_filter_common.cc:262),
\* and each of them finishes with MPI_Wait for its last progress message.
EndsWhenCopied == conf.eager => <>(end # "no")
==============================================================================
