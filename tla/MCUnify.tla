------------------------------- MODULE MCUnify -------------------------------
(* One to three ranks, two processes and a thread. *)
EXTENDS Unify

MCRecords == <<<<"event", "sync", "event", "sync", "event", "sync", "event", "sync", "event">>,
               <<"sync", "event", "sync", "sync", "event", "sync">>,
               <<"event", "event">>>>
MCLocal == {<<s, kind>> : s \in 1..3, kind \in {"def", "events"}}
             \cup {<<1, "marker">>, <<1, "stats">>, <<2, "stats">>}

Conf(size, streams, files, sync, clean, same, z, docompress, unchecked) ==
  [size |-> size, streams |-> streams, process |-> <<1, 2, 1>>, records |-> MCRecords,
   local |-> {x \in MCLocal : x[1] \in 1..streams /\ x[2] \in files},
   etimesync |-> sync, doclean |-> clean, same |-> clean /\ same, z |-> z, docompress |-> docompress,
   fails |-> TRUE, unchecked |-> unchecked]

\* All ways to keep, name and compress the files; then numbers of ranks and
\* streams; then a serial vtunify with calls that fail and are not looked at.
MCConfs ==
  {Conf(2, 3, StreamKinds, TRUE, x[1], x[2], x[3], x[4], FALSE) :
     x \in {<<FALSE, FALSE, TRUE, FALSE>>, <<TRUE, FALSE, FALSE, TRUE>>, <<TRUE, TRUE, TRUE, TRUE>>,
            <<TRUE, TRUE, TRUE, FALSE>>, <<TRUE, TRUE, FALSE, TRUE>>}}
  \cup {Conf(n[1], n[2], {"def", "events"}, sync, TRUE, TRUE, FALSE, FALSE, FALSE) :
     n \in {<<1, 2>>, <<2, 3>>, <<3, 2>>, <<3, 3>>}, sync \in BOOLEAN}
  \cup {Conf(1, 1, x[1], FALSE, x[2], x[3], FALSE, x[4], TRUE) :
     x \in {<<{"def", "events"}, FALSE, FALSE, FALSE>>, <<StreamKinds, TRUE, TRUE, FALSE>>,
            <<{"def", "events"}, TRUE, TRUE, TRUE>>}}
=============================================================================
