---------------------------- MODULE MCTraceThread ----------------------------
(* A small instance of TraceEvents, and with it of TraceThread, for TLC. *)
EXTENDS TraceEvents

\* One region without a limit, and one that is recorded once (limit 1 in the
\* filter file, stored as 2).
MCRegions == {"f", "g"}
MCLimits  == [r \in MCRegions |-> IF r = "g" THEN 2 ELSE -1]
\* Messages have the longest records.
MCRecordLen == [kind \in Kinds |->
                  IF kind \in MessageKinds \cup SummaryKinds THEN 4
                  ELSE IF kind \in DefKinds THEN 2 ELSE 3]
==============================================================================
