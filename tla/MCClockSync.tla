----------------------------- MODULE MCClockSync -----------------------------
(* A small instance of ClockSync for TLC. *)
EXTENDS ClockSync

\* Five ranks have three slots and one rank without partner in each of them;
\* three ranks are few enough for different transfer times.
MCSizes  == {3, 5}
MCDelays == [k \in MCSizes |-> IF k = 3 THEN {1, 2, 4} ELSE {1}]

\* Clocks that are apart by more and by less than the transfer times, in both
\* directions.
MCSkew == [r \in AllRanks |-> IF r = 0 THEN 5 ELSE IF r = 1 THEN -9 ELSE 3]
==============================================================================
