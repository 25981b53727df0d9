\* Both kinds of synchronisation, of three ranks with different transfer times
\* and of five ranks. The ranks stop when all meetings are over; that they stop
\* nowhere else is EveryoneFinishes.
CONSTANTS
  Sizes <- MCSizes
  LoopCount = 2
  Delays <- MCDelays
  Skew <- MCSkew
SPECIFICATION Spec
INVARIANTS MeetingsRight MeasuredWell
PROPERTY EveryoneFinishes
CHECK_DEADLOCK FALSE
