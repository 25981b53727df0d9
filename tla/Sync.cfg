\* All combinations of the two synchronisations, and a rank that is switched
\* off; no limit on the number of flushes. No symmetry: a liveness property is
\* checked. The ranks stop after MPI_Finalize; that they stop nowhere else is
\* AllFinish.
CONSTANTS
  Ranks = {0, 1, 2}
  Count = 2
  Bytes <- MCBytes
  Capacity = 2
  FlushLevel = 2
  MaxFlushes = 0
  Settings <- MCSettings
SPECIFICATION Spec
INVARIANTS TypeOK CollectivesMatch FlushTogether
PROPERTY AllFinish
CHECK_DEADLOCK FALSE
