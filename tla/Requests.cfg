\* Blocks of two requests, three handles, so that a block boundary is
\* crossed in both directions and a handle is used again; one request may be
\* freed too early.
CONSTANTS
  Handles = {h1, h2, h3}
  BlkSize = 2
  MaxEntries = 3
  MaxArray = 2
  MaxOrphans = 1
SPECIFICATION Spec
INVARIANTS TypeOK TableMatchesMpi CompletionsRecorded
PROPERTY ImplementsTable
SYMMETRY Symmetry
VIEW Seen
CHECK_DEADLOCK FALSE
