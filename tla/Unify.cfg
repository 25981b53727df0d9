\* One to three ranks that unify the streams of two processes and a thread; and
\* programs of two or three processes that start vtunify themselves.  Both may
\* end for good.
CONSTANTS
  Confs <- MCConfs
  MaxStarts = 2
  Programs <- MCPrograms
  MaxProcesses = 3
  MaxLost = 1
SPECIFICATION TreeSpec
INVARIANTS TreeTypeOK StreamsRight  
PROPERTY AllEnd
CHECK_DEADLOCK FALSE
