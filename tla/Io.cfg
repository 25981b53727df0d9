\* One or two threads, two descriptors besides the standard input, two MPI
\* handles: descriptors and handles are used again.
CONSTANTS
  t1 = t1
  t2 = t2
  Threads <- MCThreads
  Main = t1
  Fds <- MCFds
  Files = {"f"}
  Handles = {"h1", "h2"}
  MaxMpiFiles = 2
  Programs <- MCPrograms
SPECIFICATION Spec
INVARIANTS TypeOK MatchingRight FilesRight OwnIoHidden
CHECK_DEADLOCK FALSE
