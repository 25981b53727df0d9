\* Three threads besides the main one, created and ending at any time, and objects
\* for two of them: IDs are reused by children of the main thread and of another
\* one. The program may stop once all its threads run.
CONSTANTS
  Pthreads = {p1, p2, p3}
  Main = main
  VTThrdMaxNum = 3
  reuseThreadIds = TRUE
  MaxCount = 2
SPECIFICATION Spec
INVARIANTS TypeOK RegistrySound HandedOverWell
PROPERTY EveryoneRegistered
CHECK_DEADLOCK FALSE
