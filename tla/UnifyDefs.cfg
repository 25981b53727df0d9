\* Two processes, one with a thread, that number the same things differently.
\* vtunify ends when all records are written.
CONSTANTS
  Ranks <- MCRanks
  Traces <- MCTraces
SPECIFICATION Spec
INVARIANTS TypeOK DefinitionsRight EventsKeepMeaning
CHECK_DEADLOCK FALSE
