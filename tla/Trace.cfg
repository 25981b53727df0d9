\* Off/on sections, rewinds, call limits and flushes, used as the manual
\* recommends or in any order; records of different lengths and a buffer of a
\* few records.
CONSTANTS
  Regions <- MCRegions
  CallLimit <- MCLimits
  MaxStackDepth = 3
  BufferSize = 13
  EnterLeaveLen = 2
  EventLen = 3
  DefLen = 2
  FlushLimit = 2
  NumCounters = 1
  NumPlugin = 1
  MaxFrames = 3
  MaxLevel = 4
  RecordLen <- MCRecordLen
  MaxStatistics = 1
SPECIFICATION SpecEvents
INVARIANTS TypeOK BufferIntact OpenMatchesStack
PROPERTY PermanentIsSilent
CHECK_DEADLOCK FALSE
