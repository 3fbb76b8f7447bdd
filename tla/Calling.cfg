SPECIFICATION FairSpec
CONSTANTS
  Formats <- MCFormats
  NoMemory = TRUE
  InitDepth = 2
  MaxDepth = 40
  NoStack = FALSE
  Statuses <- MCStatuses
INVARIANTS
  ScansLexer
  RunsWhatIsWritten
  BufferKept
  StaysInBuffer
  FreedOnce
  RanClean
PROPERTIES
  CallReturns
CHECK_DEADLOCK FALSE
