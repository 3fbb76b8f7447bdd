SPECIFICATION Spec
CONSTANTS
  Formats <- NonAsciiFormats
  NoMemory = FALSE
  InitDepth = 200
  MaxDepth = 10000
  NoStack = FALSE
  Statuses <- MCStatuses
INVARIANTS
  RefusesUnknownBytes
CHECK_DEADLOCK FALSE
