SPECIFICATION MCSpec
CONSTANTS
  InitDepth = 2
  MaxDepth = 7
  NoStack = FALSE
  MaxTokens = 5
INVARIANTS
  AcceptsOnlySentences
  RefusesNoSentence
  BuildsLines
  ReducesWhatItRead
  StackFits
PROPERTIES
  ExhaustedOnlyWhenFull
  ParseReturns
CHECK_DEADLOCK FALSE
