SPECIFICATION Spec
CONSTANTS
  Chars <- MCChars
  Jobs <- MCJobs
  Matches <- MCMatches
INVARIANTS
  MergeFits
  TrustedAsDocumented
  PatternAsMeant
  ArgvFits
  ArgvAsWritten
  CheckedBeforeUse
CHECK_DEADLOCK FALSE
