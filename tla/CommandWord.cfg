SPECIFICATION Spec
CONSTANTS
  Chars <- MCChars
  Jobs <- TableJobs
  Matches <- MCMatches
INVARIANTS
  CommandSandboxed
CHECK_DEADLOCK FALSE
