SPECIFICATION Spec
CONSTANTS
  Names <- MCNames
  Longer <- MCLonger
  TrustedPaths <- NoNameLeft
  UntrustedParts <- ShortParts
INVARIANTS
  AlwaysReturns
