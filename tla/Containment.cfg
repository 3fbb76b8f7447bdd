SPECIFICATION Spec
CONSTANTS
  Names <- MCNames
  Longer <- MCLonger
  TrustedPaths <- Directories
  UntrustedParts <- Parts
INVARIANTS
  AcceptsOnlyContained
  RefusesNoContained
  AlwaysReturns
