SPECIFICATION Spec
CONSTANTS
  Names <- MCNames
  Longer <- MCLonger
  TrustedPaths <- HopeDirectory
  UntrustedParts <- SlashParts
INVARIANTS
  AcceptsOnlyContained
