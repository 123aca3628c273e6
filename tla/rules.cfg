SPECIFICATION Spec
CONSTANTS
  NoDir = NoDir
  NoPath = NoDir
  Dirs <- TreeDirs
  Names <- TreeNames
  Begins <- TreeBegins
  Patterns <- TwoPatterns
  Matches <- TwoMatches
  Spelled <- TwoSpelled
  Configs <- TwoChecks
  Ranks <- TreeRanks
INVARIANT TypeOK
INVARIANT NearestRule
INVARIANT OwnPatterns
INVARIANT ExcludedStaysOut
INVARIANT VerdictStable
