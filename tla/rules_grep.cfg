SPECIFICATION Spec
CONSTANTS
  NoDir = NoDir
  NoPath = NoDir
  Dirs <- TreeDirs
  Names <- TreeNames
  Begins <- TreeBegins
  Patterns <- TwoPatterns
  Matches <- TwoMatches
  Spelled <- TwoSpelled
  Configs <- SeparateChecks
  Ranks <- TreeRanks
INVARIANT GrepIsOwn
