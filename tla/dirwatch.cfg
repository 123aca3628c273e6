SPECIFICATION FairSpec
CONSTANTS
  top = top
  d1 = d1
  d2 = d2
  f1 = f1
  x = x
  y = y
  Dirs <- TwoDirs
  Files <- OneFile
  Top = top
  Names <- TwoNames
  Trees <- SmallTrees
  Roots <- NestedRoots
  Excluded <- YExcluded
  MayFail <- XMayFail
  Nowhere = Nowhere
  NoName = NoName
  MaxQueued = 3
  MaxChanges = 3
INVARIANT TypeOK
INVARIANT NothingLost
INVARIANT TableTrue
INVARIANT AllWatched
PROPERTY PromiseKept
