SPECIFICATION FairSpec
CONSTANTS
  f1 = f1
  f2 = f2
  Files <- TwoFiles
  NoFile = NoFile
  NoTask = NoTask
  Nobody = Nobody
  Interval = 1
  MaxClock = 2
  MaxEvents = 3
INVARIANT TypeOK
INVARIANT NoCircularWait
INVARIANT NoLostWakeup
INVARIANT NeverPopsEmpty
INVARIANT NoCheckLost
PROPERTY EveryChangeRead
PROPERTY ImplementsSteps
