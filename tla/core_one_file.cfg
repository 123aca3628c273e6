SPECIFICATION Spec
CONSTANTS
  f1 = f1
  v1 = v1
  v2 = v2
  Files <- OneFile
  Cared <- OneFile
  Contents <- TwoContents
  Absent = Absent
  Special = Special
  NoFile = NoFile
  NoTask = NoTask
  EmptySum = EmptySum
  NoMd5 = NoMd5
  Interval = 2
  SkipModes <- ScanOrSkip
  DBMayFail = FALSE
  ChangesBeforeWatch = FALSE
  MaxClock = 4
  MaxChanges = 3
  MaxCrashes = 1
SYMMETRY ContentSymmetry
INVARIANT TypeOK
INVARIANT NoLostChange
INVARIANT DbInSync
INVARIANT OneRowPerFile
INVARIANT AnalysisExclusive
INVARIANT DelayBounded
INVARIANT TaskmapTracks
INVARIANT PendingTimersBounded
INVARIANT NoMissedFile
PROPERTY NoSilentForget
PROPERTY ImplementsLedger
