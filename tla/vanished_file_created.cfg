SPECIFICATION Spec
CONSTANTS
  f1 = f1
  v1 = v1
  v2 = v2
  Files <- OneFile
  Cared <- OneFile
  Contents <- OneContent
  Absent = Absent
  Special = Special
  NoFile = NoFile
  NoTask = NoTask
  EmptySum = EmptySum
  NoMd5 = NoMd5
  Interval = 2
  SkipModes <- ScanOnly
  DBMayFail = FALSE
  ChangesBeforeWatch = FALSE
  MaxClock = 4
  MaxChanges = 2
  MaxCrashes = 0
INVARIANT CreatedMeansExists
