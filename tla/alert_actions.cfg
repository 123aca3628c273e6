SPECIFICATION FairSpec
CONSTANTS
  Recipients = 2
  MayContinue = TRUE
  FdLimit = 2
  Threads <- MainAndAnalysis
  Nobody = Nobody
  Limit = 2
  PerSecond = 1
  Rules <- MailAndLog
  MaxAlerts = 2
  MaxErrors = 2
  MaxDeaths = 1
INVARIANT TypeOK
INVARIANT SentMeansTaken
INVARIANT DescriptorsAccounted
INVARIANT NoLineLost
INVARIANT SizeBounded
PROPERTY EveryAlertEnds
