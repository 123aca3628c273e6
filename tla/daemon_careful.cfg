SPECIFICATION FairSpec
CONSTANTS
  p1 = p1
  p2 = p2
  p3 = p3
  Pids <- ThreePids
  Missing = Missing
  Empty = Empty
  NoPid = NoPid
  NoFifo = NoFifo
  Operator = "careful"
  ConfMayFail = TRUE
  MaxFailures = 1
  MaxCommands = 4
INVARIANT TypeOK
INVARIANT OneDaemon
INVARIANT Reachable
INVARIANT NoStaleStop
PROPERTY StopEnds
