SPECIFICATION Spec
CONSTANTS
  p1 = p1
  p2 = p2
  p3 = p3
  Pids <- ThreePids
  Missing = Missing
  Empty = Empty
  NoPid = NoPid
  NoFifo = NoFifo
  Operator = "careful"
  ConfMayFail = TRUE
  MaxFailures = 0
  MaxCommands = 3
PROPERTY FailedMeansRunning
