SPECIFICATION FairSpec
CONSTANTS
  f = f
  g = g
  Fds = {f, g}
  Mode <- FdMode
  Requests <- TwoFiles
  NbSize = 16
  ReadsMayFail = TRUE
PROPERTY
  TakenIsReported
CHECK_DEADLOCK FALSE
