SPECIFICATION Spec
CONSTANTS
  f = f
  g = g
  Fds = {f, g}
  Mode <- FdMode
  Requests <- TwoFiles
  NbSize = 16
  ReadsMayFail = FALSE
INVARIANT
  FileRefLiveAfterReport
CHECK_DEADLOCK FALSE
