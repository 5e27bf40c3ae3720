SPECIFICATION FairSpec
CONSTANTS
  f = f
  g = g
  Fds = {f}
  Mode <- FdMode
  Requests <- OneFile
  NbSize = 16
  ReadsMayFail = FALSE
INVARIANTS
  TypeOK
  FileRefLive
  ReportTellsOutcome
  AsyncCountersExact
  WriteStatsCover
PROPERTY
  TakenIsReported
CHECK_DEADLOCK FALSE
