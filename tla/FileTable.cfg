SPECIFICATION HSpec
CONSTANTS
  h1 = h1
  h2 = h2
  c1 = c1
  a = a
  b = b
  NoFile = NoFile
  Handles = {h1, h2}
  Callers = {c1}
  Names = {a, b}
  NbFd = 8
  MaxOpens = 3
INVARIANTS
  TypeOK
  OpenForWriteExact
  OpenHandleReachesItsFile
  StaleFdReachesNothing
  NoOrphanEntry
  StatSeesOpenWriter
PROPERTY
  ImplementsOpenFiles
SYMMETRY Symmetry
