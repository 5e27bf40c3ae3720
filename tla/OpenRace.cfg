SPECIFICATION HSpec
CONSTANTS
  h1 = h1
  h2 = h2
  c1 = c1
  a = a
  NoFile = NoFile
  Handles = {h1, h2}
  Callers = {c1}
  Names = {a}
  NbFd = 8
  MaxOpens = 3
INVARIANT
  WriteOpenTargetAbsent
