SPECIFICATION Spec
CONSTANTS
  None = None
  NbLong = 32
  NbInt = 16
  Sites <- Installations
  Forms <- AllForms
  Envs <- Environments
  Paths <- OpenedPaths
  BuiltIn <- Builtin
  Libs <- Libraries
  MaxNbConnections = 10
  MaxOpens = 2
INVARIANTS
  TypeOK
  ParsesAsDocumented
  OneDefaultForBoth
  ObeysLinesBeforeError
  StriperServesItsFile
CHECK_DEADLOCK FALSE
