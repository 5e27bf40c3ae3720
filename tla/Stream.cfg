SPECIFICATION Spec
CONSTANTS
  t1 = t1
  t2 = t2
  u = u
  v = v
  r = r
  s = s
  o1 = o1
  o2 = o2
  Nobody = Nobody
  Hole = Hole
  Threads = {t1, t2}
  Fds = {u, v, r, s}
  Objects = {o1, o2}
  ObjectOf <- FdObject
  MayCall <- Programs
  Counts = {0, 2}
  Seeks <- Steps
  NbOffset = 16
  MaxObject = 4
  MaxCalls <- Calls
  EIO = 5
  EINVAL = 22
INVARIANTS
  TypeOK
  ReadersLoseNoAdvance
  StreamStatsCover
PROPERTY
  ImplementsPosixStream
CHECK_DEADLOCK FALSE
