SPECIFICATION Spec
CONSTANTS
  c1 = c1
  c2 = c2
  c3 = c3
  P = P
  Q = Q
  None = None
  Begin = Begin
  End = End
  Clients = {c1, c2, c3}
  PathOf <- Path
  EnvOf <- Env
  Pools = {P, Q}
  DefaultPool = P
  Attrs <- Names
  Values <- Bytes
  Sizes = {1}
  MaxCalls <- Budget
  Listed = P
  Order <- HashOrder
  Striped <- Inside
  Foreign <- Others
  BufferSize = 2
INVARIANTS
  TypeOK
  ListingComplete
CHECK_DEADLOCK FALSE
