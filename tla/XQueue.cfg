CONSTANTS
  p1 = p1
  p2 = p2
  h1 = h1
  h2 = h2
  n1 = n1
  n2 = n2
  n3 = n3
  d1 = d1
  d2 = d2
  Producers = {p1, p2}
  Handlers = {h1, h2}
  Nodes = {n1, n2, n3}
  Data = {d1, d2}
  Size <- MCDefaultSize
  AQUEUE_MAX_NODES = 1
  SemMax = 1
  NoThread = NoThread
  NULL = NULL
  Freed = Freed
SPECIFICATION FairSpec
INVARIANTS TypeOK BoundedOverrun NoLostWakeup SingleOwner
PROPERTIES ImplementsFifo EveryNodeHandled
