CONSTANTS
  p1 = p1
  p2 = p2
  h1 = h1
  h2 = h2
  n1 = n1
  n2 = n2
  n3 = n3
  d1 = d1
  Producers = {p1, p2}
  Handlers = {h1, h2}
  Nodes = {n1, n2, n3}
  Data = {d1}
  Size = 1
  AQUEUE_MAX_NODES = 2
  SemMax = 2
  NoThread = NoThread
  v1 = v1
  Viewers = {v1}
  Viewed = TRUE
  NULL = NULL
  Freed = Freed
SPECIFICATION ViewSpec
INVARIANT MutualExclusion
