CONSTANTS
  t1 = t1
  t2 = t2
  k1 = k1
  k2 = k2
  k3 = k3
  d1 = d1
  d2 = d2
  d3 = d3
  d4 = d4
  d5 = d5
  b1 = b1
  b2 = b2
  b3 = b3
  c1 = c1
  c2 = c2
  c3 = c3
  a1 = a1
  a2 = a2
  a3 = a3
  s1 = s1
  s2 = s2
  h1 = h1
  h2 = h2
  n1 = n1
  n2 = n2
  n3 = n3
  NoLink = NoLink
  Heads = {h1, h2}
  Links = {n1, n2, n3}
  NoItem = NoItem
  NoBucket = NoBucket
  Free = Free
  None = None
  Null = Null
  NoNode = NoNode
  Threads = {t1, t2}
  Items = {d1, d2, d3, d4, d5}
  Keys = {k1, k2, k3}
  ItemKey <- MCItemKey
  ItemOther <- MCItemOther
  HashKey <- MCHashKey
  HashSize = 2
  Buckets = {b1, b2, b3}
  Callers = {c1, c2, c3}
  Addrs = {a1, a2, a3}
  Sites = {s1, s2}
SYMMETRY MCSymmetry
SPECIFICATION TablesSpec
INVARIANTS TablesTypeOK ChainsAreSound OwnsItsItems BlocksAreRecorded ListsHold
PROPERTIES ImplementsStore CallsChangeSequences
