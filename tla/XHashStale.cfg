CONSTANTS
  t1 = t1
  t2 = t2
  k1 = k1
  k2 = k2
  k3 = k3
  d1 = d1
  d2 = d2
  d3 = d3
  d4 = d4
  d5 = d5
  b1 = b1
  b2 = b2
  b3 = b3
  Threads = {t1, t2}
  Items = {d1, d2, d3, d4, d5}
  Keys = {k1, k2, k3}
  ItemKey <- MCItemKey
  ItemOther <- MCItemOther
  HashKey <- MCHashKey
  HashSize = 2
  Buckets = {b1, b2, b3}
  NoItem = NoItem
  NoBucket = NoBucket
SYMMETRY MCHashSymmetry
SPECIFICATION HashSpec
PROPERTIES ReadsItsAnswer
