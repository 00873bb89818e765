CONSTANTS
  d1 = d1
  d2 = d2
  d3 = d3
  d4 = d4
  d5 = d5
  d6 = d6
  e1 = e1
  e2 = e2
  e3 = e3
  m1 = m1
  m2 = m2
  m3 = m3
  m4 = m4
  Nothing = Nothing
  Hole = Hole
  NoOne = NoOne
  Nobody = Nobody
  Other = Other
  Closed = Closed
  c1 = c1
  c2 = c2
  p1 = p1
  p2 = p2
  l1 = l1
  Chosen = {"lock"}
  Items = {d1, d2, d3, d4, d5, d6}
  Rank <- MCRank
  DefaultSlots = 2
  Elements = {e1, e2, e3}
  KeyOf <- MCKeyOf
  MaxPlace = 4
  MaxLength = 6
  Lengths <- MCLengths
  bufflen = 2
  Clients = {c1}
  Messages = {m1, m2, m3, m4}
  Length <- MCLength
  ReadAs <- MCReadAs
  HeaderLen = 2
  Lossy = TRUE
  Calls = 2
  MaxChunks = 2
  OtherChild = TRUE
  Installed = FALSE
  Processes = {p1, p2}
  LockFiles = {l1}
  MaxFd = 5
  StdinIs = Other
  LogFiles = {"a", "b"}
  LogSizes = {0, 1, 2, 3}
  LineLengths = {1}
  LeastSize = 2
  DefaultSize = 2
  Levels = {3, 7}
  StderrIsFull = TRUE
  MaxMessages = 5
  BlockLen = 4
  WordValues = 64
  SHA1_MAC_LEN = 3
  BLOCKSIZE = 8
  KeyLens = {0, 3, 4, 5}
  MaxFed = 10
  FileLen = 17
  ByteBits = 4
  CrcBits = 12
  Poly32 = 3123
  Poly8 = 7
  CrcFile <- MCCrcFile
  CRC_BUFFER_SIZE = 3
  DataLen = 5
  CallLens = {0, 2, 4}
  ReadChunk = 2
  MaxErrors = 2
  BITS_PER_LONG = 2
  LongBits = 2
  MaxBits = 5
  Unit = 1
  MacLen = 2
  Keyboard <- MCKeyboard
  MaxTyped = 5
  MaxMoves = 20
  TextKeys = {1, 2, 3, 4, 5, 6}
  MaxText = 5
  CharValues = 8
  Options <- MCOptions
  OtherLine <- MCOtherLine
  LineRoom = 6
  XFCFG_DEFAULT_MAX_LEN = 2
  StrRoom = 4
  XMALLOC_STEP = 2
  BoxLen = 4
  RoundLen = 2
  Seeds <- MCSeeds
  MaxDraws = 3
SPECIFICATION PartsSpec
PROPERTY UnlockReleases
