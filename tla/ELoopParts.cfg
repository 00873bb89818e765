CONSTANTS
  h1 = h1
  h2 = h2
  x = x
  y = y
  read = read
  write = write
  exception = exception
  Keys <- MCKeys
  ELOOP_ALL_CTX = ELOOP_ALL_CTX
  Types = {read, write, exception}
  Fds = {0, 1, 2}
  FdTableStart = 2
  EventsStart = 1
  MayFail = {"fd_table", "epoll_events", "table", "epoll_ctl"}
  OneType = TRUE
  FewFds = TRUE
  MaxCount = 3
  None = None
  Delays = {0, 1, 3, 8}
  Second = 2
  MaxSec = 4
  MaxTimeouts = 3
  MaxNow = 4
  SIGINT = SIGINT
  SIGTERM = SIGTERM
  SIGHUP = SIGHUP
  Signals = {SIGINT, SIGTERM, SIGHUP}
  Terminating = {SIGINT, SIGTERM}
  MaxCallbacks = 3
  OncePerSignal = TRUE
  NoSignal = NoSignal
  Milli = 1
  IntMax = 1000
  Never = Never
  MaxPause = 1
  MaxRegistered = 0
SYMMETRY TypeSymmetry
SPECIFICATION PartsSpec
INVARIANTS TypeOK SocksFit SocksAreServed TimeoutsInOrder SignalsAreKept
PROPERTY TimeoutsAreKept
