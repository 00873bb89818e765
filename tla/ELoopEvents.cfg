CONSTANTS
  h = h
  x = x
  read = read
  Keys <- MCKeys
  ELOOP_ALL_CTX = ELOOP_ALL_CTX
  Types = {read}
  Fds = {0, 1}
  FdTableStart = 4
  EventsStart = 1
  MayFail = {"epoll_ctl", "epoll_wait"}
  OneType = TRUE
  FewFds = TRUE
  MaxCount = 3
  None = None
  Delays = {0}
  Second = 1000
  MaxSec = 1000
  MaxTimeouts = 1
  MaxNow = 0
  Signals = {}
  Terminating = {}
  MaxCallbacks = 0
  OncePerSignal = TRUE
  NoSignal = NoSignal
  Milli = 1
  IntMax = 1000
  Never = Never
  MaxPause = 1
  MaxRegistered = 1
SPECIFICATION Spec
PROPERTY CallsAreForTheirEvents
CHECK_DEADLOCK FALSE
