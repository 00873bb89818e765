CONSTANTS
  h = h
  x = x
  read = read
  Keys <- MCKeys
  ELOOP_ALL_CTX = ELOOP_ALL_CTX
  Types = {read}
  Fds = {0, 4}
  FdTableStart = 2
  EventsStart = 1
  MayFail = {}
  OneType = TRUE
  FewFds = FALSE
  MaxCount = 2
  None = None
  Delays = {}
  Second = 1000
  MaxSec = 1000
  MaxTimeouts = 0
  MaxNow = 0
  Signals = {}
  Terminating = {}
  MaxCallbacks = 0
  OncePerSignal = TRUE
  NoSignal = NoSignal
  Milli = 1
  IntMax = 1000
  Never = Never
  MaxPause = 1
  MaxRegistered = 0
SPECIFICATION Spec
INVARIANT IndicesFit
CHECK_DEADLOCK FALSE
