CONSTANTS
  h = h
  x = x
  read = read
  Keys <- MCKeys
  ELOOP_ALL_CTX = ELOOP_ALL_CTX
  Types = {read}
  Fds = {0}
  FdTableStart = 4
  EventsStart = 1
  MayFail = {}
  OneType = TRUE
  FewFds = TRUE
  MaxCount = 1
  None = None
  Delays = {0}
  Second = 1000
  MaxSec = 1000
  MaxTimeouts = 1
  MaxNow = 1
  SIGTERM = SIGTERM
  Signals = {SIGTERM}
  Terminating = {SIGTERM}
  MaxCallbacks = 1
  OncePerSignal = TRUE
  NoSignal = NoSignal
  Milli = 1
  IntMax = 1000
  Never = Never
  MaxPause = 1
  MaxRegistered = 2
SPECIFICATION Spec
PROPERTY KilledOnlyWhenBusy
CHECK_DEADLOCK FALSE
