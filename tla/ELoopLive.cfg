CONSTANTS
  h = h
  x = x
  read = read
  Keys <- MCKeys
  ELOOP_ALL_CTX = ELOOP_ALL_CTX
  Types = {read}
  Fds = {0}
  FdTableStart = 4
  EventsStart = 1
  MayFail = {}
  OneType = TRUE
  FewFds = TRUE
  MaxCount = 1
  None = None
  Delays = {2, 6}
  Second = 2000
  MaxSec = 1000
  MaxTimeouts = 2
  MaxNow = 3
  SIGTERM = SIGTERM
  Signals = {SIGTERM}
  Terminating = {SIGTERM}
  MaxCallbacks = 1
  OncePerSignal = TRUE
  NoSignal = NoSignal
  Milli = 2
  IntMax = 2
  Never = Never
  MaxPause = 1
  MaxRegistered = 2
SPECIFICATION FairSpec
INVARIANTS WakesForFirstTimeout
PROPERTIES TimeoutsAreCalled TerminateEndsLoop SignalsAreCalledAwake
CHECK_DEADLOCK FALSE
