-------------------------------- MODULE ELoop --------------------------------
(***************************************************************************)
(* src/src/eloop/eloop.c: eloop_run, with the program's callbacks, the     *)
(* kernel and the clock around it.  Callbacks make any of the calls of     *)
(* ELoopSocks, ELoopTimeouts and ELoopSignals, one per step, and           *)
(* eloop_terminate; signals come at any step.                              *)
(***************************************************************************)
EXTENDS ELoopSocks, ELoopTimeouts, ELoopSignals

CONSTANTS
  Milli,        \* units of time in a millisecond
  IntMax,       \* INT_MAX
  Never,        \* when epoll_wait without a timeout returns
  MaxPause,     \* bound on the time from reading the clock to epoll_wait
  MaxRegistered \* bound on the registrations of timeouts and signals together

ASSUME LoopAssumption ==
  /\ Milli \in Nat \ {0} /\ IntMax \in Nat /\ Never \notin Nat /\ MaxPause \in Nat
  /\ MaxRegistered \in Nat

VARIABLES
  pc,         \* where eloop_run is
  terminate,  \* eloop.terminate
  timeout_ms, \* the local variable, which outlives an iteration
  wake,       \* the time at which epoll_wait gives up
  asked,      \* the local variable now: when timeout_ms was settled
  slept,      \* when epoll_wait was called (a ghost)
  events,     \* what epoll_wait stored: the sockets
  res,        \* what epoll_wait returned
  idx,        \* i of eloop_sock_table_dispatch
  ready       \* the sockets with an event, in the kernel

sleepVars == <<timeout_ms, wake, asked, slept>>
loopVars == <<pc, terminate, sleepVars, events, res, idx, ready>>
vars == <<sockVars, timeoutVars, signalVars, loopVars>>

Init ==
  /\ SockInit /\ TimeoutInit /\ SignalInit
  /\ pc = "setup"
  /\ terminate = FALSE
  /\ timeout_ms = -1
  /\ wake = Never /\ asked = 0 /\ slept = 0
  /\ events = <<>>
  /\ res = 0
  /\ idx = 0
  /\ ready = {}

Goto(place) == pc' = place

\* On the way to the next iteration, which uses none of these.
Continue == Goto("while") /\ events' = <<>> /\ res' = 0 /\ idx' = 0

-----------------------------------------------------------------------------
(* The program: callbacks, and what it does before eloop_run               *)

InSignalCallback == pc \in {"pending_scan", "scan"} /\ sigpc = "call"
InUserCode == pc \in {"setup", "timeout_call", "sock_call"} \/ InSignalCallback

\* eloop_run has returned, or the alarm has killed the process.
Ended == pc \in {"done", "killed"}

\* Of timeouts, ever, and of signals: what MaxRegistered bounds.
Registrations == serial + Len(signals) + (IF registering = NoSignal THEN 0 ELSE 1)

UserCall ==
  /\ InUserCode
  /\ \/ SockCall /\ ready' = ready \cap opened'
        /\ UNCHANGED <<timeoutVars, signalVars, pc, terminate, sleepVars, events, res, idx>>
     \/ TimeoutCall
        /\ UNCHANGED <<sockVars, signalVars, loopVars>>
     \/ SignalCall
        /\ UNCHANGED <<sockVars, timeoutVars, loopVars>>
  /\ Registrations' <= MaxRegistered

\* eloop_terminate, by a callback.
Terminate ==
  /\ InUserCode /\ pc # "setup"
  /\ terminate' = TRUE
  /\ UNCHANGED <<sockVars, timeoutVars, signalVars, pc, sleepVars, events, res, idx, ready>>

\* A socket's handler reads what there is.
ClearEvent ==
  /\ pc = "sock_call"
  /\ ready' = ready \ {events[idx]}
  /\ UNCHANGED <<sockVars, timeoutVars, signalVars, pc, terminate, sleepVars, events, res, idx>>

Run ==
  /\ pc = "setup"
  /\ registering = NoSignal
  /\ Goto("while")
  /\ UNCHANGED <<sockVars, timeoutVars, signalVars, terminate, sleepVars, events, res, idx, ready>>

-----------------------------------------------------------------------------
(* eloop_run *)

Leave ==
  /\ Goto("done")
  /\ terminate' = FALSE

\* Mutant: without the test of terminate.
WhileRegistered ==
  /\ pc = "while"
  /\ IF timeout # <<>> \/ \E t \in Types : table[t] # <<>>
       THEN Goto("pending") /\ UNCHANGED terminate
       ELSE Leave
  /\ UNCHANGED <<sockVars, timeoutVars, signalVars, sleepVars, events, res, idx, ready>>

While ==
  /\ pc = "while"
  /\ IF ~ terminate /\ (timeout # <<>> \/ \E t \in Types : table[t] # <<>>)
       THEN Goto("pending") /\ UNCHANGED terminate
       ELSE Leave
  /\ UNCHANGED <<sockVars, timeoutVars, signalVars, sleepVars, events, res, idx, ready>>

\* The first call of eloop_process_pending_signals, for a termination.
TestPending ==
  /\ pc = "pending"
  /\ IF pending_terminate /\ signaled
       THEN Goto("pending_scan") /\ ProcessSignals
       ELSE Goto("poll") /\ UNCHANGED signalVars
  /\ UNCHANGED <<sockVars, timeoutVars, terminate, sleepVars, events, res, idx, ready>>

PendingScan ==
  /\ pc = "pending_scan"
  /\ ProcessStep
  /\ IF sigpc' = "idle"
       THEN IF terminate THEN Leave ELSE Goto("poll") /\ UNCHANGED terminate
       ELSE UNCHANGED <<pc, terminate>>
  /\ UNCHANGED <<sockVars, timeoutVars, sleepVars, events, res, idx, ready>>

\* What an int holds of a number.
ToInt(n) == ((n + IntMax + 1) % (2 * (IntMax + 1))) - (IntMax + 1)

UntilFirst == IF FirstIsDue THEN 0 ELSE Head(timeout).time - now

\* Mutant: rounded up.
MillisRoundedUp(time) == (time + Milli - 1) \div Milli

Millis(time) == time \div Milli

\* The number of milliseconds is rounded down; without a timeout it is the
\* one of an earlier iteration.
ReadClock ==
  /\ pc = "poll"
  /\ timeout_ms' = IF timeout # <<>> THEN ToInt(Millis(UntilFirst)) ELSE timeout_ms
  /\ asked' = now
  /\ Goto("sleep")
  /\ UNCHANGED <<sockVars, timeoutVars, signalVars, terminate, wake, slept, events, res, idx, ready>>

\* epoll_wait, some time later; a negative number is no timeout to it.
Sleep ==
  /\ pc = "sleep"
  /\ IF count = 0
       THEN Goto("returned") /\ res' = 0 /\ UNCHANGED <<wake, slept>>
       ELSE /\ Goto("epoll_wait")
            /\ wake' = IF timeout_ms < 0 THEN Never ELSE now + timeout_ms * Milli
            /\ slept' = now
            /\ UNCHANGED res
  /\ UNCHANGED <<sockVars, timeoutVars, signalVars, terminate, timeout_ms, asked, events, idx, ready>>

Reported == {s \in ready : interest[s] # None}

\* Level-triggered: it reports every watched socket that is ready.
EpollEvents ==
  /\ pc = "epoll_wait"
  /\ Reported # {}
  /\ events' \in SetToSeqs(Reported)
  /\ res' = Len(events')
  /\ Goto("returned")
  /\ UNCHANGED <<sockVars, timeoutVars, signalVars, terminate, sleepVars, idx, ready>>

WakeIsDue == wake # Never /\ now >= wake

EpollTimeout ==
  /\ pc = "epoll_wait"
  /\ WakeIsDue
  /\ Reported = {}
  /\ res' = 0
  /\ Goto("returned")
  /\ UNCHANGED <<sockVars, timeoutVars, signalVars, terminate, sleepVars, events, idx, ready>>

\* A signal: EINTR if eloop_run is in epoll_wait.
Signal ==
  /\ Deliver
  /\ ~ Ended
  /\ IF pc = "epoll_wait" THEN Goto("returned") /\ res' = -1 ELSE UNCHANGED <<pc, res>>
  /\ UNCHANGED <<sockVars, timeoutVars, terminate, sleepVars, events, idx, ready>>

\* Any other error: goto out, past terminate = 0.
EpollFails ==
  /\ pc = "epoll_wait"
  /\ "epoll_wait" \in MayFail
  /\ Goto("done")
  /\ UNCHANGED <<sockVars, timeoutVars, signalVars, terminate, sleepVars, events, res, idx, ready>>

ResetChanged ==
  /\ pc = "returned"
  /\ ForgetChanges
  /\ Goto("signals")
  /\ wake' = Never /\ asked' = 0 /\ slept' = 0
  /\ UNCHANGED <<timeoutVars, signalVars, terminate, timeout_ms, events, res, idx, ready>>

TestSignals ==
  /\ pc = "signals"
  /\ IF signaled
       THEN Goto("scan") /\ ProcessSignals
       ELSE Goto("timeout") /\ UNCHANGED signalVars
  /\ UNCHANGED <<sockVars, timeoutVars, terminate, sleepVars, events, res, idx, ready>>

Scan ==
  /\ pc = "scan"
  /\ ProcessStep
  /\ IF sigpc' = "idle" THEN Goto("timeout") ELSE UNCHANGED pc
  /\ UNCHANGED <<sockVars, timeoutVars, terminate, sleepVars, events, res, idx, ready>>

\* Mutant: only when no socket has an event.
CallTimeoutIfIdle ==
  /\ pc = "timeout"
  /\ IF FirstIsDue /\ res <= 0
       THEN TakeTimeout /\ Goto("timeout_call")
       ELSE Goto("results") /\ UNCHANGED timeoutVars
  /\ UNCHANGED <<sockVars, signalVars, terminate, sleepVars, events, res, idx, ready>>

CallTimeout ==
  /\ pc = "timeout"
  /\ IF FirstIsDue
       THEN TakeTimeout /\ Goto("timeout_call")
       ELSE Goto("results") /\ UNCHANGED timeoutVars
  /\ UNCHANGED <<sockVars, signalVars, terminate, sleepVars, events, res, idx, ready>>

TimeoutReturns ==
  /\ pc = "timeout_call"
  /\ registering = NoSignal
  /\ Goto("results")
  /\ UNCHANGED <<sockVars, timeoutVars, signalVars, terminate, sleepVars, events, res, idx, ready>>

\* Mutant: whatever has changed.
SkipNoResults == res <= 0

\* The results are skipped if a callback has changed a table meanwhile.
SkipResults == res <= 0 \/ AnyChanged

Results ==
  /\ pc = "results"
  /\ IF SkipResults
       THEN Continue /\ UNCHANGED sockVars
       ELSE Goto("dispatch") /\ idx' = 1 /\ PassEvents /\ UNCHANGED <<events, res>>
  /\ UNCHANGED <<timeoutVars, signalVars, terminate, sleepVars, ready>>

\* eloop_sock_table_dispatch
Dispatch ==
  /\ pc = "dispatch"
  /\ IF idx > res
       THEN Continue
       ELSE /\ IF fd_table[events[idx]] = None
                 THEN idx' = idx + 1 /\ UNCHANGED pc
                 ELSE Goto("sock_call") /\ UNCHANGED idx
            /\ UNCHANGED <<events, res>>
  /\ UNCHANGED <<sockVars, timeoutVars, signalVars, terminate, sleepVars, ready>>

SockReturns ==
  /\ pc = "sock_call"
  /\ registering = NoSignal
  /\ IF AnyChanged THEN Continue
                   ELSE Goto("dispatch") /\ idx' = idx + 1 /\ UNCHANGED <<events, res>>
  /\ UNCHANGED <<sockVars, timeoutVars, signalVars, terminate, sleepVars, ready>>

-----------------------------------------------------------------------------
(* The environment *)

Arrive ==
  /\ ~ Ended
  /\ \E s \in opened : ready' = ready \cup {s}
  /\ UNCHANGED <<sockVars, timeoutVars, signalVars, pc, terminate, sleepVars, events, res, idx>>

Clock ==
  /\ ~ Ended
  /\ pc = "sleep" => now - asked < MaxPause
  /\ Tick
  /\ UNCHANGED <<sockVars, signalVars, loopVars>>

\* eloop_handle_alarm, two seconds after a termination signal: the loop has
\* not reacted because a callback does not return, or it sleeps.
Kill ==
  /\ alarm
  /\ InUserCode \/ (pc = "epoll_wait" /\ Reported = {} /\ ~ WakeIsDue)
  /\ Goto("killed")
  /\ UNCHANGED <<sockVars, timeoutVars, signalVars, terminate, sleepVars, events, res, idx, ready>>

LoopStep ==
  \/ While
  \/ TestPending
  \/ PendingScan
  \/ ReadClock
  \/ Sleep
  \/ EpollEvents
  \/ EpollTimeout
  \/ ResetChanged
  \/ TestSignals
  \/ Scan
  \/ CallTimeout
  \/ TimeoutReturns
  \/ Results
  \/ Dispatch
  \/ SockReturns

Next ==
  \/ UserCall
  \/ Terminate
  \/ ClearEvent
  \/ Run
  \/ LoopStep
  \/ EpollFails
  \/ Signal
  \/ Arrive
  \/ Clock
  \/ Kill

Spec == Init /\ [][Next]_vars

\* The program calls eloop_run, the process is scheduled, callbacks return,
\* and time passes.  Nothing is assumed of sockets and of signals.
Fairness ==
  /\ WF_vars(Run)
  /\ WF_vars(LoopStep)
  /\ WF_vars(Clock)
  /\ WF_vars(RegisterPublish /\ UserCall)

-----------------------------------------------------------------------------
(* Properties *)

\* The loop's variables have their types, and so have those of its parts.
TypeOK ==
  /\ SockTypeOK /\ TimeoutTypeOK /\ SignalTypeOK
  /\ pc \in {"setup", "while", "pending", "pending_scan", "poll", "sleep",
             "epoll_wait", "returned", "signals", "scan", "timeout", "timeout_call", "results",
             "dispatch", "sock_call", "done", "killed"}
  /\ terminate \in BOOLEAN
  /\ timeout_ms \in -(IntMax + 1) .. IntMax
  /\ wake \in Nat \cup {Never} /\ asked \in Nat /\ slept \in Nat
  /\ events \in Seq(Fds) /\ res \in -1 .. Len(events) /\ idx \in Nat
  /\ ready \subseteq opened

\* "Sockets may have been closed and reopened with the same FD in the signal
\* or timeout handlers, so we must skip the previous results" (eloop.c): a
\* handler is only called for the registration that its event was reported
\* for, never for the one of a later socket of that number.
CalledForItsOwnEvent ==
  [][pc = "dispatch" /\ pc' = "sock_call" =>
       /\ events[idx] \in opened \ stale
       /\ <<fd_table[events[idx]], events[idx]>> \in accepted
       /\ ~ AnyChanged]_vars

\* While handlers are called for the results, the array the results are in is
\* the one epoll_wait has filled, not one a callback has made realloc free.
ResultsAreAlive == pc = "dispatch" /\ idx <= res => ~ moved

\* "called after given time" (eloop.h): epoll_wait sleeps beyond the first
\* timeout by no more than the time that has passed between the reading of the
\* clock and its call.  But when the milliseconds do not fit in an int, they
\* may be negative there, and it sleeps until something else happens.
WakesForFirstTimeout ==
  pc = "epoll_wait" /\ timeout # <<>> /\ ~ FirstIsDue =>
    IF wake # Never
      THEN wake <= Head(timeout).time + (slept - asked)
      ELSE Millis(Head(timeout).time - asked) > IntMax

\* "Register a timeout that will cause the handler function to be called after
\* given time" (eloop.h), unless it is cancelled or the loop ends, and if there
\* is time enough until MaxNow for the pause before epoll_wait.
Waiting(id) == \E i \in 1 .. Len(timeout) : timeout[i].id = id /\ timeout[i].time + MaxPause <= MaxNow
TimeoutsAreCalled == \A id \in 1 .. MaxTimeouts : Waiting(id) ~> ~ Waiting(id) \/ Ended

\* "Terminate event loop even if there are registered events" (eloop.h).
TerminateEndsLoop == terminate ~> Ended

\* "Register a callback function that will be called when a signal is
\* received" (eloop.h): so it is, unless the loop has gone to sleep, for ever
\* or for longer than there is time (MaxNow), between its last test for signals
\* and epoll_wait.
SignalsAreCalledAwake ==
  \A i \in 1 .. MaxCallbacks :
    i \in owed \ lost ~> \/ i \notin owed \ lost
                         \/ Ended
                         \/ pc = "epoll_wait" /\ (wake = Never \/ wake > MaxNow)

\* "could not process SIGINT or SIGTERM in two seconds.  Looks like there is a
\* bug that ends up in a busy loop" (eloop.c): only a callback that does not
\* return gets the program killed.
KilledOnlyWhenBusy == [][pc' = "killed" => pc # "epoll_wait"]_vars

\* A handler is called for the event of its own registration, from results that
\* are still there (eloop.c:262-281, 717-732).
CallsAreForTheirEvents == []ResultsAreAlive /\ CalledForItsOwnEvent

=============================================================================
