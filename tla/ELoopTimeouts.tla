---------------------------- MODULE ELoopTimeouts ----------------------------
(***************************************************************************)
(* src/src/eloop/eloop.c: the timeouts of the event loop, a list in order  *)
(* of increasing time.  A time is a number of microseconds here, Second of *)
(* them to a second: struct os_reltime's carries and borrows keep exactly  *)
(* that order and difference.                                              *)
(*                                                                         *)
(* Every timeout is given a serial number at its registration, which no    *)
(* code looks at: it tells the order of registrations.                     *)
(***************************************************************************)
EXTENDS Integers, Sequences, FiniteSets, SequencesExt, FiniteSetsExt

CONSTANTS
  Keys,          \* <<handler, eloop_data, user_data>> that callers use
  ELOOP_ALL_CTX, \* the wildcard for eloop_data and for user_data
  Delays,        \* the delays that callers ask for
  Second,        \* units of time in a second
  MaxSec,        \* the largest os_time_t
  MaxTimeouts,   \* bound on the number of registrations of a behaviour
  MaxNow         \* bound on the clock

ASSUME TimesAssumption ==
  /\ Delays \subseteq Nat
  /\ Second \in Nat \ {0}
  /\ MaxSec \in Nat
  /\ MaxTimeouts \in Nat
  /\ MaxNow \in Nat

VARIABLES
  timeout,  \* eloop.timeout: the registered timeouts, first to last
  now,      \* what os_get_reltime says
  serial,   \* the number of registrations so far
  fired     \* the timeout that was handled last (a ghost)

timeoutVars == <<timeout, now, serial, fired>>

\* A timeout no timeout comes before.
NoTimeout == [time |-> -1, key |-> <<>>, id |-> 0]

TimeoutInit ==
  /\ timeout = <<>>
  /\ now = 0
  /\ serial = 0
  /\ fired = NoTimeout

-----------------------------------------------------------------------------
(* eloop_register_timeout *)

\* Mutant: before those of the same time.
InsertTimeoutEarly(list, t) ==
  LET later == {i \in 1 .. Len(list) : t.time <= list[i].time}
  IN  IF later = {} THEN Append(list, t) ELSE InsertAt(list, Min(later), t)

\* Before the first timeout that is later; behind those of the same time.
InsertTimeout(list, t) ==
  LET later == {i \in 1 .. Len(list) : t.time < list[i].time}
  IN  IF later = {} THEN Append(list, t) ELSE InsertAt(list, Min(later), t)

\* Mutant: without the test.
NeverTooLong(delay) == FALSE

\* A time that os_time_t cannot express never comes: the timeout is ignored.
TooLong(delay) == now \div Second + delay \div Second > MaxSec

\* The carry of the microseconds comes after that test, and may overflow.
Wrap(time) == IF time \div Second > MaxSec THEN time - 2 * (MaxSec + 1) * Second ELSE time

NewTimeout(delay, key) ==
  [time |-> Wrap(now + delay), key |-> key, id |-> serial + 1]

\* os_zalloc or the clock fails: -1.  Only register_timeout returns that.
RegisterFails == UNCHANGED timeoutVars

RegisterTimeout(delay, key) ==
  /\ serial < MaxTimeouts
  /\ timeout' = IF TooLong(delay) THEN timeout
                                  ELSE InsertTimeout(timeout, NewTimeout(delay, key))
  /\ serial' = serial + 1
  /\ UNCHANGED <<now, fired>>

-----------------------------------------------------------------------------
(* The calls that look for a registered timeout *)

\* A pattern is a key with ELOOP_ALL_CTX in place of either of its data.
Matches(key, pattern) ==
  /\ key[1] = pattern[1]
  /\ \A i \in 2 .. 3 : pattern[i] \in {key[i], ELOOP_ALL_CTX}

Patterns ==
  Keys \cup UNION {{<<k[1], ELOOP_ALL_CTX, k[3]>>, <<k[1], k[2], ELOOP_ALL_CTX>>,
                    <<k[1], ELOOP_ALL_CTX, ELOOP_ALL_CTX>>} : k \in Keys}

\* The list is gone through once, and every timeout that matches is removed.
Without(list, pattern) ==
  LET kept[n \in 0 .. Len(list)] ==
        IF n = 0 THEN <<>>
        ELSE IF Matches(list[n].key, pattern) THEN kept[n - 1]
        ELSE Append(kept[n - 1], list[n])
  IN  kept[Len(list)]

CancelTimeout(pattern) ==
  /\ timeout' = Without(timeout, pattern)
  /\ UNCHANGED <<now, serial, fired>>

\* The position of the first timeout with that key, 0 if there is none.
FirstWith(key) == SelectInSeq(timeout, LAMBDA t : t.key = key)

IsTimeoutRegistered(key) == FirstWith(key) # 0

\* Mutant: without the comparison of eloop_data.
CancelTimeoutOneOfAny(key) ==
  /\ timeout' = RemoveFirstMatch(timeout, LAMBDA t : t.key[1] = key[1] /\ t.key[3] = key[3])
  /\ UNCHANGED <<now, serial, fired>>

CancelTimeoutOne(key) ==
  /\ timeout' = RemoveFirstMatch(timeout, LAMBDA t : t.key = key)
  /\ UNCHANGED <<now, serial, fired>>

\* Both of the next two cancel all timeouts of that key and register one,
\* when the first one of them, and only it, is to be moved.  If the new one
\* cannot be allocated, they have only cancelled.
Reregister(delay, key) ==
  /\ serial < MaxTimeouts
  /\ timeout' = IF TooLong(delay)
                  THEN Without(timeout, key)
                  ELSE InsertTimeout(Without(timeout, key), NewTimeout(delay, key))
  /\ serial' = serial + 1
  /\ UNCHANGED <<now, fired>>

Remaining(key) == timeout[FirstWith(key)].time - now

DepleteTimeout(delay, key) ==
  /\ IsTimeoutRegistered(key)
  /\ delay < Remaining(key)
  /\ Reregister(delay, key) \/ CancelTimeout(key)

ReplenishTimeout(delay, key) ==
  /\ IsTimeoutRegistered(key)
  /\ Remaining(key) < delay
  /\ Reregister(delay, key) \/ CancelTimeout(key)

TimeoutCall ==
  \/ RegisterFails
  \/ \E key \in Keys, delay \in Delays :
       \/ RegisterTimeout(delay, key)
       \/ DepleteTimeout(delay, key)
       \/ ReplenishTimeout(delay, key)
  \/ \E pattern \in Patterns : CancelTimeout(pattern)
  \/ \E key \in Keys : CancelTimeoutOne(key)

-----------------------------------------------------------------------------
(* What eloop_run does *)

FirstIsDue == timeout # <<>> /\ ~ (now < Head(timeout).time)

\* It takes the first timeout off the list before it calls the handler.
TakeTimeout ==
  /\ FirstIsDue
  /\ fired' = Head(timeout)
  /\ timeout' = Tail(timeout)
  /\ UNCHANGED <<now, serial>>

\* The clock never goes back (CLOCK_BOOTTIME).
Tick ==
  /\ now < MaxNow
  /\ now' = now + 1
  /\ UNCHANGED <<timeout, serial, fired>>

TimeoutNext == TimeoutCall \/ TakeTimeout \/ Tick

TimeoutSpec == TimeoutInit /\ [][TimeoutNext]_timeoutVars

-----------------------------------------------------------------------------
(* Properties *)

Times == 0 .. (MaxSec + 1) * Second - 1

\* Timeouts, the clock and the serial numbers have their types: a time that is
\* in the list is one that struct os_reltime can express.
TimeoutTypeOK ==
  /\ timeout \in Seq([time : Times, key : Keys, id : 1 .. MaxTimeouts])
  /\ now \in 0 .. MaxNow
  /\ serial \in 0 .. MaxTimeouts
  /\ fired = NoTimeout \/ fired \in [time : Times, key : Keys, id : 1 .. MaxTimeouts]

Before(s, t) == s.time < t.time \/ (s.time = t.time /\ s.id < t.id)

\* "Maintain timeouts in order of increasing time" (eloop.c), and timeouts of
\* the same time in the order of their registration.
TimeoutsInOrder ==
  \A i, j \in 1 .. Len(timeout) : i < j => Before(timeout[i], timeout[j])

\* Handlers are called in the order of their times, ties in the order of the
\* registrations, in whatever order and at whatever times the timeouts were
\* registered, cancelled, depleted and replenished, also when the loop is late.
CalledInOrder ==
  [][fired' # fired => Before(fired, fired')]_timeoutVars

\* A call for one handler and its data leaves all other timeouts as they are,
\* and in their order, those of the same handler with other data included.
CallFor(key) ==
  \/ CancelTimeoutOne(key)
  \/ \E delay \in Delays :
       RegisterTimeout(delay, key) \/ DepleteTimeout(delay, key) \/ ReplenishTimeout(delay, key)
OthersUntouched ==
  [][\A key \in Keys : CallFor(key) => Without(timeout', key) = Without(timeout, key)]_timeoutVars

\* Timeouts are called in order, and a call for one leaves the others alone.
TimeoutsAreKept == CalledInOrder /\ OthersUntouched

=============================================================================
