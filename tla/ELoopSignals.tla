---------------------------- MODULE ELoopSignals ----------------------------
(***************************************************************************)
(* src/src/eloop/eloop.c: the signals of the event loop.  The operating    *)
(* system calls eloop_handle_signal between any two steps of the loop; it  *)
(* only takes notes, and eloop_process_pending_signals calls the callbacks *)
(* later.  Both write the same variables without any protection, so every  *)
(* statement of the latter that touches them is a step here.               *)
(*                                                                         *)
(* The counters signaled are only ever compared with 0: they are Booleans. *)
(***************************************************************************)
EXTENDS Integers, Sequences, FiniteSets

CONSTANTS
  Signals,       \* the signals the program registers
  Terminating,   \* of these, SIGINT and SIGTERM
  MaxCallbacks,  \* bound on the number of registrations
  OncePerSignal, \* callers register one callback for a signal
  NoSignal

ASSUME SignalsAssumption ==
  /\ Terminating \subseteq Signals
  /\ NoSignal \notin Signals
  /\ MaxCallbacks \in Nat

VARIABLES
  signals,     \* eloop.signals: the signal and the signaled field of each entry
  signaled,    \* eloop.signaled # 0
  pending_terminate,
  alarm,       \* whether alarm(2) is running
  registering, \* the signal for which eloop_register_signal has called realloc
  sigpc,       \* where the loop is in eloop_process_pending_signals
  sigidx,      \* i in there
  owed,        \* the entries with a signal but no callback since (a ghost)
  lost         \* of these, the ones whose note came while realloc moved the array (a ghost)

signalVars == <<signals, signaled, pending_terminate, alarm, registering,
                sigpc, sigidx, owed, lost>>

SignalPlaces == {"idle", "clear", "disarm", "unpend", "scan", "reset", "call"}

SignalInit ==
  /\ signals = <<>>
  /\ signaled = FALSE
  /\ pending_terminate = FALSE
  /\ alarm = FALSE
  /\ registering = NoSignal
  /\ sigpc = "idle"
  /\ sigidx = 0
  /\ owed = {} /\ lost = {}

EntriesOf(sig) == {i \in 1 .. Len(signals) : signals[i].sig = sig}

-----------------------------------------------------------------------------
(* eloop_register_signal, called outside of the loop or by a callback      *)

\* os_realloc_array: eloop.signals is stale from here on if it has moved.
RegisterRealloc(sig) ==
  /\ sigpc \in {"idle", "call"}
  /\ registering = NoSignal
  /\ Len(signals) < MaxCallbacks
  /\ OncePerSignal => EntriesOf(sig) = {}
  /\ registering' = sig
  /\ UNCHANGED <<signals, signaled, pending_terminate, alarm, sigpc, sigidx, owed, lost>>

\* The new entry, eloop.signals = tmp, and signal(sig, ...).
RegisterPublish ==
  /\ registering # NoSignal
  /\ signals' = Append(signals, [sig |-> registering, signaled |-> FALSE])
  /\ registering' = NoSignal
  /\ UNCHANGED <<signaled, pending_terminate, alarm, sigpc, sigidx, owed, lost>>

-----------------------------------------------------------------------------
(* eloop_handle_signal, by the operating system at any time                *)

\* The first entry for the signal takes the note.
Noted(sig) ==
  LET first == CHOOSE i \in EntriesOf(sig) : \A j \in EntriesOf(sig) : i <= j
  IN  [signals EXCEPT ![first].signaled = TRUE]

\* While eloop.signals is stale, the block that realloc has left takes it, or,
\* if realloc has not moved the array, the array itself.
TakeNote(sig) ==
  \/ /\ signals' = Noted(sig)
     /\ lost' = lost \ EntriesOf(sig)
  \/ /\ registering # NoSignal
     /\ lost' = lost \cup {i \in EntriesOf(sig) : ~ signals[i].signaled}
     /\ UNCHANGED signals

HandleSignal(sig) ==
  /\ EntriesOf(sig) # {}
  /\ IF sig \in Terminating /\ ~ pending_terminate
       THEN pending_terminate' = TRUE /\ alarm' = TRUE
       ELSE UNCHANGED <<pending_terminate, alarm>>
  /\ signaled' = TRUE
  /\ TakeNote(sig)
  /\ owed' = owed \cup EntriesOf(sig)
  /\ UNCHANGED <<registering, sigpc, sigidx>>

-----------------------------------------------------------------------------
(* eloop_process_pending_signals                                           *)

SigGoto(place) == sigpc' = place

\* Called by the loop: nothing to do unless something was noted.
ProcessSignals ==
  /\ sigpc = "idle"
  /\ registering = NoSignal
  /\ signaled
  /\ SigGoto("clear")
  /\ UNCHANGED <<signals, signaled, pending_terminate, alarm, registering, sigidx, owed, lost>>

ClearSignaled ==
  /\ sigpc = "clear"
  /\ signaled' = FALSE
  /\ SigGoto("disarm")
  /\ UNCHANGED <<signals, pending_terminate, alarm, registering, sigidx, owed, lost>>

\* Mutant: pending_terminate stays set.
DisarmAlarmOnly ==
  /\ sigpc = "disarm"
  /\ alarm' = FALSE
  /\ SigGoto("scan")
  /\ sigidx' = 1
  /\ UNCHANGED <<signals, signaled, pending_terminate, registering, owed, lost>>

\* alarm(0), if there is a pending termination.
DisarmAlarm ==
  /\ sigpc = "disarm"
  /\ alarm' = (alarm /\ ~ pending_terminate)
  /\ SigGoto(IF pending_terminate THEN "unpend" ELSE "scan")
  /\ sigidx' = 1
  /\ UNCHANGED <<signals, signaled, pending_terminate, registering, owed, lost>>

ClearPending ==
  /\ sigpc = "unpend"
  /\ pending_terminate' = FALSE
  /\ SigGoto("scan")
  /\ UNCHANGED <<signals, signaled, alarm, registering, sigidx, owed, lost>>

ScanEntry ==
  /\ sigpc = "scan"
  /\ sigidx <= Len(signals)
  /\ IF signals[sigidx].signaled
       THEN SigGoto("reset") /\ UNCHANGED sigidx
       ELSE sigidx' = sigidx + 1 /\ UNCHANGED sigpc
  /\ UNCHANGED <<signals, signaled, pending_terminate, alarm, registering, owed, lost>>

\* Mutant: signaled is cleared after the scan.
ScanDoneClears ==
  /\ sigpc = "scan"
  /\ sigidx > Len(signals)
  /\ SigGoto("idle")
  /\ sigidx' = 0
  /\ signaled' = FALSE
  /\ UNCHANGED <<signals, pending_terminate, alarm, registering, owed, lost>>

ScanDone ==
  /\ sigpc = "scan"
  /\ sigidx > Len(signals)
  /\ SigGoto("idle")
  /\ sigidx' = 0
  /\ UNCHANGED <<signals, signaled, pending_terminate, alarm, registering, owed, lost>>

ResetEntry ==
  /\ sigpc = "reset"
  /\ signals' = [signals EXCEPT ![sigidx].signaled = FALSE]
  /\ SigGoto("call")
  /\ owed' = owed \ {sigidx}
  /\ UNCHANGED <<signaled, pending_terminate, alarm, registering, sigidx, lost>>

\* The callback returns (what it may do is another step).
CallbackReturns ==
  /\ sigpc = "call"
  /\ registering = NoSignal
  /\ SigGoto("scan")
  /\ sigidx' = sigidx + 1
  /\ UNCHANGED <<signals, signaled, pending_terminate, alarm, registering, owed, lost>>

\* The steps of the loop once it is in there.
ProcessStep ==
  \/ ClearSignaled
  \/ DisarmAlarm
  \/ ClearPending
  \/ ScanEntry
  \/ ScanDone
  \/ ResetEntry
  \/ CallbackReturns

SignalCall == (\E sig \in Signals : RegisterRealloc(sig)) \/ RegisterPublish
Deliver == \E sig \in Signals : HandleSignal(sig)

SignalNext == SignalCall \/ Deliver \/ ProcessSignals \/ ProcessStep

SignalSpec == SignalInit /\ [][SignalNext]_signalVars

-----------------------------------------------------------------------------
(* Properties *)

\* The notes and the loop's place have their types.
SignalTypeOK ==
  /\ signals \in Seq([sig : Signals, signaled : BOOLEAN])
  /\ signaled \in BOOLEAN /\ pending_terminate \in BOOLEAN /\ alarm \in BOOLEAN
  /\ registering \in Signals \cup {NoSignal}
  /\ sigpc \in SignalPlaces
  /\ sigidx \in 0 .. Len(signals) + 1
  /\ owed \subseteq 1 .. Len(signals) /\ lost \subseteq 1 .. Len(signals)

\* The scan that is going on has not passed entry i yet.
StillToScan(i) ==
  \/ sigpc \in {"clear", "disarm", "unpend"}
  \/ sigpc \in {"scan", "reset"} /\ sigidx <= i
  \/ sigpc = "call" /\ sigidx < i

\* "a callback function that will be called when a signal is received"
\* (eloop.h): as long as a callback is owed, its entry is marked, and either
\* the scan that is going on will find it or signaled makes for another one.
\* The handler may come between any two statements of the scan.  It is not
\* kept for a signal whose only note came between realloc and the assignment
\* of eloop.signals: what is lost is lost there and nowhere else.
NoSignalLost ==
  \A i \in owed \ lost : signals[i].signaled /\ (signaled \/ StillToScan(i))

\* The alarm that kills a program that does not react runs exactly while a
\* termination is pending, but for the moment in which it is called off; and
\* a termination is only pending if the loop is going to call it off.
AlarmIsCalledOff ==
  /\ alarm <=> pending_terminate /\ sigpc # "unpend"
  /\ pending_terminate => signaled \/ sigpc \in {"disarm", "unpend"}

\* Signals are noted and called, and the alarm of a termination is called off.
SignalsAreKept == NoSignalLost /\ AlarmIsCalledOff

=============================================================================
