---------------------------- MODULE ELoopProofs -----------------------------
(***************************************************************************)
(* Proofs about ELoop: eloop_run with whatever its callbacks, the kernel,  *)
(* the signals and the clock do.                                           *)
(***************************************************************************)
EXTENDS ELoop, ELoopPartsProofs

-----------------------------------------------------------------------------
(* eloop_run and its parts *)

\* What eloop_run, its callbacks and its environment do to the sockets are
\* calls and steps of ELoopSocks.
LEMMA SocksPart == [Next]_vars => [SockNext]_sockVars
<1> SUFFICES ASSUME [Next]_vars PROVE [SockNext]_sockVars
  OBVIOUS
<1> USE DEF SockNext
<1>1. CASE UserCall
  BY <1>1 DEF UserCall
<1>2. CASE Terminate \/ ClearEvent \/ Run \/ EpollFails \/ Signal \/ Arrive \/ Clock \/ Kill
  BY <1>2 DEF Terminate, ClearEvent, Run, EpollFails, Signal, Arrive, Clock, Kill
<1>3. CASE While \/ TestPending \/ PendingScan \/ ReadClock \/ Sleep \/ EpollEvents \/ EpollTimeout
  BY <1>3 DEF While, TestPending, PendingScan, ReadClock, Sleep, EpollEvents, EpollTimeout
<1>4. CASE ResetChanged \/ TestSignals \/ Scan \/ CallTimeout \/ TimeoutReturns
  BY <1>4 DEF ResetChanged, TestSignals, Scan, CallTimeout, TimeoutReturns
<1>5. CASE Results \/ Dispatch \/ SockReturns
  BY <1>5 DEF Results, Dispatch, SockReturns
<1>6. CASE UNCHANGED vars
  BY <1>6 DEF vars
<1> QED
  BY <1>1, <1>2, <1>3, <1>4, <1>5, <1>6 DEF Next, LoopStep

\* What they do to the timeouts are calls and steps of ELoopTimeouts.
LEMMA TimeoutsPart == [Next]_vars => [TimeoutNext]_timeoutVars
<1> SUFFICES ASSUME [Next]_vars PROVE [TimeoutNext]_timeoutVars
  OBVIOUS
<1> USE DEF TimeoutNext
<1>1. CASE UserCall
  BY <1>1 DEF UserCall
<1>2. CASE Terminate \/ ClearEvent \/ Run \/ EpollFails \/ Signal \/ Arrive \/ Clock \/ Kill
  BY <1>2 DEF Terminate, ClearEvent, Run, EpollFails, Signal, Arrive, Clock, Kill
<1>3. CASE While \/ TestPending \/ PendingScan \/ ReadClock \/ Sleep \/ EpollEvents \/ EpollTimeout
  BY <1>3 DEF While, TestPending, PendingScan, ReadClock, Sleep, EpollEvents, EpollTimeout
<1>4. CASE ResetChanged \/ TestSignals \/ Scan \/ CallTimeout \/ TimeoutReturns
  BY <1>4 DEF ResetChanged, TestSignals, Scan, CallTimeout, TimeoutReturns
<1>5. CASE Results \/ Dispatch \/ SockReturns
  BY <1>5 DEF Results, Dispatch, SockReturns
<1>6. CASE UNCHANGED vars
  BY <1>6 DEF vars
<1> QED
  BY <1>1, <1>2, <1>3, <1>4, <1>5, <1>6 DEF Next, LoopStep

\* What they do to the signals are calls and steps of ELoopSignals.
LEMMA SignalsPart == [Next]_vars => [SignalNext]_signalVars
<1> SUFFICES ASSUME [Next]_vars PROVE [SignalNext]_signalVars
  OBVIOUS
<1> USE DEF SignalNext
<1>1. CASE UserCall
  BY <1>1 DEF UserCall
<1>2. CASE Terminate \/ ClearEvent \/ Run \/ EpollFails \/ Signal \/ Arrive \/ Clock \/ Kill
  BY <1>2 DEF Terminate, ClearEvent, Run, EpollFails, Signal, Arrive, Clock, Kill
<1>3. CASE While \/ TestPending \/ PendingScan \/ ReadClock \/ Sleep \/ EpollEvents \/ EpollTimeout
  BY <1>3 DEF While, TestPending, PendingScan, ReadClock, Sleep, EpollEvents, EpollTimeout
<1>4. CASE ResetChanged \/ TestSignals \/ Scan \/ CallTimeout \/ TimeoutReturns
  BY <1>4 DEF ResetChanged, TestSignals, Scan, CallTimeout, TimeoutReturns
<1>5. CASE Results \/ Dispatch \/ SockReturns
  BY <1>5 DEF Results, Dispatch, SockReturns
<1>6. CASE UNCHANGED vars
  BY <1>6 DEF vars
<1> QED
  BY <1>1, <1>2, <1>3, <1>4, <1>5, <1>6 DEF Next, LoopStep

\* eloop_run is a program of each of its three parts: what is proved of a part
\* holds while eloop_run calls it.
THEOREM RunsItsParts == Spec => SockSpec /\ TimeoutSpec /\ SignalSpec
<1>1. Init => SockInit /\ TimeoutInit /\ SignalInit
  BY DEF Init
<1> QED
  BY <1>1, SocksPart, TimeoutsPart, SignalsPart, PTL DEF Spec, SockSpec, TimeoutSpec, SignalSpec

\* The counters and indices of the sockets stay within their arrays while
\* eloop_run calls their handlers: CountsFit always, IndicesFit as long as no
\* descriptor is beyond one doubling of fd_table.
THEOREM RunKeepsSocksInBounds == FewFds => (Spec => []SocksFit)
BY RunsItsParts, SocksAreInBounds

\* What is registered is served while eloop_run runs, and nothing else is, if
\* a descriptor is registered for one type of event at a time.
THEOREM RunServesRegistered == OneType => (Spec => []SocksAreServed)
BY RunsItsParts, RegisteredAreServed

\* The timeouts stay in order while eloop_run takes them and its callbacks
\* register and cancel them.
THEOREM RunKeepsOrder == Spec => []TimeoutsInOrder
BY RunsItsParts, TimeoutsSorted

\* eloop_run calls the timeouts in the order of their times.
THEOREM RunKeepsTimeouts == NoCarry => (Spec => TimeoutsAreKept)
BY RunsItsParts, TimeoutsKept

\* No note of a signal that comes while eloop_run runs is lost, wherever it
\* comes, but for those that come while a callback's registration has the array
\* reallocated; and the alarm of a termination is called off.
THEOREM RunKeepsSignals == OncePerSignal => (Spec => []SignalsAreKept)
BY RunsItsParts, SignalsKept

-----------------------------------------------------------------------------
(* The variables of eloop_run *)

Places == {"setup", "while", "pending", "pending_scan", "poll", "sleep",
           "epoll_wait", "returned", "signals", "scan", "timeout", "timeout_call", "results",
           "dispatch", "sock_call", "done", "killed"}

LoopTypeOK ==
  /\ pc \in Places
  /\ terminate \in BOOLEAN
  /\ timeout_ms \in -(IntMax + 1) .. IntMax
  /\ wake \in Nat \cup {Never} /\ asked \in Nat /\ slept \in Nat
  /\ events \in Seq(Fds) /\ res \in -1 .. Len(events) /\ idx \in Nat
  /\ ready \subseteq opened

\* An int holds whatever is converted to it.
LEMMA ToIntType == ASSUME NEW n \in Int PROVE ToInt(n) \in -(IntMax + 1) .. IntMax
BY LoopAssumption DEF ToInt

\* The milliseconds until the first timeout are a number.
LEMMA UntilFirstType ==
  ASSUME ListInv, timeout # <<>>
  PROVE  /\ UntilFirst \in Nat
         /\ Millis(UntilFirst) \in Nat /\ Millis(UntilFirst) * Milli <= UntilFirst
<1>1. Head(timeout) \in Entry
  BY DEF ListInv, Listed
<1>2. UntilFirst \in Nat
  BY <1>1 DEF UntilFirst, FirstIsDue, ListInv, Entry
<1> QED
  BY <1>2, LoopAssumption DEF Millis

\* What epoll_wait stores is a sequence of the sockets it reports.
LEMMA StoredEvents ==
  ASSUME SockTypeOK, ready \subseteq opened, NEW e \in SetToSeqs(Reported)
  PROVE  e \in Seq(Fds) /\ Len(e) \in Nat /\ \A i \in 1 .. Len(e) : e[i] \in Reported
<1>1. IsFiniteSet(Reported)
  BY FdsAssumption, FS_Subset DEF Reported, SockTypeOK
<1>2. Cardinality(Reported) \in Nat
  BY <1>1, FS_CardinalityType
<1>3. e \in [1 .. Cardinality(Reported) -> Reported]
  BY DEF SetToSeqs
<1>4. Reported \subseteq Fds
  BY DEF Reported, SockTypeOK
<1> QED
  BY <1>2, <1>3, <1>4

\* Every step keeps the types of the loop's variables.
LEMMA LoopTypeStep ==
  ASSUME LoopTypeOK, ArraysInv, ListInv, [Next]_vars
  PROVE  LoopTypeOK'
<1> USE DEF LoopTypeOK, Places, sleepVars
<1>1. ASSUME UserCall PROVE LoopTypeOK'
  <2>1. CASE SockCall /\ ready' = ready \cap opened' /\ UNCHANGED <<pc, terminate, sleepVars, events, res, idx>>
    BY <2>1
  <2>2. CASE UNCHANGED sockVars /\ UNCHANGED loopVars
    BY <2>2 DEF sockVars, loopVars, sleepVars
  <2> QED
    BY <1>1, <2>1, <2>2 DEF UserCall
<1>2. CASE Terminate \/ ClearEvent \/ Run \/ EpollFails \/ Arrive \/ Clock \/ Kill
  BY <1>2 DEF Terminate, ClearEvent, Run, EpollFails, Arrive, Clock, Kill, sockVars, loopVars, Goto
<1>3. CASE Signal
  BY <1>3 DEF Signal, sockVars, Goto
<1>4. CASE While \/ TestPending \/ PendingScan
  BY <1>4 DEF While, TestPending, PendingScan, sockVars, Goto, Leave
<1>5. CASE ReadClock
  <2>1. timeout_ms' \in -(IntMax + 1) .. IntMax
    BY SMTT(20), <1>5, UntilFirstType, ToIntType DEF ReadClock
  <2>2. asked' \in Nat
    BY <1>5 DEF ReadClock, ListInv
  <2> QED
    BY <1>5, <2>1, <2>2 DEF ReadClock, sockVars, Goto
<1>11. CASE Sleep
  <2>1. now \in Nat /\ Milli \in Nat
    BY LoopAssumption DEF ListInv
  <2>2. ~ (timeout_ms < 0) => timeout_ms \in Nat
    BY LoopAssumption
  <2>3. ~ (timeout_ms < 0) => now + timeout_ms * Milli \in Nat
    BY <2>1, <2>2
  <2>4. wake' \in Nat \cup {Never} /\ slept' \in Nat
    BY <1>11, <2>1, <2>3 DEF Sleep
  <2>5. pc' \in Places /\ res' \in -1 .. Len(events)
    BY <1>11 DEF Sleep, Goto
  <2> QED
    BY <1>11, <2>4, <2>5 DEF Sleep, sockVars
<1>6. CASE EpollEvents
  <2>1. events' \in Seq(Fds) /\ res' = Len(events') /\ Len(events') \in Nat
    BY <1>6, StoredEvents DEF EpollEvents, ArraysInv
  <2> QED
    BY <1>6, <2>1 DEF EpollEvents, sockVars, Goto
<1>7. CASE EpollTimeout \/ TestSignals \/ Scan \/ CallTimeout \/ TimeoutReturns
  BY <1>7 DEF EpollTimeout, TestSignals, Scan, CallTimeout, TimeoutReturns, sockVars, Goto
<1>8. CASE ResetChanged
  BY <1>8 DEF ResetChanged, ForgetChanges, Goto
<1>9. CASE Results \/ Dispatch \/ SockReturns
  <2>1. Continue => pc' \in Places /\ events' \in Seq(Fds) /\ res' \in -1 .. Len(events') /\ idx' \in Nat
    BY DEF Continue, Goto
  <2>2. CASE Results
    BY <2>1, <2>2 DEF Results, PassEvents, sockVars, Goto
  <2>3. CASE Dispatch
    BY <2>1, <2>3 DEF Dispatch, sockVars, Goto
  <2>4. CASE SockReturns
    BY <2>1, <2>4 DEF SockReturns, sockVars, Goto
  <2> QED
    BY <1>9, <2>2, <2>3, <2>4
<1>10. CASE UNCHANGED vars
  BY <1>10 DEF vars, sockVars, loopVars, sleepVars
<1> QED
  BY <1>1, <1>2, <1>3, <1>4, <1>5, <1>6, <1>7, <1>8, <1>9, <1>10, <1>11 DEF Next, LoopStep

LEMMA InitLoop == Init => LoopTypeOK
<1> SUFFICES ASSUME Init PROVE LoopTypeOK
  OBVIOUS
<1>1. events = <<>> /\ Len(events) = 0 /\ ready = {} /\ opened = {}
  BY DEF Init, SockInit
<1>2. -1 \in -(IntMax + 1) .. IntMax
  BY LoopAssumption
<1>3. events \in Seq(Fds) /\ res \in -1 .. Len(events)
  BY <1>1 DEF Init
<1> QED
  BY <1>1, <1>2, <1>3 DEF Init, LoopTypeOK, Places

\* What holds before each step of eloop_run.
RunInv == LoopTypeOK /\ ArraysInv /\ ListInv

LEMMA RunInvHolds == Spec => []RunInv
<1>1. Init => RunInv
  BY InitSocks, InitTimeouts, InitLoop DEF Init, RunInv
<1>2. RunInv /\ [Next]_vars => RunInv'
  BY LoopTypeStep, SocksPart, ArraysStep, TimeoutsPart, ListStep DEF RunInv
<1> QED
  BY <1>1, <1>2, PTL DEF Spec

\* All variables keep their types, and every time that is listed is one that
\* struct os_reltime can express.
THEOREM RunTyped == NoCarry => (Spec => []TypeOK)
<1> SUFFICES ASSUME NoCarry PROVE Spec => []TypeOK
  OBVIOUS
<1>1. Spec => [](SockTypeOK /\ TimeoutTypeOK /\ SignalTypeOK)
  BY RunsItsParts, CountsAreKept, TimeoutsTyped, SignalsAreTyped, PTL
<1>2. RunInv /\ SockTypeOK /\ TimeoutTypeOK /\ SignalTypeOK => TypeOK
  BY DEF TypeOK, RunInv, LoopTypeOK, Places
<1> QED
  BY <1>1, <1>2, RunInvHolds, PTL

-----------------------------------------------------------------------------
(* Whose events handlers are called for *)

\* What the allocator has to grant: the array of a table grows whenever
\* epoll_events has.  A registration that fails in between leaves no changed
\* flag, and the loop goes on with the array that realloc has freed.
TablesGrow == "table" \notin MayFail

\* From the return of epoll_wait on, eloop_run has its results.
HasEvents == pc \in {"signals", "scan", "timeout", "timeout_call", "results",
                     "dispatch", "sock_call"}

\* Unless a table has changed, the results are of sockets that are still
\* watched, and were not closed since; and dispatching has seen no change.
EventsInv ==
  /\ pc \in {"setup", "while", "pending", "pending_scan", "poll", "sleep",
               "epoll_wait"} => events = <<>>
  /\ pc = "returned" => \A i \in 1 .. Len(events) : interest[events[i]] # None
  /\ HasEvents /\ ~ AnyChanged =>
       \A i \in 1 .. Len(events) : interest[events[i]] # None /\ events[i] \notin stale
  /\ pc \in {"dispatch", "sock_call"} => idx >= 1
  /\ pc = "dispatch" => ~ AnyChanged

\* The array the results are in is the one that dispatching was given, unless
\* a table has changed, for which dispatching looks next.
AliveInv ==
  /\ pc = "dispatch" => ~ AnyChanged /\ ~ moved
  /\ pc = "sock_call" /\ moved => AnyChanged

\* A call that changes no table takes no socket from the results.
LEMMA CallKeepsEvents ==
  ASSUME ArraysInv, ServedInv, SockCall, ~ AnyChanged'
  PROVE  /\ ~ AnyChanged
         /\ \A s \in Fds : interest[s] # None /\ s \notin stale =>
                             interest'[s] # None /\ s \notin stale'
<1> USE NoneAssumption DEF AnyChanged, ArraysInv, SockTypeOK
<1>1. ASSUME NEW s \in Fds, OpenFd(s)
      PROVE  UNCHANGED <<changed, interest, stale>>
  BY <1>1 DEF OpenFd
<1>2. ASSUME NEW s \in Fds, CloseFd(s)
      PROVE  /\ UNCHANGED changed /\ interest[s] = None
             /\ interest' = [interest EXCEPT ![s] = None] /\ stale' = stale \cup {s}
  BY <1>2 DEF CloseFd, ServedInv, WatchedInv
<1>3. ASSUME NEW s \in Fds, NEW t \in Types,
             AddFailsFdTable(t, s) \/ AddFailsEvents(t, s) \/ AddFailsTable(t, s)
      PROVE  UNCHANGED <<changed, interest, stale>>
  BY <1>3 DEF AddFailsFdTable, AddFailsEvents, AddFailsTable, sockVars
<1>4. ASSUME NEW s \in Fds, NEW t \in Types,
             AddFailsEpoll(t, s) \/ AddSock(t, s) \/ RemoveSock(t, s)
      PROVE  changed'[t] = TRUE
  BY <1>4 DEF AddFailsEpoll, AddSock, RemoveSock, Enter
<1> QED
  BY <1>1, <1>2, <1>3, <1>4 DEF SockCall

\* A call that moves the results changes a table, if the tables grow.
LEMMA CallKeepsAlive ==
  ASSUME TablesGrow, ArraysInv, SockCall, ~ AnyChanged'
  PROVE  ~ AnyChanged /\ moved' = moved
<1> USE DEF AnyChanged, ArraysInv, SockTypeOK
<1>1. ASSUME NEW s \in Fds, OpenFd(s) \/ CloseFd(s)
      PROVE  UNCHANGED <<changed, moved>>
  BY <1>1 DEF OpenFd, CloseFd
<1>2. ASSUME NEW s \in Fds, NEW t \in Types, AddFailsFdTable(t, s) \/ AddFailsEvents(t, s)
      PROVE  UNCHANGED <<changed, moved>>
  BY <1>2 DEF AddFailsFdTable, AddFailsEvents, sockVars
<1>3. ASSUME NEW s \in Fds, NEW t \in Types, AddFailsTable(t, s)
      PROVE  FALSE
  BY <1>3 DEF AddFailsTable, TablesGrow
<1>4. ASSUME NEW s \in Fds, NEW t \in Types,
             AddFailsEpoll(t, s) \/ AddSock(t, s) \/ RemoveSock(t, s)
      PROVE  changed'[t] = TRUE
  BY <1>4 DEF AddFailsEpoll, AddSock, RemoveSock, Enter
<1> QED
  BY <1>1, <1>2, <1>3, <1>4 DEF SockCall

\* Every step keeps the results valid.
LEMMA EventsStep ==
  ASSUME LoopTypeOK, ArraysInv, ServedInv, EventsInv, [Next]_vars
  PROVE  EventsInv'
<1> USE DEF EventsInv, HasEvents
<1>0. \A i \in 1 .. Len(events) : events[i] \in Fds
  BY DEF LoopTypeOK
<1>1. ASSUME UserCall PROVE EventsInv'
  <2>1. CASE SockCall /\ UNCHANGED <<pc, terminate, sleepVars, events, res, idx>>
    <3>1. pc \in {"setup", "timeout_call", "sock_call", "pending_scan", "scan"}
      BY <1>1 DEF UserCall, InUserCode, InSignalCallback
    <3> QED
      BY <2>1, <3>1, <1>0, CallKeepsEvents
  <2>2. CASE UNCHANGED sockVars /\ UNCHANGED loopVars
    BY <2>2 DEF sockVars, loopVars, sleepVars, AnyChanged
  <2> QED
    BY <1>1, <2>1, <2>2 DEF UserCall
<1>2. CASE Terminate \/ ClearEvent \/ Run \/ EpollFails \/ Arrive \/ Clock \/ Kill
  <2> USE DEF sockVars, loopVars, sleepVars, Goto, AnyChanged
  <2>1. CASE Run
    BY <2>1 DEF Run
  <2>2. CASE EpollFails \/ Kill
    BY <2>2 DEF EpollFails, Kill
  <2>3. CASE Terminate \/ ClearEvent \/ Arrive \/ Clock
    BY <2>3 DEF Terminate, ClearEvent, Arrive, Clock
  <2> QED
    BY <1>2, <2>1, <2>2, <2>3
<1>3. CASE Signal
  BY <1>3 DEF Signal, sockVars, Goto, AnyChanged
<1>4. CASE While \/ TestPending \/ PendingScan \/ ReadClock \/ Sleep
  <2> USE DEF sockVars, Goto, Leave, AnyChanged
  <2>1. CASE While
    BY <2>1 DEF While
  <2>2. CASE TestPending
    BY <2>2 DEF TestPending
  <2>3. CASE PendingScan
    BY <2>3 DEF PendingScan
  <2>4. CASE ReadClock \/ Sleep
    BY <2>4 DEF ReadClock, Sleep
  <2> QED
    BY <1>4, <2>1, <2>2, <2>3, <2>4
<1>5. CASE EpollEvents
  <2>1. \A i \in 1 .. Len(events') : interest[events'[i]] # None
    BY <1>5, StoredEvents DEF EpollEvents, ArraysInv, LoopTypeOK, Reported
  <2>2. pc' = "returned" /\ interest' = interest
    BY <1>5 DEF EpollEvents, sockVars, Goto
  <2> QED
    BY <2>1, <2>2
<1>6. CASE EpollTimeout
  BY <1>6 DEF EpollTimeout, sockVars, Goto
<1>7. CASE ResetChanged
  BY <1>7 DEF ResetChanged, ForgetChanges, Goto
<1>8. CASE TestSignals \/ Scan \/ CallTimeout \/ TimeoutReturns
  <2>1. /\ pc \in {"signals", "scan", "timeout", "timeout_call"}
        /\ pc' \in {"signals", "scan", "timeout", "timeout_call", "results"}
        /\ UNCHANGED <<sockVars, events, idx>>
    BY <1>8 DEF TestSignals, Scan, CallTimeout, TimeoutReturns, Goto
  <2> QED
    BY <2>1 DEF sockVars, AnyChanged
<1>9. CASE Results
  <2>1. CASE SkipResults
    BY <1>9, <2>1 DEF Results, Continue, Goto, sockVars
  <2>2. CASE ~ SkipResults
    BY <1>9, <2>2 DEF Results, SkipResults, Goto, PassEvents, AnyChanged
  <2> QED
    BY <2>1, <2>2
<1>10. CASE Dispatch
  BY <1>10 DEF Dispatch, Continue, Goto, sockVars, AnyChanged, LoopTypeOK
<1>11. CASE SockReturns
  BY <1>11 DEF SockReturns, Continue, Goto, sockVars, AnyChanged, LoopTypeOK
<1>12. CASE UNCHANGED vars
  BY <1>12 DEF vars, sockVars, loopVars, sleepVars, AnyChanged
<1> QED
  BY <1>1, <1>2, <1>3, <1>4, <1>5, <1>6, <1>7, <1>8, <1>9, <1>10, <1>11, <1>12
     DEF Next, LoopStep

\* Every step keeps the array of the results alive.
LEMMA AliveStep ==
  ASSUME TablesGrow, ArraysInv, AliveInv, [Next]_vars
  PROVE  AliveInv'
<1> USE DEF AliveInv
<1>1. ASSUME UserCall PROVE AliveInv'
  <2>1. CASE SockCall /\ UNCHANGED <<pc, terminate, sleepVars, events, res, idx>>
    <3>1. pc # "dispatch"
      BY <1>1 DEF UserCall, InUserCode, InSignalCallback
    <3> QED
      BY <2>1, <3>1, CallKeepsAlive
  <2>2. CASE UNCHANGED sockVars /\ UNCHANGED loopVars
    BY <2>2 DEF sockVars, loopVars, sleepVars, AnyChanged
  <2> QED
    BY <1>1, <2>1, <2>2 DEF UserCall
<1>2. CASE Terminate \/ ClearEvent \/ Run \/ EpollFails \/ Signal \/ Arrive \/ Clock \/ Kill
  BY <1>2 DEF Terminate, ClearEvent, Run, EpollFails, Signal, Arrive, Clock, Kill,
              sockVars, loopVars, Goto, AnyChanged
<1>3. CASE While \/ TestPending \/ PendingScan \/ ReadClock \/ Sleep \/ EpollEvents \/ EpollTimeout
  BY <1>3 DEF While, TestPending, PendingScan, ReadClock, Sleep, EpollEvents, EpollTimeout, Goto, Leave
<1>4. CASE ResetChanged \/ TestSignals \/ Scan \/ CallTimeout \/ TimeoutReturns
  BY <1>4 DEF ResetChanged, TestSignals, Scan, CallTimeout, TimeoutReturns, Goto
<1>5. CASE Results
  BY <1>5 DEF Results, SkipResults, Continue, Goto, PassEvents, AnyChanged
<1>6. CASE Dispatch \/ SockReturns
  BY <1>6 DEF Dispatch, SockReturns, Continue, Goto, sockVars, AnyChanged
<1>7. CASE UNCHANGED vars
  BY <1>7 DEF vars, sockVars, loopVars, sleepVars, AnyChanged
<1> QED
  BY <1>1, <1>2, <1>3, <1>4, <1>5, <1>6, <1>7 DEF Next, LoopStep

\* A handler is only called for the registration its event was reported for.
LEMMA DispatchStep ==
  ASSUME LoopTypeOK, ServedInv, EventsInv, [Next]_vars, pc = "dispatch", pc' = "sock_call"
  PROVE  /\ events[idx] \in opened \ stale
         /\ <<fd_table[events[idx]], events[idx]>> \in accepted
         /\ ~ AnyChanged
<1>1. Dispatch
  BY DEF Next, LoopStep, vars, loopVars, UserCall, InUserCode, InSignalCallback, Terminate,
         ClearEvent, Run, EpollFails, Signal, Arrive, Clock, Kill, While, TestPending,
         PendingScan, ReadClock, Sleep, EpollEvents, EpollTimeout, ResetChanged, TestSignals, Scan,
         CallTimeout, TimeoutReturns, Results, SockReturns, Goto
<1>2. idx \in 1 .. Len(events) /\ events[idx] \in Fds
  BY <1>1 DEF Dispatch, EventsInv, LoopTypeOK, Continue, Goto
<1>3. interest[events[idx]] # None /\ events[idx] \notin stale /\ ~ AnyChanged
  BY <1>2 DEF EventsInv, HasEvents
<1> QED
  BY <1>2, <1>3 DEF ServedInv, WatchedInv, SocksAreServed, ServedIsRegistered

\* Sockets may be closed and opened again with the same number, by callbacks
\* for signals, for timeouts and for other sockets: a handler is only called
\* for the event of its own registration, whichever calls have failed.
THEOREM CalledForOwnEvents == OneType => (Spec => CalledForItsOwnEvent)
<1> SUFFICES ASSUME OneType PROVE Spec => CalledForItsOwnEvent
  OBVIOUS
<1>1. Init => ServedInv /\ EventsInv
  BY InitSocks DEF Init, EventsInv, HasEvents
<1>2. RunInv /\ ServedInv /\ EventsInv /\ [Next]_vars => (ServedInv /\ EventsInv)'
  BY SocksPart, ServedStep, EventsStep DEF RunInv
<1>3. RunInv /\ ServedInv /\ EventsInv /\ [Next]_vars =>
        [pc = "dispatch" /\ pc' = "sock_call" =>
           /\ events[idx] \in opened \ stale
           /\ <<fd_table[events[idx]], events[idx]>> \in accepted
           /\ ~ AnyChanged]_vars
  BY DispatchStep DEF RunInv
<1> QED
  BY <1>1, <1>2, <1>3, RunInvHolds, PTL DEF Spec, CalledForItsOwnEvent

\* With the results still there: callbacks may have the array reallocated, but
\* then the loop does not go on with it.
THEOREM CallsForTheirEvents == OneType /\ TablesGrow => (Spec => CallsAreForTheirEvents)
<1> SUFFICES ASSUME OneType, TablesGrow PROVE Spec => CallsAreForTheirEvents
  OBVIOUS
<1>1. Init => AliveInv
  BY DEF Init, AliveInv
<1>2. RunInv /\ AliveInv /\ [Next]_vars => AliveInv'
  BY AliveStep DEF RunInv
<1>3. AliveInv => ResultsAreAlive
  BY DEF AliveInv, ResultsAreAlive
<1>4. Spec => []ResultsAreAlive
  BY <1>1, <1>2, <1>3, RunInvHolds, PTL DEF Spec
<1> QED
  BY <1>4, CalledForOwnEvents DEF CallsAreForTheirEvents

-----------------------------------------------------------------------------
(* How long eloop_run sleeps *)

\* An int holds no more of a natural number than the number.
LEMMA ToIntBound == ASSUME NEW n \in Nat PROVE ToInt(n) <= n /\ (n <= IntMax => ToInt(n) = n)
<1> DEFINE d == 2 * (IntMax + 1)
           x == n + IntMax + 1
<1>1. d \in Nat \ {0} /\ x \in Nat
  BY LoopAssumption
<1>2. ToInt(n) = (x % d) - (IntMax + 1)
  BY DEF ToInt
<1>3. x % d <= x /\ (x < d => x % d = x) /\ x % d \in Int
  <2> HIDE DEF d, x
  <2> DEFINE q == x \div d
  <2>1. x = d * q + (x % d) /\ x % d \in 0 .. d - 1 /\ q \in Int
    BY <1>1
  <2> HIDE DEF q
  <2>2. q >= 1 => d * q >= d
    BY <1>1, <2>1
  <2>3. q <= -1 => d * q <= -d
    BY <1>1, <2>1
  <2>4. q >= 0
    BY <1>1, <2>1, <2>3
  <2>5. q = 0 => d * q = 0
    BY <1>1
  <2> QED
    BY <1>1, <2>1, <2>2, <2>4, <2>5
<1>4. n <= IntMax => x < d
  BY LoopAssumption
<1> QED
  BY <1>2, <1>3, <1>4, LoopAssumption

\* What eloop_run has asked the clock for still stands when it goes to sleep.
AskedInv ==
  pc = "sleep" =>
    /\ asked <= now
    /\ timeout # <<>> /\ ~ FirstIsDue =>
         timeout_ms = ToInt(Millis(Head(timeout).time - asked))

\* Only eloop_run's own steps go to sleep, and until it wakes up the timeouts
\* stay and the clock goes on.
LEMMA BeforeSleep ==
  ASSUME [Next]_vars, pc' \in {"sleep", "epoll_wait"}, now \in Nat
  PROVE  \/ ReadClock
         \/ Sleep
         \/ pc' = pc /\ UNCHANGED <<sleepVars, timeout>> /\ now' \in Nat /\ now' >= now
<1>1. ReadClock \/ Sleep \/ Signal \/ Arrive \/ Clock \/ UNCHANGED vars
  <2>1. CASE UserCall \/ Terminate \/ ClearEvent \/ Run \/ EpollFails \/ Kill
    BY <2>1 DEF UserCall, InUserCode, InSignalCallback, Terminate, ClearEvent, Run, EpollFails,
                Kill, Goto, loopVars
  <2>2. CASE While \/ TestPending \/ PendingScan \/ EpollEvents \/ EpollTimeout
    BY <2>2 DEF While, TestPending, PendingScan, EpollEvents, EpollTimeout, Goto, Leave
  <2>3. CASE ResetChanged \/ TestSignals \/ Scan \/ CallTimeout \/ TimeoutReturns
    BY <2>3 DEF ResetChanged, TestSignals, Scan, CallTimeout, TimeoutReturns, Goto
  <2>4. CASE Results \/ Dispatch \/ SockReturns
    BY <2>4 DEF Results, Dispatch, SockReturns, Continue, Goto
  <2> QED
    BY <2>1, <2>2, <2>3, <2>4 DEF Next, LoopStep
<1> QED
  BY <1>1 DEF Signal, Arrive, Clock, Tick, Goto, vars, loopVars, sleepVars, timeoutVars

\* The first timeout has its time.
LEMMA FirstTime == ASSUME ListInv, timeout # <<>> PROVE Head(timeout).time \in Int
<1>1. Head(timeout) \in Entry
  BY DEF ListInv, Listed
<1> QED
  BY <1>1 DEF Entry

LEMMA AskedStep ==
  ASSUME RunInv, AskedInv, [Next]_vars
  PROVE  AskedInv'
<1> SUFFICES ASSUME pc' = "sleep" PROVE AskedInv'
  BY DEF AskedInv
<1>1. now \in Nat
  BY DEF RunInv, ListInv
<1>2. CASE ReadClock
  <2>1. UNCHANGED <<timeout, now>> /\ asked' = now
    BY <1>2 DEF ReadClock, timeoutVars
  <2>2. timeout # <<>> /\ ~ FirstIsDue => timeout_ms' = ToInt(Millis(Head(timeout).time - now))
    BY <1>2 DEF ReadClock, UntilFirst
  <2> QED
    BY <1>1, <2>1, <2>2 DEF AskedInv, FirstIsDue
<1>3. CASE pc' = pc /\ UNCHANGED <<sleepVars, timeout>> /\ now' \in Nat /\ now' >= now
  <2>1. asked <= now /\ asked \in Nat
    BY <1>3 DEF AskedInv, RunInv, LoopTypeOK
  <2>2. asked' <= now'
    BY <1>1, <1>3, <2>1 DEF sleepVars
  <2>3. timeout' # <<>> /\ ~ FirstIsDue' => ~ FirstIsDue
    BY <1>1, <1>3, FirstTime DEF FirstIsDue, RunInv
  <2> QED
    BY <1>3, <2>2, <2>3 DEF AskedInv, sleepVars
<1>4. ~ Sleep
  BY DEF Sleep, Goto
<1> QED
  BY <1>1, <1>2, <1>3, <1>4, BeforeSleep

LEMMA WakeStep ==
  ASSUME RunInv, AskedInv, WakesForFirstTimeout, [Next]_vars
  PROVE  WakesForFirstTimeout'
<1> SUFFICES ASSUME pc' = "epoll_wait", timeout' # <<>>, ~ FirstIsDue'
             PROVE  IF wake' # Never
                      THEN wake' <= Head(timeout').time + (slept' - asked')
                      ELSE Millis(Head(timeout').time - asked') > IntMax
  BY DEF WakesForFirstTimeout
<1>1. now \in Nat
  BY DEF RunInv, ListInv
<1>2. CASE Sleep
  <2> DEFINE left == Head(timeout).time - asked
             ms == Millis(left)
  <2>1. UNCHANGED <<timeout, now, asked>> /\ slept' = now
    BY <1>2 DEF Sleep, timeoutVars, Goto
  <2>2. asked <= now /\ asked \in Nat /\ timeout_ms = ToInt(ms)
    BY <1>2, <2>1 DEF AskedInv, Sleep, FirstIsDue, RunInv, LoopTypeOK
  <2>3. left \in Nat
    BY <1>1, <2>1, <2>2, FirstTime DEF FirstIsDue, RunInv
  <2>4. ms \in Nat /\ ms * Milli <= left
    BY <2>3, LoopAssumption DEF Millis
  <2>5. CASE timeout_ms < 0
    <3>1. ~ (ms <= IntMax)
      BY <2>2, <2>4, <2>5, ToIntBound
    <3>2. wake' = Never
      BY <1>2, <2>5 DEF Sleep, Goto
    <3> QED
      BY <2>1, <2>4, <3>1, <3>2, LoopAssumption
  <2>6. CASE ~ (timeout_ms < 0)
    <3>1. timeout_ms \in Nat /\ timeout_ms <= ms
      BY <2>2, <2>4, <2>6, ToIntBound, LoopAssumption DEF RunInv, LoopTypeOK
    <3>2. timeout_ms * Milli <= ms * Milli /\ timeout_ms * Milli \in Nat
      <4> HIDE DEF ms
      <4> QED
        BY <2>4, <3>1, LoopAssumption
    <3>3. wake' = now + timeout_ms * Milli
      BY <1>2, <2>6 DEF Sleep, Goto
    <3>4. wake' <= now + left /\ wake' # Never
      <4> HIDE DEF ms, left
      <4> DEFINE slice == timeout_ms * Milli
                 whole == ms * Milli
      <4>1. slice \in Nat /\ whole \in Int /\ slice <= whole /\ whole <= left /\ left \in Nat
        BY <2>3, <2>4, <3>2, LoopAssumption
      <4>2. wake' = now + slice
        BY <3>3
      <4> HIDE DEF slice, whole
      <4> QED
        BY <1>1, <4>1, <4>2, LoopAssumption
    <3> QED
      BY <1>1, <2>1, <2>2, <3>4, FirstTime DEF RunInv
  <2> QED
    BY <2>5, <2>6
<1>3. CASE pc' = pc /\ UNCHANGED <<sleepVars, timeout>> /\ now' \in Nat /\ now' >= now
  <2>1. timeout # <<>> /\ ~ FirstIsDue
    BY <1>1, <1>3, FirstTime DEF FirstIsDue, RunInv
  <2> QED
    BY <1>3, <2>1 DEF WakesForFirstTimeout, sleepVars
<1>4. ~ ReadClock
  BY DEF ReadClock, Goto
<1> QED
  BY <1>1, <1>2, <1>3, <1>4, BeforeSleep

\* epoll_wait sleeps beyond the first timeout by no more than the time since
\* the clock was read, whatever the delays are, unless the milliseconds do not
\* fit in an int.
THEOREM RunWakesInTime == Spec => []WakesForFirstTimeout
<1>1. Init => AskedInv /\ WakesForFirstTimeout
  BY DEF Init, AskedInv, WakesForFirstTimeout
<1>2. RunInv /\ AskedInv /\ WakesForFirstTimeout /\ [Next]_vars =>
        (AskedInv /\ WakesForFirstTimeout)'
  BY AskedStep, WakeStep
<1> QED
  BY <1>1, <1>2, RunInvHolds, PTL DEF Spec

=============================================================================
