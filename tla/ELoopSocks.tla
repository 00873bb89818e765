----------------------------- MODULE ELoopSocks -----------------------------
(***************************************************************************)
(* src/src/eloop/eloop.c: the sockets of the event loop.  Three tables of  *)
(* registrations, one per type of event; fd_table, which dispatching uses  *)
(* to get from a descriptor to its handler; the array epoll_wait fills;    *)
(* and, in the kernel, the epoll instance with one entry per descriptor.   *)
(*                                                                         *)
(* The loop is single-threaded: an operation is a step.  Its failures are  *)
(* chosen: each of the three reallocations may fail, and leaves what was   *)
(* done before it, and so may EPOLL_CTL_ADD.                               *)
(***************************************************************************)
EXTENDS Integers, Sequences, FiniteSets, SequencesExt

CONSTANTS
  Types,        \* read, write and exception, which are all treated alike
  Fds,          \* the descriptors the program has to do with
  FdTableStart, \* the first size of fd_table: 16
  EventsStart,  \* the first size of epoll_events: 8
  MayFail,      \* which steps of a registration may fail
  OneType,      \* callers register a descriptor for one type of event at a time
  MaxCount,     \* bound on the registrations, for those that fail and stay
  FewFds,       \* callers have so few descriptors that one doubling is enough
  None          \* no handler, no type

FailingSteps == {"fd_table", "epoll_events", "table", "epoll_ctl", "epoll_wait"}

ASSUME FdsAssumption == Fds \subseteq Nat /\ IsFiniteSet(Fds)
ASSUME StartsAssumption == FdTableStart \in Nat \ {0} /\ EventsStart \in Nat \ {0}
ASSUME CallersAssumption ==
  MayFail \subseteq FailingSteps /\ OneType \in BOOLEAN /\ FewFds \in BOOLEAN
ASSUME NoneAssumption == None \notin Types

VARIABLES
  table,     \* readers, writers and exceptions: the registered sockets
  changed,   \* the changed flag of each of the tables
  count,     \* eloop.count
  max_sock,  \* eloop.max_sock
  max_fd,    \* eloop.max_fd: the size of fd_table
  fd_table,  \* the handler of a socket, here the type it is registered for
             \* (None also stands for memory that nobody has written yet)
  epoll_max_event_num, \* the size of epoll_events
  interest,  \* the kernel's epoll instance: what it watches a socket for
  opened,    \* the descriptors that are open
  stale,     \* the sockets closed since epoll_wait last reported (a ghost)
  moved,     \* epoll_events was reallocated since epoll_wait last filled it
  accepted   \* registrations that returned 0 and were not undone (a ghost)

sockVars == <<table, changed, count, max_sock, max_fd, fd_table,
              epoll_max_event_num, interest, opened, stale, moved, accepted>>

SockInit ==
  /\ table = [t \in Types |-> <<>>]
  /\ changed = [t \in Types |-> FALSE]
  /\ count = 0
  /\ max_sock = 0
  /\ max_fd = 0
  /\ fd_table = [s \in Fds |-> None]
  /\ epoll_max_event_num = 0
  /\ interest = [s \in Fds |-> None]
  /\ opened = {}
  /\ stale = {}
  /\ moved = FALSE
  /\ accepted = {}

Registered(t, s) == \E i \in 1 .. Len(table[t]) : table[t][i] = s
AnyChanged == \E t \in Types : changed[t]

-----------------------------------------------------------------------------
(* eloop_sock_table_add_sock                                               *)

Larger(a, b) == IF a > b THEN a ELSE b
Grown(size, start) == IF size = 0 THEN start ELSE size * 2

NewMaxSock(s) == Larger(s, max_sock)
\* Mutant: the comparison off by one.
NeedsFdsOffByOne(s)  == NewMaxSock(s) > max_fd

NeedsFds(s)   == NewMaxSock(s) >= max_fd
NeedsEvents   == count + 1 > epoll_max_event_num

GrowFdTable(s) ==
  max_fd' = IF NeedsFds(s) THEN Grown(max_fd, FdTableStart) ELSE max_fd

GrowEvents ==
  /\ epoll_max_event_num' = IF NeedsEvents THEN Grown(epoll_max_event_num, EventsStart)
                                           ELSE epoll_max_event_num
  /\ moved' = (moved \/ NeedsEvents)

\* What a caller may pass: an open socket, which it has not registered for
\* the type, nor (OneType) for another one, and is (FewFds) within one doubling.
MayAdd(t, s) ==
  /\ s \in opened
  /\ <<t, s>> \notin accepted
  /\ OneType => \A u \in Types \ {t} : ~ Registered(u, s)
  /\ FewFds => s < FdTableStart \/ s < max_fd * 2
  /\ count < MaxCount

\* Out of memory: -1, with whatever was reallocated before that.
AddFailsFdTable(t, s) ==
  /\ MayAdd(t, s) /\ NeedsFds(s) /\ "fd_table" \in MayFail
  /\ UNCHANGED sockVars

AddFailsEvents(t, s) ==
  /\ MayAdd(t, s) /\ NeedsEvents /\ "epoll_events" \in MayFail
  /\ GrowFdTable(s)
  /\ UNCHANGED <<table, changed, count, max_sock, fd_table, epoll_max_event_num,
                 interest, opened, stale, moved, accepted>>

AddFailsTable(t, s) ==
  /\ MayAdd(t, s) /\ "table" \in MayFail
  /\ GrowFdTable(s)
  /\ GrowEvents
  /\ UNCHANGED <<table, changed, count, max_sock, fd_table, interest, opened,
                 stale, accepted>>

\* The entry is in the table before the kernel is asked, and it stays there.
Enter(t, s) ==
  /\ MayAdd(t, s)
  /\ GrowFdTable(s)
  /\ GrowEvents
  /\ table' = [table EXCEPT ![t] = Append(@, s)]
  /\ max_sock' = NewMaxSock(s)
  /\ count' = count + 1
  /\ changed' = [changed EXCEPT ![t] = TRUE]

\* EPOLL_CTL_ADD fails with EEXIST when the epoll instance has the socket,
\* and may fail for want of memory or watches: -1.
AddFailsEpoll(t, s) ==
  /\ Enter(t, s)
  /\ interest[s] # None \/ "epoll_ctl" \in MayFail
  /\ UNCHANGED <<fd_table, interest, opened, stale, accepted>>

AddSock(t, s) ==
  /\ Enter(t, s)
  /\ interest[s] = None
  /\ interest' = [interest EXCEPT ![s] = t]
  /\ fd_table' = [fd_table EXCEPT ![s] = t]
  /\ accepted' = accepted \cup {<<t, s>>}
  /\ UNCHANGED <<opened, stale>>

-----------------------------------------------------------------------------
(* eloop_sock_table_remove_sock                                            *)

\* Mutant: without EPOLL_CTL_DEL.
RemoveSockStillWatched(t, s) ==
  /\ Registered(t, s)
  /\ table' = [table EXCEPT ![t] = RemoveFirst(@, s)]
  /\ count' = count - 1
  /\ changed' = [changed EXCEPT ![t] = TRUE]
  /\ fd_table' = [fd_table EXCEPT ![s] = None]
  /\ accepted' = accepted \ {<<t, s>>}
  /\ UNCHANGED <<max_sock, max_fd, epoll_max_event_num, interest, opened, stale, moved>>

\* EPOLL_CTL_DEL fails if the epoll instance does not have the socket, and
\* fd_table then stays as it is.
RemoveSock(t, s) ==
  /\ Registered(t, s)
  /\ table' = [table EXCEPT ![t] = RemoveFirst(@, s)]
  /\ count' = count - 1
  /\ changed' = [changed EXCEPT ![t] = TRUE]
  /\ interest' = [interest EXCEPT ![s] = None]
  /\ fd_table' = [fd_table EXCEPT ![s] = IF interest[s] = None THEN @ ELSE None]
  /\ accepted' = accepted \ {<<t, s>>}
  /\ UNCHANGED <<max_sock, max_fd, epoll_max_event_num, opened, stale, moved>>

-----------------------------------------------------------------------------
(* The program around the loop: it opens descriptors, the kernel reusing   *)
(* numbers, and closes them after it has unregistered what it registered.  *)

OpenFd(s) ==
  /\ s \notin opened
  /\ opened' = opened \cup {s}
  /\ UNCHANGED <<table, changed, count, max_sock, max_fd, fd_table,
                 epoll_max_event_num, interest, stale, moved, accepted>>

CloseFd(s) ==
  /\ s \in opened
  /\ \A t \in Types : <<t, s>> \notin accepted
  /\ opened' = opened \ {s}
  /\ interest' = [interest EXCEPT ![s] = None]
  /\ stale' = stale \cup {s}
  /\ UNCHANGED <<table, changed, count, max_sock, max_fd, fd_table,
                 epoll_max_event_num, moved, accepted>>

SockCall ==
  \E s \in Fds :
    \/ OpenFd(s)
    \/ CloseFd(s)
    \/ \E t \in Types :
         \/ AddFailsFdTable(t, s)
         \/ AddFailsEvents(t, s)
         \/ AddFailsTable(t, s)
         \/ AddFailsEpoll(t, s)
         \/ AddSock(t, s)
         \/ RemoveSock(t, s)

\* What eloop_run itself does to this state when epoll_wait has returned, and
\* when it passes epoll_events on to eloop_sock_table_dispatch.
ForgetChanges ==
  /\ changed' = [t \in Types |-> FALSE]
  /\ stale' = {}
  /\ UNCHANGED <<table, count, max_sock, max_fd, fd_table, epoll_max_event_num,
                 interest, opened, moved, accepted>>

PassEvents ==
  /\ moved' = FALSE
  /\ UNCHANGED <<table, changed, count, max_sock, max_fd, fd_table,
                 epoll_max_event_num, interest, opened, stale, accepted>>

SockNext == SockCall \/ ForgetChanges \/ PassEvents

SockSpec == SockInit /\ [][SockNext]_sockVars

-----------------------------------------------------------------------------
(* Properties *)

\* Every field of struct eloop_data keeps its type.
SockTypeOK ==
  /\ table \in [Types -> Seq(Fds)]
  /\ changed \in [Types -> BOOLEAN]
  /\ count \in Nat /\ max_sock \in Nat /\ max_fd \in Nat
  /\ fd_table \in [Fds -> Types \cup {None}]
  /\ epoll_max_event_num \in Nat
  /\ interest \in [Fds -> Types \cup {None}]
  /\ opened \subseteq Fds /\ stale \subseteq Fds
  /\ moved \in BOOLEAN
  /\ accepted \subseteq Types \X Fds

\* eloop.count, which eloop_run compares with 0 and gives to epoll_wait as the
\* number of events it may store, is the number of registrations; the array
\* for the events is never smaller, whatever reallocation has failed.
CountsFit ==
  /\ count = Cardinality(UNION {{t} \X DOMAIN table[t] : t \in Types})
  /\ count <= epoll_max_event_num

\* Dispatching indexes fd_table by what epoll reports: every socket the epoll
\* instance has is inside of the table.
IndicesFit == \A s \in Fds : interest[s] # None => s < max_fd

\* What is registered, what the kernel watches and what dispatching will call
\* agree: an event for a socket that was registered with success reaches its
\* handler ("The handler function will be called whenever the that event is
\* triggered", eloop.h).  Four structures have to be kept in step for that.
RegisteredIsServed ==
  \A t \in Types, s \in Fds :
    <<t, s>> \in accepted => interest[s] = t /\ fd_table[s] = t

\* Nothing is watched or dispatched that is not registered (any more): the
\* table that a handler is looked up in has no entry of a closed socket.
ServedIsRegistered ==
  \A s \in Fds : interest[s] # None =>
    s \in opened /\ fd_table[s] = interest[s] /\ Registered(interest[s], s)

\* Counts and indices stay within the arrays they are used for.
SocksFit == CountsFit /\ IndicesFit

\* What is registered is served, and nothing else (eloop.c:150-281).
SocksAreServed == RegisteredIsServed /\ ServedIsRegistered

=============================================================================
