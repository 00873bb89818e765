-------------------------- MODULE ELoopPartsProofs --------------------------
(***************************************************************************)
(* Proofs about the three parts of the event loop: the sockets, for every  *)
(* set of descriptors and of types and whichever of the reallocations and  *)
(* system calls fail; the timeouts, for every set of keys and of delays;   *)
(* the signals, for every set of them; and for any number of registrations.*)
(***************************************************************************)
EXTENDS ELoopSocks, ELoopTimeouts, ELoopSignals, SequenceLemmas, SequenceTheorems,
        FiniteSetTheorems

-----------------------------------------------------------------------------
(***************************************************************************)
(* ELoopSocks: the sockets                                                 *)
(***************************************************************************)

\* The places of all tables that are taken.
Entries == UNION {{t} \X DOMAIN table[t] : t \in Types}

\* count is the number of entries, and the array for the events holds as many.
EntriesInv ==
  /\ IsFiniteSet(Entries)
  /\ count = Cardinality(Entries)
  /\ count <= epoll_max_event_num

\* fd_table has its first size at least once it is there: doubling makes room.
SizeInv == max_fd = 0 \/ max_fd >= FdTableStart

\* The first inductive invariant.
ArraysInv == SockTypeOK /\ EntriesInv /\ SizeInv

\* A socket is in one of the tables only.
OneTableInv ==
  \A t, u \in Types, s \in Fds : Registered(t, s) /\ Registered(u, s) => t = u

\* What the kernel watches was registered with success and not removed since.
WatchedInv == \A s \in Fds : interest[s] # None => <<interest[s], s>> \in accepted

\* The second one: what is left behind by a registration that failed is neither
\* watched nor dispatched, and removing it does not disturb another table's.
ServedInv == OneTableInv /\ WatchedInv /\ SocksAreServed

-----------------------------------------------------------------------------
(* Lemmas about the operations *)

LEMMA EntriesArePlaces ==
  ASSUME NEW tables \in [Types -> Seq(Fds)]
  PROVE  \A e : e \in UNION {{t} \X DOMAIN tables[t] : t \in Types}
                 <=> \E t \in Types : \E i \in 1 .. Len(tables[t]) : e = <<t, i>>
<1>1. \A t \in Types : DOMAIN tables[t] = 1 .. Len(tables[t])
  BY LenProperties
<1> QED
  BY <1>1

\* fd_table only grows, keeps its first size, and has room for the socket if
\* one doubling is enough for it.
LEMMA FdTableGrows ==
  ASSUME SockTypeOK, SizeInv, NEW s \in Fds, GrowFdTable(s)
  PROVE  /\ max_fd' \in Nat /\ max_fd' >= max_fd /\ SizeInv'
         /\ (s < FdTableStart \/ s < max_fd * 2) => s < max_fd'
BY FdsAssumption, StartsAssumption
   DEF SockTypeOK, SizeInv, GrowFdTable, NeedsFds, NewMaxSock, Larger, Grown

\* The array for the events only grows, and has room for one more.
LEMMA EventsGrow ==
  ASSUME SockTypeOK, EntriesInv, GrowEvents
  PROVE  /\ epoll_max_event_num' \in Nat
         /\ epoll_max_event_num' >= epoll_max_event_num
         /\ epoll_max_event_num' >= count + 1
         /\ moved' \in BOOLEAN
BY StartsAssumption DEF SockTypeOK, EntriesInv, GrowEvents, NeedsEvents, Grown

\* Entering a socket takes one place, and keeps the first inductive invariant
\* whatever comes after it.
LEMMA EnterArrays ==
  ASSUME ArraysInv, NEW t \in Types, NEW s \in Fds, Enter(t, s)
  PROVE  /\ table' \in [Types -> Seq(Fds)] /\ changed' \in [Types -> BOOLEAN]
         /\ count' \in Nat /\ max_sock' \in Nat
         /\ \A u \in Types, r \in Fds :
              Registered(u, r)' <=> Registered(u, r) \/ (u = t /\ r = s)
         /\ SockTypeOK' => EntriesInv'
<1> USE DEF ArraysInv
<1>1. table[t] \in Seq(Fds) /\ Len(table[t]) \in Nat
  BY DEF SockTypeOK
<1>2. /\ Append(table[t], s) \in Seq(Fds)
      /\ Len(Append(table[t], s)) = Len(table[t]) + 1
      /\ \A i \in 1 .. Len(table[t]) : Append(table[t], s)[i] = table[t][i]
      /\ Append(table[t], s)[Len(table[t]) + 1] = s
  BY <1>1, AppendProperties
<1>3. /\ table' \in [Types -> Seq(Fds)]
      /\ table'[t] = Append(table[t], s)
      /\ \A u \in Types \ {t} : table'[u] = table[u]
  BY <1>2 DEF Enter, SockTypeOK
<1>4. changed' \in [Types -> BOOLEAN] /\ count' \in Nat /\ max_sock' \in Nat
  BY FdsAssumption DEF Enter, SockTypeOK, NewMaxSock, Larger
<1>5. ASSUME NEW u \in Types, NEW r \in Fds
      PROVE  Registered(u, r)' <=> Registered(u, r) \/ (u = t /\ r = s)
  <2>1. CASE u = t
    <3>1. ASSUME Registered(u, r) PROVE Registered(u, r)'
      BY <2>1, <3>1, <1>1, <1>2, <1>3 DEF Registered
    <3>2. ASSUME r = s PROVE Registered(u, r)'
      BY <2>1, <3>2, <1>1, <1>2, <1>3 DEF Registered
    <3>3. ASSUME Registered(u, r)', r # s PROVE Registered(u, r)
      <4>1. PICK i \in 1 .. Len(table[t]) + 1 : table'[t][i] = r
        BY <2>1, <3>3, <1>2, <1>3 DEF Registered
      <4>2. i \in 1 .. Len(table[t]) /\ table[t][i] = r
        BY <3>3, <4>1, <1>1, <1>2, <1>3
      <4> QED
        BY <2>1, <4>2 DEF Registered
    <3> QED
      BY <2>1, <3>1, <3>2, <3>3
  <2>2. CASE u # t
    BY <2>2, <1>3 DEF Registered
  <2> QED
    BY <2>1, <2>2
<1>6. ASSUME SockTypeOK' PROVE EntriesInv'
  <2> DEFINE e == <<t, Len(table[t]) + 1>>
  <2>1. \A d : d \in Entries <=> \E u \in Types : \E i \in 1 .. Len(table[u]) : d = <<u, i>>
    BY EntriesArePlaces DEF SockTypeOK, Entries
  <2>2. \A d : d \in Entries' <=> \E u \in Types : \E i \in 1 .. Len(table'[u]) : d = <<u, i>>
    BY <1>3, EntriesArePlaces DEF Entries
  <2>3. e \notin Entries
    BY <2>1, <1>1
  <2>4. Entries' = Entries \cup {e}
    <3>1. \A d : d \in Entries' <=> d \in Entries \/ d = e
      <4> SUFFICES ASSUME NEW d PROVE d \in Entries' <=> d \in Entries \/ d = e
        OBVIOUS
      <4>1. ASSUME NEW u \in Types \ {t}, NEW i
            PROVE  i \in 1 .. Len(table'[u]) <=> i \in 1 .. Len(table[u])
        BY <1>3
      <4>2. \A i : i \in 1 .. Len(table'[t]) <=> i \in 1 .. Len(table[t]) \/ i = Len(table[t]) + 1
        BY <1>1, <1>2, <1>3
      <4> QED
        BY <2>1, <2>2, <4>1, <4>2
    <3> QED
      BY <3>1
  <2>5. IsFiniteSet(Entries') /\ Cardinality(Entries') = Cardinality(Entries) + 1
    BY <2>3, <2>4, FS_AddElement DEF EntriesInv
  <2> QED
    BY <2>5, EventsGrow DEF EntriesInv, Enter
<1> QED
  BY <1>3, <1>4, <1>5, <1>6

\* Removing a socket gives one place back, and takes nothing else out.
LEMMA RemoveArrays ==
  ASSUME ArraysInv, NEW t \in Types, NEW s \in Fds, RemoveSock(t, s)
  PROVE  /\ ArraysInv'
         /\ \A u \in Types, r \in Fds : Registered(u, r)' => Registered(u, r)
         /\ \A u \in Types, r \in Fds :
              (u # t \/ r # s) /\ Registered(u, r) => Registered(u, r)'
<1> USE DEF ArraysInv
<1> DEFINE n == Len(table[t])
<1>1. table[t] \in Seq(Fds) /\ n \in Nat
  BY DEF SockTypeOK
<1>2. PICK k \in 1 .. n :
        /\ table[t][k] = s
        /\ RemoveFirst(table[t], s) \in Seq(Fds)
        /\ Len(RemoveFirst(table[t], s)) = n - 1
        /\ \A i \in 1 .. n - 1 :
             RemoveFirst(table[t], s)[i] = IF i < k THEN table[t][i] ELSE table[t][i + 1]
  BY <1>1, RemovedFirst DEF RemoveSock, Registered
<1>3. /\ table' \in [Types -> Seq(Fds)]
      /\ table'[t] = RemoveFirst(table[t], s)
      /\ \A u \in Types \ {t} : table'[u] = table[u]
  BY <1>2 DEF RemoveSock, SockTypeOK
<1>4. /\ Len(table'[t]) = n - 1
      /\ \A i \in 1 .. n - 1 :
           table'[t][i] = IF i < k THEN table[t][i] ELSE table[t][i + 1]
  BY <1>2, <1>3
<1>5. Entries' = Entries \ {<<t, n>>} /\ <<t, n>> \in Entries
  <2>1. \A d : d \in Entries <=> \E u \in Types : \E i \in 1 .. Len(table[u]) : d = <<u, i>>
    BY EntriesArePlaces DEF SockTypeOK, Entries
  <2>2. \A d : d \in Entries' <=> \E u \in Types : \E i \in 1 .. Len(table'[u]) : d = <<u, i>>
    BY <1>3, EntriesArePlaces DEF Entries
  <2>3. ASSUME NEW u \in Types \ {t}, NEW i
        PROVE  i \in 1 .. Len(table'[u]) <=> i \in 1 .. Len(table[u])
    BY <1>3
  <2>4. \A i : i \in 1 .. Len(table'[t]) <=> i \in 1 .. n /\ i # n
    BY <1>1, <1>4
  <2>5. \A d : d \in Entries' <=> d \in Entries /\ d # <<t, n>>
    BY <2>1, <2>2, <2>3, <2>4
  <2>6. n \in 1 .. n
    BY <1>1, <1>2
  <2>7. <<t, n>> \in Entries
    BY <2>1, <2>6
  <2> QED
    BY <2>5, <2>7
<1>6. EntriesInv'
  <2>1. /\ IsFiniteSet(Entries')
        /\ Cardinality(Entries') = Cardinality(Entries) - 1
    BY <1>5, FS_RemoveElement DEF EntriesInv
  <2> QED
    BY <2>1 DEF EntriesInv, RemoveSock, SockTypeOK
<1>7. SockTypeOK'
  <2>1. count' \in Nat
    BY <1>6, FS_CardinalityType DEF EntriesInv
  <2>2. changed' \in [Types -> BOOLEAN] /\ accepted' \subseteq Types \X Fds
    BY DEF RemoveSock, SockTypeOK
  <2>3. interest' \in [Fds -> Types \cup {None}] /\ fd_table' \in [Fds -> Types \cup {None}]
    BY DEF RemoveSock, SockTypeOK
  <2> QED
    BY <1>3, <2>1, <2>2, <2>3 DEF RemoveSock, SockTypeOK
<1>8. SizeInv'
  BY DEF RemoveSock, SizeInv
<1>9. ASSUME NEW u \in Types, NEW r \in Fds, Registered(u, r)'
      PROVE  Registered(u, r)
  <2>1. CASE u = t
    <3>1. PICK i \in 1 .. n - 1 : table'[t][i] = r
      BY <1>9, <1>4, <2>1 DEF Registered
    <3>2. i \in 1 .. n /\ i + 1 \in 1 .. n
      BY <1>1
    <3> QED
      BY <1>4, <2>1, <3>1, <3>2 DEF Registered
  <2>2. CASE u # t
    BY <1>9, <2>2, <1>3 DEF Registered
  <2> QED
    BY <2>1, <2>2
<1>10. ASSUME NEW u \in Types, NEW r \in Fds, u # t \/ r # s, Registered(u, r)
       PROVE  Registered(u, r)'
  <2>1. CASE u = t
    <3>1. PICK i \in 1 .. n : table[t][i] = r
      BY <1>10, <2>1 DEF Registered
    <3>2. i # k
      BY <1>2, <1>10, <2>1, <3>1
    <3>3. CASE i < k
      <4>1. i \in 1 .. n - 1 /\ table'[t][i] = r
        BY <1>1, <1>4, <3>1, <3>3
      <4> QED
        BY <1>4, <2>1, <4>1 DEF Registered
    <3>4. CASE i > k
      <4>1. i - 1 \in 1 .. n - 1 /\ table'[t][i - 1] = r
        BY <1>1, <1>4, <3>1, <3>4
      <4> QED
        BY <1>4, <2>1, <4>1 DEF Registered
    <3> QED
      BY <1>1, <3>2, <3>3, <3>4
  <2>2. CASE u # t
    BY <1>10, <2>2, <1>3 DEF Registered
  <2> QED
    BY <2>1, <2>2
<1> QED
  BY <1>6, <1>7, <1>8, <1>9, <1>10

-----------------------------------------------------------------------------
(* Arrays and indices *)

\* Every registration, whether it succeeds or fails at any of its steps, keeps
\* the types, the count and the sizes.
LEMMA AddArrays ==
  ASSUME ArraysInv, NEW t \in Types, NEW s \in Fds,
         \/ AddFailsFdTable(t, s) \/ AddFailsEvents(t, s) \/ AddFailsTable(t, s)
         \/ AddFailsEpoll(t, s) \/ AddSock(t, s)
  PROVE  ArraysInv'
<1> USE DEF ArraysInv
<1>1. CASE AddFailsFdTable(t, s)
  BY <1>1 DEF AddFailsFdTable, sockVars, SockTypeOK, EntriesInv, Entries, SizeInv
<1>2. CASE AddFailsEvents(t, s)
  <2>1. max_fd' \in Nat /\ SizeInv'
    BY <1>2, FdTableGrows DEF AddFailsEvents
  <2>2. SockTypeOK'
    BY <1>2, <2>1 DEF AddFailsEvents, SockTypeOK
  <2>3. EntriesInv'
    BY <1>2 DEF AddFailsEvents, EntriesInv, Entries
  <2> QED
    BY <2>1, <2>2, <2>3
<1>3. CASE AddFailsTable(t, s)
  <2>1. max_fd' \in Nat /\ SizeInv'
    BY <1>3, FdTableGrows DEF AddFailsTable
  <2>2. /\ epoll_max_event_num' \in Nat /\ moved' \in BOOLEAN
        /\ epoll_max_event_num' >= count + 1
    BY <1>3, EventsGrow DEF AddFailsTable
  <2>3. SockTypeOK'
    BY <1>3, <2>1, <2>2 DEF AddFailsTable, SockTypeOK
  <2>4. EntriesInv'
    BY <1>3, <2>2 DEF AddFailsTable, EntriesInv, Entries, SockTypeOK
  <2> QED
    BY <2>1, <2>3, <2>4
<1>4. ASSUME Enter(t, s),
             fd_table' \in [Fds -> Types \cup {None}],
             interest' \in [Fds -> Types \cup {None}],
             opened' \subseteq Fds, stale' \subseteq Fds, accepted' \subseteq Types \X Fds
      PROVE  ArraysInv'
  <2>1. max_fd' \in Nat /\ SizeInv'
    BY <1>4, FdTableGrows DEF Enter
  <2>2. epoll_max_event_num' \in Nat /\ moved' \in BOOLEAN
    BY <1>4, EventsGrow DEF Enter
  <2>3. /\ table' \in [Types -> Seq(Fds)] /\ changed' \in [Types -> BOOLEAN]
        /\ count' \in Nat /\ max_sock' \in Nat
        /\ SockTypeOK' => EntriesInv'
    BY <1>4, EnterArrays
  <2>4. SockTypeOK'
    BY <1>4, <2>1, <2>2, <2>3 DEF SockTypeOK
  <2> QED
    BY <2>1, <2>3, <2>4
<1>5. CASE AddFailsEpoll(t, s)
  BY <1>4, <1>5 DEF AddFailsEpoll, SockTypeOK
<1>6. CASE AddSock(t, s)
  <2>1. interest' \in [Fds -> Types \cup {None}] /\ fd_table' \in [Fds -> Types \cup {None}]
    BY <1>6 DEF AddSock, SockTypeOK
  <2>2. opened' \subseteq Fds /\ stale' \subseteq Fds /\ accepted' \subseteq Types \X Fds
    BY <1>6 DEF AddSock, SockTypeOK
  <2> QED
    BY <1>4, <1>6, <2>1, <2>2 DEF AddSock
<1> QED
  BY <1>1, <1>2, <1>3, <1>5, <1>6

\* Every step keeps the first inductive invariant.
LEMMA ArraysStep ==
  ASSUME ArraysInv, [SockNext]_sockVars
  PROVE  ArraysInv'
<1> USE DEF ArraysInv
<1>1. CASE \E s \in Fds : OpenFd(s)
  BY <1>1 DEF OpenFd, SockTypeOK, EntriesInv, Entries, SizeInv
<1>2. CASE \E s \in Fds : CloseFd(s)
  <2>1. PICK s \in Fds : CloseFd(s)
    BY <1>2
  <2>2. interest' \in [Fds -> Types \cup {None}]
    BY <2>1 DEF CloseFd, SockTypeOK
  <2>3. SockTypeOK'
    BY <2>1, <2>2 DEF CloseFd, SockTypeOK
  <2>4. EntriesInv' /\ SizeInv'
    BY <2>1 DEF CloseFd, EntriesInv, Entries, SizeInv
  <2> QED
    BY <2>3, <2>4
<1>3. CASE \E s \in Fds, t \in Types :
             \/ AddFailsFdTable(t, s) \/ AddFailsEvents(t, s) \/ AddFailsTable(t, s)
             \/ AddFailsEpoll(t, s) \/ AddSock(t, s)
  BY <1>3, AddArrays
<1>4. CASE \E s \in Fds, t \in Types : RemoveSock(t, s)
  BY <1>4, RemoveArrays
<1>5. CASE ForgetChanges
  <2>1. SockTypeOK'
    BY <1>5 DEF ForgetChanges, SockTypeOK
  <2>2. EntriesInv' /\ SizeInv'
    BY <1>5 DEF ForgetChanges, EntriesInv, Entries, SizeInv
  <2> QED
    BY <2>1, <2>2
<1>6. CASE PassEvents
  <2>1. SockTypeOK'
    BY <1>6 DEF PassEvents, SockTypeOK
  <2>2. EntriesInv' /\ SizeInv'
    BY <1>6 DEF PassEvents, EntriesInv, Entries, SizeInv
  <2> QED
    BY <2>1, <2>2
<1>7. CASE UNCHANGED sockVars
  BY <1>7 DEF sockVars, SockTypeOK, EntriesInv, Entries, SizeInv
<1> QED
  BY <1>1, <1>2, <1>3, <1>4, <1>5, <1>6, <1>7 DEF SockNext, SockCall

\* A socket that the kernel is told to watch has its place in fd_table, if one
\* doubling is enough for it; fd_table never shrinks.
LEMMA IndicesStep ==
  ASSUME FewFds, ArraysInv, IndicesFit, [SockNext]_sockVars
  PROVE  IndicesFit'
<1> USE FdsAssumption DEF ArraysInv
<1>1. ASSUME max_fd' \in Nat, max_fd' >= max_fd, NEW s \in Fds,
             \A r \in Fds : interest'[r] # None => interest[r] # None \/ (r = s /\ s < max_fd')
      PROVE  IndicesFit'
  BY <1>1 DEF IndicesFit, SockTypeOK
<1>2. ASSUME NEW s \in Fds, NEW t \in Types, AddFailsEvents(t, s) \/ AddFailsTable(t, s)
      PROVE  IndicesFit'
  <2>1. max_fd' \in Nat /\ max_fd' >= max_fd
    BY <1>2, FdTableGrows DEF AddFailsEvents, AddFailsTable
  <2> QED
    BY <1>1, <1>2, <2>1 DEF AddFailsEvents, AddFailsTable
<1>3. ASSUME NEW s \in Fds, NEW t \in Types, AddFailsEpoll(t, s) \/ AddSock(t, s)
      PROVE  IndicesFit'
  <2>1. max_fd' \in Nat /\ max_fd' >= max_fd /\ s < max_fd'
    BY <1>3, FdTableGrows DEF AddFailsEpoll, AddSock, Enter, MayAdd
  <2>2. \A r \in Fds \ {s} : interest'[r] = interest[r]
    BY <1>3 DEF AddFailsEpoll, AddSock, SockTypeOK
  <2> QED
    BY <1>1, <2>1, <2>2
<1>4. ASSUME NEW s \in Fds, NEW t \in Types, AddFailsFdTable(t, s)
      PROVE  IndicesFit'
  BY <1>4 DEF AddFailsFdTable, sockVars, IndicesFit
<1>5. ASSUME NEW s \in Fds, NEW t \in Types, RemoveSock(t, s)
      PROVE  IndicesFit'
  BY <1>5 DEF RemoveSock, IndicesFit, SockTypeOK
<1>6. ASSUME NEW s \in Fds, OpenFd(s) \/ CloseFd(s)
      PROVE  IndicesFit'
  BY <1>6 DEF OpenFd, CloseFd, IndicesFit, SockTypeOK
<1>7. CASE ForgetChanges \/ PassEvents \/ UNCHANGED sockVars
  BY <1>7 DEF ForgetChanges, PassEvents, sockVars, IndicesFit
<1> QED
  BY <1>2, <1>3, <1>4, <1>5, <1>6, <1>7 DEF SockNext, SockCall

-----------------------------------------------------------------------------
(* Serving what is registered *)

\* A registration that fails leaves an entry at most, that one with success
\* makes table, epoll instance and fd_table agree on a socket that none of them
\* had served.
LEMMA AddServed ==
  ASSUME OneType, ArraysInv, ServedInv, NEW t \in Types, NEW s \in Fds,
         \/ AddFailsFdTable(t, s) \/ AddFailsEvents(t, s) \/ AddFailsTable(t, s)
         \/ AddFailsEpoll(t, s) \/ AddSock(t, s)
  PROVE  ServedInv'
<1> USE NoneAssumption DEF ServedInv, SocksAreServed
<1>1. CASE AddFailsFdTable(t, s) \/ AddFailsEvents(t, s) \/ AddFailsTable(t, s)
  BY <1>1 DEF AddFailsFdTable, AddFailsEvents, AddFailsTable, sockVars, Registered,
              OneTableInv, WatchedInv, RegisteredIsServed, ServedIsRegistered
<1>2. ASSUME Enter(t, s) PROVE OneTableInv'
  <2>1. \A u \in Types, r \in Fds :
          Registered(u, r)' <=> Registered(u, r) \/ (u = t /\ r = s)
    BY <1>2, EnterArrays
  <2>2. \A u \in Types \ {t} : ~ Registered(u, s)
    BY <1>2 DEF Enter, MayAdd
  <2> QED
    BY <2>1, <2>2 DEF OneTableInv
<1>3. CASE AddFailsEpoll(t, s)
  <2>1. \A u \in Types, r \in Fds : Registered(u, r) => Registered(u, r)'
    BY <1>3, EnterArrays DEF AddFailsEpoll
  <2>2. WatchedInv' /\ RegisteredIsServed'
    BY <1>3 DEF AddFailsEpoll, WatchedInv, RegisteredIsServed
  <2>3. ServedIsRegistered'
    <3>1. \A r \in Fds : interest[r] # None => interest[r] \in Types
      BY DEF ArraysInv, SockTypeOK
    <3> QED
      BY <1>3, <2>1, <3>1 DEF AddFailsEpoll, ServedIsRegistered
  <2> QED
    BY <1>2, <1>3, <2>2, <2>3 DEF AddFailsEpoll
<1>4. CASE AddSock(t, s)
  <2>1. \A u \in Types, r \in Fds :
          Registered(u, r)' <=> Registered(u, r) \/ (u = t /\ r = s)
    BY <1>4, EnterArrays DEF AddSock
  <2>2. /\ interest[s] = None /\ interest'[s] = t /\ fd_table'[s] = t
        /\ \A r \in Fds \ {s} : interest'[r] = interest[r] /\ fd_table'[r] = fd_table[r]
        /\ accepted' = accepted \cup {<<t, s>>}
        /\ opened' = opened /\ s \in opened
    BY <1>4 DEF AddSock, Enter, MayAdd, ArraysInv, SockTypeOK
  <2>3. WatchedInv'
    BY <2>2 DEF WatchedInv
  <2>4. RegisteredIsServed'
    BY <2>2 DEF RegisteredIsServed
  <2>5. ServedIsRegistered'
    <3>1. \A r \in Fds : interest[r] # None => interest[r] \in Types
      BY DEF ArraysInv, SockTypeOK
    <3> QED
      BY <2>1, <2>2, <3>1 DEF ServedIsRegistered
  <2> QED
    BY <1>2, <1>4, <2>3, <2>4, <2>5 DEF AddSock
<1> QED
  BY <1>1, <1>3, <1>4

\* Removing a socket for a type takes it out of all of the structures, if it is
\* in no other table.
LEMMA RemoveServed ==
  ASSUME OneType, ArraysInv, ServedInv, NEW t \in Types, NEW s \in Fds, RemoveSock(t, s)
  PROVE  ServedInv'
<1> USE NoneAssumption DEF ServedInv, SocksAreServed
<1>1. /\ \A u \in Types, r \in Fds : Registered(u, r)' => Registered(u, r)
      /\ \A u \in Types, r \in Fds :
           (u # t \/ r # s) /\ Registered(u, r) => Registered(u, r)'
  BY RemoveArrays
<1>2. /\ interest'[s] = None
      /\ \A r \in Fds \ {s} : interest'[r] = interest[r] /\ fd_table'[r] = fd_table[r]
      /\ accepted' = accepted \ {<<t, s>>}
      /\ opened' = opened /\ Registered(t, s)
  BY DEF RemoveSock, ArraysInv, SockTypeOK
<1>3. \A r \in Fds : interest[r] # None => interest[r] \in Types
  BY DEF ArraysInv, SockTypeOK
<1>4. OneTableInv'
  BY <1>1 DEF OneTableInv
<1>5. WatchedInv'
  BY <1>2 DEF WatchedInv
<1>6. RegisteredIsServed'
  <2>1. ASSUME NEW u \in Types, <<u, s>> \in accepted PROVE u = t
    <3>1. interest[s] = u
      BY <2>1 DEF RegisteredIsServed
    <3>2. Registered(u, s)
      BY <3>1 DEF ServedIsRegistered
    <3> QED
      BY <3>2, <1>2 DEF OneTableInv
  <2> QED
    BY <1>2, <2>1 DEF RegisteredIsServed
<1>7. ServedIsRegistered'
  BY <1>1, <1>2, <1>3 DEF ServedIsRegistered
<1> QED
  BY <1>4, <1>5, <1>6, <1>7

\* Every step keeps the second inductive invariant.
LEMMA ServedStep ==
  ASSUME OneType, ArraysInv, ServedInv, [SockNext]_sockVars
  PROVE  ServedInv'
<1> USE NoneAssumption DEF ServedInv, SocksAreServed
<1>1. CASE \E s \in Fds : OpenFd(s)
  BY <1>1 DEF OpenFd, Registered, OneTableInv, WatchedInv, RegisteredIsServed,
              ServedIsRegistered
<1>2. CASE \E s \in Fds : CloseFd(s)
  <2>1. PICK s \in Fds : CloseFd(s)
    BY <1>2
  <2>2. /\ interest'[s] = None
        /\ \A r \in Fds \ {s} : interest'[r] = interest[r]
        /\ \A t \in Types : <<t, s>> \notin accepted
    BY <2>1 DEF CloseFd, ArraysInv, SockTypeOK
  <2>3. OneTableInv'
    BY <2>1 DEF CloseFd, Registered, OneTableInv
  <2>4. WatchedInv' /\ RegisteredIsServed'
    BY <2>1, <2>2 DEF CloseFd, WatchedInv, RegisteredIsServed
  <2>5. ServedIsRegistered'
    BY <2>1, <2>2 DEF CloseFd, Registered, ServedIsRegistered
  <2> QED
    BY <2>3, <2>4, <2>5
<1>3. CASE \E s \in Fds, t \in Types :
             \/ AddFailsFdTable(t, s) \/ AddFailsEvents(t, s) \/ AddFailsTable(t, s)
             \/ AddFailsEpoll(t, s) \/ AddSock(t, s)
  BY <1>3, AddServed
<1>4. CASE \E s \in Fds, t \in Types : RemoveSock(t, s)
  BY <1>4, RemoveServed
<1>5. CASE ForgetChanges \/ PassEvents \/ UNCHANGED sockVars
  BY <1>5 DEF ForgetChanges, PassEvents, sockVars, Registered, OneTableInv, WatchedInv,
              RegisteredIsServed, ServedIsRegistered
<1> QED
  BY <1>1, <1>2, <1>3, <1>4, <1>5 DEF SockNext, SockCall

-----------------------------------------------------------------------------
(* The theorems *)

\* At the start nothing is registered and nothing is allocated.
LEMMA InitSocks == SockInit => ArraysInv /\ IndicesFit /\ ServedInv
<1> SUFFICES ASSUME SockInit PROVE ArraysInv /\ IndicesFit /\ ServedInv
  OBVIOUS
<1>1. SockTypeOK
  <2>1. table \in [Types -> Seq(Fds)]
    BY EmptySeq DEF SockInit
  <2> QED
    BY <2>1 DEF SockInit, SockTypeOK
<1>2. \A t \in Types : Len(table[t]) = 0
  BY EmptySeq DEF SockInit
<1>3. EntriesInv
  <2>1. \A e : e \notin Entries
    BY <1>1, <1>2, EntriesArePlaces DEF SockTypeOK, Entries
  <2>2. Entries = {}
    BY <2>1
  <2> QED
    BY <2>2, FS_EmptySet DEF EntriesInv, SockInit
<1>4. SizeInv /\ IndicesFit
  BY DEF SockInit, SizeInv, IndicesFit
<1>5. ServedInv
  BY <1>2 DEF SockInit, Registered, ServedInv, OneTableInv, WatchedInv, SocksAreServed,
              RegisteredIsServed, ServedIsRegistered
<1> QED
  BY <1>1, <1>3, <1>4, <1>5 DEF ArraysInv

\* eloop.count is the number of entries of all tables and fits into the array
\* for the events, whatever fails in eloop_sock_table_add_sock.
THEOREM CountsAreKept == SockSpec => [](SockTypeOK /\ CountsFit)
<1>1. SockInit => ArraysInv
  BY InitSocks
<1>2. ArraysInv /\ [SockNext]_sockVars => ArraysInv'
  BY ArraysStep
<1>3. ArraysInv => SockTypeOK /\ CountsFit
  BY DEF ArraysInv, EntriesInv, Entries, CountsFit
<1> QED
  BY <1>1, <1>2, <1>3, PTL DEF SockSpec

\* Counts and indices stay within the arrays they are used for, if one doubling
\* of fd_table is enough for a descriptor.
THEOREM SocksAreInBounds == FewFds => (SockSpec => []SocksFit)
<1> SUFFICES ASSUME FewFds PROVE SockSpec => []SocksFit
  OBVIOUS
<1>1. SockInit => ArraysInv /\ IndicesFit
  BY InitSocks
<1>2. ArraysInv /\ IndicesFit /\ [SockNext]_sockVars => ArraysInv' /\ IndicesFit'
  BY ArraysStep, IndicesStep
<1>3. ArraysInv /\ IndicesFit => SocksFit
  BY DEF ArraysInv, EntriesInv, Entries, SocksFit, CountsFit
<1> QED
  BY <1>1, <1>2, <1>3, PTL DEF SockSpec

\* What is registered with success is watched and dispatched to its handler,
\* and nothing else is, if no socket is registered for two types at a time.
THEOREM RegisteredAreServed == OneType => (SockSpec => []SocksAreServed)
<1> SUFFICES ASSUME OneType PROVE SockSpec => []SocksAreServed
  OBVIOUS
<1>1. SockInit => ArraysInv /\ ServedInv
  BY InitSocks
<1>2. ArraysInv /\ ServedInv /\ [SockNext]_sockVars => ArraysInv' /\ ServedInv'
  BY ArraysStep, ServedStep
<1>3. ServedInv => SocksAreServed
  BY DEF ServedInv
<1> QED
  BY <1>1, <1>2, <1>3, PTL DEF SockSpec

-----------------------------------------------------------------------------
(***************************************************************************)
(* ELoopTimeouts: the timeouts                                             *)
(***************************************************************************)

-----------------------------------------------------------------------------
(* Lemmas about Without *)

\* The positions of the timeouts that eloop_cancel_timeout removes.
Gone(list, pattern) == {n \in 1 .. Len(list) : Matches(list[n].key, pattern)}

\* Without is the result of a loop that drops them.
LEMMA WithoutIsLoop ==
  ASSUME NEW S, NEW list \in Seq(S), NEW pattern
  PROVE  \E kept \in [0 .. Len(list) -> Seq(S)] :
           /\ DropLoop(kept, list, Gone(list, pattern))
           /\ Without(list, pattern) = kept[Len(list)]
<1> DEFINE N == Len(list)
           gone == Gone(list, pattern)
           Body(f) == [n \in 0 .. N |->
                        IF n = 0 THEN <<>>
                        ELSE IF Matches(list[n].key, pattern) THEN f[n - 1]
                        ELSE Append(f[n - 1], list[n])]
           kept == CHOOSE f : f = Body(f)
<1>1. N \in Nat
  OBVIOUS
<1>2. Without(list, pattern) = kept[N]
  BY DEF Without
<1>3. \A n \in 1 .. N : n \in gone <=> Matches(list[n].key, pattern)
  BY DEF Gone
<1>4. PICK f \in [0 .. N -> Seq(S)] : DropLoop(f, list, gone)
  BY DropLoopExists
<1>5. f[0] = <<>> /\ \A n \in 1 .. N : f[n] = IF n \in gone THEN f[n - 1] ELSE Append(f[n - 1], list[n])
  BY <1>4 DEF DropLoop
<1> HIDE DEF gone, N
<1>6. f = Body(f)
  <2>1. DOMAIN f = 0 .. N /\ f = [n \in 0 .. N |-> f[n]]
    BY <1>4
  <2>2. ASSUME NEW n \in 0 .. N PROVE f[n] = Body(f)[n]
    <3>1. CASE n = 0
      BY <1>5, <3>1
    <3>2. CASE n # 0
      <4>1. n \in 1 .. N
        BY <1>1, <3>2
      <4> QED
        BY <1>3, <1>5, <3>2, <4>1
    <3> QED
      BY <3>1, <3>2
  <2> QED
    BY <2>1, <2>2
<1>7. kept = Body(kept)
  BY <1>6
<1> HIDE DEF kept
<1>8. kept = [n \in 0 .. N |-> kept[n]]
  BY <1>7
<1>9. DropLoop(kept, list, gone)
  <2>1. kept[0] = <<>>
    BY <1>1, <1>7
  <2>2. ASSUME NEW n \in 1 .. N
        PROVE  kept[n] = IF n \in gone THEN kept[n - 1] ELSE Append(kept[n - 1], list[n])
    <3>1. n \in 0 .. N /\ n # 0
      BY <1>1
    <3>2. kept[n] = Body(kept)[n]
      BY <1>7
    <3> QED
      BY <1>3, <3>1, <3>2
  <2> QED
    BY <2>1, <2>2 DEF DropLoop, N
<1>10. \A n \in 0 .. N : kept[n] = f[n]
  BY <1>4, <1>9, DropLoopUnique DEF N
<1>11. kept \in [0 .. N -> Seq(S)]
  BY <1>4, <1>8, <1>10
<1> QED
  BY <1>2, <1>9, <1>11 DEF gone, N

\* A list without some of its timeouts is one of timeouts, in their order.
LEMMA WithoutInOrder ==
  ASSUME NEW S, NEW list \in Seq(S), NEW pattern
  PROVE  /\ Without(list, pattern) \in Seq(S)
         /\ \E at \in [1 .. Len(Without(list, pattern)) -> 1 .. Len(list)] :
              /\ \A i \in 1 .. Len(Without(list, pattern)) :
                   /\ Without(list, pattern)[i] = list[at[i]]
                   /\ ~ Matches(Without(list, pattern)[i].key, pattern)
              /\ \A i, j \in 1 .. Len(Without(list, pattern)) : i < j => at[i] < at[j]
<1> DEFINE W == Without(list, pattern)
<1>1. PICK kept \in [0 .. Len(list) -> Seq(S)] :
        DropLoop(kept, list, Gone(list, pattern)) /\ W = kept[Len(list)]
  BY WithoutIsLoop
<1>2. W \in Seq(S)
  <2>1. Len(list) \in 0 .. Len(list)
    OBVIOUS
  <2> QED
    BY <1>1, <2>1
<1>3. PICK at \in [1 .. Len(W) -> (1 .. Len(list)) \ Gone(list, pattern)] :
        /\ \A i \in 1 .. Len(W) : W[i] = list[at[i]]
        /\ \A i, j \in 1 .. Len(W) : i < j => at[i] < at[j]
  <2>1. \E at \in [1 .. Len(kept[Len(list)]) -> (1 .. Len(list)) \ Gone(list, pattern)] :
           /\ \A i \in 1 .. Len(kept[Len(list)]) : kept[Len(list)][i] = list[at[i]]
           /\ \A i, j \in 1 .. Len(kept[Len(list)]) : i < j => at[i] < at[j]
    BY SMTT(20), <1>1, KeptInOrder
  <2> HIDE DEF W
  <2> QED
    BY <1>1, <2>1
<1> HIDE DEF W
<1>4. at \in [1 .. Len(W) -> 1 .. Len(list)]
  BY <1>3
<1>5. \A i \in 1 .. Len(W) : ~ Matches(W[i].key, pattern)
  BY <1>3 DEF Gone
<1> QED
  BY <1>2, <1>3, <1>4, <1>5 DEF W

\* Removing a second time removes nothing.
LEMMA WithoutTwice ==
  ASSUME NEW S, NEW list \in Seq(S), NEW pattern
  PROVE  Without(Without(list, pattern), pattern) = Without(list, pattern)
<1> DEFINE W == Without(list, pattern)
<1>1. W \in Seq(S) /\ \A i \in 1 .. Len(W) : ~ Matches(W[i].key, pattern)
  BY WithoutInOrder
<1> HIDE DEF W
<1>2. \A i \in 1 .. Len(W) : i \notin Gone(W, pattern)
  BY <1>1 DEF Gone
<1>3. Without(W, pattern) = W
  BY <1>1, <1>2, WithoutIsLoop, KeptAll
<1> QED
  BY <1>3 DEF W

\* A timeout that matches might as well not be in the list.
LEMMA WithoutOneMatch ==
  ASSUME NEW S, NEW list \in Seq(S), NEW longer \in Seq(S), NEW pattern,
         NEW k \in 1 .. Len(longer),
         OneMore(longer, list, k),
         Matches(longer[k].key, pattern)
  PROVE  Without(longer, pattern) = Without(list, pattern)
<1> DEFINE gone == Gone(list, pattern)
           gone2 == Gone(longer, pattern)
<1>1. PICK kept \in [0 .. Len(list) -> Seq(S)] :
        DropLoop(kept, list, gone) /\ Without(list, pattern) = kept[Len(list)]
  BY WithoutIsLoop
<1>2. PICK kept2 \in [0 .. Len(longer) -> Seq(S)] :
        DropLoop(kept2, longer, gone2) /\ Without(longer, pattern) = kept2[Len(longer)]
  BY WithoutIsLoop
<1>3. k \in gone2
  BY DEF Gone
<1>4. ASSUME NEW i \in 1 .. Len(list)
      PROVE  i \in gone <=> Shifted(i, k) \in gone2
  <2>1. list[i] = longer[Shifted(i, k)]
    BY DEF OneMore
  <2>2. Len(longer) = Len(list) + 1 /\ Len(list) \in Nat
    BY DEF OneMore
  <2>3. Shifted(i, k) \in 1 .. Len(longer)
    BY <2>2 DEF Shifted
  <2> QED
    BY <2>1, <2>3 DEF Gone
<1> HIDE DEF gone, gone2
<1>5. kept2[Len(longer)] = kept[Len(list)]
  BY <1>1, <1>2, <1>3, <1>4, KeptWithoutOne
<1> QED
  BY <1>1, <1>2, <1>5

-----------------------------------------------------------------------------
(* Lemmas about the list *)

\* What the list may hold, whatever the clock does: a time that has overflowed
\* is negative.
Entry == [time : Int, key : Keys, id : 1 .. MaxTimeouts]

Sorted(list) == \A i, j \in 1 .. Len(list) : i < j => Before(list[i], list[j])

\* The key of a timeout is a pattern that it matches.
LEMMA KeysMatch == \A key : Matches(key, key)
BY DEF Matches

\* A timeout that is younger than all others is inserted at one place, behind
\* those of its time, and the list stays in order.
LEMMA InsertKeepsOrder ==
  ASSUME NEW list \in Seq(Entry), Sorted(list), NEW t \in Entry,
         \A i \in 1 .. Len(list) : list[i].id < t.id
  PROVE  /\ InsertTimeout(list, t) \in Seq(Entry)
         /\ Sorted(InsertTimeout(list, t))
         /\ \E k \in 1 .. Len(InsertTimeout(list, t)) :
              InsertTimeout(list, t)[k] = t /\ OneMore(InsertTimeout(list, t), list, k)
<1> DEFINE later == {i \in 1 .. Len(list) : t.time < list[i].time}
           new == InsertTimeout(list, t)
<1>1. Len(list) \in Nat /\ \A i \in 1 .. Len(list) : list[i] \in Entry
  BY ElementOfSeq
<1>2. \E k \in 1 .. Len(list) + 1 :
        /\ new \in Seq(Entry) /\ Len(new) = Len(list) + 1
        /\ \A i \in 1 .. Len(list) + 1 :
             new[i] = IF i < k THEN list[i] ELSE IF i = k THEN t ELSE list[i - 1]
        /\ \A i \in 1 .. Len(list) : i < k <=> list[i].time <= t.time
  <2>1. CASE later = {}
    <3>1. new = Append(list, t)
      BY <2>1 DEF InsertTimeout
    <3>2. /\ new \in Seq(Entry) /\ Len(new) = Len(list) + 1
          /\ \A i \in 1 .. Len(list) : new[i] = list[i]
          /\ new[Len(list) + 1] = t
      BY <3>1, AppendProperties
    <3>3. ASSUME NEW i \in 1 .. Len(list) PROVE list[i].time <= t.time
      <4>1. list[i].time \in Int /\ t.time \in Int
        BY <1>1 DEF Entry
      <4>2. ~ (t.time < list[i].time)
        BY <2>1
      <4> QED
        BY <4>1, <4>2
    <3>4. Len(list) + 1 \in 1 .. Len(list) + 1
      BY <1>1
    <3> HIDE DEF new, later
    <3> QED
      BY <1>1, <3>2, <3>3, <3>4
  <2>2. CASE later # {}
    <3> DEFINE k == Min(later)
    <3>1. k \in later /\ \A i \in later : k <= i
      <4>1. later \subseteq Nat
        OBVIOUS
      <4> HIDE DEF later
      <4> QED
        BY <2>2, <4>1, LeastElement
    <3>2. new = InsertAt(list, k, t)
      BY <2>2 DEF InsertTimeout
    <3> HIDE DEF k, new
    <3>3. k \in 1 .. Len(list) + 1 /\ k \in 1 .. Len(list) /\ t.time < list[k].time
      BY <1>1, <3>1
    <3>4. /\ new \in Seq(Entry) /\ Len(new) = Len(list) + 1
          /\ \A i \in 1 .. Len(list) + 1 :
               new[i] = IF i < k THEN list[i] ELSE IF i = k THEN t ELSE list[i - 1]
      <4>1. /\ InsertAt(list, k, t) \in Seq(Entry)
            /\ Len(InsertAt(list, k, t)) = Len(list) + 1
            /\ \A i \in 1 .. Len(list) + 1 :
                 InsertAt(list, k, t)[i] =
                   IF i < k THEN list[i] ELSE IF i = k THEN t ELSE list[i - 1]
        BY <3>3, InsertedAt
      <4> QED
        BY <3>2, <4>1
    <3>5. ASSUME NEW i \in 1 .. Len(list)
          PROVE  i < k <=> list[i].time <= t.time
      <4>1. list[i].time \in Int /\ list[k].time \in Int /\ t.time \in Int
        BY <1>1, <3>3 DEF Entry
      <4>2. CASE i < k
        <5>1. i \notin later
          BY <3>1, <3>3, <4>2
        <5> QED
          BY <4>1, <4>2, <5>1
      <4>3. CASE i = k
        BY <3>3, <4>1, <4>3
      <4>4. CASE i > k
        <5>1. list[k].time <= list[i].time
          BY <3>3, <4>1, <4>4 DEF Sorted, Before
        <5> QED
          BY <3>3, <4>1, <4>4, <5>1
      <4> QED
        BY <3>3, <4>2, <4>3, <4>4
    <3> QED
      BY <3>3, <3>4, <3>5
  <2> QED
    BY <2>1, <2>2
<1> HIDE DEF new
<1>3. PICK k \in 1 .. Len(list) + 1 :
        /\ new \in Seq(Entry) /\ Len(new) = Len(list) + 1
        /\ \A i \in 1 .. Len(list) + 1 :
             new[i] = IF i < k THEN list[i] ELSE IF i = k THEN t ELSE list[i - 1]
        /\ \A i \in 1 .. Len(list) : i < k <=> list[i].time <= t.time
  BY <1>2
<1>4. new[k] = t /\ OneMore(new, list, k)
  BY <1>1, <1>3 DEF OneMore, Shifted
<1>5. Sorted(new)
  <2> SUFFICES ASSUME NEW i \in 1 .. Len(list) + 1, NEW j \in 1 .. Len(list) + 1, i < j
               PROVE  Before(new[i], new[j])
    BY <1>3 DEF Sorted
  <2>1. \A n \in 1 .. Len(list) : list[n].time \in Int /\ list[n].id \in Int
    BY <1>1 DEF Entry
  <2>2. t.time \in Int /\ t.id \in Int
    BY DEF Entry
  <2>3. CASE j < k
    <3>1. i \in 1 .. Len(list) /\ j \in 1 .. Len(list) /\ new[i] = list[i] /\ new[j] = list[j]
      BY <1>1, <1>3, <2>3
    <3> QED
      BY <3>1 DEF Sorted
  <2>4. CASE j = k
    <3>1. i \in 1 .. Len(list) /\ new[i] = list[i] /\ new[j] = t /\ list[i].time <= t.time
      BY <1>1, <1>3, <2>4
    <3> QED
      BY <2>1, <2>2, <3>1 DEF Before
  <2>5. CASE i < k /\ k < j
    <3>1. i \in 1 .. Len(list) /\ j - 1 \in 1 .. Len(list) /\ i < j - 1
      BY <1>1, <2>5
    <3>2. new[i] = list[i] /\ new[j] = list[j - 1]
      BY <1>1, <1>3, <2>5
    <3> QED
      BY <3>1, <3>2 DEF Sorted
  <2>6. CASE i = k
    <3>1. j - 1 \in 1 .. Len(list) /\ ~ (j - 1 < k)
      BY <1>1, <2>6
    <3>2. new[i] = t /\ new[j] = list[j - 1]
      BY <1>1, <1>3, <2>6
    <3>3. ~ (list[j - 1].time <= t.time)
      BY <1>3, <3>1
    <3> QED
      BY <2>1, <2>2, <3>1, <3>2, <3>3 DEF Before
  <2>7. CASE k < i
    <3>1. i - 1 \in 1 .. Len(list) /\ j - 1 \in 1 .. Len(list) /\ i - 1 < j - 1
      BY <1>1, <2>7
    <3>2. new[i] = list[i - 1] /\ new[j] = list[j - 1]
      BY <1>1, <1>3, <2>7
    <3> QED
      BY <3>1, <3>2 DEF Sorted
  <2> QED
    BY <1>1, <2>3, <2>4, <2>5, <2>6, <2>7
<1>6. k \in 1 .. Len(new)
  BY <1>1, <1>3
<1> QED
  BY <1>3, <1>4, <1>5, <1>6 DEF new

\* eloop_cancel_timeout_one removes a timeout of that key, if there is one.
LEMMA RemoveOne ==
  ASSUME timeout \in Seq(Entry), NEW key, CancelTimeoutOne(key)
  PROVE  \/ timeout' = timeout
         \/ /\ timeout' \in Seq(Entry)
            /\ \E k \in 1 .. Len(timeout) :
                 timeout[k].key = key /\ OneMore(timeout, timeout', k)
<1> DEFINE I == {i \in 1 .. Len(timeout) : timeout[i].key = key}
<1>1. CASE I = {}
  BY <1>1 DEF CancelTimeoutOne, RemoveFirstMatch
<1>2. CASE I # {}
  <2>1. timeout' = RemoveAt(timeout, Min(I))
    BY <1>2 DEF CancelTimeoutOne, RemoveFirstMatch, SelectInSeq
  <2>2. Min(I) \in I
    <3>1. I \subseteq Nat
      OBVIOUS
    <3> HIDE DEF I
    <3> QED
      BY <1>2, <3>1, LeastElement
  <2> DEFINE k == Min(I)
  <2> HIDE DEF k
  <2>3. k \in 1 .. Len(timeout) /\ timeout[k].key = key
    BY <2>2 DEF k
  <2>4. /\ timeout' \in Seq(Entry)
        /\ Len(timeout') = Len(timeout) - 1
        /\ \A i \in 1 .. Len(timeout) - 1 :
             timeout'[i] = IF i < k THEN timeout[i] ELSE timeout[i + 1]
    BY <2>1, <2>3, RemovedAt DEF k
  <2>5. OneMore(timeout, timeout', k)
    BY <2>4 DEF OneMore, Shifted
  <2> QED
    BY <2>3, <2>4, <2>5
<1> QED
  BY <1>1, <1>2

\* A list with one element less is in order, too.
LEMMA OneLessSorted ==
  ASSUME NEW list \in Seq(Entry), Sorted(list), NEW less \in Seq(Entry),
         NEW k \in 1 .. Len(list), OneMore(list, less, k)
  PROVE  Sorted(less)
<1>1. Len(list) = Len(less) + 1 /\ Len(less) \in Nat
  BY DEF OneMore
<1>2. \A i \in 1 .. Len(less) : Shifted(i, k) \in 1 .. Len(list) /\ less[i] = list[Shifted(i, k)]
  BY <1>1 DEF OneMore, Shifted
<1>3. \A i, j \in 1 .. Len(less) : i < j => Shifted(i, k) < Shifted(j, k)
  BY <1>1 DEF Shifted
<1> QED
  BY <1>2, <1>3 DEF Sorted

-----------------------------------------------------------------------------
(* The order of the list *)

\* Timeouts that are in order, have their types and are not younger than the
\* last registration: what every operation makes of the list.
Listed(list, last) ==
  /\ list \in Seq(Entry) /\ Sorted(list)
  /\ \A i \in 1 .. Len(list) : list[i].id <= last

LEMMA WithoutListed ==
  ASSUME NEW list, NEW last, Listed(list, last), NEW pattern
  PROVE  /\ Listed(Without(list, pattern), last)
         /\ \A i \in 1 .. Len(Without(list, pattern)) :
              \E j \in 1 .. Len(list) : Without(list, pattern)[i] = list[j]
<1> DEFINE W == Without(list, pattern)
<1>1. W \in Seq(Entry)
  BY WithoutInOrder DEF Listed
<1>2. PICK at \in [1 .. Len(W) -> 1 .. Len(list)] :
        /\ \A i \in 1 .. Len(W) : W[i] = list[at[i]]
        /\ \A i, j \in 1 .. Len(W) : i < j => at[i] < at[j]
  BY WithoutInOrder DEF Listed
<1> HIDE DEF W
<1>3. Sorted(W)
  <2>1. SUFFICES ASSUME NEW i \in 1 .. Len(W), NEW j \in 1 .. Len(W), i < j
                 PROVE  Before(W[i], W[j])
    BY DEF Sorted
  <2>2. at[i] \in 1 .. Len(list) /\ at[j] \in 1 .. Len(list) /\ at[i] < at[j]
    BY <1>2, <2>1
  <2>3. Before(list[at[i]], list[at[j]])
    BY <2>2 DEF Listed, Sorted
  <2> QED
    BY <1>2, <2>1, <2>3
<1>4. \A i \in 1 .. Len(W) : W[i].id <= last
  BY <1>2 DEF Listed
<1> QED
  BY <1>1, <1>2, <1>3, <1>4 DEF Listed, W

LEMMA InsertListed ==
  ASSUME NEW list, NEW last \in 0 .. MaxTimeouts - 1, Listed(list, last),
         NEW t \in Entry, t.id = last + 1
  PROVE  /\ Listed(InsertTimeout(list, t), last + 1)
         /\ \A i \in 1 .. Len(InsertTimeout(list, t)) :
              \/ InsertTimeout(list, t)[i] = t
              \/ \E j \in 1 .. Len(list) : InsertTimeout(list, t)[i] = list[j]
         /\ \A pattern : Matches(t.key, pattern) =>
              Without(InsertTimeout(list, t), pattern) = Without(list, pattern)
<1> DEFINE new == InsertTimeout(list, t)
<1>1. /\ Len(list) \in Nat
      /\ \A i \in 1 .. Len(list) : list[i].id \in Int /\ list[i].id <= last
  <2>1. \A i \in 1 .. Len(list) : list[i] \in Entry
    BY ElementOfSeq DEF Listed
  <2> QED
    BY <2>1 DEF Listed, Entry
<1>2. \A i \in 1 .. Len(list) : list[i].id < t.id
  BY <1>1
<1>3. /\ new \in Seq(Entry) /\ Sorted(new)
      /\ \E k \in 1 .. Len(new) : new[k] = t /\ OneMore(new, list, k)
  BY <1>2, InsertKeepsOrder DEF Listed
<1> HIDE DEF new
<1>4. PICK k \in 1 .. Len(new) : new[k] = t /\ OneMore(new, list, k)
  BY <1>3
<1>5. ASSUME NEW i \in 1 .. Len(new)
      PROVE  new[i] = t \/ \E j \in 1 .. Len(list) : new[i] = list[j]
  <2>1. Len(new) = Len(list) + 1 /\ \A j \in 1 .. Len(list) : list[j] = new[Shifted(j, k)]
    BY <1>4 DEF OneMore
  <2>2. CASE i < k
    <3>1. i \in 1 .. Len(list) /\ Shifted(i, k) = i
      BY <1>1, <1>4, <2>1, <2>2 DEF Shifted
    <3> QED
      BY <2>1, <3>1
  <2>3. CASE i > k
    <3>1. i - 1 \in 1 .. Len(list) /\ Shifted(i - 1, k) = i
      BY <1>1, <1>4, <2>1, <2>3 DEF Shifted
    <3> QED
      BY <2>1, <3>1
  <2> QED
    BY <1>4, <2>2, <2>3
<1>6. \A i \in 1 .. Len(new) : new[i].id <= last + 1
  BY <1>1, <1>5
<1>7. ASSUME NEW pattern, Matches(t.key, pattern)
      PROVE  Without(new, pattern) = Without(list, pattern)
  BY <1>3, <1>4, <1>7, WithoutOneMatch DEF Listed
<1> QED
  BY <1>3, <1>5, <1>6, <1>7 DEF Listed, new

\* The inductive invariant: the list is in order and nothing in it is younger
\* than the last registration, so that a new timeout goes behind its equals.
ListInv == Listed(timeout, serial) /\ now \in 0 .. MaxNow /\ serial \in 0 .. MaxTimeouts

\* A timeout of the new list was there before, or has just been registered.
KnownOrNew ==
  \A i \in 1 .. Len(timeout') :
    \/ \E j \in 1 .. Len(timeout) : timeout'[i] = timeout[j]
    \/ /\ serial' = serial + 1 /\ UNCHANGED <<now, fired>>
       /\ \E delay \in Delays, key \in Keys :
            ~ TooLong(delay) /\ timeout'[i] = NewTimeout(delay, key)

\* Registering, after other timeouts have been removed or not.
LEMMA RegisterListed ==
  ASSUME ListInv, NEW base, Listed(base, serial),
         \A i \in 1 .. Len(base) : \E j \in 1 .. Len(timeout) : base[i] = timeout[j],
         NEW delay \in Delays, NEW key \in Keys, serial < MaxTimeouts,
         timeout' = IF TooLong(delay) THEN base ELSE InsertTimeout(base, NewTimeout(delay, key)),
         serial' = serial + 1, UNCHANGED <<now, fired>>
  PROVE  ListInv' /\ KnownOrNew /\ Without(timeout', key) = Without(base, key)
<1> USE TimesAssumption
<1>1. serial \in 0 .. MaxTimeouts - 1 /\ serial' \in 0 .. MaxTimeouts
  BY DEF ListInv
<1>2. CASE TooLong(delay)
  <2>1. timeout' = base
    BY <1>2
  <2>2. Listed(timeout', serial')
    <3>1. \A i \in 1 .. Len(base) : base[i].id \in Int
      <4>1. \A i \in 1 .. Len(base) : base[i] \in Entry
        BY ElementOfSeq DEF Listed
      <4> QED
        BY <4>1 DEF Entry
    <3> QED
      BY <1>1, <2>1, <3>1 DEF Listed
  <2> QED
    BY <1>1, <2>1, <2>2 DEF ListInv, KnownOrNew
<1>3. CASE ~ TooLong(delay)
  <2> DEFINE t == NewTimeout(delay, key)
  <2>1. t \in Entry /\ t.id = serial + 1 /\ t.key = key
    <3>1. now + delay \in Int /\ now + delay - 2 * (MaxSec + 1) * Second \in Int
      BY DEF ListInv
    <3>2. Wrap(now + delay) \in Int
      BY <3>1 DEF Wrap
    <3> QED
      BY <1>1, <3>2 DEF NewTimeout, Entry
  <2> HIDE DEF t
  <2>2. timeout' = InsertTimeout(base, t)
    BY <1>3 DEF t
  <2>3. /\ Listed(InsertTimeout(base, t), serial + 1)
        /\ \A i \in 1 .. Len(InsertTimeout(base, t)) :
             \/ InsertTimeout(base, t)[i] = t
             \/ \E j \in 1 .. Len(base) : InsertTimeout(base, t)[i] = base[j]
        /\ Without(InsertTimeout(base, t), key) = Without(base, key)
    BY <1>1, <2>1, InsertListed, KeysMatch
  <2>4. KnownOrNew
    BY <1>3, <2>2, <2>3 DEF KnownOrNew, t
  <2>5. ListInv'
    BY <1>1, <2>2, <2>3 DEF ListInv
  <2> QED
    BY <2>2, <2>3, <2>4, <2>5
<1> QED
  BY <1>2, <1>3

\* The same for the calls that remove the timeouts of the key first.
LEMMA ReregisterListed ==
  ASSUME ListInv, NEW delay \in Delays, NEW key \in Keys, Reregister(delay, key)
  PROVE  ListInv' /\ KnownOrNew /\ Without(timeout', key) = Without(timeout, key)
<1>1. /\ Listed(Without(timeout, key), serial)
      /\ \A i \in 1 .. Len(Without(timeout, key)) :
           \E j \in 1 .. Len(timeout) : Without(timeout, key)[i] = timeout[j]
  BY WithoutListed DEF ListInv
<1>2. ListInv' /\ KnownOrNew /\ Without(timeout', key) = Without(Without(timeout, key), key)
  BY <1>1, RegisterListed DEF Reregister
<1>3. Without(Without(timeout, key), key) = Without(timeout, key)
  BY WithoutTwice DEF ListInv, Listed
<1> QED
  BY <1>2, <1>3

\* Cancelling all timeouts that match.
LEMMA CancelListed ==
  ASSUME ListInv, NEW pattern, CancelTimeout(pattern)
  PROVE  ListInv' /\ KnownOrNew /\ Without(timeout', pattern) = Without(timeout, pattern)
<1>1. /\ Listed(Without(timeout, pattern), serial)
      /\ \A i \in 1 .. Len(Without(timeout, pattern)) :
           \E j \in 1 .. Len(timeout) : Without(timeout, pattern)[i] = timeout[j]
  BY WithoutListed DEF ListInv
<1>2. Without(Without(timeout, pattern), pattern) = Without(timeout, pattern)
  BY WithoutTwice DEF ListInv, Listed
<1> QED
  BY <1>1, <1>2 DEF CancelTimeout, ListInv, KnownOrNew

\* Cancelling the first timeout of a key.
LEMMA CancelOneListed ==
  ASSUME ListInv, NEW key \in Keys, CancelTimeoutOne(key)
  PROVE  ListInv' /\ KnownOrNew /\ Without(timeout', key) = Without(timeout, key)
<1>1. timeout \in Seq(Entry) /\ Sorted(timeout) /\ Len(timeout) \in Nat
  BY DEF ListInv, Listed
<1>2. CASE timeout' = timeout
  BY <1>2 DEF CancelTimeoutOne, ListInv, KnownOrNew
<1>3. CASE /\ timeout' \in Seq(Entry)
           /\ \E k \in 1 .. Len(timeout) :
                timeout[k].key = key /\ OneMore(timeout, timeout', k)
  <2>1. PICK k \in 1 .. Len(timeout) : timeout[k].key = key /\ OneMore(timeout, timeout', k)
    BY <1>3
  <2>2. Sorted(timeout')
    BY <1>1, <1>3, <2>1, OneLessSorted
  <2>3. ASSUME NEW i \in 1 .. Len(timeout')
        PROVE  \E j \in 1 .. Len(timeout) : timeout'[i] = timeout[j]
    <3>1. Len(timeout) = Len(timeout') + 1 /\ timeout'[i] = timeout[Shifted(i, k)]
      BY <2>1 DEF OneMore
    <3>2. Shifted(i, k) \in 1 .. Len(timeout)
      BY <1>1, <1>3, <3>1 DEF Shifted
    <3> QED
      BY <3>1, <3>2
  <2>4. Without(timeout', key) = Without(timeout, key)
    BY <1>1, <1>3, <2>1, KeysMatch, WithoutOneMatch
  <2>5. Listed(timeout', serial)
    BY <1>3, <2>2, <2>3 DEF ListInv, Listed
  <2> QED
    BY <2>3, <2>4, <2>5 DEF CancelTimeoutOne, ListInv, KnownOrNew
<1> QED
  BY <1>1, <1>2, <1>3, RemoveOne

\* eloop_run takes the first timeout.
LEMMA TakeListed ==
  ASSUME ListInv, TakeTimeout
  PROVE  /\ ListInv' /\ fired' = timeout[1] /\ timeout[1] \in Entry /\ 1 \in 1 .. Len(timeout)
         /\ Len(timeout') = Len(timeout) - 1
         /\ \A i \in 1 .. Len(timeout') : timeout'[i] = timeout[i + 1] /\ i + 1 \in 1 .. Len(timeout)
<1>1. timeout \in Seq(Entry) /\ timeout # <<>> /\ Len(timeout) \in Nat \ {0}
  BY EmptySeq DEF ListInv, Listed, TakeTimeout, FirstIsDue
<1>2. /\ timeout' \in Seq(Entry) /\ Len(timeout') = Len(timeout) - 1
      /\ \A i \in 1 .. Len(timeout') : timeout'[i] = timeout[i + 1]
  BY <1>1, HeadTailProperties DEF TakeTimeout
<1>3. \A i \in 1 .. Len(timeout') : i + 1 \in 1 .. Len(timeout)
  BY <1>1, <1>2
<1>4. fired' = timeout[1] /\ timeout[1] \in Entry
  BY <1>1, HeadTailProperties DEF TakeTimeout
<1>5. Listed(timeout', serial)
  <2>1. Sorted(timeout')
    BY <1>1, <1>2, <1>3 DEF ListInv, Listed, Sorted
  <2> QED
    BY <1>2, <1>3, <2>1 DEF ListInv, Listed
<1> QED
  BY <1>1, <1>2, <1>3, <1>4, <1>5 DEF TakeTimeout, ListInv

\* Every call keeps the inductive invariant, and lists nothing but what was
\* listed and what it registers.
LEMMA CallStep ==
  ASSUME ListInv, TimeoutCall
  PROVE  ListInv' /\ KnownOrNew /\ UNCHANGED <<now, fired>> /\ serial' >= serial
<1>1. CASE RegisterFails
  BY <1>1 DEF RegisterFails, timeoutVars, ListInv, KnownOrNew
<1>2. ASSUME NEW key \in Keys, NEW delay \in Delays, RegisterTimeout(delay, key)
      PROVE  ListInv' /\ KnownOrNew /\ UNCHANGED <<now, fired>> /\ serial' >= serial
  <2>1. ListInv' /\ KnownOrNew
    BY <1>2, RegisterListed DEF RegisterTimeout, ListInv
  <2> QED
    BY <1>2, <2>1 DEF RegisterTimeout, ListInv
<1>3. ASSUME NEW key \in Keys, NEW delay \in Delays, Reregister(delay, key)
      PROVE  ListInv' /\ KnownOrNew /\ UNCHANGED <<now, fired>> /\ serial' >= serial
  BY <1>3, ReregisterListed DEF Reregister, ListInv
<1>4. ASSUME NEW pattern, CancelTimeout(pattern)
      PROVE  ListInv' /\ KnownOrNew /\ UNCHANGED <<now, fired>> /\ serial' >= serial
  <2>1. ListInv' /\ KnownOrNew
    BY <1>4, CancelListed
  <2> QED
    BY <1>4, <2>1 DEF CancelTimeout, ListInv
<1>5. ASSUME NEW key \in Keys, CancelTimeoutOne(key)
      PROVE  ListInv' /\ KnownOrNew /\ UNCHANGED <<now, fired>> /\ serial' >= serial
  <2>1. ListInv' /\ KnownOrNew
    BY <1>5, CancelOneListed
  <2> QED
    BY <1>5, <2>1 DEF CancelTimeoutOne, ListInv
<1> QED
  BY <1>1, <1>2, <1>3, <1>4, <1>5 DEF TimeoutCall, DepleteTimeout, ReplenishTimeout

\* Every step keeps the list in order.
LEMMA ListStep ==
  ASSUME ListInv, [TimeoutNext]_timeoutVars
  PROVE  ListInv'
<1>1. CASE TimeoutCall
  BY <1>1, CallStep
<1>2. CASE TakeTimeout
  BY <1>2, TakeListed
<1>3. CASE Tick
  BY <1>3, TimesAssumption DEF Tick, ListInv
<1>4. CASE UNCHANGED timeoutVars
  BY <1>4 DEF timeoutVars, ListInv
<1> QED
  BY <1>1, <1>2, <1>3, <1>4 DEF TimeoutNext

\* A call for one key leaves the timeouts of the other keys.
LEMMA OthersStep ==
  ASSUME ListInv, NEW key \in Keys, CallFor(key)
  PROVE  Without(timeout', key) = Without(timeout, key)
<1>1. CASE CancelTimeoutOne(key)
  BY <1>1, CancelOneListed
<1>2. ASSUME NEW delay \in Delays, RegisterTimeout(delay, key)
      PROVE  Without(timeout', key) = Without(timeout, key)
  BY <1>2, RegisterListed DEF RegisterTimeout, ListInv
<1>3. ASSUME NEW delay \in Delays, Reregister(delay, key) \/ CancelTimeout(key)
      PROVE  Without(timeout', key) = Without(timeout, key)
  BY <1>3, ReregisterListed, CancelListed
<1> QED
  BY <1>1, <1>2, <1>3 DEF CallFor, DepleteTimeout, ReplenishTimeout

-----------------------------------------------------------------------------
(* The order of the calls *)

\* What the callers have to grant for the times: the microseconds' carry alone
\* does not bring a time beyond the largest os_time_t, a case that the test of
\* eloop_register_timeout does not see.
NoCarry ==
  \A n \in 0 .. MaxNow, delay \in Delays :
    n \div Second + delay \div Second <= MaxSec => (n + delay) \div Second <= MaxSec

\* The second inductive invariant: times can be expressed, and what was called
\* last comes before all that is listed and before all that may yet come.
FiredInv ==
  /\ \A i \in 1 .. Len(timeout) : timeout[i].time \in Times /\ Before(fired, timeout[i])
  /\ fired = NoTimeout \/ (fired \in Entry /\ fired.time \in Times)
  /\ fired.time <= now /\ fired.id <= serial

\* A time within MaxSec seconds is one of Times.
LEMMA DivBound ==
  ASSUME NEW time \in Nat, time \div Second <= MaxSec
  PROVE  time \in Times
<1>1. /\ time = Second * (time \div Second) + (time % Second)
      /\ time % Second \in 0 .. Second - 1
      /\ time \div Second \in Int
  BY TimesAssumption
<1> DEFINE q == time \div Second
<1> HIDE DEF q
<1>2. Second * q <= Second * MaxSec
  BY <1>1, TimesAssumption DEF q
<1> QED
  BY <1>1, <1>2, TimesAssumption DEF q, Times

\* Without such a carry a new timeout is not earlier than now, nor than the
\* timeout that was called last.
LEMMA NewIsLate ==
  ASSUME NoCarry, ListInv, FiredInv, NEW delay \in Delays, NEW key, ~ TooLong(delay)
  PROVE  /\ NewTimeout(delay, key).time \in Times
         /\ Before(fired, NewTimeout(delay, key))
<1> USE TimesAssumption
<1>1. now + delay \in Nat /\ (now + delay) \div Second <= MaxSec
  <2>1. now \div Second + delay \div Second <= MaxSec
    <3>1. now \div Second \in Int /\ delay \div Second \in Int
      BY DEF ListInv
    <3> QED
      BY <3>1 DEF TooLong
  <2> QED
    BY <2>1 DEF NoCarry, ListInv
<1>2. Wrap(now + delay) = now + delay
  BY <1>1 DEF Wrap
<1>3. now + delay \in Times
  BY <1>1, DivBound
<1>4. fired.time \in Int /\ fired.id \in Int
  BY DEF FiredInv, NoTimeout, Entry
<1> QED
  BY <1>2, <1>3, <1>4 DEF NewTimeout, FiredInv, Before, ListInv

LEMMA FiredStep ==
  ASSUME NoCarry, ListInv, FiredInv, [TimeoutNext]_timeoutVars
  PROVE  FiredInv' /\ (fired' # fired => Before(fired, fired'))
<1>1. fired.time \in Int /\ fired.id \in Int /\ now \in Int /\ serial \in Int
  BY DEF FiredInv, NoTimeout, Entry, ListInv
<1>2. CASE TimeoutCall
  <2>1. KnownOrNew /\ now' = now /\ fired' = fired /\ serial' >= serial /\ serial' \in Int
    BY <1>2, CallStep DEF ListInv
  <2>2. ASSUME NEW i \in 1 .. Len(timeout')
        PROVE  timeout'[i].time \in Times /\ Before(fired, timeout'[i])
    BY <2>1, NewIsLate DEF KnownOrNew, FiredInv
  <2> QED
    BY <1>1, <2>1, <2>2 DEF FiredInv, Times
<1>3. CASE TakeTimeout
  <2>1. /\ fired' = timeout[1] /\ timeout[1] \in Entry /\ 1 \in 1 .. Len(timeout)
        /\ \A i \in 1 .. Len(timeout') : timeout'[i] = timeout[i + 1] /\ i + 1 \in 1 .. Len(timeout)
    BY <1>3, TakeListed
  <2>2. timeout[1].time <= now /\ now' = now /\ serial' = serial
    BY <1>1, <1>3, <2>1 DEF TakeTimeout, FirstIsDue, Entry
  <2>3. \A i \in 1 .. Len(timeout') : Before(timeout[1], timeout[i + 1])
    BY <2>1 DEF ListInv, Listed, Sorted
  <2>4. timeout[1].id <= serial /\ timeout[1].time \in Times /\ Before(fired, timeout[1])
    BY <2>1 DEF ListInv, Listed, FiredInv
  <2> QED
    BY <2>1, <2>2, <2>3, <2>4 DEF FiredInv, Times
<1>4. CASE Tick
  BY <1>1, <1>4 DEF Tick, FiredInv, Times
<1>5. CASE UNCHANGED timeoutVars
  BY <1>5 DEF timeoutVars, FiredInv, Times
<1> QED
  BY <1>2, <1>3, <1>4, <1>5 DEF TimeoutNext

-----------------------------------------------------------------------------
(* The theorems *)

LEMMA InitTimeouts == TimeoutInit => ListInv /\ FiredInv
<1> SUFFICES ASSUME TimeoutInit PROVE ListInv /\ FiredInv
  OBVIOUS
<1>1. timeout \in Seq(Entry) /\ Len(timeout) = 0
  BY EmptySeq DEF TimeoutInit
<1>2. ListInv
  BY <1>1, TimesAssumption DEF TimeoutInit, ListInv, Listed, Sorted
<1>3. FiredInv
  BY <1>1 DEF TimeoutInit, FiredInv, NoTimeout
<1> QED
  BY <1>2, <1>3

\* Timeouts are in order of their times and, for one time, of registration,
\* after every sequence of calls: whatever is registered, cancelled, depleted
\* and replenished, and also when a time has overflowed.
THEOREM TimeoutsSorted == TimeoutSpec => []TimeoutsInOrder
<1>1. TimeoutInit => ListInv
  BY InitTimeouts
<1>2. ListInv /\ [TimeoutNext]_timeoutVars => ListInv'
  BY ListStep
<1>3. ListInv => TimeoutsInOrder
  BY DEF ListInv, Listed, Sorted, TimeoutsInOrder
<1> QED
  BY <1>1, <1>2, <1>3, PTL DEF TimeoutSpec

\* A call for one handler and its data leaves all other timeouts as they are.
THEOREM OtherTimeoutsUntouched == TimeoutSpec => OthersUntouched
<1>1. TimeoutInit => ListInv
  BY InitTimeouts
<1>2. ListInv /\ [TimeoutNext]_timeoutVars => ListInv'
  BY ListStep
<1>3. ListInv /\ [TimeoutNext]_timeoutVars =>
        [\A key \in Keys : CallFor(key) => Without(timeout', key) = Without(timeout, key)]_timeoutVars
  BY OthersStep
<1> QED
  BY <1>1, <1>2, <1>3, PTL DEF TimeoutSpec, OthersUntouched

\* Every time in the list is one that struct os_reltime can express, if no time
\* overflows by the carry of its microseconds.
THEOREM TimeoutsTyped == NoCarry => (TimeoutSpec => []TimeoutTypeOK)
<1> SUFFICES ASSUME NoCarry PROVE TimeoutSpec => []TimeoutTypeOK
  OBVIOUS
<1>1. TimeoutInit => ListInv /\ FiredInv
  BY InitTimeouts
<1>2. ListInv /\ FiredInv /\ [TimeoutNext]_timeoutVars => ListInv' /\ FiredInv'
  BY ListStep, FiredStep
<1>3. ListInv /\ FiredInv => TimeoutTypeOK
  <2> SUFFICES ASSUME ListInv, FiredInv PROVE TimeoutTypeOK
    OBVIOUS
  <2> DEFINE R == [time : Times, key : Keys, id : 1 .. MaxTimeouts]
  <2>1. timeout \in Seq(Entry) /\ Len(timeout) \in Nat
    BY DEF ListInv, Listed
  <2>2. \A i \in 1 .. Len(timeout) : timeout[i] \in R
    <3>1. \A i \in 1 .. Len(timeout) : timeout[i] \in Entry
      BY <2>1, ElementOfSeq
    <3> QED
      BY <3>1 DEF FiredInv, Entry
  <2> HIDE DEF R
  <2>3. timeout = [i \in 1 .. Len(timeout) |-> timeout[i]]
    BY <2>1
  <2>4. timeout \in [1 .. Len(timeout) -> R]
    BY <2>2, <2>3
  <2>5. timeout \in Seq(R)
    BY <2>1, <2>4, SeqDef
  <2>6. fired = NoTimeout \/ fired \in R
    BY DEF FiredInv, Entry, R
  <2> QED
    BY <2>5, <2>6 DEF TimeoutTypeOK, ListInv, R
<1> QED
  BY <1>1, <1>2, <1>3, PTL DEF TimeoutSpec

\* Handlers are called in the order of their times and of their registrations,
\* and a call for one leaves the others alone: the same assumption.
THEOREM TimeoutsKept == NoCarry => (TimeoutSpec => TimeoutsAreKept)
<1> SUFFICES ASSUME NoCarry PROVE TimeoutSpec => TimeoutsAreKept
  OBVIOUS
<1>1. TimeoutInit => ListInv /\ FiredInv
  BY InitTimeouts
<1>2. ListInv /\ FiredInv /\ [TimeoutNext]_timeoutVars => ListInv' /\ FiredInv'
  BY ListStep, FiredStep
<1>3. ListInv /\ FiredInv /\ [TimeoutNext]_timeoutVars =>
        [fired' # fired => Before(fired, fired')]_timeoutVars
  BY FiredStep
<1>4. TimeoutSpec => CalledInOrder
  BY <1>1, <1>2, <1>3, PTL DEF TimeoutSpec, CalledInOrder
<1> QED
  BY <1>4, OtherTimeoutsUntouched DEF TimeoutsAreKept

-----------------------------------------------------------------------------
(***************************************************************************)
(* ELoopSignals: the signals                                               *)
(***************************************************************************)

\* The scan's index points to an entry wherever the entry is used.
IndexInv ==
  /\ sigpc = "unpend" => sigidx = 1
  /\ sigpc = "scan" => sigidx \in 1 .. Len(signals) + 1
  /\ sigpc \in {"reset", "call"} => sigidx \in 1 .. Len(signals)

\* Between alarm(0) and pending_terminate = 0 a termination is pending: a
\* handler that comes there does not start the alarm again.
PendingInv == sigpc = "unpend" => pending_terminate

\* A signal has one entry at most, none while it is being registered.
OneEntryInv ==
  /\ \A i, j \in 1 .. Len(signals) : signals[i].sig = signals[j].sig => i = j
  /\ registering # NoSignal => EntriesOf(registering) = {}

\* The inductive invariants: of the scan and the alarm, and of the notes.
ScanInv == SignalTypeOK /\ IndexInv /\ PendingInv /\ AlarmIsCalledOff
NotesInv == OneEntryInv /\ NoSignalLost

\* Marking or clearing an entry keeps the type and the length of the array,
\* and the signals of its entries.
LEMMA MarkedEntries ==
  ASSUME NEW entries \in Seq([sig : Signals, signaled : BOOLEAN]),
         NEW k, NEW mark \in BOOLEAN
  PROVE  LET marked == [entries EXCEPT ![k].signaled = mark]
         IN  /\ marked \in Seq([sig : Signals, signaled : BOOLEAN])
             /\ Len(marked) = Len(entries)
             /\ \A i \in 1 .. Len(entries) :
                  /\ marked[i].sig = entries[i].sig
                  /\ marked[i].signaled = IF i = k THEN mark ELSE entries[i].signaled
<1> DEFINE marked == [entries EXCEPT ![k].signaled = mark]
<1>1. \A i \in 1 .. Len(entries) : entries[i] \in [sig : Signals, signaled : BOOLEAN]
  BY ElementOfSeq
<1>2. /\ DOMAIN marked = 1 .. Len(entries)
      /\ \A i \in 1 .. Len(entries) :
           marked[i] = IF i = k THEN [entries[i] EXCEPT !.signaled = mark] ELSE entries[i]
  OBVIOUS
<1>3. \A i \in 1 .. Len(entries) :
        /\ marked[i] \in [sig : Signals, signaled : BOOLEAN]
        /\ marked[i].sig = entries[i].sig
        /\ marked[i].signaled = IF i = k THEN mark ELSE entries[i].signaled
  BY <1>1, <1>2
<1>4. marked \in Seq([sig : Signals, signaled : BOOLEAN])
  <2>1. marked = [i \in 1 .. Len(entries) |-> marked[i]]
    BY <1>2
  <2>2. marked \in [1 .. Len(entries) -> [sig : Signals, signaled : BOOLEAN]]
    BY <2>1, <1>3
  <2>3. Len(entries) \in Nat
    OBVIOUS
  <2> HIDE DEF marked
  <2> QED
    BY <2>2, <2>3, SeqDef
<1>5. Len(marked) = Len(entries)
  BY <1>2, <1>4, LenProperties
<1> QED
  BY <1>3, <1>4, <1>5

\* The entry the handler marks is the only one for the signal.
LEMMA FirstEntry ==
  ASSUME SignalTypeOK, OneEntryInv, NEW sig \in Signals, EntriesOf(sig) # {}
  PROVE  \E i \in 1 .. Len(signals) :
           /\ EntriesOf(sig) = {i}
           /\ i = CHOOSE k \in EntriesOf(sig) : \A j \in EntriesOf(sig) : k <= j
<1>1. PICK i \in 1 .. Len(signals) : signals[i].sig = sig
  BY DEF EntriesOf
<1>2. EntriesOf(sig) = {i}
  BY <1>1 DEF EntriesOf, OneEntryInv
<1>3. i = CHOOSE k \in EntriesOf(sig) : \A j \in EntriesOf(sig) : k <= j
  BY <1>2
<1> QED
  BY <1>1, <1>2, <1>3

-----------------------------------------------------------------------------
(* The scan and the alarm *)

\* Every statement of the scan, every signal and every registration keeps the
\* types, the index and the alarm: DisarmAlarm and ClearPending because of
\* PendingInv, ScanEntry because of IndexInv.
LEMMA ScanStep ==
  ASSUME ScanInv, [SignalNext]_signalVars
  PROVE  ScanInv'
<1> USE DEF ScanInv, SignalPlaces, SigGoto
<1>1. CASE \E sig \in Signals : RegisterRealloc(sig)
  <2>1. SignalTypeOK'
    BY <1>1 DEF RegisterRealloc, SignalTypeOK, IndexInv
  <2>2. IndexInv' /\ PendingInv'
    BY <1>1 DEF RegisterRealloc, SignalTypeOK, IndexInv, PendingInv
  <2>3. AlarmIsCalledOff'
    BY <1>1 DEF RegisterRealloc, SignalTypeOK, PendingInv, AlarmIsCalledOff
  <2> QED
    BY <2>1, <2>2, <2>3
<1>2. CASE RegisterPublish
  <2>1. SignalTypeOK'
    BY <1>2 DEF RegisterPublish, SignalTypeOK, IndexInv
  <2>2. IndexInv' /\ PendingInv'
    BY <1>2 DEF RegisterPublish, SignalTypeOK, IndexInv, PendingInv
  <2>3. AlarmIsCalledOff'
    BY <1>2 DEF RegisterPublish, SignalTypeOK, PendingInv, AlarmIsCalledOff
  <2> QED
    BY <2>1, <2>2, <2>3
<1>3. CASE \E sig \in Signals : HandleSignal(sig)
  <2> PICK sig \in Signals : HandleSignal(sig)
    BY <1>3
  <2>1. /\ signals' = signals \/ signals' = Noted(sig)
        /\ lost' \subseteq lost \cup EntriesOf(sig)
    BY DEF HandleSignal, TakeNote
  <2>2. Noted(sig) \in Seq([sig : Signals, signaled : BOOLEAN]) /\ Len(Noted(sig)) = Len(signals)
    BY MarkedEntries DEF SignalTypeOK, Noted
  <2>3. signals' \in Seq([sig : Signals, signaled : BOOLEAN]) /\ Len(signals') = Len(signals)
    BY <2>1, <2>2 DEF SignalTypeOK
  <2>4. SignalTypeOK'
    BY <2>1, <2>3 DEF HandleSignal, SignalTypeOK, EntriesOf
  <2>5. IndexInv' /\ PendingInv'
    BY <2>3 DEF HandleSignal, SignalTypeOK, IndexInv, PendingInv
  <2>6. AlarmIsCalledOff'
    BY DEF HandleSignal, SignalTypeOK, PendingInv, AlarmIsCalledOff
  <2> QED
    BY <2>4, <2>5, <2>6
<1>4. CASE ProcessSignals
  <2>1. SignalTypeOK'
    BY <1>4 DEF ProcessSignals, SignalTypeOK, IndexInv
  <2>2. IndexInv' /\ PendingInv'
    BY <1>4 DEF ProcessSignals, SignalTypeOK, IndexInv, PendingInv
  <2>3. AlarmIsCalledOff'
    BY <1>4 DEF ProcessSignals, SignalTypeOK, PendingInv, AlarmIsCalledOff
  <2> QED
    BY <2>1, <2>2, <2>3
<1>5. CASE ClearSignaled
  <2>1. SignalTypeOK'
    BY <1>5 DEF ClearSignaled, SignalTypeOK, IndexInv
  <2>2. IndexInv' /\ PendingInv'
    BY <1>5 DEF ClearSignaled, SignalTypeOK, IndexInv, PendingInv
  <2>3. AlarmIsCalledOff'
    BY <1>5 DEF ClearSignaled, SignalTypeOK, PendingInv, AlarmIsCalledOff
  <2> QED
    BY <2>1, <2>2, <2>3
<1>6. CASE DisarmAlarm
  <2>1. SignalTypeOK'
    BY <1>6 DEF DisarmAlarm, SignalTypeOK, IndexInv
  <2>2. IndexInv' /\ PendingInv'
    BY <1>6 DEF DisarmAlarm, SignalTypeOK, IndexInv, PendingInv
  <2>3. AlarmIsCalledOff'
    BY <1>6 DEF DisarmAlarm, SignalTypeOK, PendingInv, AlarmIsCalledOff
  <2> QED
    BY <2>1, <2>2, <2>3
<1>7. CASE ClearPending
  <2>1. SignalTypeOK'
    BY <1>7 DEF ClearPending, SignalTypeOK, IndexInv
  <2>2. IndexInv' /\ PendingInv'
    BY <1>7 DEF ClearPending, SignalTypeOK, IndexInv, PendingInv
  <2>3. AlarmIsCalledOff'
    BY <1>7 DEF ClearPending, SignalTypeOK, PendingInv, AlarmIsCalledOff
  <2> QED
    BY <2>1, <2>2, <2>3
<1>8. CASE ScanEntry
  <2>1. SignalTypeOK'
    BY <1>8 DEF ScanEntry, SignalTypeOK, IndexInv
  <2>2. IndexInv' /\ PendingInv'
    BY <1>8 DEF ScanEntry, SignalTypeOK, IndexInv, PendingInv
  <2>3. AlarmIsCalledOff'
    BY <1>8 DEF ScanEntry, SignalTypeOK, PendingInv, AlarmIsCalledOff
  <2> QED
    BY <2>1, <2>2, <2>3
<1>9. CASE ScanDone
  <2>1. SignalTypeOK'
    BY <1>9 DEF ScanDone, SignalTypeOK, IndexInv
  <2>2. IndexInv' /\ PendingInv'
    BY <1>9 DEF ScanDone, SignalTypeOK, IndexInv, PendingInv
  <2>3. AlarmIsCalledOff'
    BY <1>9 DEF ScanDone, SignalTypeOK, PendingInv, AlarmIsCalledOff
  <2> QED
    BY <2>1, <2>2, <2>3
<1>10. CASE ResetEntry
  <2>1. /\ signals' \in Seq([sig : Signals, signaled : BOOLEAN])
        /\ Len(signals') = Len(signals)
    BY <1>10, MarkedEntries DEF ResetEntry, SignalTypeOK
  <2>2. SignalTypeOK'
    BY <1>10, <2>1 DEF ResetEntry, SignalTypeOK
  <2>3. IndexInv' /\ PendingInv'
    BY <1>10, <2>1 DEF ResetEntry, SignalTypeOK, IndexInv, PendingInv
  <2>4. AlarmIsCalledOff'
    BY <1>10 DEF ResetEntry, SignalTypeOK, AlarmIsCalledOff
  <2> QED
    BY <2>2, <2>3, <2>4
<1>11. CASE CallbackReturns
  <2>1. SignalTypeOK'
    BY <1>11 DEF CallbackReturns, SignalTypeOK, IndexInv
  <2>2. IndexInv' /\ PendingInv'
    BY <1>11 DEF CallbackReturns, SignalTypeOK, IndexInv, PendingInv
  <2>3. AlarmIsCalledOff'
    BY <1>11 DEF CallbackReturns, SignalTypeOK, PendingInv, AlarmIsCalledOff
  <2> QED
    BY <2>1, <2>2, <2>3
<1>12. CASE UNCHANGED signalVars
  BY <1>12 DEF signalVars, SignalTypeOK, IndexInv, PendingInv, AlarmIsCalledOff
<1> QED
  BY <1>1, <1>2, <1>3, <1>4, <1>5, <1>6, <1>7, <1>8, <1>9, <1>10, <1>11, <1>12 DEF SignalNext, SignalCall, Deliver, ProcessStep

-----------------------------------------------------------------------------
(* The notes *)

\* A registration keeps one entry per signal, and nothing owed depends on it.
LEMMA RegisterNotes ==
  ASSUME OncePerSignal, ScanInv, NotesInv, SignalCall
  PROVE  NotesInv'
<1> USE SignalsAssumption DEF ScanInv, NotesInv
<1>1. CASE \E sig \in Signals : RegisterRealloc(sig)
  <2>1. OneEntryInv'
    BY <1>1 DEF RegisterRealloc, OneEntryInv, EntriesOf
  <2>2. NoSignalLost'
    BY <1>1 DEF RegisterRealloc, NoSignalLost, StillToScan
  <2> QED
    BY <2>1, <2>2
<1>2. CASE RegisterPublish
  <2> DEFINE entry == [sig |-> registering, signaled |-> FALSE]
  <2>1. /\ signals' = Append(signals, entry)
        /\ Len(signals') = Len(signals) + 1
        /\ \A i \in 1 .. Len(signals) : signals'[i] = signals[i]
        /\ signals'[Len(signals) + 1].sig = registering
    BY <1>2 DEF RegisterPublish, SignalTypeOK
  <2>2. \A i \in 1 .. Len(signals) : signals[i].sig # registering
    BY <1>2 DEF RegisterPublish, OneEntryInv, EntriesOf
  <2>3. OneEntryInv'
    BY <1>2, <2>1, <2>2 DEF RegisterPublish, SignalTypeOK, OneEntryInv
  <2>4. NoSignalLost'
    BY <1>2, <2>1 DEF RegisterPublish, SignalTypeOK, NoSignalLost, StillToScan
  <2> QED
    BY <2>3, <2>4
<1> QED
  BY <1>1, <1>2 DEF SignalCall

\* The handler marks the one entry of its signal, and signaled makes for a
\* scan, wherever it is: what is owed is noted.  If realloc has taken the
\* array away, the entry is as it was: marked, or lost.
LEMMA DeliverNotes ==
  ASSUME OncePerSignal, ScanInv, NotesInv, Deliver
  PROVE  NotesInv'
<1> USE SignalsAssumption DEF ScanInv, NotesInv
<1> PICK sig \in Signals : HandleSignal(sig)
  BY DEF Deliver
<1>1. PICK i \in 1 .. Len(signals) :
        /\ EntriesOf(sig) = {i}
        /\ i = CHOOSE k \in EntriesOf(sig) : \A j \in EntriesOf(sig) : k <= j
  BY FirstEntry DEF HandleSignal
<1>2. signaled' /\ owed' = owed \cup {i}
  BY <1>1 DEF HandleSignal
<1>3. ASSUME signals' = Noted(sig), lost' = lost \ EntriesOf(sig)
      PROVE  NotesInv'
  <2> DEFINE noted == [signals EXCEPT ![i].signaled = TRUE]
  <2>1. /\ Len(noted) = Len(signals)
        /\ \A k \in 1 .. Len(signals) :
             /\ noted[k].sig = signals[k].sig
             /\ noted[k].signaled = IF k = i THEN TRUE ELSE signals[k].signaled
    BY MarkedEntries DEF SignalTypeOK
  <2>2. signals' = noted
    BY <1>1, <1>3 DEF Noted
  <2> HIDE DEF noted
  <2>3. /\ Len(signals') = Len(signals)
        /\ \A k \in 1 .. Len(signals) :
             /\ signals'[k].sig = signals[k].sig
             /\ signals'[k].signaled = IF k = i THEN TRUE ELSE signals[k].signaled
    BY <2>1, <2>2
  <2>4. OneEntryInv'
    BY ZenonT(30), <2>3 DEF HandleSignal, OneEntryInv, EntriesOf
  <2>5. NoSignalLost'
    BY <1>1, <1>2, <1>3, <2>3 DEF NoSignalLost, SignalTypeOK
  <2> QED
    BY <2>4, <2>5
<1>4. ASSUME signals' = signals, lost' = lost \cup {k \in EntriesOf(sig) : ~ signals[k].signaled}
      PROVE  NotesInv'
  <2>1. OneEntryInv'
    BY <1>4 DEF HandleSignal, OneEntryInv, EntriesOf
  <2>2. NoSignalLost'
    BY <1>1, <1>2, <1>4 DEF NoSignalLost
  <2> QED
    BY <2>1, <2>2
<1> QED
  BY <1>3, <1>4 DEF HandleSignal, TakeNote

\* The scan only passes entries that are not marked, and clears signaled before
\* it starts: what is owed is still to be scanned, or signaled again.
LEMMA ProcessNotes ==
  ASSUME ScanInv, NotesInv, ProcessSignals \/ ProcessStep
  PROVE  NotesInv'
<1> USE DEF ScanInv, NotesInv, SigGoto
<1>1. CASE ProcessSignals
  <2>1. OneEntryInv'
    BY <1>1 DEF ProcessSignals, OneEntryInv, EntriesOf
  <2>2. NoSignalLost'
    BY <1>1 DEF ProcessSignals, NoSignalLost, StillToScan, SignalTypeOK, IndexInv
  <2> QED
    BY <2>1, <2>2
<1>2. CASE ClearSignaled
  <2>1. OneEntryInv'
    BY <1>2 DEF ClearSignaled, OneEntryInv, EntriesOf
  <2>2. NoSignalLost'
    BY <1>2 DEF ClearSignaled, NoSignalLost, StillToScan, SignalTypeOK, IndexInv
  <2> QED
    BY <2>1, <2>2
<1>3. CASE DisarmAlarm
  <2>1. OneEntryInv'
    BY <1>3 DEF DisarmAlarm, OneEntryInv, EntriesOf
  <2>2. NoSignalLost'
    BY <1>3 DEF DisarmAlarm, NoSignalLost, StillToScan, SignalTypeOK, IndexInv
  <2> QED
    BY <2>1, <2>2
<1>4. CASE ClearPending
  <2>1. OneEntryInv'
    BY <1>4 DEF ClearPending, OneEntryInv, EntriesOf
  <2>2. NoSignalLost'
    BY <1>4 DEF ClearPending, NoSignalLost, StillToScan, SignalTypeOK, IndexInv
  <2> QED
    BY <2>1, <2>2
<1>5. CASE ScanEntry
  <2>1. OneEntryInv'
    BY <1>5 DEF ScanEntry, OneEntryInv, EntriesOf
  <2>2. NoSignalLost'
    BY <1>5 DEF ScanEntry, NoSignalLost, StillToScan, SignalTypeOK, IndexInv
  <2> QED
    BY <2>1, <2>2
<1>6. CASE ScanDone
  <2>1. OneEntryInv'
    BY <1>6 DEF ScanDone, OneEntryInv, EntriesOf
  <2>2. NoSignalLost'
    BY <1>6 DEF ScanDone, NoSignalLost, StillToScan, SignalTypeOK, IndexInv
  <2> QED
    BY <2>1, <2>2
<1>7. CASE ResetEntry
  <2>1. /\ Len(signals') = Len(signals)
        /\ \A k \in 1 .. Len(signals) :
             /\ signals'[k].sig = signals[k].sig
             /\ signals'[k].signaled = IF k = sigidx THEN FALSE ELSE signals[k].signaled
    <3> DEFINE cleared == [signals EXCEPT ![sigidx].signaled = FALSE]
    <3>1. /\ Len(cleared) = Len(signals)
          /\ \A k \in 1 .. Len(signals) :
               /\ cleared[k].sig = signals[k].sig
               /\ cleared[k].signaled = IF k = sigidx THEN FALSE ELSE signals[k].signaled
      BY MarkedEntries DEF SignalTypeOK
    <3>2. signals' = cleared
      BY <1>7 DEF ResetEntry
    <3> HIDE DEF cleared
    <3> QED
      BY <3>1, <3>2
  <2>2. OneEntryInv'
    BY <1>7, <2>1 DEF ResetEntry, OneEntryInv, EntriesOf
  <2>3. NoSignalLost'
    BY <1>7, <2>1 DEF ResetEntry, NoSignalLost, StillToScan, SignalTypeOK
  <2> QED
    BY <2>2, <2>3
<1>8. CASE CallbackReturns
  <2>1. OneEntryInv'
    BY <1>8 DEF CallbackReturns, OneEntryInv, EntriesOf
  <2>2. NoSignalLost'
    BY <1>8 DEF CallbackReturns, NoSignalLost, StillToScan, SignalTypeOK, IndexInv
  <2> QED
    BY <2>1, <2>2
<1> QED
  BY <1>1, <1>2, <1>3, <1>4, <1>5, <1>6, <1>7, <1>8 DEF ProcessStep

-----------------------------------------------------------------------------
(* The theorems *)

\* The notes, the alarm and the scan start with nothing to do.
LEMMA InitSignals == SignalInit => ScanInv /\ NotesInv
<1> SUFFICES ASSUME SignalInit PROVE ScanInv /\ NotesInv
  OBVIOUS
<1>1. SignalTypeOK
  <2>1. signals \in Seq([sig : Signals, signaled : BOOLEAN]) /\ Len(signals) = 0
    BY DEF SignalInit
  <2>2. /\ signaled \in BOOLEAN /\ pending_terminate \in BOOLEAN /\ alarm \in BOOLEAN
        /\ registering \in Signals \cup {NoSignal} /\ sigpc \in SignalPlaces
        /\ sigidx = 0 /\ owed = {} /\ lost = {}
    BY DEF SignalInit, SignalPlaces
  <2> QED
    BY <2>1, <2>2 DEF SignalTypeOK
<1>2. IndexInv /\ PendingInv /\ AlarmIsCalledOff
  BY DEF SignalInit, IndexInv, PendingInv, AlarmIsCalledOff
<1>3. OneEntryInv /\ NoSignalLost
  BY DEF SignalInit, OneEntryInv, NoSignalLost
<1> QED
  BY <1>1, <1>2, <1>3 DEF ScanInv, NotesInv

\* eloop_handle_signal and eloop_process_pending_signals keep the types of what
\* they share, and the alarm runs exactly while a termination is pending, for
\* every registration and every order of their statements.
THEOREM SignalsAreTyped == SignalSpec => [](SignalTypeOK /\ AlarmIsCalledOff)
<1>1. SignalInit => ScanInv
  BY InitSignals
<1>2. ScanInv /\ [SignalNext]_signalVars => ScanInv'
  BY ScanStep
<1>3. ScanInv => SignalTypeOK /\ AlarmIsCalledOff
  BY DEF ScanInv
<1> QED
  BY <1>1, <1>2, <1>3, PTL DEF SignalSpec

\* No note of a signal is lost between the handler and the scan, but for those
\* that come while a registration has the array reallocated, and the alarm of a
\* termination is called off, if callers register one callback for a signal:
\* with two entries for it the handler marks the first one only.
THEOREM SignalsKept == OncePerSignal => (SignalSpec => []SignalsAreKept)
<1> SUFFICES ASSUME OncePerSignal PROVE SignalSpec => []SignalsAreKept
  OBVIOUS
<1>1. SignalInit => ScanInv /\ NotesInv
  BY InitSignals
<1>2. ScanInv /\ NotesInv /\ [SignalNext]_signalVars => ScanInv' /\ NotesInv'
  <2> SUFFICES ASSUME ScanInv, NotesInv, [SignalNext]_signalVars
               PROVE  ScanInv' /\ NotesInv'
    OBVIOUS
  <2>1. ScanInv'
    BY ScanStep
  <2>2. CASE SignalNext
    BY <2>1, <2>2, RegisterNotes, DeliverNotes, ProcessNotes DEF SignalNext
  <2>3. CASE UNCHANGED signalVars
    BY <2>1, <2>3 DEF signalVars, NotesInv, OneEntryInv, EntriesOf, NoSignalLost, StillToScan
  <2> QED
    BY <2>1, <2>2, <2>3
<1>3. ScanInv /\ NotesInv => SignalsAreKept
  BY DEF ScanInv, NotesInv, SignalsAreKept
<1> QED
  BY <1>1, <1>2, <1>3, PTL DEF SignalSpec

=============================================================================
