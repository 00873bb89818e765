---------------------------- MODULE XQueueProofs ----------------------------
(***************************************************************************)
(* Proofs about XQueue, for every number of producers, handlers, blocks    *)
(* and every limit.                                                        *)
(***************************************************************************)
EXTENDS XQueue, FiniteSetTheorems, SequenceTheorems, TLAPS

\* The places at which a thread's local variable points to a node.
HoldingPlaces == {"lock", "link", "discount", "release", "handle", "free"}

\* A thread has a node exactly at these places.
HoldInv == \A t \in Threads : (qnode[t] # NULL) <=> (pc[t] \in HoldingPlaces)

\* The first inductive invariant: LinkNode keeps the list well-typed because
\* of HoldInv, DiscountNode keeps the count natural because of CountInv, and
\* CountInv speaks of one thread because of LockInv.
SectionInv == TypeOK /\ HoldInv /\ LockInv /\ CountInv

\* The inductive invariant holds at the start: nobody has the mutex, the
\* list and the count are empty.
LEMMA InitSection == Init => SectionInv
<1> SUFFICES ASSUME Init PROVE SectionInv
  OBVIOUS
<1> USE ThreadsAssumption, NodesAssumption, SizesAssumption DEF Init, Threads
<1>1. TypeOK
  BY DEF TypeOK, ProducerPlaces, HandlerPlaces
<1>2. HoldInv /\ LockInv
  BY DEF HoldInv, LockInv, HoldingPlaces, InSection
<1>3. CountInv
  BY DEF CountInv
<1> QED
  BY <1>1, <1>2, <1>3 DEF SectionInv

\* Every step of xqueue_enqueue keeps the inductive invariant: only LinkNode
\* and CountNode disturb CountInv, and both run under the mutex.
LEMMA EnqueueSection ==
  ASSUME SectionInv, NEW p \in Producers, EnqueueStep(p)
  PROVE  SectionInv'
<1> USE ThreadsAssumption, NodesAssumption, SizesAssumption
    DEF SectionInv, Threads, Goto, ProducerPlaces, HandlerPlaces,
        HoldingPlaces, InSection
<1>1. CASE CheckSpace(p)
  <2>1. TypeOK'
    BY <1>1 DEF CheckSpace, TypeOK, HoldInv, LockInv, CountInv
  <2>2. HoldInv'
    BY <1>1 DEF CheckSpace, TypeOK, HoldInv
  <2>3. LockInv'
    BY <1>1 DEF CheckSpace, TypeOK, LockInv
  <2>4. CountInv'
    BY <1>1 DEF CheckSpace, TypeOK, LockInv, CountInv
  <2> QED
    BY <2>1, <2>2, <2>3, <2>4
<1>2. CASE AllocNode(p)
  <2>1. TypeOK'
    BY <1>2 DEF AllocNode, FreeNodes, TypeOK, HoldInv, LockInv, CountInv
  <2>2. HoldInv'
    BY <1>2 DEF AllocNode, FreeNodes, TypeOK, HoldInv
  <2>3. LockInv'
    BY <1>2 DEF AllocNode, FreeNodes, TypeOK, LockInv
  <2>4. CountInv'
    BY <1>2 DEF AllocNode, FreeNodes, TypeOK, LockInv, CountInv
  <2> QED
    BY <2>1, <2>2, <2>3, <2>4
<1>3. CASE AllocFails(p)
  <2>1. TypeOK'
    BY <1>3 DEF AllocFails, TypeOK, HoldInv, LockInv, CountInv
  <2>2. HoldInv'
    BY <1>3 DEF AllocFails, TypeOK, HoldInv
  <2>3. LockInv'
    BY <1>3 DEF AllocFails, TypeOK, LockInv
  <2>4. CountInv'
    BY <1>3 DEF AllocFails, TypeOK, LockInv, CountInv
  <2> QED
    BY <2>1, <2>2, <2>3, <2>4
<1>4. CASE EnqueueLock(p)
  <2>1. TypeOK'
    BY <1>4 DEF EnqueueLock, Lock, TypeOK, HoldInv, LockInv, CountInv
  <2>2. HoldInv'
    BY <1>4 DEF EnqueueLock, Lock, TypeOK, HoldInv
  <2>3. LockInv'
    BY <1>4 DEF EnqueueLock, Lock, TypeOK, LockInv
  <2>4. CountInv'
    BY <1>4 DEF EnqueueLock, Lock, TypeOK, LockInv, CountInv
  <2> QED
    BY <2>1, <2>2, <2>3, <2>4
<1>5. CASE LinkNode(p)
  <2>1. TypeOK'
    BY <1>5 DEF LinkNode, TypeOK, HoldInv, LockInv, CountInv
  <2>2. HoldInv'
    BY <1>5 DEF LinkNode, TypeOK, HoldInv
  <2>3. LockInv'
    BY <1>5 DEF LinkNode, TypeOK, LockInv
  <2>4. CountInv'
    BY <1>5 DEF LinkNode, TypeOK, LockInv, CountInv
  <2> QED
    BY <2>1, <2>2, <2>3, <2>4
<1>6. CASE CountNode(p)
  <2>1. TypeOK'
    BY <1>6 DEF CountNode, TypeOK, HoldInv, LockInv, CountInv
  <2>2. HoldInv'
    BY <1>6 DEF CountNode, TypeOK, HoldInv
  <2>3. LockInv'
    BY <1>6 DEF CountNode, TypeOK, LockInv
  <2>4. CountInv'
    BY <1>6 DEF CountNode, TypeOK, LockInv, CountInv
  <2> QED
    BY <2>1, <2>2, <2>3, <2>4
<1>7. CASE EnqueueUnlock(p)
  <2>1. TypeOK'
    BY <1>7 DEF EnqueueUnlock, Unlock, TypeOK, HoldInv, LockInv, CountInv
  <2>2. HoldInv'
    BY <1>7 DEF EnqueueUnlock, Unlock, TypeOK, HoldInv
  <2>3. LockInv'
    BY <1>7 DEF EnqueueUnlock, Unlock, TypeOK, LockInv
  <2>4. CountInv'
    BY <1>7 DEF EnqueueUnlock, Unlock, TypeOK, LockInv, CountInv
  <2> QED
    BY <2>1, <2>2, <2>3, <2>4
<1>8. CASE Post(p)
  <2>1. TypeOK'
    BY <1>8 DEF Post, TypeOK, HoldInv, LockInv, CountInv
  <2>2. HoldInv'
    BY <1>8 DEF Post, TypeOK, HoldInv
  <2>3. LockInv'
    BY <1>8 DEF Post, TypeOK, LockInv
  <2>4. CountInv'
    BY <1>8 DEF Post, TypeOK, LockInv, CountInv
  <2> QED
    BY <2>1, <2>2, <2>3, <2>4
<1> QED
  BY <1>1, <1>2, <1>3, <1>4, <1>5, <1>6, <1>7, <1>8 DEF EnqueueStep

\* Every step of xqueue_handle keeps the inductive invariant: a handler that
\* found a count above zero finds a node, since it looked under the mutex.
LEMMA HandleSection ==
  ASSUME SectionInv, NEW h \in Handlers, HandleStep(h)
  PROVE  SectionInv'
<1> USE ThreadsAssumption, NodesAssumption, SizesAssumption
    DEF SectionInv, Threads, Goto, ProducerPlaces, HandlerPlaces,
        HoldingPlaces, InSection
<1>1. CASE SemWait(h)
  <2>1. TypeOK'
    BY <1>1 DEF SemWait, TypeOK, HoldInv, LockInv, CountInv
  <2>2. HoldInv'
    BY <1>1 DEF SemWait, TypeOK, HoldInv
  <2>3. LockInv'
    BY <1>1 DEF SemWait, TypeOK, LockInv
  <2>4. CountInv'
    BY <1>1 DEF SemWait, TypeOK, LockInv, CountInv
  <2> QED
    BY <2>1, <2>2, <2>3, <2>4
<1>2. CASE DequeueLock(h)
  <2>1. TypeOK'
    BY <1>2 DEF DequeueLock, Lock, TypeOK, HoldInv, LockInv, CountInv
  <2>2. HoldInv'
    BY <1>2 DEF DequeueLock, Lock, TypeOK, HoldInv
  <2>3. LockInv'
    BY <1>2 DEF DequeueLock, Lock, TypeOK, LockInv
  <2>4. CountInv'
    BY <1>2 DEF DequeueLock, Lock, TypeOK, LockInv, CountInv
  <2> QED
    BY <2>1, <2>2, <2>3, <2>4
<1>3. CASE DequeueEmpty(h)
  <2>1. TypeOK'
    BY <1>3 DEF DequeueEmpty, Unlock, TypeOK, HoldInv, LockInv, CountInv
  <2>2. HoldInv'
    BY <1>3 DEF DequeueEmpty, Unlock, TypeOK, HoldInv
  <2>3. LockInv'
    BY <1>3 DEF DequeueEmpty, Unlock, TypeOK, LockInv
  <2>4. CountInv'
    BY <1>3 DEF DequeueEmpty, Unlock, TypeOK, LockInv, CountInv
  <2> QED
    BY <2>1, <2>2, <2>3, <2>4
<1>4. CASE DequeueFound(h)
  <2>1. TypeOK'
    BY <1>4 DEF DequeueFound, TypeOK, HoldInv, LockInv, CountInv
  <2>2. HoldInv'
    BY <1>4 DEF DequeueFound, TypeOK, HoldInv
  <2>3. LockInv'
    BY <1>4 DEF DequeueFound, TypeOK, LockInv
  <2>4. CountInv'
    BY <1>4 DEF DequeueFound, TypeOK, LockInv, CountInv
  <2> QED
    BY <2>1, <2>2, <2>3, <2>4
<1>5. CASE UnlinkNode(h)
  <2>1. TypeOK'
    <3>1. list # <<>> => Head(list) \in Nodes /\ Tail(list) \in Seq(Nodes)
      BY DEF TypeOK
    <3> QED
      BY SMTT(20), <1>5, <3>1 DEF UnlinkNode, Unlock, TypeOK
  <2>2. HoldInv'
    BY <1>5 DEF UnlinkNode, Unlock, TypeOK, HoldInv
  <2>3. LockInv'
    BY <1>5 DEF UnlinkNode, Unlock, TypeOK, LockInv
  <2>4. CountInv'
    BY <1>5 DEF UnlinkNode, Unlock, TypeOK, LockInv, CountInv
  <2> QED
    BY <2>1, <2>2, <2>3, <2>4
<1>6. CASE DiscountNode(h)
  <2>1. TypeOK'
    BY <1>6 DEF DiscountNode, TypeOK, HoldInv, LockInv, CountInv
  <2>2. HoldInv'
    BY <1>6 DEF DiscountNode, TypeOK, HoldInv
  <2>3. LockInv'
    BY <1>6 DEF DiscountNode, TypeOK, LockInv
  <2>4. CountInv'
    BY <1>6 DEF DiscountNode, TypeOK, LockInv, CountInv
  <2> QED
    BY <2>1, <2>2, <2>3, <2>4
<1>7. CASE DequeueUnlock(h)
  <2>1. TypeOK'
    BY <1>7 DEF DequeueUnlock, Unlock, TypeOK, HoldInv, LockInv, CountInv
  <2>2. HoldInv'
    BY <1>7 DEF DequeueUnlock, Unlock, TypeOK, HoldInv
  <2>3. LockInv'
    BY <1>7 DEF DequeueUnlock, Unlock, TypeOK, LockInv
  <2>4. CountInv'
    BY <1>7 DEF DequeueUnlock, Unlock, TypeOK, LockInv, CountInv
  <2> QED
    BY <2>1, <2>2, <2>3, <2>4
<1>8. CASE Handle(h)
  <2>1. TypeOK'
    BY <1>8 DEF Handle, TypeOK, HoldInv, LockInv, CountInv
  <2>2. HoldInv'
    BY <1>8 DEF Handle, TypeOK, HoldInv
  <2>3. LockInv'
    BY <1>8 DEF Handle, TypeOK, LockInv
  <2>4. CountInv'
    BY <1>8 DEF Handle, TypeOK, LockInv, CountInv
  <2> QED
    BY <2>1, <2>2, <2>3, <2>4
<1>9. CASE FreeNode(h)
  <2>1. TypeOK'
    BY <1>9 DEF FreeNode, TypeOK, HoldInv, LockInv, CountInv
  <2>2. HoldInv'
    BY <1>9 DEF FreeNode, TypeOK, HoldInv
  <2>3. LockInv'
    BY <1>9 DEF FreeNode, TypeOK, LockInv
  <2>4. CountInv'
    BY <1>9 DEF FreeNode, TypeOK, LockInv, CountInv
  <2> QED
    BY <2>1, <2>2, <2>3, <2>4
<1> QED
  BY <1>1, <1>2, <1>3, <1>4, <1>5, <1>6, <1>7, <1>8, <1>9 DEF HandleStep

\* The mutex of xqueue.c does its work: types hold, exactly the owner is in a
\* critical section, and outside of critical sections the count is the length.
THEOREM SectionInvariant == Spec => [](TypeOK /\ HoldInv /\ LockInv /\ CountInv)
<1>1. Init => SectionInv
  BY InitSection
<1>2. SectionInv /\ [Next]_vars => SectionInv'
  <2> SUFFICES ASSUME SectionInv, [Next]_vars PROVE SectionInv'
    OBVIOUS
  <2>1. CASE \E p \in Producers : EnqueueStep(p)
    BY <2>1, EnqueueSection
  <2>2. CASE \E h \in Handlers : HandleStep(h)
    BY <2>2, HandleSection
  <2>3. CASE UNCHANGED vars
    BY <2>3 DEF SectionInv, TypeOK, HoldInv, LockInv, CountInv, vars
  <2> QED
    BY <2>1, <2>2, <2>3 DEF Next
<1> QED
  BY <1>1, <1>2, PTL DEF Spec, SectionInv

-----------------------------------------------------------------------------
(* No lost wakeup                                                          *)

\* Only DequeueEmpty puts a handler to sleep, and it does so in a critical
\* section in which the list is empty.
LEMMA SleepsOnEmptyList ==
  ASSUME SectionInv, NEW h \in Handlers, DequeueEmpty(h)
  PROVE  list = <<>>
<1>1. rwlock = h /\ pc[h] = "test"
  BY DEF SectionInv, LockInv, DequeueEmpty, InSection, Threads
<1>2. \A t \in Threads : pc[t] \notin {"count", "discount"}
  BY <1>1 DEF SectionInv, LockInv, InSection
<1>3. qnode_num = Len(list)
  BY <1>2 DEF SectionInv, CountInv
<1> QED
  BY <1>3 DEF DequeueEmpty, SectionInv, TypeOK

\* Every step keeps NoLostWakeup: a token is only taken by a handler that
\* drains, and a producer that has linked posts or finds sem at its limit.
LEMMA WakeupStep ==
  ASSUME SectionInv, SectionInv', NoLostWakeup, [Next]_vars
  PROVE  NoLostWakeup'
<1> USE ThreadsAssumption, SizesAssumption
    DEF NoLostWakeup, AboutToPost, Draining, Goto, Threads
<1>1. ASSUME NEW p \in Producers, EnqueueStep(p)
      PROVE  NoLostWakeup'
  <2>1. CASE LinkNode(p)
    BY <2>1 DEF LinkNode, SectionInv, TypeOK
  <2>2. CASE Post(p)
    BY <2>2 DEF Post, SectionInv, TypeOK
  <2>3. CASE CheckSpace(p) \/ AllocNode(p) \/ AllocFails(p) \/ EnqueueLock(p)
    BY <2>3 DEF CheckSpace, AllocNode, AllocFails, EnqueueLock, SectionInv, TypeOK
  <2>4. CASE CountNode(p) \/ EnqueueUnlock(p)
    BY <2>4 DEF CountNode, EnqueueUnlock, SectionInv, TypeOK
  <2> QED
    BY <1>1, <2>1, <2>2, <2>3, <2>4 DEF EnqueueStep
<1>2. ASSUME NEW h \in Handlers, HandleStep(h)
      PROVE  NoLostWakeup'
  <2>1. CASE DequeueEmpty(h)
    BY <2>1, SleepsOnEmptyList DEF DequeueEmpty
  <2>2. CASE UnlinkNode(h) /\ list = <<>>
    BY <2>2 DEF UnlinkNode
  <2>3. CASE ~ DequeueEmpty(h) /\ ~ (UnlinkNode(h) /\ list = <<>>)
    <3>1. pc'[h] # "wait"
      BY <1>2, <2>3 DEF HandleStep, SemWait, DequeueLock, DequeueFound,
        UnlinkNode, DiscountNode, DequeueUnlock, Handle, FreeNode, SectionInv, TypeOK
    <3> QED
      BY <3>1
  <2> QED
    BY <2>1, <2>2, <2>3
<1>3. CASE UNCHANGED vars
  BY <1>3 DEF vars
<1> QED
  BY <1>1, <1>2, <1>3 DEF Next

\* NoLostWakeup for every instance: while nodes are queued, the semaphore is
\* positive, or a producer is about to post, or a handler is about to look.
THEOREM WakeupNeverLost == Spec => []NoLostWakeup
<1>1. Init => NoLostWakeup
  BY DEF Init, NoLostWakeup
<1>2. SectionInv /\ SectionInv' /\ NoLostWakeup /\ [Next]_vars => NoLostWakeup'
  BY WakeupStep
<1>3. Spec => []SectionInv
  BY SectionInvariant DEF SectionInv
<1> QED
  BY <1>1, <1>2, <1>3, PTL DEF Spec
-----------------------------------------------------------------------------
(* The limit                                                               *)

\* There are at most as many admitted producers as producers.
LEMMA AdmittedFinite ==
  ASSUME TRUE
  PROVE  /\ IsFiniteSet(Admitted)
         /\ Cardinality(Admitted) \in Nat
         /\ Cardinality(Producers) \in Nat
         /\ Cardinality(Admitted) <= Cardinality(Producers)
<1>1. Admitted \subseteq Producers
  BY DEF Admitted
<1> QED
  BY <1>1, ThreadsAssumption, FS_Subset, FS_CardinalityType

\* A producer that passes the test gives one more slot away ...
LEMMA OverrunAdmit ==
  ASSUME SectionInv, OverrunInv, NEW p \in Producers, CheckSpace(p)
  PROVE  OverrunInv'
<1>1. SUFFICES ASSUME max_qnode_num # 0
      PROVE  qnode_num + Cardinality(Admitted') <=
               max_qnode_num + Cardinality(Producers) - 1
  BY DEF OverrunInv, CheckSpace, max_qnode_num
<1>2. p \notin Admitted
  BY DEF CheckSpace, Admitted
<1>3. CASE IsFull
  <2>1. Admitted' = Admitted
    BY <1>3 DEF CheckSpace, Goto, Admitted, SectionInv, TypeOK, Threads
  <2> QED
    BY <1>1, <2>1 DEF OverrunInv
<1>4. CASE ~ IsFull
  <2>1. Admitted' = Admitted \cup {p}
    BY <1>4 DEF CheckSpace, Goto, Admitted, SectionInv, TypeOK, Threads
  <2>2. Cardinality(Admitted') <= Cardinality(Producers)
    <3>1. Admitted' \subseteq Producers
      BY DEF Admitted
    <3> QED
      BY <3>1, ThreadsAssumption, FS_Subset
  <2>3. qnode_num <= max_qnode_num - 1
    BY <1>1, <1>4, SizesAssumption DEF IsFull, SectionInv, TypeOK, max_qnode_num
  <2>4. Cardinality(Admitted') \in Nat
    BY <2>1, AdmittedFinite, FS_AddElement, FS_CardinalityType
  <2> QED
    BY <2>2, <2>3, <2>4, AdmittedFinite, SizesAssumption
      DEF SectionInv, TypeOK, max_qnode_num
<1> QED
  BY <1>3, <1>4

\* ... and one that counts its node takes its slot.
LEMMA OverrunCount ==
  ASSUME SectionInv, OverrunInv, NEW p \in Producers, CountNode(p)
  PROVE  OverrunInv'
<1>1. p \in Admitted
  BY DEF CountNode, Admitted
<1>2. Admitted' = Admitted \ {p}
  BY DEF CountNode, Goto, Admitted, SectionInv, TypeOK, Threads
<1>3. Cardinality(Admitted') = Cardinality(Admitted) - 1
  BY <1>1, <1>2, AdmittedFinite, FS_RemoveElement
<1> QED
  BY <1>3, AdmittedFinite DEF OverrunInv, CountNode, SectionInv, TypeOK, max_qnode_num

\* No other step admits a producer or raises the count.
LEMMA OverrunOther ==
  ASSUME SectionInv, SectionInv', OverrunInv,
         Admitted' \subseteq Admitted, qnode_num' <= qnode_num
  PROVE  OverrunInv'
<1>1. Cardinality(Admitted') <= Cardinality(Admitted) /\ Cardinality(Admitted') \in Nat
  BY AdmittedFinite, FS_Subset, FS_CardinalityType
<1> QED
  BY <1>1, AdmittedFinite, SizesAssumption
    DEF OverrunInv, SectionInv, TypeOK, max_qnode_num

AdmittedPlaces == {"malloc", "lock", "link", "count"}

\* A step that moves no producer into or out of the admitted places keeps
\* the set of the admitted ones.
LEMMA AdmittedKept ==
  ASSUME SectionInv, NEW t \in Threads, NEW place, Goto(t, place),
         place \in AdmittedPlaces => pc[t] \in AdmittedPlaces
  PROVE  Admitted' \subseteq Admitted
<1>1. ASSUME NEW p \in Producers, pc'[p] \in AdmittedPlaces
      PROVE  pc[p] \in AdmittedPlaces
  BY <1>1 DEF Goto, SectionInv, TypeOK
<1> QED
  BY <1>1 DEF Admitted, AdmittedPlaces

\* Every step keeps OverrunInv: slots that are given away plus nodes that are
\* counted only grow in CheckSpace, which has seen qnode_num below the limit.
LEMMA OverrunStep ==
  ASSUME SectionInv, SectionInv', OverrunInv, [Next]_vars
  PROVE  OverrunInv'
<1>1. ASSUME NEW p \in Producers, EnqueueStep(p)
      PROVE  OverrunInv'
  <2>1. CASE CheckSpace(p)
    BY <2>1, OverrunAdmit
  <2>2. CASE CountNode(p)
    BY <2>2, OverrunCount
  <2>3. CASE ~ CheckSpace(p) /\ ~ CountNode(p)
    <3>1. \E place : /\ Goto(p, place)
                     /\ place \in AdmittedPlaces => pc[p] \in AdmittedPlaces
      BY <1>1, <2>3 DEF EnqueueStep, AllocNode, AllocFails, EnqueueLock, LinkNode,
        EnqueueUnlock, Post, AdmittedPlaces
    <3>2. Admitted' \subseteq Admitted
      BY <3>1, AdmittedKept DEF Threads
    <3>3. qnode_num' = qnode_num
      BY <1>1, <2>3 DEF EnqueueStep, AllocNode, AllocFails, EnqueueLock, LinkNode,
        EnqueueUnlock, Post
    <3> QED
      BY <3>2, <3>3, OverrunOther DEF SectionInv, TypeOK
  <2> QED
    BY <2>1, <2>2, <2>3
<1>2. ASSUME NEW h \in Handlers, HandleStep(h)
      PROVE  OverrunInv'
  <2>1. \E place : Goto(h, place) /\ place \notin AdmittedPlaces
    BY <1>2 DEF HandleStep, SemWait, DequeueLock, DequeueEmpty, DequeueFound,
      UnlinkNode, DiscountNode, DequeueUnlock, Handle, FreeNode, AdmittedPlaces
  <2>2. Admitted' \subseteq Admitted
    BY <2>1, AdmittedKept DEF Threads
  <2>3. qnode_num' <= qnode_num
    BY <1>2 DEF HandleStep, SemWait, DequeueLock, DequeueEmpty, DequeueFound,
      UnlinkNode, DiscountNode, DequeueUnlock, Handle, FreeNode, SectionInv, TypeOK
  <2> QED
    BY <2>2, <2>3, OverrunOther
<1>3. CASE UNCHANGED vars
  BY <1>3 DEF vars, OverrunInv, Admitted
<1> QED
  BY <1>1, <1>2, <1>3 DEF Next

\* BoundedOverrun for every instance: the unlocked test lets the list exceed
\* the limit by at most the number of producers less one.
THEOREM OverrunBounded == Spec => []BoundedOverrun
<1>1. Init => OverrunInv
  <2> SUFFICES ASSUME Init, max_qnode_num # 0
      PROVE  qnode_num + Cardinality(Admitted) <=
               max_qnode_num + Cardinality(Producers) - 1
    BY DEF OverrunInv
  <2>1. Admitted = {}
    BY DEF Init, Admitted, Threads
  <2>2. Cardinality(Producers) >= 1
    BY ThreadsAssumption, FS_EmptySet, FS_CardinalityType
  <2>3. Cardinality(Admitted) = 0 /\ qnode_num = 0
    BY <2>1, FS_EmptySet DEF Init
  <2>4. max_qnode_num \in Nat \ {0}
    BY SizesAssumption DEF max_qnode_num
  <2> QED
    BY <2>2, <2>3, <2>4, AdmittedFinite
<1>2. SectionInv /\ SectionInv' /\ OverrunInv /\ [Next]_vars => OverrunInv'
  BY OverrunStep
<1>3. SectionInv /\ OverrunInv => BoundedOverrun
  <2> SUFFICES ASSUME SectionInv, OverrunInv, max_qnode_num # 0
      PROVE  Len(list) <= max_qnode_num + Cardinality(Producers) - 1
    BY DEF BoundedOverrun
  <2>1. CASE \E p \in Producers : pc[p] = "count"
    <3>1. Admitted # {}
      BY <2>1 DEF Admitted
    <3>2. Cardinality(Admitted) >= 1
      BY <3>1, AdmittedFinite, FS_EmptySet
    <3> QED
      BY <2>1, <3>2, AdmittedFinite, SizesAssumption
        DEF SectionInv, CountInv, OverrunInv, TypeOK, max_qnode_num
  <2>2. CASE ~ \E p \in Producers : pc[p] = "count"
    <3>1. ASSUME \E h \in Handlers : pc[h] = "discount"
          PROVE  Len(list) <= qnode_num
      BY <3>1 DEF SectionInv, TypeOK, CountInv
    <3>2. ASSUME ~ \E h \in Handlers : pc[h] = "discount"
          PROVE  Len(list) <= qnode_num
      <4>1. \A t \in Threads : pc[t] \notin {"count", "discount"}
        BY <2>2, <3>2 DEF SectionInv, TypeOK, Threads, ProducerPlaces, HandlerPlaces
      <4> QED
        BY <4>1 DEF SectionInv, TypeOK, CountInv
    <3>3. Len(list) <= qnode_num
      BY <3>1, <3>2 DEF SectionInv, TypeOK, CountInv
    <3> QED
      BY <3>3, AdmittedFinite, SizesAssumption
        DEF SectionInv, OverrunInv, TypeOK, max_qnode_num
  <2> QED
    BY <2>1, <2>2
<1>4. Spec => []SectionInv
  BY SectionInvariant DEF SectionInv
<1> QED
  BY <1>1, <1>2, <1>3, <1>4, PTL DEF Spec
-----------------------------------------------------------------------------
(* Ownership of the nodes                                                  *)

\* AllocNode gives the producer a block that nobody owned.
LEMMA OwnerAlloc ==
  ASSUME SectionInv, SingleOwner, NEW p \in Producers, AllocNode(p)
  PROVE  SingleOwner'
<1> USE NodesAssumption DEF SectionInv, TypeOK, Threads
<1>1. PICK n \in FreeNodes, d \in Data :
        /\ content' = [content EXCEPT ![n] = d]
        /\ qnode' = [qnode EXCEPT ![p] = n]
  BY DEF AllocNode
<1>2. n \in Nodes /\ content[n] = Freed
  BY DEF FreeNodes
<1>3. list' = list
  BY DEF AllocNode
<1>4. qnode[p] = NULL
  BY DEF AllocNode, HoldInv, HoldingPlaces
<1>5. \A i \in 1 .. Len(list) : list[i] # n /\ list[i] \in Nodes
  BY <1>2 DEF SingleOwner
<1>6. \A t \in Threads : qnode[t] # n
  BY <1>2 DEF SingleOwner
<1> QED
  BY <1>1, <1>2, <1>3, <1>4, <1>5, <1>6 DEF SingleOwner

\* LinkNode hands the producer's block over to the list, at one place.
LEMMA OwnerLink ==
  ASSUME SectionInv, SingleOwner, NEW p \in Producers, LinkNode(p)
  PROVE  SingleOwner'
<1> USE NodesAssumption DEF SectionInv, TypeOK, Threads
<1>1. qnode[p] \in Nodes
  BY DEF LinkNode, HoldInv, HoldingPlaces
<1>2. /\ Len(list') = Len(list) + 1
      /\ \A i \in 1 .. Len(list) : list'[i] = list[i]
      /\ list'[Len(list) + 1] = qnode[p]
  BY <1>1 DEF LinkNode
<1>3. /\ \A i \in 1 .. Len(list) : list[i] # qnode[p]
      /\ content[qnode[p]] # Freed
      /\ \A t \in Threads : qnode[t] = qnode[p] => t = p
  BY <1>1 DEF SingleOwner
<1>4. content' = content /\ qnode' = [qnode EXCEPT ![p] = NULL]
  BY DEF LinkNode
<1>5. \A i, j \in 1 .. Len(list') : list'[i] = list'[j] => i = j
  BY <1>2, <1>3 DEF SingleOwner
<1>6. \A i \in 1 .. Len(list') : content'[list'[i]] # Freed
  BY <1>2, <1>3, <1>4 DEF SingleOwner
<1>7. \A t \in Threads : qnode'[t] # NULL =>
        /\ content'[qnode'[t]] # Freed
        /\ \A i \in 1 .. Len(list') : list'[i] # qnode'[t]
        /\ \A u \in Threads : qnode'[u] = qnode'[t] => u = t
  BY <1>2, <1>3, <1>4 DEF SingleOwner
<1>8. \A n \in Nodes : content'[n] # Freed =>
        \/ \E i \in 1 .. Len(list') : list'[i] = n
        \/ \E t \in Threads : qnode'[t] = n
  BY <1>2, <1>4 DEF SingleOwner
<1> QED
  BY <1>5, <1>6, <1>7, <1>8 DEF SingleOwner

\* UnlinkNode hands the block at the head over to one handler.
LEMMA OwnerUnlink ==
  ASSUME SectionInv, SingleOwner, NEW h \in Handlers, UnlinkNode(h), list # <<>>
  PROVE  SingleOwner'
<1> USE NodesAssumption DEF SectionInv, TypeOK, Threads
<1>1. qnode[h] = NULL
  BY DEF UnlinkNode, HoldInv, HoldingPlaces
<1>2. /\ qnode' = [qnode EXCEPT ![h] = list[1]]
      /\ list' = Tail(list)
      /\ content' = content
  BY DEF UnlinkNode
<1>3. /\ Len(list') = Len(list) - 1
      /\ \A i \in 1 .. Len(list') : i + 1 \in 1 .. Len(list) /\ list'[i] = list[i + 1]
      /\ 1 \in 1 .. Len(list) /\ list[1] \in Nodes
  BY <1>2
<1>4. \A i \in 1 .. Len(list') : list'[i] # list[1]
  BY <1>3 DEF SingleOwner
<1>5. \A i, j \in 1 .. Len(list') : list'[i] = list'[j] => i = j
  BY <1>3 DEF SingleOwner
<1>6. \A i \in 1 .. Len(list') : content'[list'[i]] # Freed
  BY <1>2, <1>3 DEF SingleOwner
<1>7. \A t \in Threads : qnode'[t] # NULL =>
        /\ content'[qnode'[t]] # Freed
        /\ \A i \in 1 .. Len(list') : list'[i] # qnode'[t]
        /\ \A u \in Threads : qnode'[u] = qnode'[t] => u = t
  <2> SUFFICES ASSUME NEW t \in Threads, qnode'[t] # NULL
      PROVE  /\ content'[qnode'[t]] # Freed
             /\ \A i \in 1 .. Len(list') : list'[i] # qnode'[t]
             /\ \A u \in Threads : qnode'[u] = qnode'[t] => u = t
    OBVIOUS
  <2>1. \A u \in Threads : qnode[u] # list[1]
    BY <1>3 DEF SingleOwner
  <2>2. CASE t = h
    BY <1>2, <1>3, <1>4, <2>1, <2>2 DEF SingleOwner
  <2>3. CASE t # h
    BY <1>1, <1>2, <1>3, <2>1, <2>3 DEF SingleOwner
  <2> QED
    BY <2>2, <2>3
<1>8. \A n \in Nodes : content'[n] # Freed =>
        \/ \E i \in 1 .. Len(list') : list'[i] = n
        \/ \E t \in Threads : qnode'[t] = n
  <2> SUFFICES ASSUME NEW n \in Nodes, content[n] # Freed, n # list[1]
      PROVE  \/ \E i \in 1 .. Len(list') : list'[i] = n
             \/ \E t \in Threads : qnode'[t] = n
    BY <1>2
  <2>1. CASE \E i \in 1 .. Len(list) : list[i] = n
    <3>1. PICK i \in 1 .. Len(list) : list[i] = n
      BY <2>1
    <3>2. i - 1 \in 1 .. Len(list') /\ list'[i - 1] = n
      BY <1>2, <1>3, <3>1
    <3> QED
      BY <3>2
  <2>2. CASE \E t \in Threads : qnode[t] = n
    BY <1>1, <1>2, <2>2
  <2> QED
    BY <2>1, <2>2 DEF SingleOwner
<1> QED
  BY <1>5, <1>6, <1>7, <1>8 DEF SingleOwner

\* FreeNode gives the handler's block back to malloc.
LEMMA OwnerFree ==
  ASSUME SectionInv, SingleOwner, NEW h \in Handlers, FreeNode(h)
  PROVE  SingleOwner'
<1> USE NodesAssumption DEF SectionInv, TypeOK, Threads
<1>1. qnode[h] \in Nodes
  BY DEF FreeNode, HoldInv, HoldingPlaces
<1>2. /\ content' = [content EXCEPT ![qnode[h]] = Freed]
      /\ qnode' = [qnode EXCEPT ![h] = NULL]
      /\ list' = list
  BY DEF FreeNode
<1>3. \A i \in 1 .. Len(list) : list[i] # qnode[h] /\ list[i] \in Nodes
  BY <1>1 DEF SingleOwner
<1>4. \A t \in Threads : qnode[t] = qnode[h] => t = h
  BY <1>1 DEF SingleOwner
<1> QED
  BY <1>1, <1>2, <1>3, <1>4 DEF SingleOwner

\* Every step keeps SingleOwner: the four above move a block, the others
\* leave list, content and qnode alone.
LEMMA OwnerStep ==
  ASSUME SectionInv, SingleOwner, [Next]_vars
  PROVE  SingleOwner'
<1>1. ASSUME UNCHANGED <<list, content, qnode>>
      PROVE  SingleOwner'
  BY <1>1 DEF SingleOwner
<1>2. ASSUME NEW p \in Producers, EnqueueStep(p)
      PROVE  SingleOwner'
  <2>1. CASE ~ AllocNode(p) /\ ~ LinkNode(p)
    BY <1>1, <1>2, <2>1 DEF EnqueueStep, CheckSpace, AllocFails, EnqueueLock,
      CountNode, EnqueueUnlock, Post
  <2> QED
    BY <2>1, OwnerAlloc, OwnerLink
<1>3. ASSUME NEW h \in Handlers, HandleStep(h)
      PROVE  SingleOwner'
  <2>1. CASE ~ (UnlinkNode(h) /\ list # <<>>) /\ ~ FreeNode(h)
    BY <1>1, <1>3, <2>1 DEF HandleStep, SemWait, DequeueLock, DequeueEmpty,
      DequeueFound, UnlinkNode, DiscountNode, DequeueUnlock, Handle
  <2> QED
    BY <2>1, OwnerUnlink, OwnerFree
<1>4. CASE UNCHANGED vars
  BY <1>1, <1>4 DEF vars
<1> QED
  BY <1>2, <1>3, <1>4 DEF Next

\* SingleOwner for every instance: no node is lost, linked twice, handled by
\* two handlers, or freed while the list or another thread still has it.
THEOREM NodesHaveOneOwner == Spec => []SingleOwner
<1>1. Init => SingleOwner
  BY DEF Init, SingleOwner
<1>2. SectionInv /\ SingleOwner /\ [Next]_vars => SingleOwner'
  BY OwnerStep
<1>3. Spec => []SectionInv
  BY SectionInvariant DEF SectionInv
<1> QED
  BY <1>1, <1>2, <1>3, PTL DEF Spec
-----------------------------------------------------------------------------
(* The queue implements the abstract FIFO                                  *)

Working == [h \in Handlers |-> HandledItem(h)]

\* Everything the steps below need to know of a state.
FifoInv == SectionInv /\ SingleOwner /\ BoundedOverrun

ItemsAreSeq ==
  /\ QueuedItems \in Seq(Data)
  /\ Len(QueuedItems) = Len(list)
  /\ \A i \in 1 .. Len(list) : QueuedItems[i] = content[list[i]]

\* What the list maps to is a sequence of items of the list's length.
LEMMA QueuedItemsSeq == FifoInv => ItemsAreSeq
<1> SUFFICES ASSUME FifoInv PROVE ItemsAreSeq
  OBVIOUS
<1>1. \A i \in 1 .. Len(list) : content[list[i]] \in Data
  BY DEF FifoInv, SectionInv, TypeOK, SingleOwner
<1>2. Len(list) \in Nat
  BY DEF FifoInv, SectionInv, TypeOK
<1> QED
  BY <1>1, <1>2 DEF QueuedItems, ItemsAreSeq

\* The items of the next state are a sequence, too.
LEMMA QueuedItemsSeqNext == FifoInv' => ItemsAreSeq'
  BY QueuedItemsSeq, PTL

\* What a step that leaves list, content, qnode and the handlers alone maps to.
LEMMA FifoStutter ==
  ASSUME QueuedItems' = QueuedItems, Working' = Working
  PROVE  [Promise!Next]_<<QueuedItems, Working>>
  OBVIOUS

\* LinkNode is the abstract queue's Accept: the item joins at the end.
LEMMA FifoAccept ==
  ASSUME FifoInv, FifoInv', NEW p \in Producers, LinkNode(p)
  PROVE  Promise!Next
<1> DEFINE d == content[qnode[p]]
<1>1. qnode[p] \in Nodes /\ d \in Data
  BY NodesAssumption
    DEF FifoInv, SectionInv, TypeOK, Threads, LinkNode, HoldInv, HoldingPlaces, SingleOwner
<1>2. /\ list' = Append(list, qnode[p])
      /\ content' = content
      /\ Len(list') = Len(list) + 1
  BY <1>1 DEF LinkNode, FifoInv, SectionInv, TypeOK
<1>3. QueuedItems' = Append(QueuedItems, d)
  <2>1. /\ Append(QueuedItems, d) \in Seq(Data)
        /\ Len(Append(QueuedItems, d)) = Len(list')
    BY <1>1, <1>2, QueuedItemsSeq DEF ItemsAreSeq
  <2>2. \A i \in 1 .. Len(list') : content'[list'[i]] = Append(QueuedItems, d)[i]
    BY <1>1, <1>2, QueuedItemsSeq DEF ItemsAreSeq, FifoInv, SectionInv, TypeOK
  <2> HIDE DEF d
  <2> QED
    BY <2>1, <2>2, QueuedItemsSeqNext, SeqEqual DEF ItemsAreSeq
<1>4. Capacity # 0 => Len(QueuedItems) < Capacity
  <2>1. Capacity # 0 => Len(list') <= Capacity
    BY DEF FifoInv, BoundedOverrun, Capacity, max_qnode_num
  <2>2. Len(list') = Len(list) + 1 /\ Len(list) \in Nat
    BY <1>2 DEF FifoInv, SectionInv, TypeOK
  <2>3. Cardinality(Producers) \in Nat
    BY ThreadsAssumption, FS_CardinalityType
  <2>4. Capacity \in Int
    BY <2>3, SizesAssumption DEF Capacity, max_qnode_num
  <2> QED
    BY <2>1, <2>2, <2>4, QueuedItemsSeq DEF ItemsAreSeq
<1>5. Working' = Working
  <2>1. \A h \in Handlers : HandledItem(h)' = HandledItem(h)
    BY ThreadsAssumption
      DEF LinkNode, Goto, HandledItem, FifoInv, SectionInv, TypeOK, Threads
  <2> QED
    BY <2>1 DEF Working
<1>6. Promise!Accept(d)
  BY <1>3, <1>4, <1>5 DEF Promise!Accept, Working
<1> QED
  BY <1>1, <1>6 DEF Promise!Next

\* UnlinkNode that finds a node is the abstract queue's Take: the first item
\* goes to one worker.
LEMMA FifoTake ==
  ASSUME FifoInv, FifoInv', NEW h \in Handlers, UnlinkNode(h), list # <<>>
  PROVE  Promise!Next
<1>1. /\ list' = Tail(list)
      /\ content' = content
      /\ qnode' = [qnode EXCEPT ![h] = Head(list)]
      /\ pc' = [pc EXCEPT ![h] = "discount"]
      /\ pc[h] = "unlink"
  BY DEF UnlinkNode, Goto
<1>2. /\ Len(QueuedItems) > 0
      /\ QueuedItems # <<>>
      /\ Head(QueuedItems) = content[Head(list)]
  BY QueuedItemsSeq DEF ItemsAreSeq, FifoInv, SectionInv, TypeOK
<1>3. QueuedItems' = Tail(QueuedItems)
  <2>1. Len(list') = Len(list) - 1
    BY <1>1 DEF FifoInv, SectionInv, TypeOK
  <2>2. \A i \in 1 .. Len(list') : content'[list'[i]] = Tail(QueuedItems)[i]
    BY <1>1, <1>2, QueuedItemsSeq DEF ItemsAreSeq, FifoInv, SectionInv, TypeOK
  <2>3. /\ Tail(QueuedItems) \in Seq(Data)
        /\ Len(Tail(QueuedItems)) = Len(list')
    BY <1>2, <2>1, QueuedItemsSeq DEF ItemsAreSeq
  <2> QED
    BY <2>2, <2>3, QueuedItemsSeqNext, SeqEqual DEF ItemsAreSeq
<1>4. Working[h] = Freed
  BY <1>1 DEF Working, HandledItem
<1>5. Working' = [Working EXCEPT ![h] = Head(QueuedItems)]
  <2>1. HandledItem(h)' = Head(QueuedItems)
    BY <1>1, <1>2 DEF HandledItem, FifoInv, SectionInv, TypeOK, Threads
  <2>2. \A g \in Handlers \ {h} : HandledItem(g)' = HandledItem(g)
    BY <1>1 DEF HandledItem, FifoInv, SectionInv, TypeOK, Threads
  <2> QED
    BY <2>1, <2>2 DEF Working
<1>6. Promise!Take(h)
  BY <1>2, <1>3, <1>4, <1>5 DEF Promise!Take, Working
<1> QED
  BY <1>6 DEF Promise!Next

\* Handle is the abstract queue's Finish.
LEMMA FifoFinish ==
  ASSUME FifoInv, NEW h \in Handlers, Handle(h)
  PROVE  Promise!Next
<1>1. QueuedItems' = QueuedItems
  BY DEF Handle, QueuedItems
<1>2. Working[h] # Freed
  <2>1. qnode[h] # NULL
    BY DEF Handle, FifoInv, SectionInv, HoldInv, HoldingPlaces, Threads
  <2> QED
    BY <2>1 DEF Handle, Working, HandledItem, FifoInv, SingleOwner, Threads
<1>3. Working' = [Working EXCEPT ![h] = Freed]
  <2>1. HandledItem(h)' = Freed
    BY DEF Handle, Goto, HandledItem, FifoInv, SectionInv, TypeOK, Threads
  <2>2. \A g \in Handlers \ {h} : HandledItem(g)' = HandledItem(g)
    BY DEF Handle, Goto, HandledItem, FifoInv, SectionInv, TypeOK, Threads
  <2> QED
    BY <2>1, <2>2 DEF Working
<1>4. Promise!Finish(h)
  BY <1>1, <1>2, <1>3 DEF Promise!Finish, Working
<1> QED
  BY <1>4 DEF Promise!Next

\* malloc and free touch neither a linked node nor one that is being handled.
LEMMA FifoMemory ==
  ASSUME FifoInv, NEW t \in Threads,
         (t \in Producers /\ AllocNode(t)) \/ (t \in Handlers /\ FreeNode(t))
  PROVE  QueuedItems' = QueuedItems /\ Working' = Working
<1> USE NodesAssumption, ThreadsAssumption DEF FifoInv, SectionInv, TypeOK, Threads
<1>1. PICK n \in Nodes, c \in Data \cup {Freed} :
        /\ content' = [content EXCEPT ![n] = c]
        /\ \A i \in 1 .. Len(list) : list[i] # n
        /\ \A u \in Threads \ {t} : qnode[u] # n /\ qnode'[u] = qnode[u]
  <2>1. CASE t \in Producers /\ AllocNode(t)
    <3>1. PICK n \in FreeNodes, d \in Data :
            /\ content' = [content EXCEPT ![n] = d]
            /\ qnode' = [qnode EXCEPT ![t] = n]
      BY <2>1 DEF AllocNode
    <3>2. n \in Nodes /\ content[n] = Freed
      BY DEF FreeNodes
    <3>3. /\ \A i \in 1 .. Len(list) : list[i] # n
          /\ \A u \in Threads : qnode[u] # n
      BY <3>2 DEF SingleOwner
    <3> QED
      BY <3>1, <3>2, <3>3
  <2>2. CASE t \in Handlers /\ FreeNode(t)
    <3>1. qnode[t] \in Nodes
      BY <2>2 DEF FreeNode, HoldInv, HoldingPlaces
    <3>2. /\ \A i \in 1 .. Len(list) : list[i] # qnode[t]
          /\ \A u \in Threads \ {t} : qnode[u] # qnode[t]
      BY <3>1 DEF SingleOwner
    <3>3. \A u \in Threads \ {t} : qnode'[u] = qnode[u]
      BY <2>2 DEF FreeNode
    <3>4. content' = [content EXCEPT ![qnode[t]] = Freed]
      BY <2>2 DEF FreeNode
    <3> QED
      BY <3>1, <3>2, <3>3, <3>4
  <2> QED
    BY <2>1, <2>2
<1>2. list' = list
  BY DEF AllocNode, FreeNode
<1>3. QueuedItems' = QueuedItems
  BY <1>1, <1>2 DEF QueuedItems
<1>4. \A h \in Handlers : HandledItem(h)' = HandledItem(h)
  <2> SUFFICES ASSUME NEW h \in Handlers PROVE HandledItem(h)' = HandledItem(h)
    OBVIOUS
  <2>1. CASE h = t
    BY <2>1 DEF FreeNode, Goto, HandledItem
  <2>2. CASE h # t
    <3>1. pc'[h] = pc[h]
      BY <2>2 DEF AllocNode, FreeNode, Goto
    <3>2. qnode'[h] = qnode[h] /\ qnode[h] # n
      BY <1>1, <2>2
    <3>3. pc[h] \in {"discount", "release", "handle"} => qnode[h] \in Nodes
      BY DEF HoldInv, HoldingPlaces
    <3> QED
      BY <1>1, <3>1, <3>2, <3>3 DEF HandledItem
  <2> QED
    BY <2>1, <2>2
<1> QED
  BY <1>3, <1>4 DEF Working

\* The other steps move one thread between places that HandledItem does not
\* tell apart.
LEMMA FifoOther ==
  ASSUME FifoInv, [Next]_vars, UNCHANGED <<list, content, qnode>>,
         ~ \E h \in Handlers : Handle(h)
  PROVE  QueuedItems' = QueuedItems /\ Working' = Working
<1>1. QueuedItems' = QueuedItems
  BY DEF QueuedItems
<1>2. \A h \in Handlers : HandledItem(h)' = HandledItem(h)
  <2> SUFFICES ASSUME NEW h \in Handlers PROVE HandledItem(h)' = HandledItem(h)
    OBVIOUS
  <2>1. CASE pc'[h] = pc[h]
    BY <2>1 DEF HandledItem
  <2>2. CASE pc'[h] # pc[h]
    <3>1. HandleStep(h)
      <4>1. ASSUME NEW p \in Producers, EnqueueStep(p)
            PROVE  pc'[h] = pc[h]
        BY <4>1, ThreadsAssumption DEF EnqueueStep, CheckSpace, AllocNode, AllocFails,
          EnqueueLock, LinkNode, CountNode, EnqueueUnlock, Post, Goto, FifoInv,
          SectionInv, TypeOK, Threads
      <4>2. ASSUME NEW g \in Handlers, g # h, HandleStep(g)
            PROVE  pc'[h] = pc[h]
        BY <4>2 DEF HandleStep, SemWait, DequeueLock, DequeueEmpty, DequeueFound,
          UnlinkNode, DiscountNode, DequeueUnlock, Handle, FreeNode, Goto, FifoInv,
          SectionInv, TypeOK, Threads
      <4> QED
        BY <2>2, <4>1, <4>2 DEF Next, vars
    <3>2. /\ pc[h] \in HandlerPlaces /\ pc[h] # "handle"
          /\ pc[h] = "discount" => pc'[h] = "release"
          /\ pc[h] = "release" => pc'[h] = "handle"
      BY <3>1 DEF HandleStep, SemWait, DequeueLock, DequeueEmpty, DequeueFound,
        UnlinkNode, DiscountNode, DequeueUnlock, Handle, FreeNode, Goto, FifoInv,
        SectionInv, TypeOK, Threads
    <3>3. pc[h] \notin {"discount", "release"} =>
            pc'[h] \notin {"discount", "release", "handle"}
      <4>1. ~ FreeNode(h) /\ ~ (UnlinkNode(h) /\ list # <<>>)
        BY NodesAssumption DEF FreeNode, UnlinkNode, FifoInv, SectionInv, TypeOK,
          HoldInv, HoldingPlaces, Threads
      <4> QED
        BY <3>1, <4>1 DEF HandleStep, SemWait, DequeueLock, DequeueEmpty,
          DequeueFound, UnlinkNode, DiscountNode, DequeueUnlock, Goto, FifoInv,
          SectionInv, TypeOK, Threads
    <3> QED
      BY <3>2, <3>3 DEF HandledItem, HandlerPlaces
  <2> QED
    BY <2>1, <2>2
<1> QED
  BY <1>1, <1>2 DEF Working

\* Every step of xqueue.c is a step of the abstract queue or a stutter.
LEMMA FifoStep ==
  ASSUME FifoInv, FifoInv', [Next]_vars
  PROVE  [Promise!Next]_<<QueuedItems, Working>>
<1>1. CASE \E p \in Producers : LinkNode(p)
  BY <1>1, FifoAccept
<1>2. CASE \E h \in Handlers : UnlinkNode(h) /\ list # <<>>
  BY <1>2, FifoTake
<1>3. CASE \E h \in Handlers : Handle(h)
  BY <1>3, FifoFinish
<1>4. CASE (\E p \in Producers : AllocNode(p)) \/ (\E h \in Handlers : FreeNode(h))
  BY <1>4, FifoMemory, FifoStutter DEF Threads
<1>5. CASE UNCHANGED <<list, content, qnode>>
  BY <1>3, <1>5, FifoOther, FifoStutter
<1> QED
  <2>1. ASSUME NEW p \in Producers, EnqueueStep(p), ~ LinkNode(p), ~ AllocNode(p)
        PROVE  UNCHANGED <<list, content, qnode>>
    BY <2>1 DEF EnqueueStep, CheckSpace, AllocFails, EnqueueLock, CountNode,
      EnqueueUnlock, Post
  <2>2. ASSUME NEW h \in Handlers, HandleStep(h), ~ FreeNode(h),
               ~ (UnlinkNode(h) /\ list # <<>>)
        PROVE  UNCHANGED <<list, content, qnode>>
    BY <2>2 DEF HandleStep, SemWait, DequeueLock, DequeueEmpty, DequeueFound,
      UnlinkNode, DiscountNode, DequeueUnlock, Handle
  <2>3. UNCHANGED vars => UNCHANGED <<list, content, qnode>>
    BY DEF vars
  <2> QED
    BY <1>1, <1>2, <1>3, <1>4, <1>5, <2>1, <2>2, <2>3 DEF Next

\* ImplementsFifo for every instance: xqueue.c is a bounded FIFO queue whose
\* items are taken in the order of their critical sections, once each.
THEOREM QueueIsFifo == Spec => ImplementsFifo
<1>1. Init => Promise!Init
  <2> SUFFICES ASSUME Init PROVE QueuedItems = <<>> /\ Working = [h \in Handlers |-> Freed]
    BY DEF Promise!Init, Working
  <2>1. QueuedItems = <<>>
    BY DEF Init, QueuedItems
  <2>2. \A h \in Handlers : HandledItem(h) = Freed
    BY ThreadsAssumption DEF Init, HandledItem, Threads
  <2> QED
    BY <2>1, <2>2 DEF Working
<1>2. FifoInv /\ FifoInv' /\ [Next]_vars => [Promise!Next]_<<QueuedItems, Working>>
  BY FifoStep
<1>3. Spec => []FifoInv
  BY SectionInvariant, NodesHaveOneOwner, OverrunBounded, PTL DEF FifoInv, SectionInv
<1> QED
  BY <1>1, <1>2, <1>3, PTL DEF Spec, ImplementsFifo, Promise!Spec, Working

=============================================================================
