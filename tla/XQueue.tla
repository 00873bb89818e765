------------------------------- MODULE XQueue -------------------------------
(***************************************************************************)
(* src/src/xqueue.c: the asynchronous queue.  Any number of producer       *)
(* threads call xqueue_enqueue; each handler thread runs xqueue_handle,    *)
(* which sleeps on a counting semaphore and, once woken, drains the list.  *)
(*                                                                         *)
(* What the mutex covers is one critical section per list operation.  The  *)
(* test of the size limit, the allocation of the node, the sem_post and    *)
(* the calls of the user's functions all happen outside of it, and each is *)
(* a step of its own here.                                                 *)
(***************************************************************************)
EXTENDS Integers, Sequences, FiniteSets

CONSTANTS
  Producers,         \* threads that call xqueue_enqueue
  Handlers,          \* threads that run xqueue_handle
  Nodes,             \* the xqnode_t blocks malloc can hand out
  Data,              \* the void *data that callers enqueue
  Size,              \* xqueue_init's argument: < 0 is the default, 0 no limit
  AQUEUE_MAX_NODES,  \* the default limit
  SemMax,            \* SEM_VALUE_MAX
  NoThread,          \* the owner of a free mutex
  NULL,              \* no node
  Freed              \* what a block that malloc has not handed out contains

Threads == Producers \cup Handlers

ASSUME ThreadsAssumption ==
  /\ IsFiniteSet(Producers)
  /\ Producers # {}
  /\ Producers \cap Handlers = {}
  /\ NoThread \notin Threads

ASSUME NodesAssumption == NULL \notin Nodes /\ Freed \notin Data

ASSUME SizesAssumption ==
  /\ Size \in Int
  /\ AQUEUE_MAX_NODES \in Nat \ {0}
  /\ SemMax \in Nat \ {0}

\* g_xqueue.max_qnode_num, fixed by xqueue_init; 0 is "no limit".
max_qnode_num == IF Size < 0 THEN AQUEUE_MAX_NODES ELSE Size

VARIABLES
  list,       \* g_xqueue.node: the linked nodes, oldest first
  qnode_num,  \* g_xqueue.qnode_num
  sem,        \* the value of g_xqueue.sem
  rwlock,     \* the owner of g_xqueue.xqueue_rwlock
  content,    \* the data field of every block, Freed for a block not in use
  qnode,      \* the node a thread's local variable points to
  pc          \* where every thread is

vars == <<list, qnode_num, sem, rwlock, content, qnode, pc>>

-----------------------------------------------------------------------------
(* Places of a producer: "idle" and "refused" are outside of a call, after *)
(* one that returned a count and after one that returned -1.               *)
ProducerPlaces == {"idle", "refused", "malloc", "lock", "link", "count",
                   "unlock", "post"}
HandlerPlaces  == {"wait", "dequeue", "test", "unlink", "discount", "release",
                   "handle", "free"}

\* The places at which a thread is inside a critical section.
InSection == {"link", "count", "unlock", "test", "unlink", "discount",
              "release"}

Goto(t, place) == pc' = [pc EXCEPT ![t] = place]

FreeNodes == {n \in Nodes : content[n] = Freed}

Init ==
  /\ list = <<>>
  /\ qnode_num = 0
  /\ sem = 0
  /\ rwlock = NoThread
  /\ content = [n \in Nodes |-> Freed]
  /\ qnode = [t \in Threads |-> NULL]
  /\ pc = [t \in Threads |-> IF t \in Producers THEN "idle" ELSE "wait"]

Lock(t) == rwlock = NoThread /\ rwlock' = t
Unlock  == rwlock' = NoThread

-----------------------------------------------------------------------------
(* xqueue_enqueue *)

\* Mutant: > for >=.
IsFullOffByOne == max_qnode_num # 0 /\ qnode_num > max_qnode_num

IsFull == max_qnode_num # 0 /\ qnode_num >= max_qnode_num

\* The limit is compared with qnode_num without holding the mutex.
CheckSpace(p) ==
  /\ pc[p] \in {"idle", "refused"}
  /\ Goto(p, IF IsFull THEN "refused" ELSE "malloc")
  /\ UNCHANGED <<list, qnode_num, sem, rwlock, content, qnode>>

\* malloc of the node, and qnode->data = data.
AllocNode(p) ==
  /\ pc[p] = "malloc"
  /\ \E n \in FreeNodes, d \in Data :
       /\ content' = [content EXCEPT ![n] = d]
       /\ qnode' = [qnode EXCEPT ![p] = n]
  /\ Goto(p, "lock")
  /\ UNCHANGED <<list, qnode_num, sem, rwlock>>

\* malloc returns NULL, which it may do at any time.
AllocFails(p) ==
  /\ pc[p] = "malloc"
  /\ Goto(p, "refused")
  /\ UNCHANGED <<list, qnode_num, sem, rwlock, content, qnode>>

EnqueueLock(p) ==
  /\ pc[p] = "lock"
  /\ Lock(p)
  /\ Goto(p, "link")
  /\ UNCHANGED <<list, qnode_num, sem, content, qnode>>

\* Mutant: xlist_add for xlist_add_tail.
LinkAtHead(p) ==
  /\ pc[p] = "link"
  /\ list' = <<qnode[p]>> \o list
  /\ qnode' = [qnode EXCEPT ![p] = NULL]
  /\ Goto(p, "count")
  /\ UNCHANGED <<qnode_num, sem, rwlock, content>>

\* xlist_add_tail: from here on the list owns the node.
LinkNode(p) ==
  /\ pc[p] = "link"
  /\ list' = Append(list, qnode[p])
  /\ qnode' = [qnode EXCEPT ![p] = NULL]
  /\ Goto(p, "count")
  /\ UNCHANGED <<qnode_num, sem, rwlock, content>>

CountNode(p) ==
  /\ pc[p] = "count"
  /\ qnode_num' = qnode_num + 1
  /\ Goto(p, "unlock")
  /\ UNCHANGED <<list, sem, rwlock, content, qnode>>

EnqueueUnlock(p) ==
  /\ pc[p] = "unlock"
  /\ Unlock
  /\ Goto(p, "post")
  /\ UNCHANGED <<list, qnode_num, sem, content, qnode>>

\* Mutant: the handler is only woken for the first node of an empty list.
PostOnlyFirst(p) ==
  /\ pc[p] = "post"
  /\ sem' = IF sem < SemMax /\ qnode_num = 1 THEN sem + 1 ELSE sem
  /\ Goto(p, "idle")
  /\ UNCHANGED <<list, qnode_num, rwlock, content, qnode>>

\* sem_post; at SEM_VALUE_MAX it fails, and the code ignores the failure.
Post(p) ==
  /\ pc[p] = "post"
  /\ sem' = IF sem < SemMax THEN sem + 1 ELSE sem
  /\ Goto(p, "idle")
  /\ UNCHANGED <<list, qnode_num, rwlock, content, qnode>>

-----------------------------------------------------------------------------
(* xqueue_handle, with xqueue_dequeue *)

SemWait(h) ==
  /\ pc[h] = "wait"
  /\ sem > 0
  /\ sem' = sem - 1
  /\ Goto(h, "dequeue")
  /\ UNCHANGED <<list, qnode_num, rwlock, content, qnode>>

DequeueLock(h) ==
  /\ pc[h] = "dequeue"
  /\ Lock(h)
  /\ Goto(h, "test")
  /\ UNCHANGED <<list, qnode_num, sem, content, qnode>>

\* qnode_num == 0: unlock, return NULL, and go back to sem_wait.
DequeueEmpty(h) ==
  /\ pc[h] = "test"
  /\ qnode_num = 0
  /\ Unlock
  /\ Goto(h, "wait")
  /\ UNCHANGED <<list, qnode_num, sem, content, qnode>>

DequeueFound(h) ==
  /\ pc[h] = "test"
  /\ qnode_num # 0
  /\ Goto(h, "unlink")
  /\ UNCHANGED <<list, qnode_num, sem, rwlock, content, qnode>>

\* xlist_get: unlinks the first node, or answers NULL on an empty list.
UnlinkNode(h) ==
  /\ pc[h] = "unlink"
  /\ IF list = <<>>
       THEN /\ Unlock
            /\ Goto(h, "wait")
            /\ UNCHANGED <<list, qnode>>
       ELSE /\ qnode' = [qnode EXCEPT ![h] = Head(list)]
            /\ list' = Tail(list)
            /\ Goto(h, "discount")
            /\ UNCHANGED rwlock
  /\ UNCHANGED <<qnode_num, sem, content>>

\* Mutant: both xlist_get's caller and xlist_get count the node.
DiscountTwice(h) ==
  /\ pc[h] = "discount"
  /\ qnode_num' = qnode_num - 2
  /\ Goto(h, "release")
  /\ UNCHANGED <<list, sem, rwlock, content, qnode>>

DiscountNode(h) ==
  /\ pc[h] = "discount"
  /\ qnode_num' = qnode_num - 1
  /\ Goto(h, "release")
  /\ UNCHANGED <<list, sem, rwlock, content, qnode>>

\* Mutant: the node is freed before its data is handled.
FreeBeforeHandle(h) ==
  /\ pc[h] = "release"
  /\ Unlock
  /\ Goto(h, "handle")
  /\ content' = [content EXCEPT ![qnode[h]] = Freed]
  /\ UNCHANGED <<list, qnode_num, sem, qnode>>

DequeueUnlock(h) ==
  /\ pc[h] = "release"
  /\ Unlock
  /\ Goto(h, "handle")
  /\ UNCHANGED <<list, qnode_num, sem, content, qnode>>

\* handle(node->data), and g_xqueue.free(node->data) when there is one.
Handle(h) ==
  /\ pc[h] = "handle"
  /\ Goto(h, "free")
  /\ UNCHANGED <<list, qnode_num, sem, rwlock, content, qnode>>

\* Mutant: if for while, one node per token.
FreeNodeThenWait(h) ==
  /\ pc[h] = "free"
  /\ content' = [content EXCEPT ![qnode[h]] = Freed]
  /\ qnode' = [qnode EXCEPT ![h] = NULL]
  /\ Goto(h, "wait")
  /\ UNCHANGED <<list, qnode_num, sem, rwlock>>

\* free(node), and the inner loop dequeues again without a sem_wait.
FreeNode(h) ==
  /\ pc[h] = "free"
  /\ content' = [content EXCEPT ![qnode[h]] = Freed]
  /\ qnode' = [qnode EXCEPT ![h] = NULL]
  /\ Goto(h, "dequeue")
  /\ UNCHANGED <<list, qnode_num, sem, rwlock>>

-----------------------------------------------------------------------------
EnqueueStep(p) ==
  \/ CheckSpace(p)
  \/ AllocNode(p)
  \/ AllocFails(p)
  \/ EnqueueLock(p)
  \/ LinkNode(p)
  \/ CountNode(p)
  \/ EnqueueUnlock(p)
  \/ Post(p)

HandleStep(h) ==
  \/ SemWait(h)
  \/ DequeueLock(h)
  \/ DequeueEmpty(h)
  \/ DequeueFound(h)
  \/ UnlinkNode(h)
  \/ DiscountNode(h)
  \/ DequeueUnlock(h)
  \/ Handle(h)
  \/ FreeNode(h)

Next == (\E p \in Producers : EnqueueStep(p)) \/ (\E h \in Handlers : HandleStep(h))

Spec == Init /\ [][Next]_vars

\* A call of xqueue_enqueue that was begun goes on: every thread that the
\* scheduler can run is run.  Nobody has to begin a call, and the mutex is
\* only weakly fair: a thread may lose it to others as long as they want it.
FinishEnqueue(p) == pc[p] \notin {"idle", "refused"} /\ EnqueueStep(p)

Fairness ==
  /\ \A p \in Producers : WF_vars(FinishEnqueue(p))
  /\ \A h \in Handlers : WF_vars(HandleStep(h))

FairSpec == Spec /\ Fairness

-----------------------------------------------------------------------------
(* Properties *)

\* Every variable keeps its type: the counters of struct xqueue_t stay in
\* range and a thread's place is one of its own function's.
TypeOK ==
  /\ list \in Seq(Nodes)
  /\ qnode_num \in Nat
  /\ sem \in 0 .. SemMax
  /\ rwlock \in Threads \cup {NoThread}
  /\ content \in [Nodes -> Data \cup {Freed}]
  /\ qnode \in [Threads -> Nodes \cup {NULL}]
  /\ pc \in [Threads -> ProducerPlaces \cup HandlerPlaces]
  /\ \A p \in Producers : pc[p] \in ProducerPlaces
  /\ \A h \in Handlers : pc[h] \in HandlerPlaces

\* Whoever is in a critical section of _xqueue_enqueue or xqueue_dequeue is
\* the owner of xqueue_rwlock, so no two threads are in one together.
LockInv == \A t \in Threads : (rwlock = t) <=> (pc[t] \in InSection)

\* Outside of critical sections qnode_num is the length of the list; inside
\* it is off by the one node whose link and count are two statements.
CountInv ==
  /\ \A p \in Producers : pc[p] = "count" => qnode_num = Len(list) - 1
  /\ \A h \in Handlers : pc[h] = "discount" => qnode_num = Len(list) + 1
  /\ (\A t \in Threads : pc[t] \notin {"count", "discount"})
       => qnode_num = Len(list)

\* Since the limit is tested before the lock is taken, the list may exceed
\* it, but never by more than the producers that passed the test together.
BoundedOverrun ==
  max_qnode_num # 0 => Len(list) <= max_qnode_num + Cardinality(Producers) - 1

\* Why: the producers that passed the test and have not counted their node
\* yet are as many slots as are already given away.
Admitted == {p \in Producers : pc[p] \in {"malloc", "lock", "link", "count"}}
OverrunInv ==
  max_qnode_num # 0 =>
    qnode_num + Cardinality(Admitted) <= max_qnode_num + Cardinality(Producers) - 1

\* A handler that the semaphore let through will look at the list again.
Draining == \E h \in Handlers : pc[h] # "wait"
\* A producer that has linked its node has yet to post.
AboutToPost == \E p \in Producers : pc[p] \in {"count", "unlock", "post"}

\* No lost wakeup: as long as nodes are queued somebody is going to look at
\* them, although tokens and nodes do not correspond: one token may drain many
\* nodes, leave a surplus token that finds none, or be lost at SEM_VALUE_MAX.
NoLostWakeup == list # <<>> => sem > 0 \/ AboutToPost \/ Draining

\* Every block has one owner: the allocator, the list (in one place of it),
\* or one thread.  A node that is lost, handled twice, freed while linked or
\* freed twice breaks this.
SingleOwner ==
  /\ \A i, j \in 1 .. Len(list) : list[i] = list[j] => i = j
  /\ \A i \in 1 .. Len(list) : content[list[i]] # Freed
  /\ \A t \in Threads : qnode[t] # NULL =>
       /\ content[qnode[t]] # Freed
       /\ \A i \in 1 .. Len(list) : list[i] # qnode[t]
       /\ \A u \in Threads : qnode[u] = qnode[t] => u = t
  /\ \A n \in Nodes : content[n] # Freed =>
       \/ \E i \in 1 .. Len(list) : list[i] = n
       \/ \E t \in Threads : qnode[t] = n

\* Every node that gets into the list is taken out and handled, under the
\* weak fairness of the mutex: the size limit, or else malloc's failure,
\* makes the producers leave the mutex alone sooner or later.
EveryNodeHandled ==
  \A n \in Nodes :
    (\E i \in 1 .. Len(list) : list[i] = n)
      ~> (\E h \in Handlers : qnode[h] = n /\ pc[h] = "free")

\* How far the list can grow, 0 if only malloc limits it.
Capacity == IF max_qnode_num = 0 THEN 0
                                 ELSE max_qnode_num + Cardinality(Producers) - 1

\* The items in the list, and the item that every handler works on.
QueuedItems == [i \in 1 .. Len(list) |-> content[list[i]]]
HandledItem(h) == IF pc[h] \in {"discount", "release", "handle"}
                    THEN content[qnode[h]] ELSE Freed

\* What the queue promises, as an abstract state machine.
Promise == INSTANCE FifoQueue WITH
  Workers <- Handlers,
  Limit   <- Capacity,
  NoItem  <- Freed,
  pending <- QueuedItems,
  working <- [h \in Handlers |-> HandledItem(h)]

\* The queue is a bounded FIFO: whatever the interleaving, the items come out
\* in the order of their critical sections, each to one handler, once.
ImplementsFifo == Promise!Spec
=============================================================================
