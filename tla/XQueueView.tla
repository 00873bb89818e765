----------------------------- MODULE XQueueView -----------------------------
(***************************************************************************)
(* src/src/xqueue.c: xqueue_dump and xqueue_traverse, called by threads of *)
(* their own while producers and handlers use the queue.  Both functions   *)
(* are the same text, for two callbacks; Viewed says which are installed.  *)
(*                                                                         *)
(* Their early return lacks its semicolon, so that the call of xqueue_lock *)
(* in the next line is the returned expression: without a callback the     *)
(* function returns with the mutex, and with one it walks the list without *)
(* the mutex and then unlocks a mutex that it does not own.                *)
(***************************************************************************)
EXTENDS XQueue

CONSTANTS
  Viewers,  \* further threads, which call xqueue_dump or xqueue_traverse
  Viewed    \* whether xqueue_init was given the callback

VARIABLES
  cursor,  \* a viewer's tmp: a node, or NULL when it is the list's head
  vpc      \* where every viewer is

viewVars == <<vars, cursor, vpc>>

ViewInit ==
  /\ Init
  /\ cursor = [v \in Viewers |-> NULL]
  /\ vpc = [v \in Viewers |-> "out"]

Positions(n) == {i \in 1 .. Len(list) : list[i] = n}

FirstNode == IF list = <<>> THEN NULL ELSE Head(list)

\* What the next field of block n leads to.  xlist_del poisons the field of a
\* node it unlinks, and free and malloc may leave anything in it: the walk may
\* then go to any block, or to the head.
Successors(n) ==
  IF Positions(n) = {}
    THEN Nodes \cup {NULL}
    ELSE {IF i = Len(list) THEN NULL ELSE list[i + 1] : i \in Positions(n)}

ViewGoto(v, place) == vpc' = [vpc EXCEPT ![v] = place]

\* return xqueue_lock(head): the caller goes on with the mutex.
ViewWithoutCallback(v) ==
  /\ ~Viewed
  /\ vpc[v] = "out"
  /\ Lock(v)
  /\ UNCHANGED <<list, qnode_num, sem, content, qnode, pc, cursor, vpc>>

BeginView(v) ==
  /\ Viewed
  /\ vpc[v] = "out"
  /\ cursor' = [cursor EXCEPT ![v] = FirstNode]
  /\ ViewGoto(v, "walk")
  /\ UNCHANGED vars

\* The callback gets tmp->data; then the loop moves on.
ViewNode(v) ==
  /\ vpc[v] = "walk"
  /\ cursor[v] # NULL
  /\ \E n \in Successors(cursor[v]) : cursor' = [cursor EXCEPT ![v] = n]
  /\ UNCHANGED <<vars, vpc>>

\* xqueue_unlock: a default mutex is released whoever owns it.
EndView(v) ==
  /\ vpc[v] = "walk"
  /\ cursor[v] = NULL
  /\ Unlock
  /\ ViewGoto(v, "out")
  /\ UNCHANGED <<list, qnode_num, sem, content, qnode, pc, cursor>>

ViewStep(v) ==
  \/ ViewWithoutCallback(v)
  \/ BeginView(v)
  \/ ViewNode(v)
  \/ EndView(v)

ViewNext == (Next /\ UNCHANGED <<cursor, vpc>>) \/ (\E v \in Viewers : ViewStep(v))

ViewSpec == ViewInit /\ [][ViewNext]_viewVars

-----------------------------------------------------------------------------
(* What xqueue.h and xqueue.c say of the queue, with viewers.              *)

\* "lock for this queue" (src/include/xqueue.h): at most one thread is in a
\* critical section of the queue.  EndView releases the lock of another one.
MutualExclusion ==
  \A t, u \in Threads : pc[t] \in InSection /\ pc[u] \in InSection => t = u
=============================================================================
