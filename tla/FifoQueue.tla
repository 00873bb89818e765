------------------------------ MODULE FifoQueue ------------------------------
(***************************************************************************)
(* What a user of src/include/xqueue.h relies on: items go in at the tail, *)
(* in some order of the calls that accept them; a worker takes the oldest  *)
(* one, works on it alone and finishes it.  No thread, mutex, semaphore or *)
(* allocation is visible.                                                  *)
(***************************************************************************)
EXTENDS Naturals, Sequences

CONSTANTS
  Workers,  \* who takes items
  Data,     \* the items
  Limit,    \* no more than this many items are ever pending; 0 is no limit
  NoItem    \* what an idle worker works on

VARIABLES
  pending,  \* the accepted items nobody has taken, oldest first
  working   \* the item of every worker

Init == pending = <<>> /\ working = [w \in Workers |-> NoItem]

Accept(d) ==
  /\ Limit # 0 => Len(pending) < Limit
  /\ pending' = Append(pending, d)
  /\ UNCHANGED working

Take(w) ==
  /\ pending # <<>>
  /\ working[w] = NoItem
  /\ working' = [working EXCEPT ![w] = Head(pending)]
  /\ pending' = Tail(pending)

Finish(w) ==
  /\ working[w] # NoItem
  /\ working' = [working EXCEPT ![w] = NoItem]
  /\ UNCHANGED pending

Next == (\E d \in Data : Accept(d)) \/ (\E w \in Workers : Take(w) \/ Finish(w))

Spec == Init /\ [][Next]_<<pending, working>>

\* The items are also worked on in the end.
Fairness == WF_<<pending, working>>(\E w \in Workers : Take(w) \/ Finish(w))
=============================================================================
