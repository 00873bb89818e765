---------------------------- MODULE PriorityBag ----------------------------
(***************************************************************************)
(* What a heap of src/src/xheap.c promises: it holds what was pushed until *)
(* it is popped, and what is popped is a least one of what it holds.       *)
(***************************************************************************)
EXTENDS Integers

CONSTANTS Items, Nothing, Rank

VARIABLES
  held,    \* the items in the heap
  popped   \* what the last pop has returned

bagVars == <<held, popped>>

Init == held = {} /\ popped = Nothing

Push(d) ==
  /\ d \notin held
  /\ held' = held \cup {d}
  /\ UNCHANGED popped

Pop(d) ==
  /\ d \in held
  /\ \A e \in held : Rank[d] <= Rank[e]
  /\ held' = held \ {d}
  /\ popped' = d

Destroy == held' = {} /\ UNCHANGED popped

Next == Destroy \/ \E d \in Items : Push(d) \/ Pop(d)

Spec == Init /\ [][Next]_bagVars
=============================================================================
