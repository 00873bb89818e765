------------------------------ MODULE ListStore ------------------------------
(***************************************************************************)
(* What the linked lists of src/include/xlist.h and src/src/eloop/list.h   *)
(* promise: a sequence for each head, no node in two places, and of each   *)
(* call what it does to the sequences.                                     *)
(***************************************************************************)
EXTENDS Integers, Sequences, SequencesExt

CONSTANTS Heads, Items

VARIABLES
  lists, \* the sequence of each head
  call   \* the last call that may change them, and its arguments

Init == lists = [h \in Heads |-> <<>>] /\ call = <<"none">>

Unlinked == Items \ UNION {ToSet(lists[h]) : h \in Heads}

Add(h, n) ==
  /\ n \in Unlinked /\ call' = <<"add", h, n>>
  /\ lists' = [lists EXCEPT ![h] = <<n>> \o @]

AddTail(h, n) ==
  /\ n \in Unlinked /\ call' = <<"add_tail", h, n>>
  /\ lists' = [lists EXCEPT ![h] = Append(@, n)]

Delete(h, k) ==
  /\ k \in DOMAIN lists[h] /\ call' = <<"del", lists[h][k]>>
  /\ lists' = [lists EXCEPT ![h] = RemoveAt(@, k)]

Get(h) ==
  /\ call' = <<"get", h>>
  /\ lists' = IF lists[h] = <<>> THEN lists ELSE [lists EXCEPT ![h] = RemoveAt(@, 1)]

Without(h, k) == [lists EXCEPT ![h] = RemoveAt(@, k)]

\* An item goes to the front of a list, maybe of its own, or to its end.
Move(h, k, to) ==
  /\ k \in DOMAIN lists[h] /\ call' = <<"move", lists[h][k], to>>
  /\ lists' = [Without(h, k) EXCEPT ![to] = <<lists[h][k]>> \o @]

MoveTail(h, k, to) ==
  /\ k \in DOMAIN lists[h] /\ call' = <<"move_tail", lists[h][k], to>>
  /\ lists' = [Without(h, k) EXCEPT ![to] = Append(@, lists[h][k])]

\* The first k of one list become another one, which is empty.
Cut(to, h, k) ==
  /\ to # h /\ lists[to] = <<>> /\ k \in 0 .. Len(lists[h])
  /\ call' = <<"cut", to, h, IF k = 0 THEN h ELSE lists[h][k]>>
  /\ lists' = [lists EXCEPT ![to] = SubSeq(lists[h], 1, k), ![h] = SubSeq(@, k + 1, Len(@))]

\* A list goes before another one, or behind it.
Splice(from, h) ==
  /\ from # h /\ call' = <<"splice", from, h>>
  /\ lists' = [lists EXCEPT ![from] = <<>>, ![h] = lists[from] \o @]

SpliceTail(from, h) ==
  /\ from # h /\ call' = <<"splice_tail", from, h>>
  /\ lists' = [lists EXCEPT ![from] = <<>>, ![h] = @ \o lists[from]]

\* The head of a list that has been spliced away is initialised.
Reset(h) == lists[h] = <<>> /\ call' = <<"init", h>> /\ UNCHANGED lists

Next ==
  \E h \in Heads :
    \/ Get(h) \/ Reset(h)
    \/ \E n \in Items : Add(h, n) \/ AddTail(h, n)
    \/ \E k \in DOMAIN lists[h] :
         Delete(h, k) \/ \E to \in Heads : Move(h, k, to) \/ MoveTail(h, k, to)
    \/ \E other \in Heads :
         Splice(other, h) \/ SpliceTail(other, h) \/ \E k \in 0 .. Len(lists[h]) : Cut(other, h, k)

Spec == Init /\ [][Next]_<<lists, call>>
=============================================================================
