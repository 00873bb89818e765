----------------------------- MODULE KeyedStore -----------------------------
(***************************************************************************)
(* What a hash table of src/src/xhash.c promises to its callers: at most   *)
(* one item per key, which the store owns until it is deleted, replaced or *)
(* released to the caller, and answers that are right when they are given. *)
(***************************************************************************)
CONSTANTS Keys, Items, Callers, NoItem, KeyOf(_), SameOther(_, _)

VARIABLES
  store,  \* the item of every key, NoItem if there is none
  answer  \* what the last operation of every caller found or left there

storeVars == <<store, answer>>

Init ==
  /\ store = [k \in Keys |-> NoItem]
  /\ answer = [c \in Callers |-> NoItem]

Answer(c, item) == answer' = [answer EXCEPT ![c] = item]

Get(c, k) ==
  /\ Answer(c, store[k])
  /\ UNCHANGED store

\* An item that differs in nothing from the one of its key is not taken.
Put(c, item) ==
  LET old   == store[KeyOf(item)]
      taken == IF old # NoItem /\ SameOther(old, item) THEN old ELSE item
  IN  /\ store' = [store EXCEPT ![KeyOf(item)] = taken]
      /\ Answer(c, taken)

Remove(c, k) ==
  /\ store' = [store EXCEPT ![k] = NoItem]
  /\ Answer(c, store[k])

Clean ==
  /\ store' = [k \in Keys |-> NoItem]
  /\ UNCHANGED answer

Next ==
  \/ Clean
  \/ \E c \in Callers :
       \/ \E k \in Keys : Get(c, k) \/ Remove(c, k)
       \/ \E item \in Items : Put(c, item)

Spec == Init /\ [][Next]_storeVars
=============================================================================
