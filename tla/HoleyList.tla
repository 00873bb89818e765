----------------------------- MODULE HoleyList -----------------------------
(***************************************************************************)
(* What an array of src/src/xarray.c promises: a list with holes, which    *)
(* reaches to the last place that was set and closes up when an element is *)
(* removed; and what each call and its result mean for it.                 *)
(***************************************************************************)
EXTENDS Integers, Sequences, SequencesExt

CONSTANTS
  Elements, Hole, KeyOf,
  Places, \* what may be set and removed
  Sizes   \* of the array, as a call that changes it says

VARIABLES
  list,
  call    \* the last call, its arguments and its result

Init == list = <<>> /\ call = <<"none">>

Taken(n) == n \in DOMAIN list /\ list[n] # Hole

\* The list is filled up with holes if n is behind its end.  Only the call that
\* forces it may put an element in the place of another one.
Set(n, e) ==
  /\ call' = <<"fset", n, e, 0>> \/ (call' = <<"set", n, e, 0>> /\ ~ Taken(n))
  /\ list' = [m \in 1 .. (IF n > Len(list) THEN n ELSE Len(list)) |->
                IF m = n THEN e ELSE IF m \in DOMAIN list THEN list[m] ELSE Hole]

\* A call that fails has changed nothing.  To force a place that is taken does
\* not fail.
SetFails(n, e) ==
  /\ call' = <<"set", n, e, -1>> \/ (call' = <<"fset", n, e, -1>> /\ ~ Taken(n))
  /\ UNCHANGED list

RemoveIndex(n) == n \in DOMAIN list /\ call' = <<"remove", n, list[n]>> /\ list' = RemoveAt(list, n)

NoneToRemove(n) == ~ Taken(n) /\ call' = <<"remove", n, Hole>> /\ UNCHANGED list

Equal(e) == {n \in DOMAIN list : list[n] # Hole /\ KeyOf[list[n]] = KeyOf[e]}

RemoveData(e) ==
  \/ \E n \in Equal(e) :
       /\ \A m \in Equal(e) : n <= m
       /\ call' = <<"remove_data", e, 0>> /\ list' = RemoveAt(list, n)
  \/ Equal(e) = {} /\ call' = <<"remove_data", e, -1>> /\ UNCHANGED list

\* What is behind the end of a shorter array is lost.
Resize(n) ==
  /\ call' = <<"append", n>>
  /\ list' = IF n = 0 THEN <<>>
             ELSE [m \in 1 .. Len(list) |-> IF m <= n THEN list[m] ELSE Hole]

ResizeFails == call' = <<"append", -1>> /\ UNCHANGED list

Next ==
  \/ \E n \in Places, e \in Elements \cup {Hole} : Set(n, e) \/ SetFails(n, e)
  \/ \E n \in Places : RemoveIndex(n) \/ NoneToRemove(n)
  \/ \E e \in Elements : RemoveData(e)
  \/ \E n \in Sizes : Resize(n)
  \/ ResizeFails

Spec == Init /\ [][Next]_<<list, call>>
=============================================================================
