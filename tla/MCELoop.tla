------------------------------- MODULE MCELoop -------------------------------
(* Instances of ELoop for TLC. *)
EXTENDS ELoop

CONSTANTS
  h, x  \* a handler and its data

MCKeys == {<<h, x, x>>}

FairSpec == Spec /\ Fairness
=============================================================================
