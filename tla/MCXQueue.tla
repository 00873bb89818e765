------------------------------ MODULE MCXQueue ------------------------------
(* Instances of XQueue for TLC. *)
EXTENDS XQueue

\* xqueue_init's argument for the default limit.
MCDefaultSize == -1
=============================================================================
