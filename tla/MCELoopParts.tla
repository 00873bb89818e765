---------------------------- MODULE MCELoopParts ----------------------------
(* ELoop with programs that use one part of the loop each.  The parts only  *)
(* meet in eloop_run: taken one by one, instances with many calls can be    *)
(* checked.                                                                 *)
EXTENDS ELoop, TLC

CONSTANTS
  h1, h2, x, y,          \* two handlers and two values of their data
  read, write, exception \* the values of Types

\* One handler with two values of eloop_data, and another handler.
MCKeys == {<<h1, x, x>>, <<h1, y, x>>, <<h2, x, x>>}

\* No code distinguishes one of the tables from another.
TypeSymmetry == Permutations({read, write, exception})

VARIABLE part

PartsInit == Init /\ part \in {"socks", "timeouts", "signals"}

SocksPart ==
  /\ part = "socks" /\ SockNext
  /\ UNCHANGED <<timeoutVars, signalVars, loopVars>>
TimeoutsPart ==
  /\ part = "timeouts" /\ TimeoutNext
  /\ UNCHANGED <<sockVars, signalVars, loopVars>>
SignalsPart ==
  /\ part = "signals" /\ SignalNext
  /\ UNCHANGED <<sockVars, timeoutVars, loopVars>>

PartsNext == (SocksPart \/ TimeoutsPart \/ SignalsPart) /\ UNCHANGED part

PartsSpec == PartsInit /\ [][PartsNext]_<<vars, part>>
=============================================================================
