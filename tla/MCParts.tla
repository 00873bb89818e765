------------------------------- MODULE MCParts -------------------------------
(* Instances for TLC of the parts of the library that the threads of one   *)
(* program do not share.  They have no variable in common: each behaviour  *)
(* uses one of them.                                                       *)
EXTENDS XHeap, XArray, IpcTcp, IpcUdp, XExecCmd, XFileLock, XLog, MCAlgorithms, TLC

CONSTANTS
  d1, d2, d3, d4, d5, d6, e1, e2, e3, m1, m2, m3, m4

\* Ranks with ties; e1 and e2 compare equal.
MCRank == d1 :> 1 @@ d2 :> 1 @@ d3 :> 2 @@ d4 :> 3 @@ d5 :> 4 @@ d6 :> 4
MCKeyOf == e1 :> 1 @@ e2 :> 1 @@ e3 :> 2

\* The third message is too long for the receiver.
MCLengths == <<1, 2, 3, 1>>

\* Data that are shorter than a header, as long, and longer; what they are
\* when they are taken for one.
MCLength == m1 :> 1 @@ m2 :> 2 @@ m3 :> 3 @@ m4 :> 3
MCReadAs == m1 :> 0 @@ m2 :> 2 @@ m3 :> 5 @@ m4 :> 1

MCSymmetry == Permutations({d1, d2}) \cup Permutations({d5, d6}) \cup Permutations({e1, e2})

PartsInit ==
  /\ HeapInit /\ ArrayInit /\ TcpInit /\ UdpInit /\ ExecInit /\ LockInit /\ LogInit
  /\ AlgorithmsInit
  /\ part # "array" => length = 1 /\ appendEnable

partVars == <<heapVars, arrayVars, tcpVars, udpVars, execVars, lockVars, logVars>>

HeapPart == part = "heap" /\ HeapNext
  /\ UNCHANGED <<arrayVars, tcpVars, udpVars, execVars, lockVars, logVars, algorithmVars>>
ArrayPart == part = "array" /\ ArrayNext
  /\ UNCHANGED <<heapVars, tcpVars, udpVars, execVars, lockVars, logVars, algorithmVars>>
TcpPart == part = "tcp" /\ TcpNext
  /\ UNCHANGED <<heapVars, arrayVars, udpVars, execVars, lockVars, logVars, algorithmVars>>
UdpPart == part = "udp" /\ UdpNext
  /\ UNCHANGED <<heapVars, arrayVars, tcpVars, execVars, lockVars, logVars, algorithmVars>>
ExecPart == part = "exec" /\ ExecNext
  /\ UNCHANGED <<heapVars, arrayVars, tcpVars, udpVars, lockVars, logVars, algorithmVars>>
LockPart == part = "lock" /\ LockNext
  /\ UNCHANGED <<heapVars, arrayVars, tcpVars, udpVars, execVars, logVars, algorithmVars>>
LogPart == part = "log" /\ LogNext
  /\ UNCHANGED <<heapVars, arrayVars, tcpVars, udpVars, execVars, lockVars, algorithmVars>>

PartsNext ==
  /\ \/ HeapPart \/ ArrayPart \/ TcpPart \/ UdpPart \/ ExecPart \/ LockPart \/ LogPart
     \/ AlgorithmsNext /\ UNCHANGED partVars
  /\ UNCHANGED part

vars == <<partVars, algorithmVars, part>>

PartsSpec == PartsInit /\ [][PartsNext]_vars
=============================================================================
