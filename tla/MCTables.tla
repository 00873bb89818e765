------------------------------- MODULE MCTables -------------------------------
(* Instances for TLC of the two tables that threads share, and of the lists *)
(* that the parts of the library link their objects in.  They have no       *)
(* variable in common: each behaviour uses one of them.                     *)
EXTENDS MCXHash, AllocTrace, XList

CONSTANTS h1, h2, n1, n2, n3
VARIABLE table

vars == <<hashVars, allocVars, listVars, table>>

MCSymmetry ==
  Permutations(Buckets) \cup Permutations(Threads) \cup Permutations(Callers)

TablesInit == HashInit /\ AllocInit /\ ListInit /\ table \in {"hash", "allocations", "lists"}

HashPart == table = "hash" /\ HashNext /\ UNCHANGED <<allocVars, listVars>>
AllocPart == table = "allocations" /\ AllocNext /\ UNCHANGED <<hashVars, listVars>>
ListPart == table = "lists" /\ ListNext /\ UNCHANGED <<hashVars, allocVars>>

TablesNext == (HashPart \/ AllocPart \/ ListPart) /\ UNCHANGED table

\* Both tables keep the types of their fields.
TablesTypeOK == HashTypeOK /\ AllocTypeOK

\* ListsAreLinked of XList, in the behaviours that use the lists (xlist.h:23-319,
\* list.h:25-87).
ListsHold == table = "lists" => ListsAreLinked

\* ImplementsLists of XList, in them: each call changes the sequences of the
\* heads as ListStore says of a call of its name and arguments, and nothing
\* else changes them (xlist.h:55-319).
CallsChangeSequences ==
  /\ ListsPromise!Init
  /\ [][table = "lists" => ListsPromise!Next \/ UNCHANGED <<AsSequences, call>>]_vars

TablesSpec == TablesInit /\ [][TablesNext]_vars
=============================================================================
