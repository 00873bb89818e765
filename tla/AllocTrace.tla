----------------------------- MODULE AllocTrace -----------------------------
(***************************************************************************)
(* src/src/xalloc.c with XALLOC_TRACER, and src/src/xtrace2.c: the blocks  *)
(* that xmalloc and its kind return are recorded in a hash table with a    *)
(* node for every site of the program that allocates.  The table is        *)
(* changed under a lock of its own, but the C library is called outside    *)
(* of it: a block is recorded after it is allocated and forgotten after it *)
(* is freed, when another thread may have it again.                        *)
(*                                                                         *)
(* The hash table is the store of items by key that XHash implements: here *)
(* a function from sites to nodes.  alloc_lock keeps its callers apart.    *)
(***************************************************************************)
EXTENDS Integers, Sequences, FiniteSets, SequencesExt

CONSTANTS
  Callers,  \* the threads that allocate and free
  Addrs,    \* the addresses of blocks
  Sites,    \* file, function and line of a call
  Free,     \* the site of a block that is free
  None,     \* no address: nothing to do
  Null,     \* the NULL pointer
  NoNode    \* the node of a site without blocks

ASSUME AllocAssumption ==
  /\ Free \notin Sites
  /\ None \notin Addrs \cup {Null}
  /\ Null \notin Addrs
ASSUME NodesAssumption == NoNode \notin Seq(Addrs)

VARIABLES
  heap,    \* the site that has allocated a block, Free if it is free
  nodes,   \* the addr_array of a site, whose length is its count
  old,     \* the block that a thread has freed and not yet forgotten
  new,     \* the block that a thread has allocated and not yet recorded
  site     \* where it has done so

allocVars == <<heap, nodes, old, new, site>>

AllocInit ==
  /\ heap = [a \in Addrs |-> Free]
  /\ nodes = [s \in Sites |-> NoNode]
  /\ old = [t \in Callers |-> None]
  /\ new = [t \in Callers |-> None]
  /\ site = [t \in Callers |-> Free]

Resting(t) == old[t] = None /\ new[t] = None

\* The call that allocated it has returned: somebody may free it.
Returned(a) == heap[a] # Free /\ \A t \in Callers : new[t] # a

-----------------------------------------------------------------------------
(* The calls of the C library, each with the hooks that follow it.         *)

\* xmalloc, xzalloc, xcalloc, xstrdup, xvsprintf, xvasprintf.  (They do not
\* return if the C library has no memory.)
Malloc(t, s) ==
  /\ Resting(t)
  /\ \E a \in Addrs :
       /\ heap[a] = Free
       /\ heap' = [heap EXCEPT ![a] = s]
       /\ new' = [new EXCEPT ![t] = a]
  /\ site' = [site EXCEPT ![t] = s]
  /\ UNCHANGED <<nodes, old>>

\* xfree.
FreeBlock(t, a) ==
  /\ Resting(t) /\ Returned(a)
  /\ heap' = [heap EXCEPT ![a] = Free]
  /\ old' = [old EXCEPT ![t] = a]
  /\ UNCHANGED <<nodes, new, site>>

\* xfree of NULL skips the C library, not the hook.
FreeNull(t) ==
  /\ Resting(t)
  /\ old' = [old EXCEPT ![t] = Null]
  /\ UNCHANGED <<heap, nodes, new, site>>

\* xrealloc in place or to another address; the hooks follow for both.
Realloc(t, a, s) ==
  /\ Resting(t) /\ Returned(a)
  /\ \E b \in Addrs :
       /\ b = a \/ heap[b] = Free
       /\ heap' = [heap EXCEPT ![a] = Free, ![b] = s]
       /\ new' = [new EXCEPT ![t] = b]
  /\ old' = [old EXCEPT ![t] = a]
  /\ site' = [site EXCEPT ![t] = s]
  /\ UNCHANGED nodes

-----------------------------------------------------------------------------
(* The hooks, in alloc_lock. *)

InsertNode(a, s) ==
  nodes' = [nodes EXCEPT ![s] = IF @ = NoNode THEN <<a>> ELSE Append(@, a)]

InsertHook(t) ==
  /\ old[t] = None /\ new[t] # None
  /\ InsertNode(new[t], site[t])
  /\ new' = [new EXCEPT ![t] = None]
  /\ site' = [site EXCEPT ![t] = Free]
  /\ UNCHANGED <<heap, old>>

Recorded(a) == {s \in Sites : nodes[s] # NoNode /\ a \in ToSet(nodes[s])}

\* Mutant: the last address is dropped, and this one stays.
WithoutUnswapped(addrs, a) == Front(addrs)

\* The address is overwritten by the last one, which is dropped.
Without(addrs, a) ==
  Front([addrs EXCEPT ![SelectInSeq(addrs, LAMBDA b : b = a)] = Last(addrs)])

\* Mutant: a node stays in the table when its last address goes.
RemoveNodeKept(a, s) == nodes' = [nodes EXCEPT ![s] = Without(@, a)]

RemoveNode(a, s) ==
  nodes' = [nodes EXCEPT ![s] = IF Len(@) = 1 THEN NoNode ELSE Without(@, a)]

\* The first node in the order of the table that has the address: if several
\* have it, any may be the first.
RemoveHook(t) ==
  /\ \E s \in Recorded(old[t]) : RemoveNode(old[t], s)
  /\ old' = [old EXCEPT ![t] = None]
  /\ UNCHANGED <<heap, new, site>>

\* "shouldn't happen, can't find addr %p while do free!"
RemoveHookFails(t) ==
  /\ old[t] # None /\ Recorded(old[t]) = {}
  /\ old' = [old EXCEPT ![t] = None]
  /\ UNCHANGED <<heap, nodes, new, site>>

AllocNext ==
  \E t \in Callers :
    \/ \E s \in Sites : Malloc(t, s)
    \/ \E a \in Addrs :
         \/ FreeBlock(t, a)
         \/ \E s \in Sites : Realloc(t, a, s)
    \/ FreeNull(t)
    \/ InsertHook(t)
    \/ RemoveHook(t)
    \/ RemoveHookFails(t)

AllocSpec == AllocInit /\ [][AllocNext]_allocVars

-----------------------------------------------------------------------------
(* Properties *)

\* Every field keeps its type; a node in the table has a block, which
\* alloc_node_find_byaddr and alloc_node_remove_addr assert (xtrace2.c).
AllocTypeOK ==
  /\ heap \in [Addrs -> Sites \cup {Free}]
  /\ DOMAIN nodes = Sites
  /\ \A s \in Sites : nodes[s] # NoNode => nodes[s] \in Seq(Addrs) /\ nodes[s] # <<>>
  /\ old \in [Callers -> Addrs \cup {None, Null}]
  /\ new \in [Callers -> Addrs \cup {None}]
  /\ site \in [Callers -> Sites \cup {Free}]

RecordsOf(a) ==
  UNION {{<<s, n>> : n \in {m \in 1 .. Len(nodes[s]) : nodes[s][m] = a}} :
         s \in Recorded(a)}
Forgetting(a) == {t \in Callers : old[t] = a}
Recording(a) == {t \in Callers : new[t] = a}

\* The report of leaks (xalloc_hash_show at exit) has every block that is
\* allocated and no other: an address is recorded once if it is live, once
\* more for every thread that has freed it and is still to forget it, and
\* once less while the thread that has it now is still to record it.
RecordsBalance ==
  \A a \in Addrs :
    Cardinality(RecordsOf(a)) + Cardinality(Recording(a)) =
      Cardinality(Forgetting(a)) + (IF heap[a] = Free THEN 0 ELSE 1)

\* "shouldn't happen, can't find addr" (xtrace2.c, alloc_node_remove2): a block
\* that is freed or moved is found, also when another thread has got its
\* address and has recorded or forgotten that in between.
FreesAreFound == \A t \in Callers : old[t] \in Addrs => Recorded(old[t]) # {}

\* Every live block is recorded and found when it is freed (xtrace2.c).
BlocksAreRecorded == RecordsBalance /\ FreesAreFound

=============================================================================
