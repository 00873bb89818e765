------------------------------- MODULE XHeap -------------------------------
(***************************************************************************)
(* src/src/xheap.c: a binary heap of pointers in an array that grows.  One *)
(* thread uses it.  The two loops that move the hole to the place of an    *)
(* item, xheap_shift_up and xheap_shift_down, are taken step by step.      *)
(***************************************************************************)
EXTENDS Integers

CONSTANTS
  Items,         \* what can be pushed: pointers, each at most once in the heap
  Rank,          \* what heap_cmp compares, not injective
  DefaultSlots,  \* XHEAP_DEFAULT_SLOTS
  Nothing        \* NULL

ASSUME HeapAssumption ==
  /\ Rank \in [Items -> Int]
  /\ DefaultSlots \in Nat \ {0}
  /\ Nothing \notin Items

VARIABLES
  slots,   \* heap->slots, from 0; a slot that is not used keeps what it had
  slotsN,  \* heap->size
  used,    \* heap->used
  loop,    \* "up" or "down" in one of the loops, "lost" without slots, else "idle"
  hole,    \* hole_index
  moved,   \* the parameter data of the loops
  popped   \* what the last xheap_pop has returned, or is going to

heapVars == <<slots, slotsN, used, loop, hole, moved, popped>>

HeapInit ==
  /\ slots = [i \in 0 .. DefaultSlots - 1 |-> Nothing]
  /\ slotsN = DefaultSlots
  /\ used = 0
  /\ loop = "idle"
  /\ hole = 0
  /\ moved = Nothing
  /\ popped = Nothing

InUse == {slots[i] : i \in 0 .. used - 1}

Parent(i) == (i - 1) \div 2

\* d goes into the hole, which is the place for it.
Fill == slots' = [slots EXCEPT ![hole] = moved]
\* i goes into the hole, and leaves one.
MoveInto(i) ==
  /\ slots' = [slots EXCEPT ![hole] = slots[i]]
  /\ hole' = i
  /\ UNCHANGED <<slotsN, used, loop, moved, popped>>

-----------------------------------------------------------------------------
(* xheap_push *)

StartUp(d) ==
  /\ loop' = "up"
  /\ hole' = used
  /\ moved' = d
  /\ UNCHANGED <<used, popped>>

\* Mutant: an array that is full does not grow.
PushUnchecked(d) ==
  /\ loop = "idle" /\ d \notin InUse
  /\ StartUp(d)
  /\ UNCHANGED <<slots, slotsN>>

Push(d) ==
  /\ loop = "idle" /\ d \notin InUse
  /\ used < slotsN
  /\ StartUp(d)
  /\ UNCHANGED <<slots, slotsN>>

PushGrowing(d) ==
  /\ loop = "idle" /\ d \notin InUse
  /\ used >= slotsN
  /\ slotsN' = slotsN * 2
  \* realloc: what is new may be anything, and is not read
  /\ slots' = [i \in 0 .. slotsN * 2 - 1 |-> IF i < slotsN THEN slots[i] ELSE Nothing]
  /\ StartUp(d)

\* realloc fails: its result, NULL, replaces the slots and all that is in them.
PushLosing(d) ==
  /\ loop = "idle" /\ d \notin InUse
  /\ used >= slotsN
  /\ slotsN' = slotsN * 2
  /\ loop' = "lost"
  /\ UNCHANGED <<slots, used, hole, moved, popped>>

\* heap_cmp(slots[parent], data) > 0
ParentIsGreater == hole # 0 /\ Rank[slots[Parent(hole)]] > Rank[moved]

Up ==
  /\ loop = "up" /\ ParentIsGreater
  /\ MoveInto(Parent(hole))

UpDone ==
  /\ loop = "up" /\ ~ ParentIsGreater
  /\ Fill
  /\ used' = used + 1
  /\ loop' = "idle" /\ moved' = Nothing /\ hole' = 0
  /\ UNCHANGED <<slotsN, popped>>

-----------------------------------------------------------------------------
(* xheap_pop *)

Pop ==
  /\ loop = "idle" /\ used # 0
  /\ popped' = slots[0]
  /\ loop' = "down"
  /\ hole' = 0
  /\ moved' = slots[used - 1]
  /\ UNCHANGED <<slots, slotsN, used>>

\* The last one counts as a child: it is the one that is moved.
HaveChild == 2 * (hole + 1) <= used - 1

\* Mutant: the right child, whatever the left one is.
MinChildRight == 2 * (hole + 1)

MinChild ==
  LET right == 2 * (hole + 1)
  IN  IF Rank[slots[right]] > Rank[slots[right - 1]] THEN right - 1 ELSE right

\* heap_cmp(data, slots[min_child]) > 0
ChildIsLess == HaveChild /\ Rank[moved] > Rank[slots[MinChild]]

Down ==
  /\ loop = "down" /\ ChildIsLess
  /\ MoveInto(MinChild)

\* Mutant: heap->used stays.
DownDoneUncounted ==
  /\ loop = "down" /\ ~ ChildIsLess
  /\ Fill
  /\ loop' = "idle" /\ moved' = Nothing /\ hole' = 0
  /\ UNCHANGED <<slotsN, used, popped>>

DownDone ==
  /\ loop = "down" /\ ~ ChildIsLess
  /\ Fill
  /\ used' = used - 1
  /\ loop' = "idle" /\ moved' = Nothing /\ hole' = 0
  /\ UNCHANGED <<slotsN, popped>>

\* xheap_destroy, and a new heap.
Destroy ==
  /\ loop = "idle"
  /\ slots' = [i \in 0 .. DefaultSlots - 1 |-> Nothing]
  /\ slotsN' = DefaultSlots
  /\ used' = 0
  /\ UNCHANGED <<loop, hole, moved, popped>>

HeapNext ==
  \/ \E d \in Items : Push(d) \/ PushGrowing(d) \/ PushLosing(d)
  \/ Up \/ UpDone
  \/ Pop \/ Down \/ DownDone
  \/ Destroy

HeapSpec == HeapInit /\ [][HeapNext]_heapVars

-----------------------------------------------------------------------------
(* Properties *)

\* Every field keeps its type, and what is used is in the array.
HeapTypeOK ==
  /\ slotsN \in Nat \ {0}
  /\ slots \in [DOMAIN slots -> Items \cup {Nothing}]
  /\ loop # "lost" => DOMAIN slots = 0 .. slotsN - 1
  /\ used \in 0 .. slotsN
  /\ loop \in {"idle", "up", "down", "lost"}
  /\ hole \in Nat
  /\ moved \in Items \cup {Nothing}
  /\ popped \in Items \cup {Nothing}

ChildrenOf(i) == {2 * i + 1, 2 * i + 2}

\* Between the calls no item is less than its parent, with ties and after
\* every mixture of xheap_push and xheap_pop.
HeapOrder ==
  loop = "idle" =>
    \A i \in 0 .. used - 1 : \A c \in ChildrenOf(i) :
      c < used => Rank[slots[i]] <= Rank[slots[c]]

\* The slots that hold an item which is neither in flight nor returned.
Active ==
  IF loop = "up" THEN (0 .. used) \ {hole}
  ELSE IF loop = "down" THEN (0 .. used - 1) \ {hole} ELSE 0 .. used - 1

\* The items in the heap, the one in the hands of xheap_shift_up not yet, and
\* the one that xheap_pop is to return no more.
Held == {slots[i] : i \in Active}
HeapPromise == INSTANCE PriorityBag WITH held <- Held

\* The heap loses no item, has none twice, and xheap_pop returns a least one.
ImplementsBag == HeapPromise!Spec

-----------------------------------------------------------------------------
(* The inductive invariant behind them. *)

\* Where the hole may be, and what moves.
HoleInv ==
  /\ loop = "up" => used < slotsN /\ hole \in 0 .. used /\ moved \in Items
  /\ loop = "down" => /\ used # 0 /\ hole \in 0 .. used - 1
                      /\ moved \in Items /\ slots[used - 1] = moved
                      /\ popped \in Items

\* No item is twice in the heap.
DistinctInv ==
  /\ \A i \in Active : slots[i] \in Items
  /\ \A i, j \in Active : slots[i] = slots[j] => i = j
  /\ loop = "up" => \A i \in Active : slots[i] # moved
  /\ loop = "down" => \A i \in Active : slots[i] # popped

\* The order holds around the hole and across it, and what moves may go there.
OrderInv ==
  /\ \A i \in Active : \A c \in ChildrenOf(i) \cap Active : Rank[slots[i]] <= Rank[slots[c]]
  /\ loop \in {"up", "down"} /\ hole # 0 =>
       \A c \in ChildrenOf(hole) \cap Active : Rank[slots[Parent(hole)]] <= Rank[slots[c]]
  /\ loop = "up" => \A c \in ChildrenOf(hole) \cap Active : Rank[moved] <= Rank[slots[c]]
  /\ loop = "down" /\ hole # 0 => Rank[slots[Parent(hole)]] <= Rank[moved]

HeapInv == HeapTypeOK /\ (loop # "lost" => HoleInv /\ DistinctInv /\ OrderInv)
=============================================================================
