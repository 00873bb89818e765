----------------------------- MODULE XHeapProofs -----------------------------
(***************************************************************************)
(* Proofs about XHeap, for every set of items, order and initial size: the *)
(* heap is always ordered, and it implements a bag from which a least item *)
(* is taken.                                                               *)
(***************************************************************************)
EXTENDS XHeap, WellFoundedInduction, TLAPS

\* The index arithmetic of PARENT_OF, LEFT_OF and RIGHT_OF.
LEMMA ParentOfChild ==
  ASSUME NEW p \in Nat, NEW c \in ChildrenOf(p)
  PROVE  c \in Nat /\ c > p /\ Parent(c) = p
BY DEF ChildrenOf, Parent

LEMMA ChildOfParent ==
  ASSUME NEW c \in Nat, c # 0
  PROVE  Parent(c) \in Nat /\ Parent(c) < c /\ c \in ChildrenOf(Parent(c))
BY DEF ChildrenOf, Parent

\* A new heap has no items and no hole.
LEMMA InitInv == HeapInit => HeapInv
BY HeapAssumption DEF HeapInit, HeapInv, HeapTypeOK, HoleInv, DistinctInv, OrderInv, Active

\* A push starts with a hole behind the items, in an array that is the same up to there.
LEMMA StartUpStep ==
  ASSUME HeapInv, NEW d \in Items, Push(d) \/ PushGrowing(d)
  PROVE  /\ loop = "idle" /\ loop' = "up" /\ hole' = used /\ moved' = d
         /\ used' = used /\ popped' = popped /\ d \notin InUse
         /\ used < slotsN' /\ slotsN' \in Nat \ {0}
         /\ slots' \in [0 .. slotsN' - 1 -> Items \cup {Nothing}]
         /\ \A i \in 0 .. used - 1 : slots'[i] = slots[i]
         /\ Active = 0 .. used - 1 /\ Active' = Active
<1>1. /\ loop = "idle" /\ loop' = "up" /\ hole' = used /\ moved' = d
      /\ used' = used /\ popped' = popped /\ d \notin InUse
      /\ used < slotsN' /\ slotsN' \in Nat \ {0}
      /\ slots' \in [0 .. slotsN' - 1 -> Items \cup {Nothing}]
      /\ \A i \in 0 .. used - 1 : slots'[i] = slots[i]
  BY DEF HeapInv, HeapTypeOK, Push, PushGrowing, StartUp
<1>2. Active = 0 .. used - 1 /\ Active' = Active
  BY <1>1 DEF Active, HeapInv, HeapTypeOK
<1> QED
  BY <1>1, <1>2

\* Behind the items the hole has no child: no order is disturbed.
LEMMA StartUpInv ==
  ASSUME HeapInv, NEW d \in Items, Push(d) \/ PushGrowing(d)
  PROVE  HeapInv'
<1>1. Active = 0 .. used - 1 /\ Active' = Active /\ used \in Nat
  BY StartUpStep DEF HeapInv, HeapTypeOK
<1>2. HeapTypeOK'
  BY StartUpStep, <1>1 DEF HeapInv, HeapTypeOK
<1>3. HoleInv'
  BY StartUpStep, <1>1 DEF HoleInv
<1>4. DistinctInv'
  BY StartUpStep, <1>1 DEF DistinctInv, HeapInv, InUse
<1>5. \A c \in ChildrenOf(used) : c \notin Active
  BY <1>1, ParentOfChild
<1>6. OrderInv'
  <2>1. \A i \in Active : \A c \in ChildrenOf(i) \cap Active : Rank[slots'[i]] <= Rank[slots'[c]]
    BY StartUpStep, <1>1 DEF OrderInv, HeapInv
  <2> QED
    BY StartUpStep, <1>1, <1>5, <2>1 DEF OrderInv, ChildrenOf
<1> QED
  BY <1>2, <1>3, <1>4, <1>6 DEF HeapInv

\* The hole at the top has no parent: the order of the others remains.
LEMMA PopInv ==
  ASSUME HeapInv, Pop
  PROVE  HeapInv'
<1>1. /\ loop = "idle" /\ loop' = "down" /\ hole' = 0 /\ used # 0
      /\ moved' = slots[used - 1] /\ popped' = slots[0]
      /\ UNCHANGED <<slots, slotsN, used>>
  BY DEF Pop
<1>2. Active = 0 .. used - 1 /\ Active' = Active \ {0} /\ used \in Nat \ {0}
  BY <1>1 DEF Active, HeapInv, HeapTypeOK
<1>3. slots[0] \in Items /\ slots[used - 1] \in Items
  BY <1>1, <1>2 DEF HeapInv, DistinctInv
<1>4. HeapTypeOK'
  BY <1>1, <1>2, <1>3 DEF HeapInv, HeapTypeOK
<1>5. HoleInv'
  BY <1>1, <1>2, <1>3 DEF HoleInv
<1>6. DistinctInv'
  BY <1>1, <1>2 DEF DistinctInv, HeapInv
<1>7. OrderInv'
  BY <1>1, <1>2 DEF OrderInv, HeapInv
<1> QED
  BY <1>4, <1>5, <1>6, <1>7 DEF HeapInv

-----------------------------------------------------------------------------
(* xheap_shift_up *)

\* A parent that goes down is not greater than what is below it, and greater than the item.
LEMMA UpInv ==
  ASSUME HeapInv, Up
  PROVE  HeapInv'
<1> DEFINE p == Parent(hole)
<1>1. /\ loop = "up" /\ loop' = "up" /\ hole # 0 /\ Rank[slots[p]] > Rank[moved]
      /\ slots' = [slots EXCEPT ![hole] = slots[p]] /\ hole' = p
      /\ UNCHANGED <<slotsN, used, moved, popped>>
  BY DEF Up, ParentIsGreater, MoveInto
<1>2. /\ used \in Nat /\ used < slotsN /\ hole \in 0 .. used /\ moved \in Items
      /\ DOMAIN slots = 0 .. slotsN - 1
      /\ Active = (0 .. used) \ {hole} /\ Active' = (0 .. used) \ {p}
  BY <1>1 DEF HeapInv, HeapTypeOK, HoleInv, Active
<1>3. p \in Active /\ p < hole /\ p \in Nat /\ hole \in ChildrenOf(p)
  BY <1>1, <1>2, ChildOfParent
<1>4. /\ \A i \in Active : slots[i] \in Items /\ Rank[slots[i]] \in Int
      /\ Rank[moved] \in Int
  BY <1>1, <1>2, HeapAssumption DEF HeapInv, DistinctInv
<1>5. /\ slots'[hole] = slots[p]
      /\ \A i \in (0 .. used) \ {hole} : slots'[i] = slots[i]
  BY <1>1, <1>2 DEF HeapInv, HeapTypeOK
<1>6. HeapTypeOK'
  BY <1>1, <1>2, <1>3, <1>4 DEF HeapInv, HeapTypeOK
<1>7. HoleInv'
  BY <1>1, <1>2, <1>3 DEF HoleInv
<1>8. DistinctInv'
  BY <1>1, <1>2, <1>3, <1>5 DEF DistinctInv, HeapInv
<1>9. OrderInv'
  <2>1. \A c \in ChildrenOf(p) : c # p /\ (c # 0 => Parent(c) = p)
    BY <1>3, ParentOfChild
  <2>2. ASSUME NEW i \in Active', NEW c \in ChildrenOf(i) \cap Active'
        PROVE  Rank[slots'[i]] <= Rank[slots'[c]]
    <3>1. c > i /\ Parent(c) = i
      BY <1>2, <2>2, ParentOfChild
    <3>2. CASE i = hole
      BY <1>1, <1>2, <1>5, <2>2, <3>1, <3>2 DEF OrderInv, HeapInv
    <3>3. CASE i # hole /\ c # hole
      BY <1>1, <1>2, <1>5, <2>2, <3>3 DEF OrderInv, HeapInv
    <3>4. CASE c = hole
      BY <1>2, <2>2, <3>1, <3>4
    <3> QED
      BY <3>2, <3>3, <3>4
  <2>3. ASSUME NEW c \in ChildrenOf(p) \cap Active'
        PROVE  Rank[slots'[c]] >= Rank[slots[p]] /\ Rank[slots'[c]] \in Int
    <3>1. CASE c = hole
      BY <1>3, <1>4, <1>5, <3>1
    <3>2. CASE c # hole
      BY <1>1, <1>2, <1>3, <1>4, <1>5, <2>3, <3>2 DEF OrderInv, HeapInv
    <3> QED
      BY <3>1, <3>2
  <2>4. ASSUME p # 0
        PROVE  /\ Parent(p) \in Active /\ Parent(p) # hole /\ Parent(p) # p
               /\ Rank[slots[Parent(p)]] <= Rank[slots[p]]
    <3>1. Parent(p) \in Active /\ Parent(p) # p /\ p \in ChildrenOf(Parent(p))
      BY <1>2, <1>3, <2>4, ChildOfParent
    <3> QED
      BY <1>1, <1>2, <1>3, <3>1 DEF OrderInv, HeapInv
  <2>5. \A c \in ChildrenOf(p) \cap Active' : Rank[moved] <= Rank[slots'[c]]
    BY <1>1, <1>3, <1>4, <2>3
  <2>6. p # 0 => \A c \in ChildrenOf(p) \cap Active' :
                   Rank[slots'[Parent(p)]] <= Rank[slots'[c]]
    <3> SUFFICES ASSUME p # 0, NEW c \in ChildrenOf(p) \cap Active'
                 PROVE  Rank[slots'[Parent(p)]] <= Rank[slots'[c]]
      OBVIOUS
    <3>1. slots'[Parent(p)] = slots[Parent(p)]
      BY <1>2, <1>5, <2>4
    <3>2. Rank[slots[Parent(p)]] \in Int /\ Rank[slots[p]] \in Int
      BY <1>3, <1>4, <2>4
    <3> QED
      BY <2>3, <2>4, <3>1, <3>2
  <2> QED
    BY <1>1, <2>2, <2>5, <2>6 DEF OrderInv
<1> QED
  BY <1>1, <1>6, <1>7, <1>8, <1>9 DEF HeapInv

\* The hole is the place: the parent is not greater than the item, the children are.
LEMMA UpDoneInv ==
  ASSUME HeapInv, UpDone
  PROVE  HeapInv'
<1>1. /\ loop = "up" /\ loop' = "idle" /\ used' = used + 1 /\ hole' = 0 /\ moved' = Nothing
      /\ ~ ParentIsGreater /\ slots' = [slots EXCEPT ![hole] = moved]
      /\ UNCHANGED <<slotsN, popped>>
  BY DEF UpDone, Fill
<1>2. /\ used \in Nat /\ used < slotsN /\ hole \in 0 .. used /\ moved \in Items
      /\ DOMAIN slots = 0 .. slotsN - 1 /\ slotsN \in Nat
      /\ Active = (0 .. used) \ {hole}
  BY <1>1 DEF HeapInv, HeapTypeOK, HoleInv, Active
<1>3. Active' = 0 .. used
  BY <1>1, <1>2 DEF Active
<1>4. /\ \A i \in Active : slots[i] \in Items /\ Rank[slots[i]] \in Int
      /\ Rank[moved] \in Int
  BY <1>1, <1>2, HeapAssumption DEF HeapInv, DistinctInv
<1>5. /\ slots'[hole] = moved
      /\ \A i \in Active : slots'[i] = slots[i]
  BY <1>1, <1>2 DEF HeapInv, HeapTypeOK
<1>6. HeapTypeOK'
  BY <1>1, <1>2 DEF HeapInv, HeapTypeOK
<1>7. HoleInv'
  BY <1>1 DEF HoleInv
<1>8. DistinctInv'
  BY <1>1, <1>2, <1>3, <1>5 DEF DistinctInv, HeapInv
<1>9. OrderInv'
  <2>1. ASSUME NEW i \in Active', NEW c \in ChildrenOf(i) \cap Active'
        PROVE  Rank[slots'[i]] <= Rank[slots'[c]]
    <3>1. c > i /\ Parent(c) = i /\ c \in Nat
      BY <1>3, <2>1, ParentOfChild
    <3>2. CASE c = hole
      BY <1>1, <1>2, <1>3, <1>4, <1>5, <2>1, <3>1, <3>2 DEF ParentIsGreater
    <3>3. CASE i = hole
      BY <1>1, <1>2, <1>3, <1>5, <2>1, <3>1, <3>3 DEF OrderInv, HeapInv
    <3>4. CASE i # hole /\ c # hole
      BY <1>1, <1>2, <1>3, <1>5, <2>1, <3>4 DEF OrderInv, HeapInv
    <3> QED
      BY <3>2, <3>3, <3>4
  <2> QED
    BY <1>1, <2>1 DEF OrderInv
<1> QED
  BY <1>6, <1>7, <1>8, <1>9 DEF HeapInv

-----------------------------------------------------------------------------
(* xheap_shift_down *)

\* The child that goes up is in the heap and not greater than the other one.
\* It is not the item that moves, which is the last one.
LEMMA MinChildIsLeast ==
  ASSUME HeapInv, loop = "down", HaveChild
  PROVE  /\ MinChild \in ChildrenOf(hole) \cap Active
         /\ ChildrenOf(hole) \subseteq Active
         /\ \A c \in ChildrenOf(hole) : Rank[slots[MinChild]] <= Rank[slots[c]]
         /\ ChildIsLess => MinChild # used - 1
<1>1. /\ used \in Nat \ {0} /\ hole \in 0 .. used - 1
      /\ Active = (0 .. used - 1) \ {hole} /\ slots[used - 1] = moved
  BY DEF HeapInv, HeapTypeOK, HoleInv, Active
<1>2. ChildrenOf(hole) = {2 * (hole + 1) - 1, 2 * (hole + 1)}
  BY <1>1 DEF ChildrenOf
<1>3. 2 * (hole + 1) \in Active /\ 2 * (hole + 1) - 1 \in Active
  BY <1>1 DEF HaveChild
<1>4. \A i \in Active : Rank[slots[i]] \in Int
  BY HeapAssumption DEF HeapInv, DistinctInv
<1>5. MinChild \in ChildrenOf(hole)
  BY <1>2 DEF MinChild
<1>6. \A c \in ChildrenOf(hole) : Rank[slots[MinChild]] <= Rank[slots[c]]
  BY <1>2, <1>3, <1>4 DEF MinChild
<1> QED
  BY <1>1, <1>2, <1>3, <1>4, <1>5, <1>6 DEF ChildIsLess

\* The least child that goes up is not less than the parent and not greater than its sibling.
LEMMA DownInv ==
  ASSUME HeapInv, Down
  PROVE  HeapInv'
<1> DEFINE m == MinChild
<1>1. /\ loop = "down" /\ loop' = "down" /\ HaveChild /\ ChildIsLess
      /\ Rank[moved] > Rank[slots[m]]
      /\ slots' = [slots EXCEPT ![hole] = slots[m]] /\ hole' = m
      /\ UNCHANGED <<slotsN, used, moved, popped>>
  BY DEF Down, ChildIsLess, MoveInto
<1>2. /\ used \in Nat \ {0} /\ used <= slotsN /\ hole \in 0 .. used - 1 /\ moved \in Items
      /\ DOMAIN slots = 0 .. slotsN - 1 /\ slots[used - 1] = moved /\ popped \in Items
      /\ Active = (0 .. used - 1) \ {hole} /\ Active' = (0 .. used - 1) \ {m}
  BY <1>1 DEF HeapInv, HeapTypeOK, HoleInv, Active
<1>3. /\ m \in ChildrenOf(hole) /\ m \in Active /\ m # used - 1
      /\ \A c \in ChildrenOf(hole) : Rank[slots[m]] <= Rank[slots[c]]
  BY <1>1, MinChildIsLeast
<1>4. m \in Nat /\ m > hole /\ Parent(m) = hole /\ hole # used - 1
  BY <1>2, <1>3, ParentOfChild
<1>5. /\ slots'[hole] = slots[m]
      /\ \A i \in Active : slots'[i] = slots[i]
  BY <1>1, <1>2 DEF HeapInv, HeapTypeOK
<1>6. \A i \in Active : slots[i] \in Items /\ Rank[slots[i]] \in Int
  BY <1>1, HeapAssumption DEF HeapInv, DistinctInv
<1>7. HeapTypeOK'
  BY <1>1, <1>2, <1>3, <1>4, <1>6 DEF HeapInv, HeapTypeOK
<1>8. HoleInv'
  BY <1>1, <1>2, <1>3, <1>4, <1>5 DEF HoleInv
<1>9. DistinctInv'
  BY <1>1, <1>2, <1>3, <1>5 DEF DistinctInv, HeapInv
<1>10. OrderInv'
  <2>1. ASSUME NEW i \in Active', NEW c \in ChildrenOf(i) \cap Active'
        PROVE  Rank[slots'[i]] <= Rank[slots'[c]]
    <3>1. c > i /\ Parent(c) = i /\ c \in Nat
      BY <1>2, <2>1, ParentOfChild
    <3>2. CASE i = hole
      BY <1>2, <1>3, <1>5, <2>1, <3>1, <3>2
    <3>3. CASE c = hole
      BY <1>1, <1>2, <1>3, <1>5, <2>1, <3>1, <3>3 DEF OrderInv, HeapInv
    <3>4. CASE i # hole /\ c # hole
      BY <1>1, <1>2, <1>5, <2>1, <3>4 DEF OrderInv, HeapInv
    <3> QED
      BY <3>2, <3>3, <3>4
  <2>2. ASSUME NEW c \in ChildrenOf(m) \cap Active'
        PROVE  Rank[slots'[hole]] <= Rank[slots'[c]]
    <3>1. c \in Active
      BY <1>2, <1>4, <2>2, ParentOfChild
    <3> QED
      BY <1>1, <1>3, <1>5, <2>2, <3>1 DEF OrderInv, HeapInv
  <2>3. Rank[slots'[hole]] <= Rank[moved]
    BY <1>1, <1>2, <1>3, <1>5, <1>6, HeapAssumption
  <2> QED
    BY <1>1, <1>4, <2>1, <2>2, <2>3 DEF OrderInv
<1> QED
  BY <1>1, <1>7, <1>8, <1>9, <1>10 DEF HeapInv

\* The hole is the place, or the last slot, which is given up.
LEMMA DownDoneInv ==
  ASSUME HeapInv, DownDone
  PROVE  HeapInv'
<1>1. /\ loop = "down" /\ loop' = "idle" /\ used' = used - 1 /\ hole' = 0 /\ moved' = Nothing
      /\ ~ ChildIsLess /\ slots' = [slots EXCEPT ![hole] = moved]
      /\ UNCHANGED <<slotsN, popped>>
  BY DEF DownDone, Fill
<1>2. /\ used \in Nat \ {0} /\ used <= slotsN /\ hole \in 0 .. used - 1 /\ moved \in Items
      /\ DOMAIN slots = 0 .. slotsN - 1 /\ slots[used - 1] = moved /\ slotsN \in Nat
      /\ Active = (0 .. used - 1) \ {hole}
  BY <1>1 DEF HeapInv, HeapTypeOK, HoleInv, Active
<1>3. Active' = 0 .. used - 2
  BY <1>1, <1>2 DEF Active
<1>4. /\ \A i \in Active : slots[i] \in Items /\ Rank[slots[i]] \in Int
      /\ Rank[moved] \in Int
  BY <1>1, <1>2, HeapAssumption DEF HeapInv, DistinctInv
<1>5. /\ slots'[hole] = moved
      /\ \A i \in Active : slots'[i] = slots[i]
  BY <1>1, <1>2 DEF HeapInv, HeapTypeOK
<1>6. HeapTypeOK'
  BY <1>1, <1>2 DEF HeapInv, HeapTypeOK
<1>7. HoleInv'
  BY <1>1 DEF HoleInv
<1>8. DistinctInv'
  BY <1>1, <1>2, <1>3, <1>5 DEF DistinctInv, HeapInv
<1>9. OrderInv'
  <2>1. ASSUME NEW i \in Active', NEW c \in ChildrenOf(i) \cap Active'
        PROVE  Rank[slots'[i]] <= Rank[slots'[c]]
    <3>1. c > i /\ Parent(c) = i /\ c \in Nat /\ i \in Nat /\ i < used - 1 /\ c < used - 1
      BY <1>2, <1>3, <2>1, ParentOfChild
    <3>2. CASE i = hole
      <4>1. HaveChild
        BY <1>2, <2>1, <3>1, <3>2 DEF HaveChild, ChildrenOf
      <4>2. MinChild \in Active /\ Rank[slots[MinChild]] <= Rank[slots[c]] /\ c \in Active
        BY <1>1, <2>1, <3>2, <4>1, MinChildIsLeast
      <4>3. Rank[moved] <= Rank[slots[MinChild]]
        BY <1>1, <1>4, <4>1, <4>2 DEF ChildIsLess
      <4> QED
        BY <1>4, <1>5, <3>2, <4>2, <4>3
    <3>3. CASE c = hole
      BY <1>1, <1>2, <1>5, <3>1, <3>3 DEF OrderInv, HeapInv
    <3>4. CASE i # hole /\ c # hole
      BY <1>1, <1>2, <1>3, <1>5, <2>1, <3>1, <3>4 DEF OrderInv, HeapInv
    <3> QED
      BY <3>2, <3>3, <3>4
  <2> QED
    BY <1>1, <2>1 DEF OrderInv
<1> QED
  BY <1>6, <1>7, <1>8, <1>9 DEF HeapInv

\* A heap that is destroyed and created again is as at first.
LEMMA DestroyInv ==
  ASSUME HeapInv, Destroy
  PROVE  HeapInv'
BY HeapAssumption DEF Destroy, HeapInv, HeapTypeOK, HoleInv, DistinctInv, OrderInv, Active

\* A push that loses the slots ends what is claimed of them.
LEMMA LosingInv ==
  ASSUME HeapInv, NEW d \in Items, PushLosing(d)
  PROVE  HeapInv'
BY DEF PushLosing, HeapInv, HeapTypeOK

\* A stuttering step changes nothing.
LEMMA HeapUnchanged ==
  ASSUME HeapInv, UNCHANGED heapVars
  PROVE  HeapInv'
BY DEF heapVars, HeapInv, HeapTypeOK, HoleInv, DistinctInv, OrderInv, Active

\* The invariant of the two loops and of the calls between them.
THEOREM HeapInvariant == HeapSpec => []HeapInv
<1>1. HeapInv /\ [HeapNext]_heapVars => HeapInv'
  BY StartUpInv, LosingInv, UpInv, UpDoneInv, PopInv, DownInv, DownDoneInv, DestroyInv,
     HeapUnchanged DEF HeapNext
<1> QED
  BY <1>1, InitInv, PTL DEF HeapSpec

\* HeapTypeOK for every instance: in particular nothing is used outside of the array.
THEOREM HeapTypeCorrect == HeapSpec => []HeapTypeOK
BY HeapInvariant, PTL DEF HeapInv

\* HeapOrder for every instance: between the calls no item is less than its parent.
THEOREM HeapIsOrdered == HeapSpec => []HeapOrder
<1>1. HeapInv => HeapOrder
  <2> SUFFICES ASSUME HeapInv, loop = "idle", NEW i \in 0 .. used - 1,
                      NEW c \in ChildrenOf(i), c < used
               PROVE  Rank[slots[i]] <= Rank[slots[c]]
    BY DEF HeapOrder
  <2>1. c \in 0 .. used - 1
    BY ParentOfChild DEF HeapInv, HeapTypeOK
  <2> QED
    BY <2>1 DEF HeapInv, OrderInv, Active
<1> QED
  BY <1>1, HeapInvariant, PTL

-----------------------------------------------------------------------------
(* The heap implements PriorityBag. *)

\* A least index of what is less than the top would have a parent that is
\* less than it, too.
LEMMA TopIsLeast ==
  ASSUME HeapInv, loop = "idle", used # 0
  PROVE  \A i \in 0 .. used - 1 : Rank[slots[0]] <= Rank[slots[i]]
<1> DEFINE Less == {i \in 0 .. used - 1 : Rank[slots[i]] < Rank[slots[0]]}
<1>1. used \in Nat \ {0} /\ Active = 0 .. used - 1
  BY DEF HeapInv, HeapTypeOK, Active
<1>2. \A i \in 0 .. used - 1 : Rank[slots[i]] \in Int
  BY <1>1, HeapAssumption DEF HeapInv, DistinctInv
<1>3. ASSUME Less # {} PROVE FALSE
  <2>1. Less \subseteq Nat
    BY <1>1
  <2>2. PICK i \in Less : \A j \in Less : ~ (<<j, i>> \in OpToRel(<, Nat))
    BY <1>3, <2>1, WFMin, NatLessThanWellFounded
  <2>3. \A j \in Less : ~ (j < i)
    BY <2>1, <2>2 DEF OpToRel
  <2>4. i \in Nat /\ i # 0 /\ i < used /\ Rank[slots[i]] < Rank[slots[0]]
    BY <1>1, <1>2
  <2>5. /\ Parent(i) \in 0 .. used - 1 /\ Parent(i) < i /\ i \in ChildrenOf(Parent(i))
    BY <1>1, <2>4, ChildOfParent
  <2>6. Rank[slots[Parent(i)]] <= Rank[slots[i]]
    BY <1>1, <2>4, <2>5 DEF HeapInv, OrderInv
  <2>7. Parent(i) \in Less
    BY <1>1, <1>2, <2>4, <2>5, <2>6
  <2> QED
    BY <2>3, <2>5, <2>7
<1> QED
  BY <1>1, <1>2, <1>3

\* xheap_push is done when xheap_shift_up fills the hole.
LEMMA BagPush ==
  ASSUME HeapInv, UpDone
  PROVE  HeapPromise!Push(moved) /\ moved \in Items
<1>1. /\ Active' = Active \cup {hole} /\ hole \notin Active /\ moved \in Items
      /\ Active \cup {hole} \subseteq DOMAIN slots
      /\ slots' = [slots EXCEPT ![hole] = moved] /\ popped' = popped
      /\ \A i \in Active : slots[i] # moved
  BY DEF UpDone, Fill, HeapInv, HeapTypeOK, HoleInv, DistinctInv, Active
<1>2. slots'[hole] = moved /\ \A i \in Active : slots'[i] = slots[i]
  BY <1>1 DEF HeapInv, HeapTypeOK
<1> QED
  BY <1>1, <1>2 DEF HeapPromise!Push, Held

\* xheap_pop has made its choice when xheap_shift_down starts.
LEMMA BagPop ==
  ASSUME HeapInv, Pop
  PROVE  HeapPromise!Pop(slots[0]) /\ slots[0] \in Items
<1>1. /\ Active' = Active \ {0} /\ 0 \in Active /\ popped' = slots[0] /\ slots' = slots
      /\ Active = 0 .. used - 1
  BY DEF Pop, HeapInv, HeapTypeOK, Active
<1>2. /\ \A i, j \in Active : slots[i] = slots[j] => i = j
      /\ slots[0] \in Items
  BY <1>1 DEF Pop, HeapInv, DistinctInv
<1>3. \A i \in Active : Rank[slots[0]] <= Rank[slots[i]]
  BY <1>1, TopIsLeast DEF Pop
<1> QED
  BY <1>1, <1>2, <1>3 DEF HeapPromise!Pop, Held

\* Starting a push and each step of the loops leaves the bag alone.
LEMMA BagStutter ==
  ASSUME HeapInv, (\E d \in Items : Push(d) \/ PushGrowing(d) \/ PushLosing(d)) \/ Up \/ Down \/ DownDone
  PROVE  Held' = Held /\ popped' = popped
<1>1. CASE \E d \in Items : Push(d) \/ PushGrowing(d)
  <2>1. /\ Active' = Active /\ popped' = popped
        /\ \A i \in Active : slots'[i] = slots[i]
    BY <1>1, StartUpStep
  <2> QED
    BY <2>1 DEF Held
<1>2. CASE \E d \in Items : PushLosing(d)
  BY <1>2 DEF PushLosing, Held, Active
<1>3. CASE Up
  <2>1. /\ Active' = (Active \cup {hole}) \ {Parent(hole)} /\ Parent(hole) \in Active
        /\ hole \notin Active /\ Active \cup {hole} \subseteq DOMAIN slots
    BY <1>3, ChildOfParent DEF Up, ParentIsGreater, MoveInto, HeapInv, HeapTypeOK, HoleInv, Active
  <2>2. /\ slots'[hole] = slots[Parent(hole)] /\ popped' = popped
        /\ \A i \in Active : slots'[i] = slots[i]
    BY <1>3, <2>1 DEF Up, MoveInto, HeapInv, HeapTypeOK
  <2> QED
    BY <2>1, <2>2 DEF Held
<1>4. CASE Down
  <2>1. MinChild \in Active
    BY <1>4, MinChildIsLeast DEF Down, ChildIsLess
  <2>2. /\ Active' = (Active \cup {hole}) \ {MinChild}
        /\ hole \notin Active /\ Active \cup {hole} \subseteq DOMAIN slots
    BY <1>4, <2>1 DEF Down, MoveInto, HeapInv, HeapTypeOK, HoleInv, Active
  <2>3. /\ slots'[hole] = slots[MinChild] /\ popped' = popped
        /\ \A i \in Active : slots'[i] = slots[i]
    BY <1>4, <2>2 DEF Down, MoveInto, HeapInv, HeapTypeOK
  <2> QED
    BY <2>1, <2>2, <2>3 DEF Held
<1>5. CASE DownDone
  <2>1. /\ used \in Nat \ {0} /\ hole \in 0 .. used - 1 /\ slots[used - 1] = moved
        /\ Active = (0 .. used - 1) \ {hole} /\ Active' = 0 .. used - 2
        /\ Active \cup {hole} \subseteq DOMAIN slots
        /\ slots' = [slots EXCEPT ![hole] = moved] /\ popped' = popped
    BY <1>5 DEF DownDone, Fill, HeapInv, HeapTypeOK, HoleInv, Active
  <2>2. slots'[hole] = moved /\ \A i \in Active : slots'[i] = slots[i]
    BY <2>1 DEF HeapInv, HeapTypeOK
  <2>3. CASE hole = used - 1
    BY <2>1, <2>2, <2>3 DEF Held
  <2>4. CASE hole # used - 1
    <3>1. Active' = (Active \ {used - 1}) \cup {hole} /\ used - 1 \in Active
      BY <2>1, <2>4
    <3> QED
      BY <2>1, <2>2, <3>1 DEF Held
  <2> QED
    BY <2>3, <2>4
<1> QED
  BY <1>1, <1>2, <1>3, <1>4, <1>5

\* ImplementsBag for every instance: the heap loses nothing, has nothing twice,
\* and xheap_pop returns a least item.
THEOREM HeapIsBag == HeapSpec => ImplementsBag
<1>1. HeapInit => HeapPromise!Init
  BY DEF HeapInit, HeapPromise!Init, Held, Active
<1>2. HeapInv /\ [HeapNext]_heapVars => [HeapPromise!Next]_<<Held, popped>>
  <2> SUFFICES ASSUME HeapInv, [HeapNext]_heapVars
               PROVE  HeapPromise!Next \/ UNCHANGED <<Held, popped>>
    OBVIOUS
  <2>1. CASE UpDone
    BY <2>1, BagPush DEF HeapPromise!Next
  <2>2. CASE Pop
    BY <2>2, BagPop DEF HeapPromise!Next
  <2>3. CASE Destroy
    <3>1. Active' = {} /\ popped' = popped
      BY <2>3 DEF Destroy, Active
    <3> QED
      BY <3>1 DEF HeapPromise!Next, HeapPromise!Destroy, Held
  <2>4. CASE UNCHANGED heapVars
    BY <2>4 DEF heapVars, Held, Active
  <2> QED
    BY <2>1, <2>2, <2>3, <2>4, BagStutter DEF HeapNext
<1> QED
  BY <1>1, <1>2, HeapInvariant, PTL DEF HeapSpec, ImplementsBag, HeapPromise!Spec, HeapPromise!bagVars
=============================================================================
