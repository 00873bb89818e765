--------------------------- MODULE SequenceLemmas ---------------------------
(***************************************************************************)
(* What inserting into and removing from a list does to its elements, for  *)
(* the proofs about the lists of the event loop and of the hash table.     *)
(***************************************************************************)
EXTENDS Integers, Sequences, SequencesExt, FiniteSetsExt, SequenceTheorems,
        WellFoundedInduction, TLAPS

\* A set of numbers that is not empty has a least element: the first match.
LEMMA LeastElement ==
  ASSUME NEW I, I \subseteq Nat, I # {}
  PROVE  Min(I) \in I /\ \A i \in I : Min(I) <= i
<1>1. PICK k \in I : \A i \in I : ~ (<<i, k>> \in OpToRel(<, Nat))
  BY WFMin, NatLessThanWellFounded
<1>2. \A i \in I : ~ (i < k)
  BY <1>1 DEF OpToRel
<1>3. \A i \in I : k <= i
  BY <1>2
<1> QED
  BY <1>3 DEF Min

\* RemoveAt closes the gap.
LEMMA RemovedAt ==
  ASSUME NEW S, NEW s \in Seq(S), NEW k \in 1 .. Len(s)
  PROVE  /\ RemoveAt(s, k) \in Seq(S)
         /\ Len(RemoveAt(s, k)) = Len(s) - 1
         /\ \A i \in 1 .. Len(s) - 1 :
              RemoveAt(s, k)[i] = IF i < k THEN s[i] ELSE s[i + 1]
<1> DEFINE a == SubSeq(s, 1, k - 1)
           b == SubSeq(s, k + 1, Len(s))
<1>1. \A i \in 1 .. Len(s) : s[i] \in S
  BY ElementOfSeq
<1>2. a \in Seq(S) /\ Len(a) = k - 1 /\ \A i \in 1 .. k - 1 : a[i] = s[i]
  BY <1>1, SubSeqProperties
<1>3. /\ b \in Seq(S) /\ Len(b) = Len(s) - k
      /\ \A i \in 1 .. Len(s) - k : b[i] = s[k + i]
  BY <1>1, SubSeqProperties
<1>4. RemoveAt(s, k) = a \o b
  BY DEF RemoveAt
<1> HIDE DEF a, b
<1>5. /\ a \o b \in Seq(S)
      /\ Len(a \o b) = Len(a) + Len(b)
      /\ \A i \in 1 .. Len(a) + Len(b) :
           (a \o b)[i] = IF i <= Len(a) THEN a[i] ELSE b[i - Len(a)]
  BY <1>2, <1>3, ConcatProperties
<1> QED
  BY <1>2, <1>3, <1>4, <1>5

\* InsertAt moves the elements from k on up by one.
LEMMA InsertedAt ==
  ASSUME NEW S, NEW s \in Seq(S), NEW k \in 1 .. Len(s) + 1, NEW e \in S
  PROVE  /\ InsertAt(s, k, e) \in Seq(S)
         /\ Len(InsertAt(s, k, e)) = Len(s) + 1
         /\ \A i \in 1 .. Len(s) + 1 :
              InsertAt(s, k, e)[i] =
                IF i < k THEN s[i] ELSE IF i = k THEN e ELSE s[i - 1]
<1> DEFINE a == SubSeq(s, 1, k - 1)
           b == SubSeq(s, k, Len(s))
<1>1. \A i \in 1 .. Len(s) : s[i] \in S
  BY ElementOfSeq
<1>2. a \in Seq(S) /\ Len(a) = k - 1 /\ \A i \in 1 .. k - 1 : a[i] = s[i]
  BY <1>1, SubSeqProperties
<1>3. /\ b \in Seq(S) /\ Len(b) = Len(s) - k + 1
      /\ \A i \in 1 .. Len(s) - k + 1 : b[i] = s[k + i - 1]
  BY <1>1, SubSeqProperties
<1>4. InsertAt(s, k, e) = a \o <<e>> \o b
  BY DEF InsertAt
<1> HIDE DEF a, b
<1>5. /\ a \o <<e>> \in Seq(S)
      /\ Len(a \o <<e>>) = Len(a) + 1
      /\ \A i \in 1 .. Len(a) + 1 :
           (a \o <<e>>)[i] = IF i <= Len(a) THEN a[i] ELSE e
  <2>1. <<e>> \in Seq(S) /\ Len(<<e>>) = 1 /\ <<e>>[1] = e
    OBVIOUS
  <2> QED
    BY <1>2, <2>1, ConcatProperties
<1> DEFINE c == a \o <<e>>
<1> HIDE DEF c
<1>6. /\ c \in Seq(S) /\ Len(c) = k
      /\ \A i \in 1 .. k : c[i] = IF i < k THEN s[i] ELSE e
  BY <1>2, <1>5 DEF c
<1>7. /\ c \o b \in Seq(S)
      /\ Len(c \o b) = Len(c) + Len(b)
      /\ \A i \in 1 .. Len(c) + Len(b) :
           (c \o b)[i] = IF i <= Len(c) THEN c[i] ELSE b[i - Len(c)]
  BY <1>3, <1>6, ConcatProperties
<1>8. InsertAt(s, k, e) = c \o b
  BY <1>4 DEF c
<1> QED
  BY <1>3, <1>6, <1>7, <1>8

\* RemoveFirst removes an element that is equal to e, if there is one.
LEMMA RemovedFirst ==
  ASSUME NEW S, NEW s \in Seq(S), NEW e, \E i \in 1 .. Len(s) : s[i] = e
  PROVE  \E k \in 1 .. Len(s) :
           /\ s[k] = e
           /\ RemoveFirst(s, e) \in Seq(S)
           /\ Len(RemoveFirst(s, e)) = Len(s) - 1
           /\ \A i \in 1 .. Len(s) - 1 :
                RemoveFirst(s, e)[i] = IF i < k THEN s[i] ELSE s[i + 1]
<1> DEFINE I == {i \in 1 .. Len(s) : s[i] = e}
<1>1. Min(I) \in I
  BY LeastElement
<1>2. RemoveFirst(s, e) = RemoveAt(s, Min(I))
  BY DEF RemoveFirst, SelectInSeq
<1>3. Min(I) \in 1 .. Len(s) /\ s[Min(I)] = e
  BY <1>1
<1> QED
  BY ZenonT(60), <1>2, <1>3, RemovedAt

\* There is a function that starts with init and follows step from each number
\* to the next: the values of a loop that runs N times.
LEMMA LoopExists ==
  ASSUME NEW V, NEW init \in V, NEW N \in Nat, NEW step \in [1 .. N -> [V -> V]]
  PROVE  \E f \in [0 .. N -> V] :
           f[0] = init /\ \A n \in 1 .. N : f[n] = step[n][f[n - 1]]
<1> DEFINE Runs(m, f) == f[0] = init /\ \A n \in 1 .. m : f[n] = step[n][f[n - 1]]
           Bad == {m \in 0 .. N : \A f \in [0 .. m -> V] : ~ Runs(m, f)}
<1>1. \A m : m \in Bad <=> m \in 0 .. N /\ \A f \in [0 .. m -> V] : ~ Runs(m, f)
  OBVIOUS
<1>2. Bad \subseteq Nat
  OBVIOUS
<1> HIDE DEF Bad
<1>3. ASSUME Bad # {} PROVE FALSE
  <2>1. PICK m \in Bad : \A n \in Bad : m <= n
    BY <1>2, <1>3, LeastElement
  <2>2. m \in 0 .. N /\ \A f \in [0 .. m -> V] : ~ Runs(m, f)
    BY <1>1, <2>1
  <2>3. CASE m = 0
    <3> DEFINE f == [i \in 0 .. 0 |-> init]
    <3>1. f \in [0 .. m -> V] /\ Runs(m, f)
      BY <2>3
    <3> QED
      BY <2>2, <3>1
  <2>4. CASE m # 0
    <3>1. m - 1 \in 0 .. N /\ m - 1 \notin Bad
      BY <2>1, <2>2, <2>4
    <3>2. PICK f \in [0 .. m - 1 -> V] : Runs(m - 1, f)
      BY <1>1, <3>1
    <3> DEFINE g == [i \in 0 .. m |-> IF i = m THEN step[m][f[m - 1]] ELSE f[i]]
    <3>3. m \in 1 .. N /\ f[m - 1] \in V
      BY <2>2, <2>4
    <3>4. g \in [0 .. m -> V]
      BY <2>2, <3>3
    <3>5. g[0] = init
      BY <2>2, <2>4, <3>2
    <3>6. ASSUME NEW n \in 1 .. m PROVE g[n] = step[n][g[n - 1]]
      <4>1. CASE n = m
        <5>1. n \in 0 .. m /\ n - 1 \in 0 .. m /\ n - 1 # m
          BY <2>2, <2>4, <4>1
        <5>2. g[n] = step[m][f[m - 1]] /\ g[n - 1] = f[m - 1]
          BY <4>1, <5>1
        <5> QED
          BY <4>1, <5>2
      <4>2. CASE n # m
        <5>1. n \in 1 .. m - 1 /\ n \in 0 .. m /\ n - 1 \in 0 .. m /\ n - 1 # m
          BY <2>2, <4>2
        <5>2. g[n] = f[n] /\ g[n - 1] = f[n - 1]
          BY <4>2, <5>1
        <5> QED
          BY <3>2, <5>1, <5>2
      <4> QED
        BY <4>1, <4>2
    <3> QED
      BY <2>2, <3>4, <3>5, <3>6
  <2> QED
    BY <2>3, <2>4
<1>4. N \in 0 .. N /\ N \notin Bad
  BY <1>3
<1>5. \E f \in [0 .. N -> V] : Runs(N, f)
  BY <1>1, <1>4
<1> QED
  BY <1>5

\* What each turn of a loop keeps holds after every turn.
LEMMA LoopKeeps ==
  ASSUME NEW N \in Nat, NEW f, NEW W, f[0] \in W[0],
         \A n \in 1 .. N : f[n - 1] \in W[n - 1] => f[n] \in W[n],
         NEW m \in 0 .. N
  PROVE  f[m] \in W[m]
<1> DEFINE Bad == {n \in 0 .. N : f[n] \notin W[n]}
<1>1. ASSUME Bad # {} PROVE FALSE
  <2>1. PICK n \in Bad : \A k \in Bad : n <= k
    <3>1. Bad \subseteq Nat
      OBVIOUS
    <3> HIDE DEF Bad
    <3> QED
      BY <1>1, <3>1, LeastElement
  <2>2. n \in 1 .. N /\ n - 1 \in 0 .. N /\ ~ (n <= n - 1)
    BY <2>1
  <2>3. f[n - 1] \in W[n - 1]
    BY <2>1, <2>2
  <2> QED
    BY <2>1, <2>2, <2>3
<1> QED
  BY <1>1

-----------------------------------------------------------------------------
(* A loop that goes through a list and drops the elements at some positions *)

\* What is kept of the first n elements, for every n.
DropLoop(kept, list, gone) ==
  /\ kept[0] = <<>>
  /\ \A n \in 1 .. Len(list) :
       kept[n] = IF n \in gone THEN kept[n - 1] ELSE Append(kept[n - 1], list[n])

LEMMA DropLoopExists ==
  ASSUME NEW S, NEW list \in Seq(S), NEW gone
  PROVE  \E kept \in [0 .. Len(list) -> Seq(S)] : DropLoop(kept, list, gone)
<1> DEFINE N == Len(list)
           V == Seq(S)
           step == [n \in 1 .. N |-> [v \in V |->
                     IF n \in gone THEN v ELSE Append(v, list[n])]]
<1>1. N \in Nat /\ \A i \in 1 .. N : list[i] \in S
  BY ElementOfSeq
<1>2. ASSUME NEW n \in 1 .. N, NEW v \in V PROVE Append(v, list[n]) \in V
  BY <1>1, AppendProperties
<1>3. <<>> \in V
  BY EmptySeq
<1> HIDE DEF V, N
<1>4. step \in [1 .. N -> [V -> V]]
  BY <1>2
<1>5. \A n \in 1 .. N, v \in V :
        step[n][v] = IF n \in gone THEN v ELSE Append(v, list[n])
  OBVIOUS
<1> HIDE DEF step
<1>6. PICK f \in [0 .. N -> V] : f[0] = <<>> /\ \A n \in 1 .. N : f[n] = step[n][f[n - 1]]
  <2> DEFINE init == <<>>
  <2>1. N \in Nat /\ init \in V
    BY <1>1, <1>3
  <2> HIDE DEF init
  <2>2. \E f \in [0 .. N -> V] : f[0] = init /\ \A n \in 1 .. N : f[n] = step[n][f[n - 1]]
    BY <2>1, <1>4, LoopExists
  <2> QED
    BY <2>2 DEF init
<1>7. ASSUME NEW n \in 1 .. N
      PROVE  f[n] = IF n \in gone THEN f[n - 1] ELSE Append(f[n - 1], list[n])
  <2>1. n - 1 \in 0 .. N
    BY <1>1
  <2>2. f[n - 1] \in V
    BY <2>1
  <2> QED
    BY <1>5, <1>6, <2>2
<1> QED
  BY <1>6, <1>7 DEF DropLoop, N, V

\* There is one such function only.
LEMMA DropLoopUnique ==
  ASSUME NEW S, NEW list \in Seq(S), NEW gone,
         NEW f, DropLoop(f, list, gone),
         NEW g, DropLoop(g, list, gone)
  PROVE  \A n \in 0 .. Len(list) : f[n] = g[n]
<1> DEFINE N == Len(list)
           Bad == {n \in 0 .. N : f[n] # g[n]}
<1>1. N \in Nat
  OBVIOUS
<1>2. \A n : n \in Bad <=> n \in 0 .. N /\ f[n] # g[n]
  OBVIOUS
<1>3. /\ f[0] = g[0]
      /\ \A n \in 1 .. N : f[n - 1] = g[n - 1] => f[n] = g[n]
  BY DEF DropLoop
<1>4. Bad \subseteq Nat
  OBVIOUS
<1> HIDE DEF N, Bad
<1>5. ASSUME Bad # {} PROVE FALSE
  <2>1. PICK n \in Bad : \A m \in Bad : n <= m
    BY <1>4, <1>5, LeastElement
  <2>2. n \in 1 .. N
    BY <1>1, <1>2, <1>3, <2>1
  <2>3. n - 1 \in 0 .. N /\ n - 1 \notin Bad
    BY <1>1, <2>1, <2>2
  <2> QED
    BY <1>2, <1>3, <2>1, <2>2, <2>3
<1> QED
  BY <1>2, <1>5 DEF N

\* What is kept are elements of the list that are not dropped, in their order.
LEMMA KeptInOrder ==
  ASSUME NEW S, NEW list \in Seq(S), NEW gone,
         NEW kept \in [0 .. Len(list) -> Seq(S)], DropLoop(kept, list, gone)
  PROVE  \E at \in [1 .. Len(kept[Len(list)]) -> (1 .. Len(list)) \ gone] :
           /\ \A i \in 1 .. Len(kept[Len(list)]) : kept[Len(list)][i] = list[at[i]]
           /\ \A i, j \in 1 .. Len(kept[Len(list)]) : i < j => at[i] < at[j]
<1> DEFINE N == Len(list)
           Maps(n, at) ==
             /\ \A i \in 1 .. Len(kept[n]) : kept[n][i] = list[at[i]]
             /\ \A i, j \in 1 .. Len(kept[n]) : i < j => at[i] < at[j]
           Good(n) == \E at \in [1 .. Len(kept[n]) -> (1 .. n) \ gone] : Maps(n, at)
           Bad == {n \in 0 .. N : ~ Good(n)}
<1>1. N \in Nat /\ \A n \in 1 .. N : list[n] \in S
  BY ElementOfSeq
<1>2. \A n \in 0 .. N : kept[n] \in Seq(S) /\ Len(kept[n]) \in Nat
  OBVIOUS
<1>3. Good(0)
  <2>1. Len(kept[0]) = 0
    BY EmptySeq DEF DropLoop
  <2> DEFINE at == [i \in 1 .. 0 |-> i]
  <2>2. at \in [1 .. Len(kept[0]) -> (1 .. 0) \ gone] /\ Maps(0, at)
    BY <2>1
  <2> QED
    BY <2>2
<1>4. ASSUME NEW n \in 1 .. N, Good(n - 1) PROVE Good(n)
  <2> DEFINE L == Len(kept[n - 1])
  <2>1. PICK at \in [1 .. L -> (1 .. n - 1) \ gone] : Maps(n - 1, at)
    BY <1>4
  <2>2. kept[n - 1] \in Seq(S) /\ L \in Nat
    BY <1>1, <1>2
  <2>3. CASE n \in gone
    <3>1. kept[n] = kept[n - 1]
      BY <2>3 DEF DropLoop
    <3>2. at \in [1 .. Len(kept[n]) -> (1 .. n) \ gone]
      BY <2>1, <3>1, <1>1
    <3> QED
      BY <2>1, <3>1, <3>2
  <2>4. CASE n \notin gone
    <3>1. /\ kept[n] = Append(kept[n - 1], list[n])
          /\ Len(kept[n]) = L + 1
          /\ \A i \in 1 .. L : kept[n][i] = kept[n - 1][i]
          /\ kept[n][L + 1] = list[n]
      <4>1. kept[n] = Append(kept[n - 1], list[n])
        BY <2>4 DEF DropLoop
      <4>2. kept[n - 1] \in Seq(S) /\ list[n] \in S
        BY <1>1, <2>2
      <4> QED
        BY <4>1, <4>2, AppendProperties
    <3> DEFINE more == [i \in 1 .. L + 1 |-> IF i = L + 1 THEN n ELSE at[i]]
    <3>2. \A i \in 1 .. L : at[i] \in (1 .. n - 1) \ gone
      BY <2>1
    <3> HIDE DEF L
    <3>3. more \in [1 .. L + 1 -> (1 .. n) \ gone]
      BY <1>1, <2>2, <2>4, <3>2
    <3>4. \A i \in 1 .. L + 1 : kept[n][i] = list[more[i]]
      BY <2>1, <2>2, <3>1 DEF L
    <3>5. \A i, j \in 1 .. L + 1 : i < j => more[i] < more[j]
      <4> SUFFICES ASSUME NEW i \in 1 .. L + 1, NEW j \in 1 .. L + 1, i < j
                   PROVE  more[i] < more[j]
        OBVIOUS
      <4>1. i \in 1 .. L /\ more[i] = at[i] /\ at[i] \in 1 .. n - 1
        BY <2>2, <3>2
      <4>2. CASE j = L + 1
        BY <1>1, <4>1, <4>2
      <4>3. CASE j # L + 1
        <5>1. j \in 1 .. L /\ more[j] = at[j]
          BY <2>2, <4>3
        <5> QED
          BY <2>1, <4>1, <5>1 DEF L
      <4> QED
        BY <4>2, <4>3
    <3> QED
      BY ZenonT(30), <3>1, <3>3, <3>4, <3>5
  <2> QED
    BY <2>3, <2>4
<1> HIDE DEF Good, N
<1>5. \A n : n \in Bad <=> n \in 0 .. N /\ ~ Good(n)
  OBVIOUS
<1>6. Bad \subseteq Nat
  BY <1>1
<1> HIDE DEF Bad
<1>7. ASSUME Bad # {} PROVE FALSE
  <2>1. PICK n \in Bad : \A m \in Bad : n <= m
    BY <1>6, <1>7, LeastElement
  <2>2. n \in 1 .. N
    BY <1>1, <1>3, <1>5, <2>1
  <2>3. n - 1 \in 0 .. N /\ n - 1 \notin Bad
    BY <1>1, <2>1, <2>2
  <2> QED
    BY <1>4, <1>5, <2>1, <2>2, <2>3
<1>8. Good(N)
  BY <1>1, <1>5, <1>7
<1> QED
  BY <1>8 DEF Good, N

\* Nothing dropped, nothing changed.
LEMMA KeptAll ==
  ASSUME NEW S, NEW list \in Seq(S), NEW gone,
         NEW kept \in [0 .. Len(list) -> Seq(S)], DropLoop(kept, list, gone),
         \A n \in 1 .. Len(list) : n \notin gone
  PROVE  kept[Len(list)] = list
<1> DEFINE N == Len(list)
           Same(n) == Len(kept[n]) = n /\ \A i \in 1 .. n : kept[n][i] = list[i]
           Bad == {n \in 0 .. N : ~ Same(n)}
<1>1. N \in Nat /\ \A n \in 1 .. N : list[n] \in S
  BY ElementOfSeq
<1>2. Same(0)
  BY EmptySeq DEF DropLoop
<1>3. ASSUME NEW n \in 1 .. N, Same(n - 1) PROVE Same(n)
  <2>1. kept[n - 1] \in Seq(S)
    BY <1>1
  <2>2. kept[n] = Append(kept[n - 1], list[n])
    BY DEF DropLoop
  <2> QED
    BY <1>1, <1>3, <2>1, <2>2, AppendProperties
<1> HIDE DEF Same, N
<1>4. \A n : n \in Bad <=> n \in 0 .. N /\ ~ Same(n)
  OBVIOUS
<1>5. Bad \subseteq Nat
  BY <1>1
<1> HIDE DEF Bad
<1>6. ASSUME Bad # {} PROVE FALSE
  <2>1. PICK n \in Bad : \A m \in Bad : n <= m
    BY <1>5, <1>6, LeastElement
  <2>2. n \in 1 .. N
    BY <1>1, <1>2, <1>4, <2>1
  <2>3. n - 1 \in 0 .. N /\ n - 1 \notin Bad
    BY <1>1, <2>1, <2>2
  <2> QED
    BY <1>3, <1>4, <2>1, <2>2, <2>3
<1>7. Same(N)
  BY <1>1, <1>4, <1>6
<1>8. kept[N] \in Seq(S)
  BY <1>1 DEF N
<1> QED
  BY <1>7, <1>8, SeqEqual DEF Same, N

\* Where the element at i goes when another one comes to position k; one list
\* has one element more than another one, at position k.
Shifted(i, k) == IF i < k THEN i ELSE i + 1
OneMore(longer, list, k) ==
  /\ Len(longer) = Len(list) + 1
  /\ \A i \in 1 .. Len(list) : list[i] = longer[Shifted(i, k)]

\* An element that is dropped might as well not be there.
LEMMA KeptWithoutOne ==
  ASSUME NEW S, NEW list \in Seq(S), NEW gone, NEW kept, DropLoop(kept, list, gone),
         NEW longer \in Seq(S), NEW gone2, NEW kept2, DropLoop(kept2, longer, gone2),
         NEW k \in 1 .. Len(longer),
         OneMore(longer, list, k),
         \A i \in 1 .. Len(list) : i \in gone <=> Shifted(i, k) \in gone2,
         k \in gone2
  PROVE  kept2[Len(longer)] = kept[Len(list)]
<1> DEFINE N == Len(list)
           Same(n) == kept2[n] = kept[IF n < k THEN n ELSE n - 1]
           Bad == {n \in 0 .. N + 1 : ~ Same(n)}
<1>1. N \in Nat /\ Len(longer) = N + 1
  BY DEF OneMore
<1>2. Same(0)
  BY DEF DropLoop
<1>3. ASSUME NEW n \in 1 .. N + 1, Same(n - 1) PROVE Same(n)
  <2>1. kept2[n] = IF n \in gone2 THEN kept2[n - 1] ELSE Append(kept2[n - 1], longer[n])
    BY <1>1 DEF DropLoop
  <2>2. CASE n = k
    BY <1>1, <1>3, <2>1, <2>2
  <2>3. CASE n < k
    <3>1. n \in 1 .. N /\ n - 1 < k
      BY <1>1, <2>3
    <3>2. list[n] = longer[n] /\ (n \in gone <=> n \in gone2)
      BY <2>3, <3>1 DEF OneMore, Shifted
    <3>3. kept[n] = IF n \in gone THEN kept[n - 1] ELSE Append(kept[n - 1], list[n])
      BY <3>1 DEF DropLoop
    <3> QED
      BY <1>3, <2>1, <2>3, <3>1, <3>2, <3>3
  <2>4. CASE n > k
    <3>1. n - 1 \in 1 .. N /\ ~ (n - 1 < k) /\ n - 1 + 1 = n
      BY <1>1, <2>4
    <3>2. list[n - 1] = longer[n] /\ (n - 1 \in gone <=> n \in gone2)
      BY <3>1 DEF OneMore, Shifted
    <3>3. kept[n - 1] = IF n - 1 \in gone THEN kept[n - 1 - 1]
                                          ELSE Append(kept[n - 1 - 1], list[n - 1])
      BY <3>1 DEF DropLoop
    <3> QED
      BY <1>3, <2>1, <2>4, <3>1, <3>2, <3>3
  <2> QED
    BY <1>1, <2>2, <2>3, <2>4
<1>4. \A n : n \in Bad <=> n \in 0 .. N + 1 /\ ~ Same(n)
  OBVIOUS
<1>5. Bad \subseteq Nat
  BY <1>1
<1>6. Same(N + 1) => kept2[Len(longer)] = kept[N]
  BY <1>1
<1> HIDE DEF Same, N, Bad
<1>7. ASSUME Bad # {} PROVE FALSE
  <2>1. PICK n \in Bad : \A m \in Bad : n <= m
    BY <1>5, <1>7, LeastElement
  <2>2. n \in 1 .. N + 1
    BY <1>1, <1>2, <1>4, <2>1
  <2>3. n - 1 \in 0 .. N + 1 /\ n - 1 \notin Bad
    BY <1>1, <2>1, <2>2
  <2> QED
    BY <1>3, <1>4, <2>1, <2>2, <2>3
<1> QED
  BY <1>1, <1>4, <1>6, <1>7 DEF N

=============================================================================
