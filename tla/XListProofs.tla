----------------------------- MODULE XListProofs -----------------------------
(***************************************************************************)
(* Proofs about XList, for any number of heads and nodes: the rings of     *)
(* memory hold the sequences that ListStore promises, whatever calls       *)
(* change them and however a walk goes on meanwhile.                       *)
(***************************************************************************)
EXTENDS XList, SequenceLemmas, FiniteSetTheorems

\* The cells of a ring, in their order: the head, the nodes, the head again.
RingAt(s, h, i) == IF i \in 1 .. Len(s) THEN s[i] ELSE h

\* Every cell has links, or none.
IsMemory(m) ==
  m \in [next : [Cells -> Cells \cup {NoLink}], prev : [Cells -> Cells \cup {NoLink}]]

\* The links of m lead through the nodes of s and back to h, both ways.
IsRing(m, s, h) ==
  \A i \in 0 .. Len(s) :
    /\ m.next[RingAt(s, h, i)] = RingAt(s, h, i + 1)
    /\ m.prev[RingAt(s, h, i + 1)] = RingAt(s, h, i)

\* No node is in two places.
Distinct(L) ==
  \A g, h \in Heads : \A i \in 1 .. Len(L[g]) : \A j \in 1 .. Len(L[h]) :
    L[g][i] = L[h][j] => g = h /\ i = j

\* The memory m holds the lists L; those of the heads gone have been given away.
HoldsLists(m, gone, L) ==
  /\ IsMemory(m)
  /\ L \in [Heads -> Seq(Links)]
  /\ \A h \in Heads \cap gone : L[h] = <<>>
  /\ \A h \in Heads \ gone : IsRing(m, L[h], h)
  /\ Distinct(L)
  /\ \A n \in Links :
       \/ \E h \in Heads : \E i \in 1 .. Len(L[h]) : L[h][i] = n
       \/ m.next[n] = NoLink /\ m.prev[n] = NoLink

-----------------------------------------------------------------------------
(* Lemmas about rings *)

\* What the cells of a ring are.
LEMMA RingCells ==
  ASSUME NEW s \in Seq(Links), NEW h \in Heads
  PROVE  /\ Len(s) \in Nat
         /\ RingAt(s, h, 0) = h /\ RingAt(s, h, Len(s) + 1) = h
         /\ \A i \in 1 .. Len(s) : RingAt(s, h, i) = s[i] /\ s[i] \in Links
         /\ \A i \in Int : RingAt(s, h, i) \in Cells /\ RingAt(s, h, i) # NoLink
<1>1. Len(s) \in Nat /\ \A i \in 1 .. Len(s) : s[i] \in Links
  BY ElementOfSeq
<1>2. ~ (0 \in 1 .. Len(s)) /\ ~ (Len(s) + 1 \in 1 .. Len(s))
  BY <1>1
<1> QED
  BY <1>1, <1>2, LinksAssumption DEF RingAt, Cells

\* A ring comes to each of its cells once.
LEMMA RingDiffers ==
  ASSUME NEW s \in Seq(Links), NEW h \in Heads,
         \A i, j \in 1 .. Len(s) : s[i] = s[j] => i = j
  PROVE  /\ \A i, j \in 0 .. Len(s) : RingAt(s, h, i) = RingAt(s, h, j) => i = j
         /\ \A i, j \in 1 .. Len(s) + 1 : RingAt(s, h, i) = RingAt(s, h, j) => i = j
<1>1. /\ Len(s) \in Nat
      /\ \A i \in 1 .. Len(s) : RingAt(s, h, i) = s[i] /\ s[i] # h
      /\ RingAt(s, h, 0) = h /\ RingAt(s, h, Len(s) + 1) = h
  BY RingCells, LinksAssumption
<1>2. \A i, j \in 0 .. Len(s) : RingAt(s, h, i) = RingAt(s, h, j) => i = j
  <2>1. \A i \in 0 .. Len(s) : i = 0 \/ i \in 1 .. Len(s)
    BY <1>1
  <2> QED
    BY <1>1, <2>1
<1>3. \A i, j \in 1 .. Len(s) + 1 : RingAt(s, h, i) = RingAt(s, h, j) => i = j
  <2>1. \A i \in 1 .. Len(s) + 1 : i = Len(s) + 1 \/ i \in 1 .. Len(s)
    BY <1>1
  <2> QED
    BY <1>1, <2>1
<1> QED
  BY <1>2, <1>3

\* What is known of the lists of a memory.
LEMMA ListsApart ==
  ASSUME NEW m, NEW gone, NEW L, HoldsLists(m, gone, L)
  PROVE  /\ \A h \in Heads : L[h] \in Seq(Links) /\ \A i, j \in 1 .. Len(L[h]) : L[h][i] = L[h][j] => i = j
         /\ \A h \in Heads : \A i \in 1 .. Len(L[h]) : h \notin gone /\ L[h][i] \in Links
         /\ \A h \in Heads : \A i \in 1 .. Len(L[h]) : m.next[L[h][i]] # NoLink /\ m.prev[L[h][i]] # NoLink
         /\ \A g, h \in Heads : \A i, j \in Int :
              g # h => RingAt(L[g], g, i) # RingAt(L[h], h, j)
         /\ \A h \in Heads : \A i \in Int : \A n \in Links :
              (\A g \in Heads : \A j \in 1 .. Len(L[g]) : L[g][j] # n) => RingAt(L[h], h, i) # n
<1>1. \A h \in Heads : L[h] \in Seq(Links) /\ \A i, j \in 1 .. Len(L[h]) : L[h][i] = L[h][j] => i = j
  BY DEF HoldsLists, Distinct
<1>2. ASSUME NEW h \in Heads, NEW i \in 1 .. Len(L[h]) PROVE h \notin gone /\ L[h][i] \in Links
  <2>1. Len(<<>>) = 0
    OBVIOUS
  <2>2. h \notin gone
    BY <2>1, <1>2 DEF HoldsLists
  <2> QED
    BY <1>1, <1>2, <2>2, ElementOfSeq
<1>3. ASSUME NEW h \in Heads, NEW i \in 1 .. Len(L[h])
      PROVE  m.next[L[h][i]] # NoLink /\ m.prev[L[h][i]] # NoLink
  <2>1. IsRing(m, L[h], h) /\ L[h] \in Seq(Links)
    BY <1>1, <1>2, <1>3 DEF HoldsLists
  <2>2. Len(L[h]) \in Nat
    BY <2>1
  <2>3. /\ m.next[RingAt(L[h], h, i)] = RingAt(L[h], h, i + 1)
        /\ m.prev[RingAt(L[h], h, (i - 1) + 1)] = RingAt(L[h], h, i - 1)
    <3>1. i \in 0 .. Len(L[h]) /\ i - 1 \in 0 .. Len(L[h])
      BY <2>2
    <3> QED
      BY <2>1, <3>1 DEF IsRing
  <2>4. (i - 1) + 1 = i /\ i + 1 \in Int /\ i - 1 \in Int /\ RingAt(L[h], h, i) = L[h][i]
    BY <2>1, RingCells
  <2> QED
    BY <2>1, <2>3, <2>4, RingCells
<1>4. ASSUME NEW g \in Heads, NEW h \in Heads, NEW i \in Int, NEW j \in Int, g # h
      PROVE  RingAt(L[g], g, i) # RingAt(L[h], h, j)
  <2>1. \A a \in Heads : \A k \in 1 .. Len(L[a]) : L[a][k] \notin Heads
    BY <1>2, LinksAssumption
  <2>2. \A k \in 1 .. Len(L[g]) : \A l \in 1 .. Len(L[h]) : L[g][k] # L[h][l]
    BY <1>4 DEF HoldsLists, Distinct
  <2> QED
    BY <1>4, <2>1, <2>2 DEF RingAt
<1>5. ASSUME NEW h \in Heads, NEW i \in Int, NEW n \in Links,
             \A g \in Heads : \A j \in 1 .. Len(L[g]) : L[g][j] # n
      PROVE  RingAt(L[h], h, i) # n
  BY <1>5, LinksAssumption DEF RingAt
<1> QED
  BY <1>1, <1>2, <1>3, <1>4, <1>5

\* A ring whose cells keep their links stays one.
LEMMA RingStays ==
  ASSUME NEW m, NEW p, NEW s \in Seq(Links), NEW h \in Heads, IsRing(m, s, h),
         \A i \in 0 .. Len(s) + 1 : /\ p.next[RingAt(s, h, i)] = m.next[RingAt(s, h, i)]
                                    /\ p.prev[RingAt(s, h, i)] = m.prev[RingAt(s, h, i)]
  PROVE  IsRing(p, s, h)
<1>1. Len(s) \in Nat
  OBVIOUS
<1>2. \A i \in 0 .. Len(s) : i \in 0 .. Len(s) + 1 /\ i + 1 \in 0 .. Len(s) + 1
  BY <1>1
<1> QED
  BY <1>2 DEF IsRing

-----------------------------------------------------------------------------
(* A node comes into a ring *)

\* s is t with n behind its k-th element.
WithNode(s, t, n, k) ==
  /\ Len(s) = Len(t) + 1
  /\ \A i \in 1 .. Len(t) + 1 :
       s[i] = IF i < k + 1 THEN t[i] ELSE IF i = k + 1 THEN n ELSE t[i - 1]

\* The links of p are those of m, but n lies between a and b.
LinkedBetween(p, m, n, a, b) ==
  /\ IsMemory(p)
  /\ \A c \in Cells :
       /\ p.next[c] = IF c = a THEN n ELSE IF c = n THEN b ELSE m.next[c]
       /\ p.prev[c] = IF c = b THEN n ELSE IF c = n THEN a ELSE m.prev[c]

\* n comes behind the k-th cell of the ring of h.
LEMMA InsertRing ==
  ASSUME NEW m, NEW gone, NEW L, HoldsLists(m, gone, L),
         NEW h \in Heads \ gone, NEW n \in Links, m.next[n] = NoLink,
         NEW k \in 0 .. Len(L[h]), NEW s \in Seq(Links), WithNode(s, L[h], n, k),
         NEW p, LinkedBetween(p, m, n, RingAt(L[h], h, k), RingAt(L[h], h, k + 1))
  PROVE  HoldsLists(p, gone, [L EXCEPT ![h] = s])
<1> DEFINE t == L[h]
           R(i) == RingAt(t, h, i)
           new == [L EXCEPT ![h] = s]
<1>1. /\ t \in Seq(Links) /\ Len(t) \in Nat /\ k \in Int /\ k + 1 \in Int
      /\ \A i, j \in 1 .. Len(t) : t[i] = t[j] => i = j
  BY ListsApart
<1>a. IsMemory(p) /\ Len(s) = Len(t) + 1
      /\ \A i \in 1 .. Len(t) + 1 : s[i] = IF i < k + 1 THEN t[i] ELSE IF i = k + 1 THEN n ELSE t[i - 1]
  BY DEF WithNode, LinkedBetween
<1>b. k \in 0 .. Len(t)
  OBVIOUS
<1>2. \A g \in Heads : \A i \in 1 .. Len(L[g]) : L[g][i] # n
  BY ListsApart
<1>3. \A g \in Heads : \A i \in Int : RingAt(L[g], g, i) # n
  BY <1>2, ListsApart
<1>4. new \in [Heads -> Seq(Links)] /\ new[h] = s /\ \A g \in Heads \ {h} : new[g] = L[g]
  BY DEF HoldsLists
<1> HIDE DEF t, new
<1>5. /\ \A i, j \in 0 .. Len(t) : R(i) = R(j) => i = j
      /\ \A i, j \in 1 .. Len(t) + 1 : R(i) = R(j) => i = j
  BY <1>1, RingDiffers
<1>6. /\ R(0) = h /\ R(Len(t) + 1) = h
      /\ \A i \in 1 .. Len(t) : R(i) = t[i]
      /\ \A i \in Int : R(i) \in Cells /\ R(i) # n
  BY <1>1, <1>3, RingCells DEF t
<1>7. \A i \in 0 .. Len(t) : m.next[R(i)] = R(i + 1) /\ m.prev[R(i + 1)] = R(i)
  BY DEF HoldsLists, IsRing, t
<1>8. \A i \in 0 .. Len(t) + 2 : RingAt(s, h, i) = IF i < k + 1 THEN R(i) ELSE IF i = k + 1 THEN n ELSE R(i - 1)
  <2>1. Len(s) = Len(t) + 1 /\ k \in 0 .. Len(t)
    BY <1>a, <1>b
  <2>2. ASSUME NEW i \in 0 .. Len(t) + 2
        PROVE  RingAt(s, h, i) = IF i < k + 1 THEN R(i) ELSE IF i = k + 1 THEN n ELSE R(i - 1)
    <3>1. CASE i \in 1 .. Len(t) + 1
      <4>1. RingAt(s, h, i) = s[i]
        BY <2>1, <3>1 DEF RingAt
      <4>2. s[i] = IF i < k + 1 THEN t[i] ELSE IF i = k + 1 THEN n ELSE t[i - 1]
        BY <1>a, <3>1
      <4>3. i < k + 1 => i \in 1 .. Len(t)
        BY <2>1, <3>1
      <4>4. ~ (i < k + 1) /\ i # k + 1 => i - 1 \in 1 .. Len(t)
        BY <2>1, <3>1
      <4> QED
        BY <1>6, <4>1, <4>2, <4>3, <4>4
    <3>2. CASE i = 0
      BY <1>6, <2>1, <3>2 DEF RingAt
    <3>3. CASE i = Len(t) + 2
      <4>1. RingAt(s, h, i) = h
        BY <1>1, <2>1, <3>3 DEF RingAt
      <4>2. ~ (i < k + 1) /\ i # k + 1 /\ i - 1 = Len(t) + 1
        BY <1>1, <2>1, <3>3
      <4> QED
        BY <1>6, <4>1, <4>2
    <3> QED
      BY <1>1, <2>2, <3>1, <3>2, <3>3
  <2> QED
    BY <2>2
<1>9. n \in Cells /\ \A c \in Cells :
           /\ p.next[c] = IF c = R(k) THEN n ELSE IF c = n THEN R(k + 1) ELSE m.next[c]
           /\ p.prev[c] = IF c = R(k + 1) THEN n ELSE IF c = n THEN R(k) ELSE m.prev[c]
  BY DEF LinkedBetween, t, Cells
<1>10. IsRing(p, s, h)
  <2>1. SUFFICES ASSUME NEW i \in 0 .. Len(t) + 1
                 PROVE  /\ p.next[RingAt(s, h, i)] = RingAt(s, h, i + 1)
                        /\ p.prev[RingAt(s, h, i + 1)] = RingAt(s, h, i)
    BY <1>a DEF IsRing
  <2>2. i \in 0 .. Len(t) + 2 /\ i + 1 \in 0 .. Len(t) + 2 /\ k \in 0 .. Len(t)
    BY <1>1, <1>b
  <2>3. CASE i < k
    <3>1. RingAt(s, h, i) = R(i) /\ RingAt(s, h, i + 1) = R(i + 1)
      BY <1>8, <2>2, <2>3
    <3>2. i \in 0 .. Len(t) /\ i # k /\ i + 1 \in 1 .. Len(t) + 1 /\ k + 1 \in 1 .. Len(t) + 1 /\ i + 1 # k + 1
      BY <1>1, <2>2, <2>3
    <3>3. R(i) # R(k) /\ R(i + 1) # R(k + 1)
      BY <1>5, <2>2, <3>2
    <3>4. R(i) \in Cells /\ R(i) # n /\ R(i + 1) \in Cells /\ R(i + 1) # n
      BY <1>6, <3>2
    <3> QED
      BY <1>7, <1>9, <3>1, <3>2, <3>3, <3>4
  <2>4. CASE i = k
    <3>1. RingAt(s, h, i) = R(k) /\ RingAt(s, h, i + 1) = n
      BY <1>8, <2>2, <2>4
    <3> QED
      BY <1>1, <1>6, <1>9, <3>1
  <2>5. CASE i = k + 1
    <3>1. RingAt(s, h, i) = n /\ RingAt(s, h, i + 1) = R(k + 1)
      BY <1>8, <2>2, <2>5
    <3> QED
      BY <1>1, <1>6, <1>9, <3>1
  <2>6. CASE i > k + 1
    <3>1. RingAt(s, h, i) = R(i - 1) /\ RingAt(s, h, i + 1) = R((i + 1) - 1) /\ (i + 1) - 1 = i /\ (i - 1) + 1 = i
      BY <1>8, <2>2, <2>6
    <3>2. i - 1 \in 0 .. Len(t) /\ i - 1 # k /\ i \in 1 .. Len(t) + 1 /\ k + 1 \in 1 .. Len(t) + 1 /\ i # k + 1
      BY <1>1, <2>2, <2>6
    <3>3. R(i - 1) # R(k) /\ R(i) # R(k + 1)
      BY <1>5, <2>2, <3>2
    <3>4. R(i - 1) \in Cells /\ R(i - 1) # n /\ R(i) \in Cells /\ R(i) # n
      BY <1>6, <3>2
    <3>5. m.next[R(i - 1)] = R(i) /\ m.prev[R(i)] = R(i - 1)
      BY <1>7, <3>1, <3>2
    <3> QED
      BY <1>9, <3>1, <3>3, <3>4, <3>5
  <2> QED
    BY <2>2, <2>3, <2>4, <2>5, <2>6
<1>11. ASSUME NEW g \in Heads \ gone PROVE IsRing(p, new[g], g)
  <2>1. CASE g = h
    BY <1>4, <1>10, <2>1
  <2>2. CASE g # h
    <3>1. L[g] \in Seq(Links) /\ IsRing(m, L[g], g) /\ new[g] = L[g]
      BY <1>4, <2>2 DEF HoldsLists
    <3>2. ASSUME NEW i \in 0 .. Len(L[g]) + 1
          PROVE  /\ p.next[RingAt(L[g], g, i)] = m.next[RingAt(L[g], g, i)]
                 /\ p.prev[RingAt(L[g], g, i)] = m.prev[RingAt(L[g], g, i)]
      <4>1. i \in Int /\ RingAt(L[g], g, i) \in Cells /\ RingAt(L[g], g, i) # n
        BY <1>3, <3>1, RingCells
      <4>2. RingAt(L[g], g, i) # R(k) /\ RingAt(L[g], g, i) # R(k + 1)
        BY <1>1, <2>2, <4>1, ListsApart DEF t
      <4> QED
        BY <1>9, <4>1, <4>2
    <3> QED
      BY <3>1, <3>2, RingStays
  <2> QED
    BY <2>1, <2>2
<1>12. Distinct(new)
  <2>1. ASSUME NEW i \in 1 .. Len(s) 
        PROVE  \/ s[i] = n /\ i = k + 1
               \/ \E j \in 1 .. Len(t) :
                    s[i] = t[j] /\ j = (IF i < k + 1 THEN i ELSE i - 1) /\ i # k + 1
    BY <1>1, <1>a, <1>b
  <2>2. \A g \in Heads \ {h} : \A i \in 1 .. Len(s) : \A j \in 1 .. Len(L[g]) : s[i] # L[g][j]
    BY <1>2, <2>1 DEF HoldsLists, Distinct, t
  <2>3. ASSUME NEW i \in 1 .. Len(s), NEW j \in 1 .. Len(s), s[i] = s[j] PROVE i = j
    <3>1. \A x \in 1 .. Len(t) : t[x] # n
      BY <1>2 DEF t
    <3>2. CASE i = k + 1 \/ j = k + 1
      BY <2>1, <2>3, <3>1, <3>2
    <3>3. CASE i # k + 1 /\ j # k + 1
      <4>1. PICK a \in 1 .. Len(t) : s[i] = t[a] /\ a = (IF i < k + 1 THEN i ELSE i - 1)
        BY <2>1, <3>3
      <4>2. PICK b \in 1 .. Len(t) : s[j] = t[b] /\ b = (IF j < k + 1 THEN j ELSE j - 1)
        BY <2>1, <3>3
      <4>3. a = b
        BY <1>1, <2>3, <4>1, <4>2
      <4> QED
        BY <1>1, <1>b, <3>3, <4>1, <4>2, <4>3
    <3> QED
      BY <3>2, <3>3
  <2>4. \A f, g \in Heads \ {h} : \A i \in 1 .. Len(L[f]) : \A j \in 1 .. Len(L[g]) : L[f][i] = L[g][j] => f = g /\ i = j
    BY DEF HoldsLists, Distinct
  <2>5. ASSUME NEW f \in Heads, NEW g \in Heads, NEW i \in 1 .. Len(new[f]), NEW j \in 1 .. Len(new[g]),
               new[f][i] = new[g][j]
        PROVE  f = g /\ i = j
    <3>1. CASE f = h /\ g = h
      BY <1>4, <2>3, <2>5, <3>1
    <3>2. CASE f = h /\ g # h
      <4>1. new[f] = s /\ new[g] = L[g] /\ g \in Heads \ {h}
        BY <1>4, <3>2
      <4>2. i \in 1 .. Len(s) /\ j \in 1 .. Len(L[g]) /\ s[i] = L[g][j]
        BY <2>5, <4>1
      <4> QED
        BY <2>2, <4>1, <4>2
    <3>3. CASE f # h /\ g = h
      <4>1. new[g] = s /\ new[f] = L[f] /\ f \in Heads \ {h}
        BY <1>4, <3>3
      <4>2. j \in 1 .. Len(s) /\ i \in 1 .. Len(L[f]) /\ s[j] = L[f][i]
        BY <2>5, <4>1
      <4> QED
        BY <2>2, <4>1, <4>2
    <3>4. CASE f # h /\ g # h
      BY SMTT(40), <1>4, <2>4, <2>5, <3>4
    <3> QED
      BY <3>1, <3>2, <3>3, <3>4
  <2> QED
    BY <2>5 DEF Distinct
<1>13. ASSUME NEW x \in Links
       PROVE  \/ \E g \in Heads : \E i \in 1 .. Len(new[g]) : new[g][i] = x
              \/ p.next[x] = NoLink /\ p.prev[x] = NoLink
  <2>1. CASE x = n
    <3>1. k + 1 \in 1 .. Len(s) /\ s[k + 1] = n
      BY <1>1, <1>a, <1>b
    <3> QED
      BY <1>4, <2>1, <3>1
  <2>2. CASE x # n /\ \E i \in 1 .. Len(t) : t[i] = x
    <3>1. PICK i \in 1 .. Len(t) : t[i] = x
      BY <2>2
    <3>2. i < k + 1 => i \in 1 .. Len(s) /\ s[i] = x
      BY <1>1, <1>a, <1>b, <3>1
    <3>3. ~ (i < k + 1) => i + 1 \in 1 .. Len(s) /\ s[i + 1] = x
      <4>1. ~ (i < k + 1) => i + 1 \in 1 .. Len(t) + 1 /\ ~ (i + 1 < k + 1) /\ i + 1 # k + 1 /\ (i + 1) - 1 = i
        BY <1>1, <1>b, <3>1
      <4> QED
        BY <1>a, <3>1, <4>1
    <3> QED
      BY <1>4, <3>2, <3>3
  <2>3. CASE \E g \in Heads \ {h} : \E i \in 1 .. Len(L[g]) : L[g][i] = x
    BY <1>4, <2>3
  <2>4. CASE x # n /\ \A g \in Heads : \A i \in 1 .. Len(L[g]) : L[g][i] # x
    <3>1. m.next[x] = NoLink /\ m.prev[x] = NoLink /\ x \in Cells
      BY <2>4 DEF HoldsLists, Cells
    <3>2. R(k) # x /\ R(k + 1) # x
      BY <1>1, <2>4, ListsApart DEF t
    <3> QED
      BY <1>9, <2>4, <3>1, <3>2
  <2> QED
    BY <2>1, <2>2, <2>3, <2>4 DEF t
<1>14. \A g \in Heads \cap gone : new[g] = <<>>
  BY <1>4 DEF HoldsLists
<1>15. HoldsLists(p, gone, new)
  BY <1>4, <1>a, <1>11, <1>12, <1>13, <1>14 DEF HoldsLists
<1> QED
  BY <1>15 DEF new

-----------------------------------------------------------------------------
(* A node comes out of a ring *)

\* s is t without its k-th element.
WithoutNode(s, t, k) ==
  /\ Len(s) = Len(t) - 1
  /\ \A i \in 1 .. Len(t) - 1 : s[i] = IF i < k THEN t[i] ELSE t[i + 1]

\* The links of p are those of m, but a and b close up over n.
ClosedOver(p, m, n, a, b) ==
  /\ IsMemory(p)
  /\ \A c \in Cells :
       /\ p.next[c] = IF c = n THEN NoLink ELSE IF c = a THEN b ELSE m.next[c]
       /\ p.prev[c] = IF c = n THEN NoLink ELSE IF c = b THEN a ELSE m.prev[c]

\* The k-th node of h comes out of the ring.
LEMMA RemoveRing ==
  ASSUME NEW m, NEW gone, NEW L, HoldsLists(m, gone, L),
         NEW h \in Heads, NEW k \in 1 .. Len(L[h]), NEW s \in Seq(Links), WithoutNode(s, L[h], k),
         NEW p, ClosedOver(p, m, L[h][k], RingAt(L[h], h, k - 1), RingAt(L[h], h, k + 1))
  PROVE  HoldsLists(p, gone, [L EXCEPT ![h] = s])
<1> DEFINE t == L[h]
           n == t[k]
           R(i) == RingAt(t, h, i)
           new == [L EXCEPT ![h] = s]
<1>1. /\ t \in Seq(Links) /\ Len(t) \in Nat /\ k \in 1 .. Len(t) /\ k - 1 \in Int /\ k + 1 \in Int
      /\ \A i, j \in 1 .. Len(t) : t[i] = t[j] => i = j
      /\ h \notin gone /\ n \in Links
      /\ Len(s) = Len(t) - 1
      /\ \A i \in 1 .. Len(t) - 1 : s[i] = IF i < k THEN t[i] ELSE t[i + 1]
  <2>1. t \in Seq(Links) /\ \A g \in Heads : \A i, j \in 1 .. Len(L[g]) : L[g][i] = L[g][j] => i = j
    BY ListsApart
  <2>2. \A g \in Heads : \A i \in 1 .. Len(L[g]) : g \notin gone /\ L[g][i] \in Links
    BY ListsApart
  <2>3. Len(t) \in Nat /\ k \in 1 .. Len(t) /\ k - 1 \in Int /\ k + 1 \in Int
    BY <2>1
  <2> QED
    BY <2>1, <2>2, <2>3 DEF WithoutNode
<1>2. new \in [Heads -> Seq(Links)] /\ new[h] = s /\ \A g \in Heads \ {h} : new[g] = L[g]
  BY DEF HoldsLists
<1>3. \A g \in Heads \ {h} : \A i \in Int : RingAt(L[g], g, i) # n
  BY <1>1, ListsApart DEF RingAt
<1>4. \A c \in Cells :
           /\ p.next[c] = IF c = n THEN NoLink ELSE IF c = R(k - 1) THEN R(k + 1) ELSE m.next[c]
           /\ p.prev[c] = IF c = n THEN NoLink ELSE IF c = R(k + 1) THEN R(k - 1) ELSE m.prev[c]
  BY DEF ClosedOver
<1>5. \A i \in 0 .. Len(t) : m.next[R(i)] = R(i + 1) /\ m.prev[R(i + 1)] = R(i)
  BY <1>1 DEF HoldsLists, IsRing
<1>6. \A g \in Heads \ {h} : \A i, j \in Int : RingAt(L[g], g, i) # R(j)
  BY ListsApart
<1>7. Distinct(L)
  BY DEF HoldsLists
<1>a. \A x \in Links :
        \/ \E g \in Heads : \E i \in 1 .. Len(L[g]) : L[g][i] = x
        \/ m.next[x] = NoLink /\ m.prev[x] = NoLink
  BY DEF HoldsLists
<1>b. \A x \in Links : (\A g \in Heads : \A i \in 1 .. Len(L[g]) : L[g][i] # x) => \A i \in Int : R(i) # x
  BY ListsApart
<1> HIDE DEF t, new
<1>8. /\ \A i, j \in 0 .. Len(t) : R(i) = R(j) => i = j
      /\ \A i, j \in 1 .. Len(t) + 1 : R(i) = R(j) => i = j
  BY <1>1, RingDiffers
<1>9. /\ R(0) = h /\ R(Len(t) + 1) = h
      /\ \A i \in 1 .. Len(t) : R(i) = t[i]
      /\ \A i \in Int : R(i) \in Cells
      /\ R(k) = n
  BY <1>1, RingCells
<1>10. \A i \in 0 .. Len(t) : RingAt(s, h, i) = IF i < k THEN R(i) ELSE R(i + 1)
  <2>1. ASSUME NEW i \in 0 .. Len(t)
        PROVE  RingAt(s, h, i) = IF i < k THEN R(i) ELSE R(i + 1)
    <3>1. CASE i \in 1 .. Len(t) - 1
      <4>1. RingAt(s, h, i) = s[i]
        BY <1>1, <3>1 DEF RingAt
      <4>2. i \in 1 .. Len(t) /\ i + 1 \in 1 .. Len(t)
        BY <1>1, <3>1
      <4> QED
        BY <1>1, <1>9, <3>1, <4>1, <4>2
    <3>2. CASE i = 0
      BY <1>1, <1>9, <3>2 DEF RingAt
    <3>3. CASE i = Len(t)
      <4>1. RingAt(s, h, i) = h /\ ~ (i < k)
        BY <1>1, <3>3 DEF RingAt
      <4> QED
        BY <1>9, <3>3, <4>1
    <3> QED
      BY <1>1, <3>1, <3>2, <3>3
  <2> QED
    BY <2>1
<1>11. IsRing(p, s, h)
  <2>1. SUFFICES ASSUME NEW i \in 0 .. Len(t) - 1
                 PROVE  /\ p.next[RingAt(s, h, i)] = RingAt(s, h, i + 1)
                        /\ p.prev[RingAt(s, h, i + 1)] = RingAt(s, h, i)
    BY <1>1 DEF IsRing
  <2>2. i \in 0 .. Len(t) /\ i + 1 \in 0 .. Len(t) /\ i + 1 \in 1 .. Len(t)
    BY <1>1
  <2>3. CASE i < k - 1
    <3>1. RingAt(s, h, i) = R(i) /\ RingAt(s, h, i + 1) = R(i + 1)
      BY <1>1, <1>10, <2>2, <2>3
    <3>2. /\ k \in 0 .. Len(t) /\ i # k /\ k - 1 \in 0 .. Len(t) /\ i # k - 1
          /\ k \in 1 .. Len(t) + 1 /\ i + 1 \in 1 .. Len(t) + 1 /\ i + 1 # k
          /\ k + 1 \in 1 .. Len(t) + 1 /\ i + 1 # k + 1
      BY <1>1, <2>2, <2>3
    <3>3. R(i) # R(k - 1) /\ R(i) # n /\ R(i + 1) # R(k + 1) /\ R(i + 1) # n
      BY <1>8, <1>9, <2>2, <3>2
    <3>4. R(i) \in Cells /\ R(i + 1) \in Cells
      BY <1>9, <2>2
    <3> QED
      BY <1>4, <1>5, <2>2, <3>1, <3>3, <3>4
  <2>4. CASE i = k - 1
    <3>1. RingAt(s, h, i) = R(k - 1) /\ RingAt(s, h, i + 1) = R(k + 1)
      <4>1. i < k /\ ~ (i + 1 < k) /\ (i + 1) + 1 = k + 1
        BY <1>1, <2>4
      <4> QED
        BY <1>10, <2>2, <2>4, <4>1
    <3>2. /\ k \in 0 .. Len(t) /\ k - 1 \in 0 .. Len(t) /\ k # k - 1
          /\ k \in 1 .. Len(t) + 1 /\ k + 1 \in 1 .. Len(t) + 1 /\ k # k + 1
      BY <1>1
    <3>3. R(k - 1) # n /\ R(k + 1) # n
      BY <1>8, <1>9, <3>2
    <3> QED
      BY <1>1, <1>4, <1>9, <3>1, <3>3
  <2>5. CASE i >= k
    <3>1. RingAt(s, h, i) = R(i + 1) /\ RingAt(s, h, i + 1) = R((i + 1) + 1)
      <4>1. ~ (i < k) /\ ~ (i + 1 < k)
        BY <1>1, <2>5
      <4> QED
        BY <1>10, <2>2, <4>1
    <3>2. /\ k \in 0 .. Len(t) /\ i + 1 # k /\ k - 1 \in 0 .. Len(t) /\ i + 1 # k - 1
          /\ k \in 1 .. Len(t) + 1 /\ (i + 1) + 1 \in 1 .. Len(t) + 1 /\ (i + 1) + 1 # k
          /\ k + 1 \in 1 .. Len(t) + 1 /\ (i + 1) + 1 # k + 1
      BY <1>1, <2>2, <2>5
    <3>3. R(i + 1) # R(k - 1) /\ R(i + 1) # n /\ R((i + 1) + 1) # R(k + 1) /\ R((i + 1) + 1) # n
      BY <1>8, <1>9, <2>2, <3>2
    <3>4. R(i + 1) \in Cells /\ R((i + 1) + 1) \in Cells
      BY <1>9, <2>2
    <3> QED
      BY SMTT(40), <1>4, <1>5, <2>2, <3>1, <3>3, <3>4
  <2> QED
    BY <1>1, <2>2, <2>3, <2>4, <2>5
<1>12. ASSUME NEW g \in Heads \ gone PROVE IsRing(p, new[g], g)
  <2>1. CASE g = h
    BY <1>2, <1>11, <2>1
  <2>2. CASE g # h
    <3>1. L[g] \in Seq(Links) /\ IsRing(m, L[g], g) /\ new[g] = L[g]
      BY <1>2, <2>2 DEF HoldsLists
    <3>2. ASSUME NEW i \in 0 .. Len(L[g]) + 1
          PROVE  /\ p.next[RingAt(L[g], g, i)] = m.next[RingAt(L[g], g, i)]
                 /\ p.prev[RingAt(L[g], g, i)] = m.prev[RingAt(L[g], g, i)]
      <4>1. i \in Int /\ RingAt(L[g], g, i) \in Cells /\ RingAt(L[g], g, i) # n
        BY <1>3, <2>2, <3>1, RingCells
      <4>2. RingAt(L[g], g, i) # R(k - 1) /\ RingAt(L[g], g, i) # R(k + 1)
        BY <1>1, <1>6, <2>2, <4>1
      <4> QED
        BY <1>4, <4>1, <4>2
    <3> QED
      BY <3>1, <3>2, RingStays
  <2> QED
    BY <2>1, <2>2
<1>13. Distinct(new)
  <2>1. \A i \in 1 .. Len(s) : \E j \in 1 .. Len(t) : s[i] = t[j] /\ j = (IF i < k THEN i ELSE i + 1)
    BY <1>1
  <2>2. \A g \in Heads \ {h} : \A i \in 1 .. Len(s) : \A j \in 1 .. Len(L[g]) : s[i] # L[g][j]
    BY <1>7, <2>1 DEF Distinct, t
  <2>3. \A i, j \in 1 .. Len(s) : s[i] = s[j] => i = j
    BY SMTT(40), <1>1, <2>1
  <2>4. \A f, g \in Heads \ {h} : \A i \in 1 .. Len(L[f]) : \A j \in 1 .. Len(L[g]) : L[f][i] = L[g][j] => f = g /\ i = j
    BY <1>7 DEF Distinct
  <2>5. ASSUME NEW f \in Heads, NEW g \in Heads, NEW i \in 1 .. Len(new[f]), NEW j \in 1 .. Len(new[g]),
               new[f][i] = new[g][j]
        PROVE  f = g /\ i = j
    <3>1. CASE f = h /\ g = h
      BY <1>2, <2>3, <2>5, <3>1
    <3>2. CASE f = h /\ g # h
      <4>1. new[f] = s /\ new[g] = L[g] /\ g \in Heads \ {h}
        BY <1>2, <3>2
      <4>2. i \in 1 .. Len(s) /\ j \in 1 .. Len(L[g]) /\ s[i] = L[g][j]
        BY <2>5, <4>1
      <4> QED
        BY <2>2, <4>1, <4>2
    <3>3. CASE f # h /\ g = h
      <4>1. new[g] = s /\ new[f] = L[f] /\ f \in Heads \ {h}
        BY <1>2, <3>3
      <4>2. j \in 1 .. Len(s) /\ i \in 1 .. Len(L[f]) /\ s[j] = L[f][i]
        BY <2>5, <4>1
      <4> QED
        BY <2>2, <4>1, <4>2
    <3>4. CASE f # h /\ g # h
      BY SMTT(40), <1>2, <2>4, <2>5, <3>4
    <3> QED
      BY <3>1, <3>2, <3>3, <3>4
  <2> QED
    BY <2>5 DEF Distinct
<1>14. ASSUME NEW x \in Links
       PROVE  \/ \E g \in Heads : \E i \in 1 .. Len(new[g]) : new[g][i] = x
              \/ p.next[x] = NoLink /\ p.prev[x] = NoLink
  <2>1. CASE x = n
    BY <1>4, <2>1 DEF Cells
  <2>2. CASE x # n /\ \E i \in 1 .. Len(t) : t[i] = x
    <3>1. PICK i \in 1 .. Len(t) : t[i] = x
      BY <2>2
    <3>2. i # k
      BY <2>2, <3>1
    <3>3. i < k => i \in 1 .. Len(s) /\ s[i] = x
      BY <1>1, <3>1
    <3>4. ~ (i < k) => i - 1 \in 1 .. Len(t) - 1 /\ ~ (i - 1 < k) /\ (i - 1) + 1 = i
      BY <1>1, <3>1, <3>2
    <3>5. ~ (i < k) => i - 1 \in 1 .. Len(s) /\ s[i - 1] = x
      BY <1>1, <3>1, <3>4
    <3> QED
      BY <1>2, <3>3, <3>5
  <2>3. CASE \E g \in Heads \ {h} : \E i \in 1 .. Len(L[g]) : L[g][i] = x
    BY <1>2, <2>3
  <2>4. CASE x # n /\ \A g \in Heads : \A i \in 1 .. Len(L[g]) : L[g][i] # x
    <3>1. m.next[x] = NoLink /\ m.prev[x] = NoLink /\ x \in Cells
      BY <1>a, <2>4 DEF Cells
    <3>2. R(k - 1) # x /\ R(k + 1) # x
      BY <1>1, <1>b, <2>4
    <3> QED
      BY <1>4, <2>4, <3>1, <3>2
  <2> QED
    BY <2>1, <2>2, <2>3, <2>4 DEF t
<1>15. \A g \in Heads \cap gone : new[g] = <<>>
  BY <1>1, <1>2 DEF HoldsLists
<1>16. HoldsLists(p, gone, new)
  BY <1>2, <1>12, <1>13, <1>14, <1>15 DEF HoldsLists, ClosedOver
<1> QED
  BY <1>16 DEF new

-----------------------------------------------------------------------------
(* The nodes of a ring come into another one *)

\* s is t with q behind its k-th element.
PutInto(s, t, q, k) ==
  /\ Len(s) = Len(t) + Len(q)
  /\ \A i \in 1 .. Len(t) + Len(q) :
       s[i] = IF i <= k THEN t[i] ELSE IF i <= k + Len(q) THEN q[i - k] ELSE t[i - Len(q)]

\* The links of p are those of m, but the first and the last of q, the ring of
\* from, lie between a and b.
LinkedInto(p, m, from, q, a, b) ==
  \A c \in Cells \ {from} :
    /\ p.next[c] = IF c = a THEN q[1] ELSE IF c = q[Len(q)] THEN b ELSE m.next[c]
    /\ p.prev[c] = IF c = b THEN q[Len(q)] ELSE IF c = q[1] THEN a ELSE m.prev[c]

\* The nodes of from come behind the k-th cell of the ring of h.
LEMMA SpliceRing ==
  ASSUME NEW m, NEW gone, NEW L, HoldsLists(m, gone, L),
         NEW h \in Heads \ gone, NEW from \in Heads \ gone, from # h, L[from] # <<>>,
         NEW k \in 0 .. Len(L[h]), NEW s \in Seq(Links), PutInto(s, L[h], L[from], k),
         NEW p, IsMemory(p), NEW left,
         \/ left = gone \cup {from}
         \/ left = gone /\ p.next[from] = from /\ p.prev[from] = from,
         LinkedInto(p, m, from, L[from], RingAt(L[h], h, k), RingAt(L[h], h, k + 1))
  PROVE  HoldsLists(p, left, [L EXCEPT ![from] = <<>>, ![h] = s])
<1> DEFINE t == L[h]
           q == L[from]
           nt == Len(t)
           nq == Len(q)
           R(i) == RingAt(t, h, i)
           Q(i) == RingAt(q, from, i)
           new == [L EXCEPT ![from] = <<>>, ![h] = s]
<1>1. /\ t \in Seq(Links) /\ nt \in Nat /\ k \in 0 .. nt
      /\ q \in Seq(Links) /\ nq \in Nat /\ nq >= 1
      /\ \A i, j \in 1 .. nt : t[i] = t[j] => i = j
      /\ \A i, j \in 1 .. nq : q[i] = q[j] => i = j
  <2>1. t \in Seq(Links) /\ q \in Seq(Links) /\ q # <<>>
    BY ListsApart
  <2>2. nt \in Nat /\ nq \in Nat /\ nq >= 1 /\ k \in 0 .. nt
    BY <2>1, EmptySeq
  <2>3. \A g \in Heads : \A i, j \in 1 .. Len(L[g]) : L[g][i] = L[g][j] => i = j
    BY ListsApart
  <2> QED
    BY <2>1, <2>2, <2>3
<1>s. /\ Len(s) = nt + nq
      /\ \A i \in 1 .. nt + nq :
           s[i] = IF i <= k THEN t[i] ELSE IF i <= k + nq THEN q[i - k] ELSE t[i - nq]
  BY DEF PutInto
<1>2. new \in [Heads -> Seq(Links)] /\ new[h] = s /\ new[from] = <<>> /\ Len(new[from]) = 0
      /\ \A g \in Heads \ {h, from} : new[g] = L[g]
  <2>1. L \in [Heads -> Seq(Links)] /\ <<>> \in Seq(Links) /\ Len(<<>>) = 0
    BY DEF HoldsLists
  <2> QED
    BY <2>1
<1>4. \A c \in Cells \ {from} :
           /\ p.next[c] = IF c = R(k) THEN q[1] ELSE IF c = q[nq] THEN R(k + 1) ELSE m.next[c]
           /\ p.prev[c] = IF c = R(k + 1) THEN q[nq] ELSE IF c = q[1] THEN R(k) ELSE m.prev[c]
  BY DEF LinkedInto
<1>5. /\ \A i \in 0 .. nt : m.next[R(i)] = R(i + 1) /\ m.prev[R(i + 1)] = R(i)
      /\ \A i \in 0 .. nq : m.next[Q(i)] = Q(i + 1) /\ m.prev[Q(i + 1)] = Q(i)
  BY DEF HoldsLists, IsRing
<1>6. /\ \A g \in Heads \ {h} : \A i, j \in Int : RingAt(L[g], g, i) # R(j)
      /\ \A g \in Heads \ {from} : \A i, j \in Int : RingAt(L[g], g, i) # Q(j)
      /\ \A i, j \in Int : R(i) # Q(j)
  BY ListsApart
<1>7. Distinct(L)
  BY DEF HoldsLists
<1>a. \A x \in Links :
        \/ \E g \in Heads : \E i \in 1 .. Len(L[g]) : L[g][i] = x
        \/ m.next[x] = NoLink /\ m.prev[x] = NoLink
  BY DEF HoldsLists
<1>b. \A x \in Links : (\A g \in Heads : \A i \in 1 .. Len(L[g]) : L[g][i] # x) =>
        \A i \in Int : R(i) # x /\ Q(i) # x
  <2>1. ASSUME NEW x \in Links, \A g \in Heads : \A i \in 1 .. Len(L[g]) : L[g][i] # x
        PROVE  \A g \in Heads : \A i \in Int : RingAt(L[g], g, i) # x
    BY <2>1, ListsApart
  <2> QED
    BY <2>1
<1>c. /\ \A f, g \in Heads \ {h, from} : \A i \in 1 .. Len(L[f]) : \A j \in 1 .. Len(L[g]) :
           L[f][i] = L[g][j] => f = g /\ i = j
      /\ \A f \in Heads \ {h, from} : \A i \in 1 .. Len(L[f]) :
           (\A j \in 1 .. nt : t[j] # L[f][i]) /\ (\A j \in 1 .. nq : q[j] # L[f][i])
      /\ \A i \in 1 .. nt : \A j \in 1 .. nq : t[i] # q[j]
  BY <1>7 DEF Distinct
<1> HIDE DEF t, q, nt, nq, new
<1>8. /\ \A i, j \in 0 .. nt : R(i) = R(j) => i = j
      /\ \A i, j \in 1 .. nt + 1 : R(i) = R(j) => i = j
      /\ \A i, j \in 0 .. nq : Q(i) = Q(j) => i = j
      /\ \A i, j \in 1 .. nq + 1 : Q(i) = Q(j) => i = j
  BY <1>1, RingDiffers DEF nt, nq
<1>9. /\ R(0) = h /\ R(nt + 1) = h
      /\ \A i \in 1 .. nt : R(i) = t[i]
      /\ \A i \in Int : R(i) \in Cells
      /\ \A i \in 1 .. nq : Q(i) = q[i] /\ q[i] \in Links
      /\ \A i \in Int : Q(i) \in Cells
  BY <1>1, RingCells DEF nt, nq
<1>d. /\ \A i \in Int : R(i) \in Cells \ {from}
      /\ \A i \in 1 .. nq : Q(i) \in Cells \ {from}
      /\ q[1] = Q(1) /\ q[nq] = Q(nq) /\ 1 \in 1 .. nq /\ nq \in 1 .. nq
      /\ k \in Int /\ k + 1 \in Int
  <2>1. Q(0) = from
    BY <1>1, RingCells
  <2>2. 1 \in 1 .. nq /\ nq \in 1 .. nq
    BY <1>1
  <2> QED
    BY <1>1, <1>6, <1>9, <2>1, <2>2, LinksAssumption
<1>10. \A i \in 0 .. nt + nq + 1 :
         RingAt(s, h, i) = IF i <= k THEN R(i) ELSE IF i <= k + nq THEN Q(i - k) ELSE R(i - nq)
  <2>1. ASSUME NEW i \in 0 .. nt + nq + 1
        PROVE  RingAt(s, h, i) = IF i <= k THEN R(i) ELSE IF i <= k + nq THEN Q(i - k) ELSE R(i - nq)
    <3>1. CASE i \in 1 .. nt + nq
      <4>1. RingAt(s, h, i) = s[i]
        BY <1>s, <3>1 DEF RingAt
      <4>2. i <= k => i \in 1 .. nt
        BY <1>1, <3>1
      <4>3. ~ (i <= k) /\ i <= k + nq => i - k \in 1 .. nq
        BY <1>1, <3>1
      <4>4. ~ (i <= k + nq) => i - nq \in 1 .. nt /\ ~ (i <= k)
        BY <1>1, <3>1
      <4> QED
        BY <1>s, <1>9, <3>1, <4>1, <4>2, <4>3, <4>4
    <3>2. CASE i = 0
      <4>1. RingAt(s, h, i) = h /\ i <= k
        BY <1>1, <1>s, <3>2 DEF RingAt
      <4> QED
        BY <1>9, <3>2, <4>1
    <3>3. CASE i = nt + nq + 1
      <4>1. RingAt(s, h, i) = h /\ ~ (i <= k) /\ ~ (i <= k + nq) /\ i - nq = nt + 1
        BY <1>1, <1>s, <3>3 DEF RingAt
      <4> QED
        BY <1>9, <4>1
    <3> QED
      BY <1>1, <3>1, <3>2, <3>3
  <2> QED
    BY <2>1
<1>11. IsRing(p, s, h)
  <2>1. SUFFICES ASSUME NEW i \in 0 .. nt + nq
                 PROVE  /\ p.next[RingAt(s, h, i)] = RingAt(s, h, i + 1)
                        /\ p.prev[RingAt(s, h, i + 1)] = RingAt(s, h, i)
    BY <1>1, <1>s DEF IsRing
  <2>2. i \in 0 .. nt + nq + 1 /\ i + 1 \in 0 .. nt + nq + 1
    BY <1>1
  <2>3. CASE i < k
    <3>1. RingAt(s, h, i) = R(i) /\ RingAt(s, h, i + 1) = R(i + 1)
      BY <1>1, <1>10, <2>2, <2>3
    <3>2. /\ i \in 0 .. nt /\ k \in 0 .. nt /\ i # k
          /\ i + 1 \in 1 .. nt + 1 /\ k + 1 \in 1 .. nt + 1 /\ i + 1 # k + 1
      BY <1>1, <2>2, <2>3
    <3>3. R(i) # R(k) /\ R(i) # q[nq] /\ R(i + 1) # R(k + 1) /\ R(i + 1) # q[1]
      BY <1>6, <1>8, <1>d, <3>2
    <3>4. R(i) \in Cells \ {from} /\ R(i + 1) \in Cells \ {from}
      BY <1>d, <2>2
    <3> QED
      BY <1>4, <1>5, <3>1, <3>2, <3>3, <3>4
  <2>4. CASE i = k
    <3>1. RingAt(s, h, i) = R(k) /\ RingAt(s, h, i + 1) = Q((i + 1) - k) /\ (i + 1) - k = 1
      BY <1>1, <1>10, <2>2, <2>4
    <3>2. R(k) \in Cells \ {from} /\ q[1] \in Cells \ {from} /\ q[1] # R(k + 1)
      BY <1>6, <1>d
    <3> QED
      BY <1>4, <1>d, <3>1, <3>2
  <2>5. CASE k < i /\ i < k + nq
    <3>1. RingAt(s, h, i) = Q(i - k) /\ RingAt(s, h, i + 1) = Q((i + 1) - k) /\ (i + 1) - k = (i - k) + 1
      BY <1>1, <1>10, <2>2, <2>5
    <3>2. /\ i - k \in 0 .. nq /\ nq \in 0 .. nq /\ i - k # nq /\ i - k \in 1 .. nq
          /\ (i - k) + 1 \in 1 .. nq + 1 /\ 1 \in 1 .. nq + 1 /\ (i - k) + 1 # 1 /\ (i - k) + 1 \in 1 .. nq
      BY <1>1, <2>2, <2>5
    <3>3. Q(i - k) # Q(nq) /\ Q((i - k) + 1) # Q(1) /\ Q(i - k) # R(k) /\ Q((i - k) + 1) # R(k + 1)
      BY <1>6, <1>8, <1>d, <3>2
    <3> QED
      BY SMTT(40), <1>4, <1>5, <1>d, <3>1, <3>2, <3>3
  <2>6. CASE i = k + nq
    <3>1. RingAt(s, h, i) = Q(nq) /\ RingAt(s, h, i + 1) = R(k + 1)
      <4>1. ~ (i <= k) /\ i - k = nq /\ ~ (i + 1 <= k) /\ ~ (i + 1 <= k + nq) /\ (i + 1) - nq = k + 1
        BY SMTT(40), <1>1, <2>6
      <4> QED
        BY <1>10, <2>2, <2>6, <4>1
    <3>2. R(k + 1) \in Cells \ {from} /\ Q(nq) \in Cells \ {from} /\ Q(nq) # R(k)
      BY <1>6, <1>d
    <3> QED
      BY <1>4, <1>d, <3>1, <3>2
  <2>7. CASE i > k + nq
    <3>1. RingAt(s, h, i) = R(i - nq) /\ RingAt(s, h, i + 1) = R((i + 1) - nq) /\ (i + 1) - nq = (i - nq) + 1
      BY <1>1, <1>10, <2>2, <2>7
    <3>2. /\ i - nq \in 0 .. nt /\ k \in 0 .. nt /\ i - nq # k
          /\ (i - nq) + 1 \in 1 .. nt + 1 /\ k + 1 \in 1 .. nt + 1 /\ (i - nq) + 1 # k + 1
      BY <1>1, <2>2, <2>7
    <3>3. /\ R(i - nq) # R(k) /\ R(i - nq) # q[nq]
          /\ R((i - nq) + 1) # R(k + 1) /\ R((i - nq) + 1) # q[1]
      BY <1>6, <1>8, <1>d, <3>2
    <3>4. R(i - nq) \in Cells \ {from} /\ R((i - nq) + 1) \in Cells \ {from}
      BY <1>d, <3>2
    <3> QED
      BY <1>4, <1>5, <3>1, <3>2, <3>3, <3>4
  <2> QED
    BY <1>1, <2>2, <2>3, <2>4, <2>5, <2>6, <2>7
<1>12. ASSUME NEW g \in Heads \ left PROVE IsRing(p, new[g], g)
  <2>1. CASE g = h
    BY <1>2, <1>11, <2>1
  <2>2. CASE g = from
    <3>1. p.next[from] = from /\ p.prev[from] = from
      BY <1>12, <2>2
    <3>2. Len(new[from]) = 0 /\ RingAt(new[from], from, 0) = from /\ RingAt(new[from], from, 0 + 1) = from
      BY <1>2 DEF RingAt
    <3> QED
      BY <2>2, <3>1, <3>2 DEF IsRing
  <2>3. CASE g # h /\ g # from
    <3>1. L[g] \in Seq(Links) /\ IsRing(m, L[g], g) /\ new[g] = L[g]
      BY <1>2, <1>12, <2>3 DEF HoldsLists
    <3>2. ASSUME NEW i \in 0 .. Len(L[g]) + 1
          PROVE  /\ p.next[RingAt(L[g], g, i)] = m.next[RingAt(L[g], g, i)]
                 /\ p.prev[RingAt(L[g], g, i)] = m.prev[RingAt(L[g], g, i)]
      <4>1. i \in Int /\ RingAt(L[g], g, i) \in Cells
        BY <3>1, RingCells
      <4>2. \A j \in Int : RingAt(L[g], g, i) # R(j) /\ RingAt(L[g], g, i) # Q(j)
        BY <1>6, <2>3, <4>1
      <4>3. Q(0) = from
        BY <1>1, RingCells
      <4>4. nq \in Int
        BY <1>1
      <4> QED
        BY <1>4, <1>d, <4>1, <4>2, <4>3, <4>4
    <3> QED
      BY <3>1, <3>2, RingStays
  <2> QED
    BY <2>1, <2>2, <2>3
<1>13. Distinct(new)
  <2>1. ASSUME NEW i \in 1 .. Len(s)
        PROVE  \/ \E j \in 1 .. nt : s[i] = t[j] /\ i = (IF j <= k THEN j ELSE j + nq)
               \/ \E j \in 1 .. nq : s[i] = q[j] /\ i = j + k
    <3>1. CASE i <= k
      BY <1>1, <1>s, <3>1
    <3>2. CASE ~ (i <= k) /\ i <= k + nq
      <4>1. i - k \in 1 .. nq /\ i = (i - k) + k
        BY <1>1, <1>s, <3>2
      <4> QED
        BY <1>1, <1>s, <3>2, <4>1
    <3>3. CASE ~ (i <= k + nq)
      <4>1. i - nq \in 1 .. nt /\ ~ (i <= k) /\ ~ (i - nq <= k) /\ i = (i - nq) + nq
        BY <1>1, <1>s, <3>3
      <4> QED
        BY <1>1, <1>s, <3>3, <4>1
    <3> QED
      BY <1>1, <1>s, <3>1, <3>2, <3>3
  <2>2. \A g \in Heads \ {h, from} : \A i \in 1 .. Len(s) : \A j \in 1 .. Len(L[g]) : s[i] # L[g][j]
    BY <1>c, <2>1
  <2>3. ASSUME NEW i \in 1 .. Len(s), NEW j \in 1 .. Len(s), s[i] = s[j] PROVE i = j
    <3>1. CASE \E a \in 1 .. nt : s[i] = t[a] /\ i = (IF a <= k THEN a ELSE a + nq)
      <4>1. PICK a \in 1 .. nt : s[i] = t[a] /\ i = (IF a <= k THEN a ELSE a + nq)
        BY <3>1
      <4>2. \E b \in 1 .. nt : s[j] = t[b] /\ j = (IF b <= k THEN b ELSE b + nq)
        <5>1. \A x \in 1 .. nt : \A y \in 1 .. nq : t[x] # q[y]
          BY <1>c
        <5> QED
          BY <2>1, <2>3, <4>1, <5>1
      <4> QED
        BY <1>1, <2>3, <4>1, <4>2
    <3>2. CASE \E a \in 1 .. nq : s[i] = q[a] /\ i = a + k
      <4>1. PICK a \in 1 .. nq : s[i] = q[a] /\ i = a + k
        BY <3>2
      <4>2. \E b \in 1 .. nq : s[j] = q[b] /\ j = b + k
        <5>1. \A x \in 1 .. nt : \A y \in 1 .. nq : t[x] # q[y]
          BY <1>c
        <5> QED
          BY ZenonT(60), <2>1, <2>3, <4>1, <5>1
      <4> QED
        BY <1>1, <2>3, <4>1, <4>2
    <3> QED
      BY <2>1, <3>1, <3>2
  <2>5. ASSUME NEW f \in Heads, NEW g \in Heads, NEW i \in 1 .. Len(new[f]), NEW j \in 1 .. Len(new[g]),
               new[f][i] = new[g][j]
        PROVE  f = g /\ i = j
    <3>a. f # from /\ g # from
      BY <1>2, <2>5
    <3>1. CASE f = h /\ g = h
      BY <1>2, <2>3, <2>5, <3>1
    <3>2. CASE f = h /\ g # h
      <4>1. new[f] = s /\ new[g] = L[g] /\ g \in Heads \ {h, from}
        BY <1>2, <3>2, <3>a
      <4>2. i \in 1 .. Len(s) /\ j \in 1 .. Len(L[g]) /\ s[i] = L[g][j]
        BY <2>5, <4>1
      <4> QED
        BY <2>2, <4>1, <4>2
    <3>3. CASE f # h /\ g = h
      <4>1. new[g] = s /\ new[f] = L[f] /\ f \in Heads \ {h, from}
        BY <1>2, <3>3, <3>a
      <4>2. j \in 1 .. Len(s) /\ i \in 1 .. Len(L[f]) /\ s[j] = L[f][i]
        BY <2>5, <4>1
      <4> QED
        BY <2>2, <4>1, <4>2
    <3>4. CASE f # h /\ g # h
      <4>1. new[g] = L[g] /\ new[f] = L[f] /\ f \in Heads \ {h, from} /\ g \in Heads \ {h, from}
        BY <1>2, <3>4, <3>a
      <4> QED
        BY <1>c, <2>5, <4>1
    <3> QED
      BY <3>1, <3>2, <3>3, <3>4
  <2> QED
    BY <2>5 DEF Distinct
<1>14. ASSUME NEW x \in Links
       PROVE  \/ \E g \in Heads : \E i \in 1 .. Len(new[g]) : new[g][i] = x
              \/ p.next[x] = NoLink /\ p.prev[x] = NoLink
  <2>1. CASE \E i \in 1 .. nt : t[i] = x
    <3>1. PICK i \in 1 .. nt : t[i] = x
      BY <2>1
    <3>2. i <= k => i \in 1 .. Len(s) /\ s[i] = x
      BY <1>1, <1>s, <3>1
    <3>3. ~ (i <= k) => i + nq \in 1 .. nt + nq /\ ~ (i + nq <= k) /\ ~ (i + nq <= k + nq) /\ (i + nq) - nq = i
      BY <1>1, <1>s, <3>1
    <3>4. ~ (i <= k) => i + nq \in 1 .. Len(s) /\ s[i + nq] = x
      BY <1>1, <1>s, <3>1, <3>3
    <3> QED
      BY <1>2, <3>2, <3>4
  <2>2. CASE \E i \in 1 .. nq : q[i] = x
    <3>1. PICK i \in 1 .. nq : q[i] = x
      BY <2>2
    <3>2. i + k \in 1 .. nt + nq /\ ~ (i + k <= k) /\ i + k <= k + nq /\ (i + k) - k = i
      BY <1>1, <1>s, <3>1
    <3>3. i + k \in 1 .. Len(s) /\ s[i + k] = x
      BY <1>1, <1>s, <3>1, <3>2
    <3> QED
      BY <1>2, <3>3
  <2>3. CASE \E g \in Heads \ {h, from} : \E i \in 1 .. Len(L[g]) : L[g][i] = x
    BY <1>2, <2>3
  <2>4. CASE \A g \in Heads : \A i \in 1 .. Len(L[g]) : L[g][i] # x
    <3>1. m.next[x] = NoLink /\ m.prev[x] = NoLink /\ x \in Cells \ {from}
      BY <1>a, <2>4, LinksAssumption DEF Cells
    <3>2. \A i \in Int : R(i) # x /\ Q(i) # x
      BY <1>b, <2>4
    <3>3. R(k) # x /\ R(k + 1) # x /\ q[1] # x /\ q[nq] # x
      BY <1>1, <1>s, <1>d, <3>2
    <3> QED
      BY <1>4, <3>1, <3>3
  <2> QED
    BY <2>1, <2>2, <2>3, <2>4 DEF t, q, nt, nq
<1>15. \A g \in Heads \cap left : new[g] = <<>>
  BY <1>2 DEF HoldsLists
<1>16. HoldsLists(p, left, new)
  BY <1>2, <1>12, <1>13, <1>14, <1>15 DEF HoldsLists
<1> QED
  BY <1>16 DEF new

-----------------------------------------------------------------------------
(* The first nodes of a ring go to another one *)

\* t is a and b.
CutBehind(a, b, t, k) ==
  /\ Len(a) = k /\ \A i \in 1 .. k : a[i] = t[i]
  /\ Len(b) = Len(t) - k /\ \A i \in 1 .. Len(t) - k : b[i] = t[k + i]

\* The links of p are those of m, but the ring of list leads from first to
\* entry, and that of h from rest on.
LinkedApart(p, m, list, h, first, entry, rest) ==
  \A c \in Cells :
    /\ p.next[c] = IF c = list THEN first ELSE IF c = entry THEN list ELSE IF c = h THEN rest ELSE m.next[c]
    /\ p.prev[c] = IF c = list THEN entry ELSE IF c = rest THEN h ELSE IF c = first THEN list ELSE m.prev[c]

\* The first k nodes of h go to list, which holds none.
LEMMA CutRing ==
  ASSUME NEW m, NEW gone, NEW L, HoldsLists(m, gone, L),
         NEW h \in Heads \ gone, NEW list \in Heads, list # h, L[list] = <<>>,
         NEW k \in 1 .. Len(L[h]),
         NEW a \in Seq(Links), NEW b \in Seq(Links), CutBehind(a, b, L[h], k),
         NEW p, IsMemory(p),
         LinkedApart(p, m, list, h, RingAt(L[h], h, 1), RingAt(L[h], h, k), RingAt(L[h], h, k + 1))
  PROVE  HoldsLists(p, gone \ {list}, [L EXCEPT ![list] = a, ![h] = b])
<1> DEFINE t == L[h]
           nt == Len(t)
           R(i) == RingAt(t, h, i)
           new == [L EXCEPT ![list] = a, ![h] = b]
<1>1. /\ t \in Seq(Links) /\ nt \in Nat /\ k \in 1 .. nt
      /\ \A i, j \in 1 .. nt : t[i] = t[j] => i = j
  <2>1. t \in Seq(Links) /\ \A g \in Heads : \A i, j \in 1 .. Len(L[g]) : L[g][i] = L[g][j] => i = j
    BY ListsApart
  <2> QED
    BY <2>1
<1>s. /\ Len(a) = k /\ \A i \in 1 .. k : a[i] = t[i]
      /\ Len(b) = nt - k /\ \A i \in 1 .. nt - k : b[i] = t[k + i]
  BY DEF CutBehind
<1>2. /\ new \in [Heads -> Seq(Links)] /\ new[h] = b /\ new[list] = a
      /\ \A g \in Heads \ {h, list} : new[g] = L[g]
  <2>1. L \in [Heads -> Seq(Links)]
    BY DEF HoldsLists
  <2> QED
    BY <2>1
<1>4. \A c \in Cells :
        /\ p.next[c] = IF c = list THEN R(1) ELSE IF c = R(k) THEN list ELSE IF c = h THEN R(k + 1) ELSE m.next[c]
        /\ p.prev[c] = IF c = list THEN R(k) ELSE IF c = R(k + 1) THEN h ELSE IF c = R(1) THEN list ELSE m.prev[c]
  BY DEF LinkedApart
<1>5. \A i \in 0 .. nt : m.next[R(i)] = R(i + 1) /\ m.prev[R(i + 1)] = R(i)
  BY DEF HoldsLists, IsRing
<1>6. /\ \A g \in Heads \ {h} : \A i, j \in Int : RingAt(L[g], g, i) # R(j)
      /\ \A g \in Heads \ {list} : \A i \in Int : RingAt(L[g], g, i) # list
      /\ \A i \in Int : R(i) # list
  <2>1. \A f, g \in Heads : \A i, j \in Int : g # f => RingAt(L[g], g, i) # RingAt(L[f], f, j)
    BY ListsApart
  <2>2. RingAt(L[list], list, 0) = list
    BY DEF RingAt
  <2> QED
    BY <2>1, <2>2
<1>a. \A x \in Links :
        \/ \E g \in Heads : \E i \in 1 .. Len(L[g]) : L[g][i] = x
        \/ m.next[x] = NoLink /\ m.prev[x] = NoLink
  BY DEF HoldsLists
<1>b. \A x \in Links : (\A g \in Heads : \A i \in 1 .. Len(L[g]) : L[g][i] # x) =>
        \A i \in Int : R(i) # x
  <2>1. ASSUME NEW x \in Links, \A g \in Heads : \A i \in 1 .. Len(L[g]) : L[g][i] # x
        PROVE  \A g \in Heads : \A i \in Int : RingAt(L[g], g, i) # x
    BY <2>1, ListsApart
  <2> QED
    BY <2>1
<1>c. /\ \A f, g \in Heads \ {h, list} : \A i \in 1 .. Len(L[f]) : \A j \in 1 .. Len(L[g]) :
           L[f][i] = L[g][j] => f = g /\ i = j
      /\ \A f \in Heads \ {h, list} : \A i \in 1 .. Len(L[f]) : \A j \in 1 .. nt : t[j] # L[f][i]
  BY DEF HoldsLists, Distinct
<1>e. Len(L[list]) = 0
  OBVIOUS
<1> HIDE DEF t, nt, new
<1>8. /\ \A i, j \in 0 .. nt : R(i) = R(j) => i = j
      /\ \A i, j \in 1 .. nt + 1 : R(i) = R(j) => i = j
  BY <1>1, RingDiffers DEF nt
<1>9. /\ R(0) = h /\ R(nt + 1) = h
      /\ \A i \in 1 .. nt : R(i) = t[i]
      /\ \A i \in Int : R(i) \in Cells /\ R(i) # list
      /\ list \in Cells
  <2>1. \A i \in Int : R(i) # list
    BY <1>6
  <2>2. list \in Cells
    BY DEF Cells
  <2> QED
    BY <1>1, <2>1, <2>2, RingCells DEF nt
<1>10. /\ \A i \in 1 .. k : RingAt(a, list, i) = R(i)
       /\ RingAt(a, list, 0) = list /\ RingAt(a, list, k + 1) = list
       /\ RingAt(b, h, 0) = h
       /\ \A i \in 1 .. nt - k + 1 : RingAt(b, h, i) = R(k + i)
  <2>1. \A i \in 1 .. k : RingAt(a, list, i) = R(i)
    BY <1>1, <1>s, <1>9 DEF RingAt
  <2>2. RingAt(a, list, 0) = list /\ RingAt(a, list, k + 1) = list /\ RingAt(b, h, 0) = h
    BY <1>1, <1>s DEF RingAt
  <2>3. ASSUME NEW i \in 1 .. nt - k + 1 PROVE RingAt(b, h, i) = R(k + i)
    <3>1. CASE i \in 1 .. nt - k
      <4>1. RingAt(b, h, i) = b[i] /\ k + i \in 1 .. nt
        BY SMTT(40), <1>1, <1>s, <3>1 DEF RingAt
      <4> QED
        BY <1>s, <1>9, <3>1, <4>1
    <3>2. CASE i = nt - k + 1
      <4>1. RingAt(b, h, i) = h /\ k + i = nt + 1
        <5>1. k + i = nt + 1
          BY <1>1, <3>2
        <5>2. Len(b) = nt - k
          BY <1>s
        <5>3. ~ (i \in 1 .. nt - k)
          BY <1>1, <3>2
        <5>4. ~ (i \in 1 .. Len(b))
          BY <5>2, <5>3
        <5> QED
          BY <5>1, <5>4 DEF RingAt
      <4> QED
        BY <1>9, <4>1
    <3> QED
      BY <1>1, <2>3, <3>1, <3>2
  <2> QED
    BY <2>1, <2>2, <2>3
<1>11. IsRing(p, a, list)
  <2>1. SUFFICES ASSUME NEW i \in 0 .. k
                 PROVE  /\ p.next[RingAt(a, list, i)] = RingAt(a, list, i + 1)
                        /\ p.prev[RingAt(a, list, i + 1)] = RingAt(a, list, i)
    BY <1>1, <1>s DEF IsRing
  <2>2. CASE i = 0
    <3>1. RingAt(a, list, i) = list /\ RingAt(a, list, i + 1) = R(1)
      BY <1>1, <1>10, <2>2
    <3>2. R(1) # R(k + 1)
      <4>1. 1 \in 1 .. nt + 1 /\ k + 1 \in 1 .. nt + 1 /\ k + 1 # 1
        BY <1>1
      <4> QED
        BY <1>8, <4>1
    <3> QED
      BY <1>4, <1>9, <3>1, <3>2
  <2>3. CASE i \in 1 .. k - 1
    <3>1. RingAt(a, list, i) = R(i) /\ RingAt(a, list, i + 1) = R(i + 1)
      BY <1>1, <1>10, <2>3
    <3>2. /\ i \in 0 .. nt /\ k \in 0 .. nt /\ 0 \in 0 .. nt /\ i # k /\ i # 0
          /\ i + 1 \in 1 .. nt + 1 /\ 1 \in 1 .. nt + 1 /\ k + 1 \in 1 .. nt + 1 /\ i + 1 # 1 /\ i + 1 # k + 1
      BY <1>1, <2>3
    <3>3. R(i) # R(k) /\ R(i) # h /\ R(i + 1) # R(1) /\ R(i + 1) # R(k + 1)
      BY <1>8, <1>9, <3>2
    <3> QED
      BY <1>4, <1>5, <1>9, <3>1, <3>2, <3>3
  <2>4. CASE i = k
    <3>1. RingAt(a, list, i) = R(k) /\ RingAt(a, list, i + 1) = list
      BY <1>1, <1>10, <2>4
    <3>2. k \in Int
      BY <1>1
    <3> QED
      BY <1>4, <1>9, <3>1, <3>2
  <2> QED
    BY <1>1, <2>1, <2>2, <2>3, <2>4
<1>12. IsRing(p, b, h)
  <2>1. SUFFICES ASSUME NEW i \in 0 .. nt - k
                 PROVE  /\ p.next[RingAt(b, h, i)] = RingAt(b, h, i + 1)
                        /\ p.prev[RingAt(b, h, i + 1)] = RingAt(b, h, i)
    BY <1>1, <1>s DEF IsRing
  <2>2. CASE i = 0
    <3>1. RingAt(b, h, i) = h /\ RingAt(b, h, i + 1) = R(k + 1)
      BY <1>1, <1>10, <2>2
    <3>2. h # R(k)
      <4>1. 0 \in 0 .. nt /\ k \in 0 .. nt /\ k # 0
        BY <1>1
      <4> QED
        BY <1>8, <1>9, <4>1
    <3>3. h \in Cells /\ h # list /\ k + 1 \in Int
      BY <1>1 DEF Cells
    <3> QED
      BY <1>4, <1>9, <3>1, <3>2, <3>3
  <2>3. CASE i # 0
    <3>1. RingAt(b, h, i) = R(k + i) /\ RingAt(b, h, i + 1) = R((k + i) + 1)
      <4>1. i \in 1 .. nt - k + 1 /\ i + 1 \in 1 .. nt - k + 1 /\ k + (i + 1) = (k + i) + 1
        BY <1>1, <2>3
      <4> QED
        BY <1>10, <4>1
    <3>2. /\ k + i \in 0 .. nt /\ k \in 0 .. nt /\ 0 \in 0 .. nt /\ k + i # k /\ k + i # 0
          /\ (k + i) + 1 \in 1 .. nt + 1 /\ 1 \in 1 .. nt + 1 /\ k + 1 \in 1 .. nt + 1
          /\ (k + i) + 1 # 1 /\ (k + i) + 1 # k + 1
      BY <1>1, <2>3
    <3>3. R(k + i) # R(k) /\ R(k + i) # h /\ R((k + i) + 1) # R(1) /\ R((k + i) + 1) # R(k + 1)
      BY <1>8, <1>9, <3>2
    <3> QED
      BY <1>4, <1>5, <1>9, <3>1, <3>2, <3>3
  <2> QED
    BY <2>2, <2>3
<1>13. ASSUME NEW g \in Heads \ (gone \ {list}) PROVE IsRing(p, new[g], g)
  <2>1. CASE g = h
    BY <1>2, <1>12, <2>1
  <2>2. CASE g = list
    BY <1>2, <1>11, <2>2
  <2>3. CASE g # h /\ g # list
    <3>1. L[g] \in Seq(Links) /\ IsRing(m, L[g], g) /\ new[g] = L[g]
      BY <1>2, <1>13, <2>3 DEF HoldsLists
    <3>2. ASSUME NEW i \in 0 .. Len(L[g]) + 1
          PROVE  /\ p.next[RingAt(L[g], g, i)] = m.next[RingAt(L[g], g, i)]
                 /\ p.prev[RingAt(L[g], g, i)] = m.prev[RingAt(L[g], g, i)]
      <4>1. i \in Int /\ RingAt(L[g], g, i) \in Cells
        BY <3>1, RingCells
      <4>2. (\A j \in Int : RingAt(L[g], g, i) # R(j)) /\ RingAt(L[g], g, i) # list
        BY <1>6, <2>3, <4>1
      <4>3. R(0) = h /\ 0 \in Int /\ 1 \in Int /\ k \in Int /\ k + 1 \in Int
        BY <1>1, <1>9
      <4>4. RingAt(L[g], g, i) \notin {h, list, R(1), R(k), R(k + 1)}
        BY <4>2, <4>3
      <4> QED
        BY <1>4, <4>1, <4>4
    <3> QED
      BY <3>1, <3>2, RingStays
  <2> QED
    BY <2>1, <2>2, <2>3
<1>14. Distinct(new)
  <2>1. /\ \A i \in 1 .. Len(a) : i \in 1 .. nt /\ i <= k /\ a[i] = t[i]
        /\ \A i \in 1 .. Len(b) : k + i \in 1 .. nt /\ k + i > k /\ b[i] = t[k + i]
    BY <1>1, <1>s
  <2>2. \A g \in Heads \ {h, list} : \A j \in 1 .. Len(L[g]) :
          (\A i \in 1 .. Len(a) : a[i] # L[g][j]) /\ (\A i \in 1 .. Len(b) : b[i] # L[g][j])
    <3>1. ASSUME NEW g \in Heads \ {h, list}, NEW j \in 1 .. Len(L[g])
          PROVE  \A i \in 1 .. nt : t[i] # L[g][j]
      BY <1>c
    <3>2. ASSUME NEW g \in Heads \ {h, list}, NEW j \in 1 .. Len(L[g])
          PROVE  \A i \in 1 .. Len(a) : a[i] # L[g][j]
      BY <2>1, <3>1
    <3>3. ASSUME NEW g \in Heads \ {h, list}, NEW j \in 1 .. Len(L[g])
          PROVE  \A i \in 1 .. Len(b) : b[i] # L[g][j]
      BY <2>1, <3>1
    <3> QED
      BY <3>2, <3>3
  <2>3. /\ \A i, j \in 1 .. Len(a) : a[i] = a[j] => i = j
        /\ \A i, j \in 1 .. Len(b) : b[i] = b[j] => i = j
        /\ \A i \in 1 .. Len(a) : \A j \in 1 .. Len(b) : a[i] # b[j]
    <3>1. \A i, j \in 1 .. Len(a) : a[i] = a[j] => i = j
      BY <1>1, <2>1
    <3>2. \A i, j \in 1 .. Len(b) : b[i] = b[j] => i = j
      <4>1. ASSUME NEW i \in 1 .. Len(b), NEW j \in 1 .. Len(b), b[i] = b[j] PROVE i = j
        <5>1. k + i = k + j
          BY <1>1, <2>1, <4>1
        <5> QED
          BY <1>1, <1>s, <5>1
      <4> QED
        BY <4>1
    <3>3. ASSUME NEW i \in 1 .. Len(a), NEW j \in 1 .. Len(b), a[i] = b[j] PROVE FALSE
      <4>1. i = k + j
        <5>1. i \in 1 .. nt /\ k + j \in 1 .. nt /\ t[i] = t[k + j]
          BY <2>1, <3>3
        <5>2. \A x, y \in 1 .. nt : t[x] = t[y] => x = y
          BY <1>1
        <5> QED
          BY <5>1, <5>2
      <4> QED
        BY <1>1, <1>s, <2>1, <4>1
    <3> QED
      BY <3>1, <3>2, <3>3
  <2>5. ASSUME NEW f \in Heads, NEW g \in Heads, NEW i \in 1 .. Len(new[f]), NEW j \in 1 .. Len(new[g]),
               new[f][i] = new[g][j]
        PROVE  f = g /\ i = j
    <3>1. CASE f \in {h, list} /\ g \in {h, list}
      BY <1>2, <2>3, <2>5, <3>1
    <3>2. CASE f \in {h, list} /\ g \notin {h, list}
      <4>1. new[f] \in {a, b} /\ new[g] = L[g] /\ g \in Heads \ {h, list}
        BY <1>2, <3>2
      <4>2. j \in 1 .. Len(L[g]) /\ new[f][i] = L[g][j]
        BY <2>5, <4>1
      <4> QED
        BY <2>2, <4>1, <4>2
    <3>3. CASE f \notin {h, list} /\ g \in {h, list}
      <4>1. new[g] \in {a, b} /\ new[f] = L[f] /\ f \in Heads \ {h, list}
        BY <1>2, <3>3
      <4>2. i \in 1 .. Len(L[f]) /\ new[g][j] = L[f][i]
        BY <2>5, <4>1
      <4> QED
        BY <2>2, <4>1, <4>2
    <3>4. CASE f \notin {h, list} /\ g \notin {h, list}
      <4>1. new[g] = L[g] /\ new[f] = L[f] /\ f \in Heads \ {h, list} /\ g \in Heads \ {h, list}
        BY <1>2, <3>4
      <4> QED
        BY <1>c, <2>5, <4>1
    <3> QED
      BY <3>1, <3>2, <3>3, <3>4
  <2> QED
    BY <2>5 DEF Distinct
<1>15. ASSUME NEW x \in Links
       PROVE  \/ \E g \in Heads : \E i \in 1 .. Len(new[g]) : new[g][i] = x
              \/ p.next[x] = NoLink /\ p.prev[x] = NoLink
  <2>1. CASE \E i \in 1 .. nt : t[i] = x
    <3>1. PICK i \in 1 .. nt : t[i] = x
      BY <2>1
    <3>2. i <= k => i \in 1 .. Len(a) /\ a[i] = x
      BY <1>1, <1>s, <3>1
    <3>3. ~ (i <= k) => i - k \in 1 .. nt - k /\ k + (i - k) = i
      BY <1>1, <3>1
    <3>4. ~ (i <= k) => i - k \in 1 .. Len(b) /\ b[i - k] = x
      BY <1>s, <3>1, <3>3
    <3> QED
      BY <1>2, <3>2, <3>4
  <2>3. CASE \E g \in Heads \ {h, list} : \E i \in 1 .. Len(L[g]) : L[g][i] = x
    BY <1>2, <2>3
  <2>4. CASE \A g \in Heads : \A i \in 1 .. Len(L[g]) : L[g][i] # x
    <3>1. m.next[x] = NoLink /\ m.prev[x] = NoLink /\ x \in Cells /\ x # list /\ x # h
      BY <1>a, <2>4, LinksAssumption DEF Cells
    <3>2. R(1) # x /\ R(k) # x /\ R(k + 1) # x
      <4>1. 1 \in Int /\ k \in Int /\ k + 1 \in Int
        BY <1>1
      <4> QED
        BY <1>b, <2>4, <4>1
    <3> QED
      BY <1>4, <3>1, <3>2
  <2> QED
    BY <1>e, <2>1, <2>3, <2>4 DEF t, nt
<1>16. \A g \in Heads \cap (gone \ {list}) : new[g] = <<>>
  BY <1>2 DEF HoldsLists
<1>17. HoldsLists(p, gone \ {list}, new)
  BY <1>2, <1>13, <1>14, <1>15, <1>16 DEF HoldsLists
<1> QED
  BY <1>17 DEF new

-----------------------------------------------------------------------------
(* A ring without nodes, and how a ring is read *)

\* A head without nodes gets the links of an empty ring.
LEMMA HeadReset ==
  ASSUME NEW m, NEW gone, NEW L, HoldsLists(m, gone, L), NEW h \in Heads, L[h] = <<>>
  PROVE  HoldsLists(INIT_XLIST_HEAD(m, h), gone \ {h}, L)
<1> DEFINE p == INIT_XLIST_HEAD(m, h)
<1>1. /\ IsMemory(p)
      /\ \A c \in Cells : /\ p.next[c] = IF c = h THEN h ELSE m.next[c]
                          /\ p.prev[c] = IF c = h THEN h ELSE m.prev[c]
  BY DEF HoldsLists, IsMemory, INIT_XLIST_HEAD, Cells
<1> HIDE DEF p
<1>2. ASSUME NEW g \in Heads \ (gone \ {h}) PROVE IsRing(p, L[g], g)
  <2>1. CASE g = h
    <3>1. Len(L[h]) = 0 /\ RingAt(L[h], h, 0) = h /\ RingAt(L[h], h, 0 + 1) = h /\ h \in Cells
      BY DEF RingAt, Cells
    <3> QED
      BY <1>1, <2>1, <3>1 DEF IsRing
  <2>2. CASE g # h
    <3>1. L[g] \in Seq(Links) /\ IsRing(m, L[g], g)
      BY <1>2, <2>2 DEF HoldsLists
    <3>2. \A i \in Int : RingAt(L[g], g, i) # h /\ RingAt(L[g], g, i) \in Cells
      <4>1. \A i \in Int : RingAt(L[g], g, i) # RingAt(L[h], h, 0)
        BY <2>2, ListsApart
      <4>2. RingAt(L[h], h, 0) = h
        BY DEF RingAt
      <4> QED
        BY <3>1, <4>1, <4>2, RingCells
    <3>3. \A i \in 0 .. Len(L[g]) + 1 : i \in Int
      OBVIOUS
    <3> QED
      BY SMTT(40), <1>1, <3>1, <3>2, <3>3, RingStays
  <2> QED
    BY <2>1, <2>2
<1>3. ASSUME NEW n \in Links
      PROVE  \/ \E g \in Heads : \E i \in 1 .. Len(L[g]) : L[g][i] = n
             \/ p.next[n] = NoLink /\ p.prev[n] = NoLink
  <2>1. n # h /\ n \in Cells
    BY LinksAssumption DEF Cells
  <2> QED
    BY <1>1, <2>1 DEF HoldsLists
<1>4. HoldsLists(p, gone \ {h}, L)
  BY <1>1, <1>2, <1>3 DEF HoldsLists
<1> QED
  BY <1>4 DEF p

\* The link leads from h through the nodes of s, which differ, and back.
Leads(link, s, h) ==
  /\ link \in [Cells -> Cells \cup {NoLink}] /\ s \in Seq(Links)
  /\ \A i, j \in 1 .. Len(s) : s[i] = s[j] => i = j
  /\ \A i \in 0 .. Len(s) : link[RingAt(s, h, i)] = RingAt(s, h, i + 1)

\* A list is read as it is linked: the ring closes after its last node, which
\* is not later than Round looks.
LEMMA RoundIs ==
  ASSUME NEW s, NEW h \in Heads, NEW link, Leads(link, s, h)
  PROVE  Round(link, h) = s
<1> DEFINE N == Len(s) + 1
           most == Cardinality(Links) + 1
           R(i) == RingAt(s, h, i)
           Body(f) == [k \in 0 .. most |->
                        IF k = 0 THEN h ELSE IF f[k - 1] = NoLink THEN NoLink ELSE link[f[k - 1]]]
           cell == CHOOSE f : f = Body(f)
           ends == {k \in 1 .. most : cell[k] = h}
<1>1. Round(link, h) = IF ends = {} THEN <<NoLink>> ELSE [k \in 1 .. Min(ends) - 1 |-> cell[k]]
  BY DEF Round
<1>2. /\ N \in Nat /\ N >= 1 /\ Len(s) \in Nat /\ Len(s) = N - 1
      /\ R(0) = h /\ R(N) = h
      /\ \A i \in 1 .. Len(s) : R(i) = s[i] /\ s[i] \in Links /\ R(i) # h
      /\ \A i \in Int : R(i) # NoLink
  BY RingCells, LinksAssumption DEF Leads
<1>3. most \in Nat /\ N <= most
  <2>1. s \in Injection(1 .. Len(s), Links)
    BY <1>2 DEF Leads, Injection, IsInjective
  <2>2. Cardinality(1 .. Len(s)) <= Cardinality(Links) /\ Cardinality(Links) \in Nat
    BY <2>1, LinksAssumption, FS_Injection, FS_CardinalityType
  <2>3. Cardinality(1 .. Len(s)) = Len(s)
    <3> DEFINE n == Len(s)
    <3>1. n \in Int /\ 1 \in Int /\ n >= 0
      BY <1>2
    <3> HIDE DEF n
    <3>2. Cardinality(1 .. n) = IF 1 > n THEN 0 ELSE n - 1 + 1
      BY <3>1, FS_Interval
    <3>3. Cardinality(1 .. n) = n
      BY <3>1, <3>2
    <3> QED
      BY <3>3 DEF n
  <2> QED
    BY <1>2, <2>2, <2>3
<1>4. \A i \in 0 .. Len(s) : link[R(i)] = R(i + 1)
  BY DEF Leads
<1> HIDE DEF N, most, R
<1>5. PICK f \in [0 .. most -> Cells \cup {NoLink}] :
        f[0] = h /\ \A k \in 1 .. most : f[k] = IF f[k - 1] = NoLink THEN NoLink ELSE link[f[k - 1]]
  <2> DEFINE V == Cells \cup {NoLink}
             step == [k \in 1 .. most |-> [c \in V |-> IF c = NoLink THEN NoLink ELSE link[c]]]
  <2>1. h \in V /\ step \in [1 .. most -> [V -> V]]
    BY DEF Cells, Leads
  <2>2. \A k \in 1 .. most : \A c \in V : step[k][c] = IF c = NoLink THEN NoLink ELSE link[c]
    OBVIOUS
  <2> HIDE DEF V, step, Body, cell, ends
  <2>3. PICK f \in [0 .. most -> V] : f[0] = h /\ \A k \in 1 .. most : f[k] = step[k][f[k - 1]]
    <3>1. \E f \in [0 .. most -> V] : f[0] = h /\ \A n \in 1 .. most : f[n] = step[n][f[n - 1]]
      <4>1. most \in Nat /\ h \in V /\ step \in [1 .. most -> [V -> V]]
        BY <1>3, <2>1
      <4> QED
        BY SMTT(40), <4>1, LoopExists
    <3> QED
      BY <3>1
  <2>4. ASSUME NEW k \in 1 .. most
        PROVE  f[k] = IF f[k - 1] = NoLink THEN NoLink ELSE link[f[k - 1]]
    <3>1. f[k - 1] \in V
      BY <1>3
    <3> QED
      BY <2>2, <2>3, <3>1
  <2> QED
    BY <2>3, <2>4 DEF V
<1>6. f = Body(f)
  <2>1. ASSUME NEW k \in 0 .. most PROVE f[k] = Body(f)[k]
    <3>1. CASE k = 0
      BY <1>5, <3>1
    <3>2. CASE k # 0
      <4>1. k \in 1 .. most
        BY <1>3, <3>2
      <4> QED
        BY <1>5, <3>2, <4>1
    <3> QED
      BY <3>1, <3>2
  <2> QED
    BY <1>5, <2>1
<1>7. cell = Body(cell)
  BY <1>6
<1> HIDE DEF cell
<1>8. cell[0] = h /\ \A k \in 1 .. most : cell[k] = IF cell[k - 1] = NoLink THEN NoLink ELSE link[cell[k - 1]]
  <2>1. 0 \in 0 .. most /\ \A k \in 1 .. most : k \in 0 .. most /\ k # 0
    BY <1>3
  <2> QED
    BY <1>7, <2>1
<1>9. \A k \in 0 .. N : cell[k] = R(k)
  <2> DEFINE Bad == {k \in 0 .. N : cell[k] # R(k)}
  <2>1. ASSUME Bad # {} PROVE FALSE
    <3>1. PICK k \in Bad : \A j \in Bad : k <= j
      <4>1. Bad \subseteq Nat
        BY <1>2
      <4> HIDE DEF Bad
      <4> QED
        BY <2>1, <4>1, LeastElement
    <3>2. k # 0
      BY <1>2, <1>8, <3>1
    <3>3. k \in 1 .. most /\ k - 1 \in 0 .. N /\ ~ (k <= k - 1) /\ k - 1 \in 0 .. Len(s) /\ (k - 1) + 1 = k
      BY <1>2, <1>3, <3>1, <3>2
    <3>4. cell[k - 1] = R(k - 1)
      BY <3>1, <3>3
    <3>5. R(k - 1) # NoLink /\ link[R(k - 1)] = R(k)
      BY <1>2, <1>4, <3>3
    <3>6. cell[k] = R(k)
      BY <1>8, <3>3, <3>4, <3>5
    <3> QED
      BY <3>1, <3>6
  <2> QED
    BY <2>1
<1>10. \A k \in 1 .. Len(s) : cell[k] = s[k] /\ s[k] # h
  <2>1. \A k \in 1 .. Len(s) : k \in 0 .. N
    BY <1>2
  <2> QED
    BY <1>2, <1>9, <2>1
<1>11. cell[N] = h
  <2>1. N \in 0 .. N
    BY <1>2
  <2> QED
    BY <1>2, <1>9, <2>1
<1>12. ends # {} /\ Min(ends) = N
  <2>1. N \in ends
    BY <1>2, <1>3, <1>11
  <2>2. ends \subseteq Nat
    BY <1>3
  <2>3. ASSUME NEW k \in ends PROVE k >= N
    <3>1. k \in 1 .. most /\ cell[k] = h
      OBVIOUS
    <3>2. ~ (k \in 1 .. Len(s))
      BY <1>10, <3>1
    <3> QED
      BY <1>2, <1>3, <3>1, <3>2
  <2> HIDE DEF ends
  <2>4. Min(ends) \in ends /\ \A i \in ends : Min(ends) <= i
    BY <2>1, <2>2, LeastElement
  <2>5. Min(ends) \in Nat /\ Min(ends) <= N /\ Min(ends) >= N
    BY <2>1, <2>2, <2>3, <2>4
  <2> QED
    BY <1>2, <2>1, <2>5
<1> HIDE DEF ends
<1>13. Round(link, h) = [k \in 1 .. N - 1 |-> cell[k]]
  BY <1>1, <1>12
<1>14. s = [k \in 1 .. N - 1 |-> s[k]]
  BY <1>2 DEF Leads
<1> QED
  BY <1>2, <1>10, <1>13, <1>14

\* How a list that is held is read, and what is next to its head.
LEMMA ListsRead ==
  ASSUME NEW m, NEW gone, NEW L, HoldsLists(m, gone, L), NEW h \in Heads \ gone
  PROVE  /\ Round(m.next, h) = L[h] /\ Round(m.prev, h) = Reverse(L[h])
         /\ m.next[h] = RingAt(L[h], h, 1) /\ m.prev[h] = RingAt(L[h], h, Len(L[h]))
         /\ m.next[h] = h <=> Len(L[h]) = 0
         /\ m.prev[h] = h <=> Len(L[h]) = 0
         /\ Len(L[h]) > 0 => (m.next[h] = m.prev[h] <=> Len(L[h]) = 1)
<1> DEFINE s == L[h]
           r == Reverse(s)
<1>1. /\ s \in Seq(Links) /\ Len(s) \in Nat /\ \A i, j \in 1 .. Len(s) : s[i] = s[j] => i = j
      /\ IsRing(m, s, h) /\ IsMemory(m)
  <2>1. s \in Seq(Links) /\ \A i, j \in 1 .. Len(s) : s[i] = s[j] => i = j
    BY ListsApart
  <2> QED
    BY <2>1 DEF HoldsLists
<1> HIDE DEF s
<1>2. /\ RingAt(s, h, 0) = h /\ RingAt(s, h, Len(s) + 1) = h
      /\ \A i \in 1 .. Len(s) : RingAt(s, h, i) = s[i] /\ s[i] \in Links /\ s[i] # h
  <2>1. \A i \in 1 .. Len(s) : s[i] # h
    BY <1>1, ElementOfSeq, LinksAssumption
  <2> QED
    BY <1>1, <2>1, RingCells
<1>3. \A i \in 0 .. Len(s) : /\ m.next[RingAt(s, h, i)] = RingAt(s, h, i + 1)
                              /\ m.prev[RingAt(s, h, i + 1)] = RingAt(s, h, i)
  BY <1>1 DEF IsRing
<1>4. Round(m.next, h) = s
  <2>1. Leads(m.next, s, h)
    BY <1>1, <1>3 DEF Leads, IsMemory
  <2> QED
    BY <2>1, RoundIs
<1>5. Round(m.prev, h) = r
  <2>1. r = [i \in 1 .. Len(s) |-> s[(Len(s) - i) + 1]]
    BY DEF Reverse
  <2>2. \A i \in 1 .. Len(s) : (Len(s) - i) + 1 \in 1 .. Len(s)
    BY <1>1
  <2>3. r \in Seq(Links) /\ Len(r) = Len(s) /\ \A i \in 1 .. Len(s) : r[i] = s[(Len(s) - i) + 1]
    <3>1. \A i \in 1 .. Len(s) : s[(Len(s) - i) + 1] \in Links
      BY <1>2, <2>2
    <3> QED
      BY <1>1, <2>1, <3>1
  <2>4. \A i, j \in 1 .. Len(r) : r[i] = r[j] => i = j
    <3>1. ASSUME NEW i \in 1 .. Len(s), NEW j \in 1 .. Len(s), r[i] = r[j] PROVE i = j
      <4>1. (Len(s) - i) + 1 = (Len(s) - j) + 1
        BY <1>1, <2>2, <2>3, <3>1
      <4> QED
        BY <1>1, <4>1
    <3> QED
      BY <2>3, <3>1
  <2> HIDE DEF r
  <2>5. \A i \in 0 .. Len(s) + 1 : RingAt(r, h, i) = RingAt(s, h, (Len(s) - i) + 1)
    <3>1. ASSUME NEW i \in 0 .. Len(s) + 1 PROVE RingAt(r, h, i) = RingAt(s, h, (Len(s) - i) + 1)
      <4>1. CASE i \in 1 .. Len(s)
        <5>1. RingAt(r, h, i) = s[(Len(s) - i) + 1]
          BY <2>3, <4>1 DEF RingAt
        <5> QED
          BY <1>2, <2>2, <4>1, <5>1
      <4>2. CASE i = 0
        <5>1. RingAt(r, h, i) = h /\ (Len(s) - i) + 1 = Len(s) + 1
          BY <1>1, <2>3, <4>2 DEF RingAt
        <5> QED
          BY <1>2, <5>1
      <4>3. CASE i = Len(s) + 1
        <5>1. RingAt(r, h, i) = h
          <6>1. ~ (i \in 1 .. Len(r))
            BY <1>1, <2>3, <4>3
          <6> QED
            BY <6>1 DEF RingAt
        <5>2. (Len(s) - i) + 1 = 0
          BY <1>1, <4>3
        <5> QED
          BY <1>2, <5>1, <5>2
      <4> QED
        BY <1>1, <3>1, <4>1, <4>2, <4>3
    <3> QED
      BY <3>1
  <2>6. \A i \in 0 .. Len(r) : m.prev[RingAt(r, h, i)] = RingAt(r, h, i + 1)
    <3>1. ASSUME NEW i \in 0 .. Len(s) PROVE m.prev[RingAt(r, h, i)] = RingAt(r, h, i + 1)
      <4>1. /\ i \in 0 .. Len(s) + 1 /\ i + 1 \in 0 .. Len(s) + 1
            /\ Len(s) - i \in 0 .. Len(s) /\ (Len(s) - (i + 1)) + 1 = Len(s) - i
        BY <1>1
      <4>2. RingAt(r, h, i) = RingAt(s, h, (Len(s) - i) + 1) /\ RingAt(r, h, i + 1) = RingAt(s, h, Len(s) - i)
        BY <2>5, <4>1
      <4> QED
        BY <1>3, <4>1, <4>2
    <3> QED
      BY <2>3, <3>1
  <2>7. Leads(m.prev, r, h)
    BY <1>1, <2>3, <2>4, <2>6 DEF Leads, IsMemory
  <2> QED
    BY <2>7, RoundIs
<1>6. m.next[h] = RingAt(s, h, 1) /\ m.prev[h] = RingAt(s, h, Len(s))
  <2>1. 0 \in 0 .. Len(s) /\ Len(s) \in 0 .. Len(s)
    BY <1>1
  <2> QED
    BY <1>2, <1>3, <2>1
<1>7. m.next[h] = h <=> Len(s) = 0
  <2>1. Len(s) # 0 => 1 \in 1 .. Len(s)
    BY <1>1
  <2>2. Len(s) = 0 => RingAt(s, h, 1) = h
    BY <1>2
  <2> QED
    BY <1>2, <1>6, <2>1, <2>2
<1>8. m.prev[h] = h <=> Len(s) = 0
  <2>1. Len(s) # 0 => Len(s) \in 1 .. Len(s)
    BY <1>1
  <2> QED
    BY <1>2, <1>6, <2>1
<1>9. Len(s) > 0 => (m.next[h] = m.prev[h] <=> Len(s) = 1)
  <2>1. SUFFICES ASSUME Len(s) > 0 PROVE m.next[h] = m.prev[h] <=> Len(s) = 1
    OBVIOUS
  <2>2. 1 \in 1 .. Len(s) /\ Len(s) \in 1 .. Len(s)
    BY <1>1, <2>1
  <2>3. m.next[h] = s[1] /\ m.prev[h] = s[Len(s)]
    BY <1>2, <1>6, <2>2
  <2>4. s[1] = s[Len(s)] <=> Len(s) = 1
    BY <1>1, <2>2
  <2> QED
    BY <2>3, <2>4
<1> QED
  BY <1>4, <1>5, <1>6, <1>7, <1>8, <1>9 DEF s

-----------------------------------------------------------------------------
(* What the assignments of the calls come to *)

\* n lies between a and b.
LEMMA AddedLinks ==
  ASSUME NEW m, IsMemory(m), NEW n \in Cells, NEW a \in Cells, NEW b \in Cells, n # a, n # b,
         NEW p, p = __xlist_add(m, n, a, b) \/ (b = m.next[a] /\ p = dl_list_add(m, a, n))
  PROVE  LinkedBetween(p, m, n, a, b)
<1>1. CASE p = __xlist_add(m, n, a, b)
  BY <1>1 DEF IsMemory, LinkedBetween, __xlist_add
<1>2. CASE b = m.next[a] /\ p = dl_list_add(m, a, n)
  BY <1>2 DEF IsMemory, LinkedBetween, dl_list_add
<1> QED
  BY <1>1, <1>2

\* n no longer lies between its neighbours.
LEMMA DeletedLinks ==
  ASSUME NEW m, IsMemory(m), NEW n \in Cells, m.next[n] \in Cells, m.prev[n] \in Cells,
         m.next[n] # n, m.prev[n] # n,
         NEW p \in {xlist_del(m, n), dl_list_del(m, n)}
  PROVE  ClosedOver(p, m, n, m.prev[n], m.next[n])
<1>1. CASE p = xlist_del(m, n)
  BY <1>1 DEF IsMemory, ClosedOver, xlist_del, __xlist_del
<1>2. CASE p = dl_list_del(m, n)
  BY <1>2 DEF IsMemory, ClosedOver, dl_list_del
<1> QED
  BY <1>1, <1>2

\* The cells from the first of list to its last lie between a and b.
LEMMA SplicedLinks ==
  ASSUME NEW m, IsMemory(m), NEW list \in Cells, NEW a \in Cells, NEW b \in Cells,
         NEW first \in Cells, NEW last \in Cells, first = m.next[list], last = m.prev[list],
         first # b, last # a,
         NEW p \in {__xlist_splice(m, list, a, b), INIT_XLIST_HEAD(__xlist_splice(m, list, a, b), list)},
         NEW q, first = q[1], last = q[Len(q)]
  PROVE  IsMemory(p) /\ LinkedInto(p, m, list, q, a, b)
<1>1. CASE p = __xlist_splice(m, list, a, b)
  BY ZenonT(60), <1>1 DEF IsMemory, LinkedInto, __xlist_splice
<1>2. CASE p = INIT_XLIST_HEAD(__xlist_splice(m, list, a, b), list)
  BY ZenonT(60), <1>2 DEF IsMemory, LinkedInto, __xlist_splice, INIT_XLIST_HEAD
<1> QED
  BY <1>1, <1>2

\* list takes the cells of h up to entry.
LEMMA CutLinks ==
  ASSUME NEW m, IsMemory(m), NEW list \in Cells, NEW h \in Cells, NEW entry \in Cells,
         NEW first \in Cells, NEW rest \in Cells, first = m.next[h], rest = m.next[entry],
         list # h, list # entry, h # entry, list # first, first # rest, list # rest, h # first
  PROVE  /\ IsMemory(__xlist_cut_position(m, list, h, entry))
         /\ LinkedApart(__xlist_cut_position(m, list, h, entry), m, list, h, first, entry, rest)
  BY ZenonT(30) DEF IsMemory, __xlist_cut_position, LinkedApart

-----------------------------------------------------------------------------
(* The calls change the lists that the memory holds as their names say *)

\* A node comes behind or before a head.
LEMMA AddHolds ==
  ASSUME NEW m, NEW gone, NEW L, HoldsLists(m, gone, L),
         NEW h \in Heads \ gone, NEW n \in Links, m.next[n] = NoLink, NEW p
  PROVE  /\ p \in {xlist_add(m, n, h), dl_list_add(m, h, n)} =>
              HoldsLists(p, gone, [L EXCEPT ![h] = <<n>> \o @])
         /\ p \in {xlist_add_tail(m, n, h), dl_list_add_tail(m, h, n)} =>
              HoldsLists(p, gone, [L EXCEPT ![h] = Append(@, n)])
<1> DEFINE t == L[h]
           R(i) == RingAt(t, h, i)
<1>1. t \in Seq(Links) /\ IsMemory(m) /\ \A i, j \in 1 .. Len(t) : t[i] = t[j] => i = j
  BY ListsApart DEF HoldsLists
<1>2. Len(t) \in Nat /\ \A i \in 1 .. Len(t) : t[i] \in Links
  BY <1>1, ElementOfSeq
<1>3. /\ m.next[h] = R(1) /\ m.prev[h] = R(Len(t)) /\ R(0) = h /\ R(Len(t) + 1) = h
      /\ \A i \in Int : R(i) \in Cells /\ R(i) # n
  <2>1. \A g \in Heads : \A i \in 1 .. Len(L[g]) : L[g][i] # n
    BY ListsApart
  <2>2. \A i \in Int : R(i) # n
    BY <2>1, ListsApart
  <2> QED
    BY <1>1, <2>2, ListsRead, RingCells
<1>4. n \in Cells /\ h \in Cells
  BY DEF Cells
<1>5. ASSUME p \in {xlist_add(m, n, h), dl_list_add(m, h, n)}
      PROVE  HoldsLists(p, gone, [L EXCEPT ![h] = <<n>> \o @])
  <2> DEFINE s == <<n>> \o t
  <2>1. s \in Seq(Links) /\ WithNode(s, t, n, 0)
    <3>1. <<n>> \in Seq(Links) /\ Len(<<n>>) = 1 /\ <<n>>[1] = n
      OBVIOUS
    <3>2. s \in Seq(Links) /\ Len(s) = 1 + Len(t)
          /\ \A i \in 1 .. 1 + Len(t) : s[i] = IF i <= 1 THEN <<n>>[i] ELSE t[i - 1]
      BY <1>1, <3>1, ConcatProperties
    <3> HIDE DEF s, t
    <3> QED
      BY <1>2, <3>1, <3>2 DEF WithNode
  <2>2. p = __xlist_add(m, n, h, R(1)) \/ (R(1) = m.next[h] /\ p = dl_list_add(m, h, n))
    BY <1>3, <1>5 DEF xlist_add
  <2>3. LinkedBetween(p, m, n, R(0), R(0 + 1))
    <3> HIDE DEF R
    <3>1. R(1) \in Cells /\ R(1) # n /\ h # n /\ 0 + 1 = 1
      BY <1>3
    <3> QED
      BY <1>1, <1>3, <1>4, <2>2, <3>1, AddedLinks
  <2>4. 0 \in 0 .. Len(t)
    BY <1>2
  <2> HIDE DEF s
  <2>5. HoldsLists(p, gone, [L EXCEPT ![h] = s])
    BY <2>1, <2>3, <2>4, InsertRing
  <2> QED
    BY <2>5 DEF s
<1>6. ASSUME p \in {xlist_add_tail(m, n, h), dl_list_add_tail(m, h, n)}
      PROVE  HoldsLists(p, gone, [L EXCEPT ![h] = Append(@, n)])
  <2> DEFINE s == Append(t, n)
             k == Len(t)
  <2>1. s \in Seq(Links) /\ WithNode(s, t, n, k)
    BY <1>1, <1>2, AppendProperties DEF WithNode
  <2>2. p = __xlist_add(m, n, R(k), h) \/ (h = m.next[R(k)] /\ p = dl_list_add(m, R(k), n))
    <3>1. m.next[R(k)] = h
      <4>1. k \in 0 .. Len(t)
        BY <1>2
      <4> QED
        BY <1>3, <4>1 DEF HoldsLists, IsRing
    <3> QED
      BY <1>3, <1>6, <3>1 DEF xlist_add_tail, dl_list_add_tail
  <2>3. LinkedBetween(p, m, n, R(k), R(k + 1))
    <3>1. R(k) \in Cells /\ R(k) # n /\ h # n /\ R(k + 1) = h
      BY <1>2, <1>3
    <3> HIDE DEF R, k
    <3> QED
      BY <1>1, <1>4, <2>2, <3>1, AddedLinks
  <2>4. k \in 0 .. Len(t)
    BY <1>2
  <2> HIDE DEF s, k
  <2>5. HoldsLists(p, gone, [L EXCEPT ![h] = s])
    BY <2>1, <2>3, <2>4, InsertRing
  <2> QED
    BY <2>5 DEF s
<1> QED
  BY <1>5, <1>6

\* A node comes out of its list, and has no links then.
LEMMA DelHolds ==
  ASSUME NEW m, NEW gone, NEW L, HoldsLists(m, gone, L), NEW h \in Heads, NEW k \in 1 .. Len(L[h]),
         NEW p \in {xlist_del(m, L[h][k]), dl_list_del(m, L[h][k])}
  PROVE  /\ HoldsLists(p, gone, [L EXCEPT ![h] = RemoveAt(@, k)])
         /\ p.next[L[h][k]] = NoLink
<1> DEFINE t == L[h]
           R(i) == RingAt(t, h, i)
           n == t[k]
           s == RemoveAt(t, k)
<1>1. /\ t \in Seq(Links) /\ IsMemory(m) /\ \A i, j \in 1 .. Len(t) : t[i] = t[j] => i = j
      /\ h \notin gone /\ n \in Links
  <2>1. \A g \in Heads : \A i \in 1 .. Len(L[g]) : g \notin gone /\ L[g][i] \in Links
    BY ListsApart
  <2>2. \A g \in Heads : L[g] \in Seq(Links) /\ \A i, j \in 1 .. Len(L[g]) : L[g][i] = L[g][j] => i = j
    BY ListsApart
  <2> QED
    BY <2>1, <2>2 DEF HoldsLists
<1>2. /\ Len(t) \in Nat /\ k \in 1 .. Len(t) /\ R(k) = n
      /\ \A i \in Int : R(i) \in Cells
  BY <1>1, RingCells
<1>3. m.next[n] = R(k + 1) /\ m.prev[n] = R(k - 1)
  <2>1. IsRing(m, t, h) /\ k \in 0 .. Len(t) /\ k - 1 \in 0 .. Len(t) /\ (k - 1) + 1 = k
    BY <1>1, <1>2 DEF HoldsLists
  <2> QED
    BY <1>2, <2>1 DEF IsRing
<1>4. R(k + 1) \in Cells /\ R(k - 1) \in Cells /\ R(k + 1) # n /\ R(k - 1) # n
  <2>1. /\ \A i, j \in 0 .. Len(t) : R(i) = R(j) => i = j
        /\ \A i, j \in 1 .. Len(t) + 1 : R(i) = R(j) => i = j
    BY <1>1, RingDiffers
  <2>2. /\ k \in 0 .. Len(t) /\ k - 1 \in 0 .. Len(t) /\ k - 1 # k
        /\ k \in 1 .. Len(t) + 1 /\ k + 1 \in 1 .. Len(t) + 1 /\ k + 1 # k
        /\ k + 1 \in Int /\ k - 1 \in Int
    BY <1>2
  <2> QED
    BY <1>2, <2>1, <2>2
<1>5. n \in Cells
  BY <1>1 DEF Cells
<1>6. ClosedOver(p, m, n, R(k - 1), R(k + 1))
  <2>1. p \in {xlist_del(m, n), dl_list_del(m, n)}
    OBVIOUS
  <2> HIDE DEF R, n
  <2> QED
    BY <1>1, <1>3, <1>4, <1>5, <2>1, DeletedLinks
<1>7. s \in Seq(Links) /\ WithoutNode(s, t, k)
  BY <1>1, RemovedAt DEF WithoutNode
<1> HIDE DEF s
<1>8. HoldsLists(p, gone, [L EXCEPT ![h] = s])
  BY <1>6, <1>7, RemoveRing
<1>9. p.next[n] = NoLink
  BY <1>5, <1>6 DEF ClosedOver
<1> QED
  BY <1>8, <1>9 DEF s

\* What is left of two lists that have become one.
HoldsJoined(p, left, L, list, h, joined) ==
  HoldsLists(p, left, [L EXCEPT ![list] = <<>>, ![h] = joined])

\* All nodes of a list go before those of another one, or behind them.
LEMMA SpliceHolds ==
  ASSUME NEW m, NEW gone, NEW L, HoldsLists(m, gone, L),
         NEW h \in Heads \ gone, NEW list \in Heads \ gone, list # h, NEW p, NEW given,
         given = IF xlist_empty(m, list) THEN gone ELSE gone \cup {list}
  PROVE  /\ p = xlist_splice(m, list, h) => HoldsJoined(p, given, L, list, h, L[list] \o L[h])
         /\ p = xlist_splice_tail(m, list, h) => HoldsJoined(p, given, L, list, h, L[h] \o L[list])
         /\ p = xlist_splice_init(m, list, h) => HoldsJoined(p, gone, L, list, h, L[list] \o L[h])
         /\ p = xlist_splice_tail_init(m, list, h) => HoldsJoined(p, gone, L, list, h, L[h] \o L[list])
<1> DEFINE t == L[h]
           q == L[list]
           R(i) == RingAt(t, h, i)
           Q(i) == RingAt(q, list, i)
<1>1. t \in Seq(Links) /\ q \in Seq(Links) /\ IsMemory(m) /\ L \in [Heads -> Seq(Links)]
  BY DEF HoldsLists
<1>2. xlist_empty(m, list) <=> Len(q) = 0
  BY ListsRead DEF xlist_empty
<1>3. ASSUME xlist_empty(m, list), NEW joined \in {q \o t, t \o q}
      PROVE  HoldsLists(m, gone, [L EXCEPT ![list] = <<>>, ![h] = joined])
  <2>1. q = <<>>
    BY <1>1, <1>2, <1>3, EmptySeq
  <2>2. q \o t = t /\ t \o q = t
    BY <1>1, <2>1, ConcatEmptySeq
  <2>3. [L EXCEPT ![list] = <<>>, ![h] = joined] = L
    BY <1>1, <1>3, <2>1, <2>2
  <2> QED
    BY <2>3
<1>4. ASSUME ~ xlist_empty(m, list), NEW k \in {0, Len(t)}, NEW left, NEW joined,
             (joined = q \o t /\ k = 0) \/ (joined = t \o q /\ k = Len(t)),
             \/ p = __xlist_splice(m, list, R(k), R(k + 1)) /\ left = gone \cup {list}
             \/ p = INIT_XLIST_HEAD(__xlist_splice(m, list, R(k), R(k + 1)), list) /\ left = gone
      PROVE  HoldsLists(p, left, [L EXCEPT ![list] = <<>>, ![h] = joined])
  <2>1. Len(t) \in Nat /\ Len(q) \in Nat /\ Len(q) # 0 /\ Len(q) >= 1 /\ q # <<>> /\ k \in 0 .. Len(t)
    <3>1. Len(t) \in Nat /\ Len(q) \in Nat /\ Len(q) # 0 /\ q # <<>>
      BY <1>1, <1>2, <1>4, EmptySeq
    <3> QED
      BY <1>4, <3>1
  <2>2. joined \in Seq(Links) /\ PutInto(joined, t, q, k)
    <3>1. CASE joined = q \o t /\ k = 0
      <4>1. /\ q \o t \in Seq(Links) /\ Len(q \o t) = Len(q) + Len(t)
            /\ \A i \in 1 .. Len(q) + Len(t) : (q \o t)[i] = IF i <= Len(q) THEN q[i] ELSE t[i - Len(q)]
        BY <1>1, ConcatProperties
      <4> HIDE DEF q, t
      <4> QED
        BY <2>1, <3>1, <4>1 DEF PutInto
    <3>2. CASE joined = t \o q /\ k = Len(t)
      <4>1. /\ t \o q \in Seq(Links) /\ Len(t \o q) = Len(t) + Len(q)
            /\ \A i \in 1 .. Len(t) + Len(q) : (t \o q)[i] = IF i <= Len(t) THEN t[i] ELSE q[i - Len(t)]
        BY <1>1, ConcatProperties
      <4> HIDE DEF q, t
      <4> QED
        BY <2>1, <3>2, <4>1 DEF PutInto
    <3> QED
      BY <1>4, <3>1, <3>2
  <2>3. /\ R(k) \in Cells /\ R(k + 1) \in Cells /\ list \in Cells
        /\ q[1] \in Cells /\ q[Len(q)] \in Cells /\ m.next[list] = q[1] /\ m.prev[list] = q[Len(q)]
        /\ q[1] # R(k + 1) /\ q[Len(q)] # R(k) /\ q[1] # list /\ q[Len(q)] # list
    <3>1. 1 \in 1 .. Len(q) /\ Len(q) \in 1 .. Len(q) /\ k \in Int /\ k + 1 \in Int
      BY <2>1
    <3>2. /\ \A i \in Int : R(i) \in Cells /\ Q(i) \in Cells
          /\ \A i \in 1 .. Len(q) : Q(i) = q[i] /\ q[i] \in Links
      BY <1>1, RingCells
    <3>3. \A i, j \in Int : R(i) # Q(j)
      BY ListsApart
    <3>4. m.next[list] = Q(1) /\ m.prev[list] = Q(Len(q))
      BY ListsRead
    <3>5. list \in Cells /\ list \notin Links
      BY LinksAssumption DEF Cells
    <3> HIDE DEF R, Q, q, t
    <3>6. Q(1) = q[1] /\ Q(Len(q)) = q[Len(q)] /\ q[1] \in Links /\ q[Len(q)] \in Links
      BY <3>1, <3>2
    <3> QED
      BY <3>1, <3>2, <3>3, <3>4, <3>5, <3>6
  <2> HIDE DEF R, Q, q, t
  <2>4. IsMemory(p) /\ LinkedInto(p, m, list, q, R(k), R(k + 1))
    <3>1. p \in {__xlist_splice(m, list, R(k), R(k + 1)), INIT_XLIST_HEAD(__xlist_splice(m, list, R(k), R(k + 1)), list)}
      BY <1>4
    <3> DEFINE first == q[1]
               last == q[Len(q)]
    <3>2. /\ first \in Cells /\ last \in Cells /\ first = m.next[list] /\ last = m.prev[list]
          /\ first # R(k + 1) /\ last # R(k) /\ first = q[1] /\ last = q[Len(q)]
      BY <2>3
    <3> HIDE DEF first, last
    <3> QED
      BY <1>1, <2>3, <3>1, <3>2, SplicedLinks
  <2>5. \/ left = gone \cup {list}
        \/ left = gone /\ p.next[list] = list /\ p.prev[list] = list
    <3>1. CASE p = INIT_XLIST_HEAD(__xlist_splice(m, list, R(k), R(k + 1)), list) /\ left = gone
      <4>1. p.next[list] = list /\ p.prev[list] = list
        BY <1>1, <2>3, <3>1 DEF IsMemory, INIT_XLIST_HEAD, __xlist_splice
      <4> QED
        BY <3>1, <4>1
    <3> QED
      BY <1>4, <3>1
  <2> QED
    BY <2>1, <2>2, <2>4, <2>5, SpliceRing DEF R, q, t
<1>5. /\ m.next[h] = R(0 + 1) /\ m.prev[h] = R(Len(t)) /\ R(0) = h /\ R(Len(t) + 1) = h
  BY <1>1, ListsRead, RingCells
<1> HIDE DEF R, q, t
<1>6. CASE xlist_empty(m, list)
  <2>1. /\ xlist_splice(m, list, h) = m /\ xlist_splice_tail(m, list, h) = m
        /\ xlist_splice_init(m, list, h) = m /\ xlist_splice_tail_init(m, list, h) = m
    BY <1>6 DEF xlist_splice, xlist_splice_tail, xlist_splice_init, xlist_splice_tail_init
  <2> QED
    BY <1>3, <1>6, <2>1 DEF HoldsJoined, q, t
<1>7. CASE ~ xlist_empty(m, list)
  <2>1. /\ xlist_splice(m, list, h) = __xlist_splice(m, list, R(0), R(0 + 1))
        /\ xlist_splice_tail(m, list, h) = __xlist_splice(m, list, R(Len(t)), R(Len(t) + 1))
    BY <1>5, <1>7 DEF xlist_splice, xlist_splice_tail
  <2>2. /\ xlist_splice_init(m, list, h) = INIT_XLIST_HEAD(__xlist_splice(m, list, R(0), R(0 + 1)), list)
        /\ xlist_splice_tail_init(m, list, h) = INIT_XLIST_HEAD(__xlist_splice(m, list, R(Len(t)), R(Len(t) + 1)), list)
    BY <1>7, <2>1 DEF xlist_splice_init, xlist_splice_tail_init
  <2>3. given = gone \cup {list} /\ 0 \in {0, Len(t)} /\ Len(t) \in {0, Len(t)}
    BY <1>7
  <2> DEFINE Holds(left, joined) == HoldsLists(p, left, [L EXCEPT ![list] = <<>>, ![h] = joined])
             Splices(k, left) == \/ p = __xlist_splice(m, list, R(k), R(k + 1)) /\ left = gone \cup {list}
                                 \/ /\ p = INIT_XLIST_HEAD(__xlist_splice(m, list, R(k), R(k + 1)), list)
                                    /\ left = gone
  <2>a. \A left : Splices(0, left) => Holds(left, q \o t)
    BY <1>4, <1>7, <2>3
  <2>b. \A left : Splices(Len(t), left) => Holds(left, t \o q)
    BY <1>4, <1>7, <2>3
  <2>4. p = xlist_splice(m, list, h) => HoldsLists(p, given, [L EXCEPT ![list] = <<>>, ![h] = q \o t])
    <3>1. p = xlist_splice(m, list, h) => Splices(0, given)
      BY <2>1, <2>3
    <3> HIDE DEF Splices
    <3> QED
      BY <2>a, <3>1
  <2>5. p = xlist_splice_tail(m, list, h) => HoldsLists(p, given, [L EXCEPT ![list] = <<>>, ![h] = t \o q])
    <3>1. p = xlist_splice_tail(m, list, h) => Splices(Len(t), given)
      BY <2>1, <2>3
    <3> HIDE DEF Splices
    <3> QED
      BY <2>b, <3>1
  <2>6. p = xlist_splice_init(m, list, h) => HoldsLists(p, gone, [L EXCEPT ![list] = <<>>, ![h] = q \o t])
    <3>1. p = xlist_splice_init(m, list, h) => Splices(0, gone)
      BY <2>2
    <3> HIDE DEF Splices
    <3> QED
      BY <2>a, <3>1
  <2>7. p = xlist_splice_tail_init(m, list, h) => HoldsLists(p, gone, [L EXCEPT ![list] = <<>>, ![h] = t \o q])
    <3>1. p = xlist_splice_tail_init(m, list, h) => Splices(Len(t), gone)
      BY <2>2
    <3> HIDE DEF Splices
    <3> QED
      BY <2>b, <3>1
  <2> QED
    BY <2>4, <2>5, <2>6, <2>7 DEF HoldsJoined, q, t
<1> QED
  BY <1>6, <1>7

\* The first nodes of h go to list.
LEMMA CutHolds ==
  ASSUME NEW m, NEW gone, NEW L, HoldsLists(m, gone, L),
         NEW h \in Heads \ gone, NEW list \in Heads, list # h, L[list] = <<>>,
         NEW entry \in {h} \cup ToSet(L[h])
  PROVE  \E k \in 0 .. Len(L[h]) :
           /\ entry = IF k = 0 THEN h ELSE L[h][k]
           /\ HoldsLists(xlist_cut_position(m, list, h, entry),
                         IF xlist_empty(m, h) THEN gone ELSE gone \ {list},
                         [L EXCEPT ![list] = SubSeq(L[h], 1, k), ![h] = SubSeq(@, k + 1, Len(@))])
<1> DEFINE t == L[h]
           R(i) == RingAt(t, h, i)
           p == xlist_cut_position(m, list, h, entry)
           left == IF xlist_empty(m, h) THEN gone ELSE gone \ {list}
           Cuts(k) == [L EXCEPT ![list] = SubSeq(t, 1, k), ![h] = SubSeq(@, k + 1, Len(@))]
<1>1. t \in Seq(Links) /\ IsMemory(m) /\ L \in [Heads -> Seq(Links)] /\ Len(t) \in Nat
  BY DEF HoldsLists
<1>2. /\ xlist_empty(m, h) <=> Len(t) = 0
      /\ Len(t) > 0 => (m.next[h] = m.prev[h] <=> Len(t) = 1)
      /\ m.next[h] = R(1)
  BY ListsRead DEF xlist_empty
<1>3. Cuts(0) = L
  <2>1. SubSeq(t, 1, 0) = <<>>
    BY <1>1, SubSeqEmpty
  <2>2. SubSeq(t, 0 + 1, Len(t)) = t
    BY <1>1, SubSeqFull
  <2>3. Cuts(0) = [L EXCEPT ![list] = SubSeq(t, 1, 0), ![h] = SubSeq(t, 0 + 1, Len(t))]
    BY <1>1
  <2> QED
    BY <1>1, <2>1, <2>2, <2>3
<1>4. 0 \in 0 .. Len(t)
  BY <1>1
<1>5. CASE xlist_empty(m, h)
  <2>1. p = m /\ left = gone
    BY <1>5 DEF xlist_cut_position
  <2>2. entry = h
    BY <1>1, <1>2, <1>5 DEF ToSet
  <2> QED
    BY <1>3, <1>4, <2>1, <2>2
<1>6. CASE ~ xlist_empty(m, h) /\ entry = h
  <2>1. p = INIT_XLIST_HEAD(m, list) /\ left = gone \ {list}
    BY <1>6 DEF xlist_cut_position
  <2>2. HoldsLists(INIT_XLIST_HEAD(m, list), gone \ {list}, L)
    BY HeadReset
  <2>3. HoldsLists(p, left, Cuts(0))
    BY <1>3, <2>1, <2>2
  <2> HIDE DEF p, left
  <2>4. entry = IF 0 = 0 THEN h ELSE t[0]
    BY <1>6
  <2> QED
    BY <1>4, <2>3, <2>4 DEF p, left
<1>7. CASE ~ xlist_empty(m, h) /\ entry # h
  <2>1. PICK k \in 1 .. Len(t) : entry = t[k]
    BY <1>1, <1>7 DEF ToSet
  <2>2. /\ k \in Nat /\ k + 1 \in Nat /\ 1 <= k /\ k <= Len(t) /\ Len(t) > 0 /\ k \in 0 .. Len(t)
        /\ k \in Int /\ k + 1 \in Int /\ 1 \in 1 .. Len(t)
    BY <1>1, <2>1
  <2>3. /\ R(k) = entry /\ R(0) = h /\ R(Len(t) + 1) = h /\ R(1) = t[1]
        /\ \A i \in Int : R(i) \in Cells /\ R(i) # list
    <3>1. \A i, j \in Int : R(i) # RingAt(L[list], list, j)
      BY ListsApart
    <3>2. RingAt(L[list], list, 0) = list
      BY DEF RingAt
    <3> QED
      BY <1>1, <2>1, <2>2, <3>1, <3>2, RingCells
  <2>4. /\ \A i, j \in 0 .. Len(t) : R(i) = R(j) => i = j
        /\ \A i, j \in 1 .. Len(t) + 1 : R(i) = R(j) => i = j
        /\ m.next[R(k)] = R(k + 1)
    <3>1. \A i, j \in 1 .. Len(t) : t[i] = t[j] => i = j
      BY ListsApart
    <3>2. m.next[R(k)] = R(k + 1)
      BY <2>2 DEF HoldsLists, IsRing
    <3> QED
      BY <1>1, <3>1, <3>2, RingDiffers
  <2>5. p = __xlist_cut_position(m, list, h, entry) /\ left = gone \ {list}
    <3>1. xlist_is_singular(m, h) => entry = m.next[h]
      <4>1. xlist_is_singular(m, h) => Len(t) = 1
        BY <1>2, <2>2 DEF xlist_is_singular
      <4>2. Len(t) = 1 => k = 1
        BY <2>2
      <4> QED
        BY <1>2, <2>3, <4>1, <4>2
    <3> QED
      BY <1>7, <3>1 DEF xlist_cut_position
  <2> HIDE DEF R
  <2>6. /\ m.next[h] # h /\ entry # list /\ h # entry /\ list # R(1) /\ R(1) # R(k + 1) /\ list # R(k + 1)
        /\ h # R(1) /\ R(1) \in Cells /\ R(k + 1) \in Cells /\ entry \in Cells /\ list \in Cells /\ h \in Cells
    <3>1. /\ 0 \in 0 .. Len(t) /\ 1 \in 0 .. Len(t) /\ 1 \in 1 .. Len(t) + 1 /\ k + 1 \in 1 .. Len(t) + 1 /\ 1 # k + 1
      BY <2>2
    <3>2. R(1) # R(k + 1) /\ R(1) # R(0)
      BY <2>4, <3>1
    <3>3. list \in Cells /\ h \in Cells
      BY DEF Cells
    <3> QED
      BY <1>2, <1>7, <2>2, <2>3, <3>2, <3>3
  <2>7. IsMemory(p) /\ LinkedApart(p, m, list, h, R(1), R(k), R(k + 1))
    <3> DEFINE first == R(1)
               rest == R(k + 1)
    <3>1. first = m.next[h] /\ rest = m.next[entry]
      BY <1>2, <2>3, <2>4 DEF R
    <3>2. /\ entry # list /\ h # entry /\ list # first /\ first # rest /\ list # rest
          /\ h # first /\ first \in Cells /\ rest \in Cells
      BY <2>6
    <3> HIDE DEF first, rest, p
    <3>3. /\ IsMemory(__xlist_cut_position(m, list, h, entry))
          /\ LinkedApart(__xlist_cut_position(m, list, h, entry), m, list, h, first, entry, rest)
      BY <1>1, <2>6, <3>1, <3>2, CutLinks
    <3> QED
      BY <2>3, <2>5, <3>3 DEF first, rest
  <2> DEFINE a == SubSeq(t, 1, k)
             b == SubSeq(t, k + 1, Len(t))
  <2>8. a \in Seq(Links) /\ b \in Seq(Links) /\ CutBehind(a, b, t, k)
    <3>1. \A i \in 1 .. Len(t) : t[i] \in Links
      BY <1>1, ElementOfSeq
    <3>2. a \in Seq(Links) /\ Len(a) = k /\ \A i \in 1 .. k : a[i] = t[i]
      BY <2>2, <3>1, SubSeqProperties
    <3>3. b \in Seq(Links) /\ Len(b) = Len(t) - k /\ \A i \in 1 .. Len(t) - k : b[i] = t[k + i]
      BY <2>2, <3>1, SubSeqProperties
    <3> QED
      BY <3>2, <3>3 DEF CutBehind
  <2>9. Cuts(k) = [L EXCEPT ![list] = a, ![h] = b]
    BY <1>1
  <2> HIDE DEF a, b, p
  <2>10. HoldsLists(p, gone \ {list}, [L EXCEPT ![list] = a, ![h] = b])
    BY <2>1, <2>7, <2>8, CutRing DEF R
  <2>11. HoldsLists(p, left, Cuts(k))
    BY <2>5, <2>9, <2>10
  <2> HIDE DEF left, Cuts
  <2>a. entry = IF k = 0 THEN h ELSE t[k]
    BY <2>1, <2>2
  <2>12. \E j \in 0 .. Len(t) : entry = (IF j = 0 THEN h ELSE t[j]) /\ HoldsLists(p, left, Cuts(j))
    BY <2>2, <2>11, <2>a
  <2> QED
    BY <2>12 DEF p, left, Cuts
<1> QED
  BY <1>5, <1>6, <1>7

-----------------------------------------------------------------------------
(* The inductive invariant *)

\* s ends with rest.
EndsWith(s, rest) ==
  /\ Len(rest) <= Len(s)
  /\ \A i \in 1 .. Len(rest) : s[(Len(s) - Len(rest)) + i] = rest[i]

\* A walk has still to come to the nodes of rest, with which the list of its
\* head ends: the next one is known, and the body does not take them out.
WalksTo(lists, rest) ==
  /\ walk \in [head : Heads, item : Links, n : Cells] /\ walk.head \in Usable
  /\ met \in Seq(Links) /\ rest \in Seq(Links) /\ due = met \o rest
  /\ EndsWith(lists[walk.head], rest)
  /\ walk.n = IF Len(rest) = 0 THEN walk.head ELSE rest[1]
  /\ \A i \in 1 .. Len(rest) : rest[i] # walk.item

\* A walk has come to what it has to, and the rest is before it.
WalkInv ==
  IF walk = NoWalk THEN met = due ELSE \E rest \in Seq(Links) : WalksTo(AsSequences, rest)

\* The memory holds the lists that are read from it.
ListsInv == HoldsLists(links, spent, AsSequences) /\ WalkInv

\* A memory holds no other lists than those.
LEMMA ListsAreRead ==
  ASSUME NEW m, NEW gone, NEW L, HoldsLists(m, gone, L)
  PROVE  L = [h \in Heads |-> IF h \in gone THEN <<>> ELSE Round(m.next, h)]
<1>1. ASSUME NEW h \in Heads PROVE L[h] = IF h \in gone THEN <<>> ELSE Round(m.next, h)
  <2>1. CASE h \in gone
    BY <2>1 DEF HoldsLists
  <2>2. CASE h \notin gone
    BY <2>2, ListsRead
  <2> QED
    BY <2>1, <2>2
<1>2. L = [h \in Heads |-> L[h]]
  BY DEF HoldsLists
<1> QED
  BY <1>1, <1>2

\* The same of the memory as it is, and as a step leaves it.
LEMMA HeldAre ==
  /\ \A L : HoldsLists(links, spent, L) => L = AsSequences
  /\ \A L : HoldsLists(links', spent', L) => AsSequences' = L
BY ListsAreRead DEF AsSequences, ListOf

\* Heads that have been initialised hold empty lists.
LEMMA ListsStart == ListInit => ListsInv /\ ListsPromise!Init
<1> SUFFICES ASSUME ListInit PROVE ListsInv /\ ListsPromise!Init
  OBVIOUS
<1> DEFINE L == [h \in Heads |-> <<>>]
<1>1. /\ \A c \in Heads : links.next[c] = c /\ links.prev[c] = c
      /\ \A c \in Links : links.next[c] = NoLink /\ links.prev[c] = NoLink
      /\ IsMemory(links) /\ spent = {} /\ walk = NoWalk /\ met = due
  BY LinksAssumption DEF ListInit, IsMemory, Cells
<1>2. \A h \in Heads : L[h] = <<>> /\ Len(L[h]) = 0
  OBVIOUS
<1>3. L \in [Heads -> Seq(Links)]
  OBVIOUS
<1> HIDE DEF L
<1>4. ASSUME NEW h \in Heads PROVE IsRing(links, L[h], h)
  <2>1. RingAt(L[h], h, 0) = h /\ RingAt(L[h], h, 0 + 1) = h
    BY <1>2 DEF RingAt
  <2> QED
    BY <1>1, <1>2, <2>1 DEF IsRing
<1>5. HoldsLists(links, spent, L)
  BY <1>1, <1>2, <1>3, <1>4 DEF HoldsLists, Distinct
<1>6. L = AsSequences
  BY <1>5, HeldAre
<1>7. call = <<"none">>
  BY DEF ListInit
<1> QED
  BY <1>1, <1>5, <1>6, <1>7 DEF ListsInv, WalkInv, ListsPromise!Init, L

\* Of the calls of a program that is in no walk, each changes the sequences as
\* its name says.
LEMMA CallsStep ==
  ASSUME ListsInv, NotWalking, NEW L, HoldsLists(links', spent', L)
  PROVE  ListsInv' /\ AsSequences' = L
<1>1. AsSequences' = L
  BY HeldAre
<1>2. WalkInv'
  BY DEF ListsInv, NotWalking, WalkInv
<1> QED
  BY <1>1, <1>2 DEF ListsInv

\* xlist_add, xlist_add_tail and those of list.h.
LEMMA AddStep ==
  ASSUME ListsInv, NEW h \in Heads, NEW n \in Links, AddLink(h, n)
  PROVE  ListsInv' /\ (ListsPromise!Add(h, n) \/ ListsPromise!AddTail(h, n))
<1> DEFINE L == AsSequences
<1>1. HoldsLists(links, spent, L)
  BY DEF ListsInv
<1>2. NotWalking /\ links.next[n] = NoLink /\ h \in Heads \ spent /\ spent' = spent
  BY DEF AddLink, Loose, Usable
<1>3. n \in ListsPromise!Unlinked
  <2>1. \A g \in Heads : \A i \in 1 .. Len(L[g]) : links.next[L[g][i]] # NoLink
    BY <1>1, ListsApart
  <2>2. \A g \in Heads : n \notin ToSet(L[g])
    <3>1. \A g \in Heads : L[g] \in Seq(Links)
      BY <1>1 DEF HoldsLists
    <3> QED
      BY <1>2, <2>1, <3>1 DEF ToSet
  <2>3. ListsPromise!Unlinked = Links \ UNION {ToSet(AsSequences[g]) : g \in Heads}
    BY DEF ListsPromise!Unlinked, ListsPromise!ToSet, ToSet
  <2> QED
    BY <2>2, <2>3
<1> HIDE DEF L
<1>4. CASE links' \in {xlist_add(links, n, h), dl_list_add(links, h, n)} /\ call' = <<"add", h, n>>
  <2>1. HoldsLists(links', spent', [L EXCEPT ![h] = <<n>> \o @])
    BY <1>1, <1>2, <1>4, AddHolds
  <2>2. ListsInv' /\ AsSequences' = [L EXCEPT ![h] = <<n>> \o @]
    BY <1>2, <2>1, CallsStep
  <2> QED
    BY <1>3, <1>4, <2>2 DEF ListsPromise!Add, L
<1>5. CASE /\ links' \in {xlist_add_tail(links, n, h), dl_list_add_tail(links, h, n)}
           /\ call' = <<"add_tail", h, n>>
  <2>1. HoldsLists(links', spent', [L EXCEPT ![h] = Append(@, n)])
    BY <1>1, <1>2, <1>5, AddHolds
  <2>2. ListsInv' /\ AsSequences' = [L EXCEPT ![h] = Append(@, n)]
    BY <1>2, <2>1, CallsStep
  <2> QED
    BY <1>3, <1>5, <2>2 DEF ListsPromise!AddTail, L
<1> QED
  BY <1>4, <1>5 DEF AddLink

\* A node that has links is in one of the lists.
LEMMA NodeIsSomewhere ==
  ASSUME ListsInv, NEW n \in Links \ Loose
  PROVE  \E h \in Heads : \E k \in 1 .. Len(AsSequences[h]) : AsSequences[h][k] = n
BY DEF ListsInv, HoldsLists, Loose

\* The node at a place of a list is taken out.
LEMMA DelStep ==
  ASSUME ListsInv, NotWalking, UNCHANGED spent,
         NEW h \in Heads, NEW k \in 1 .. Len(AsSequences[h]),
         links' \in {xlist_del(links, AsSequences[h][k]), dl_list_del(links, AsSequences[h][k])}
  PROVE  ListsInv' /\ k \in DOMAIN AsSequences[h] /\ AsSequences' = [AsSequences EXCEPT ![h] = RemoveAt(@, k)]
<1> DEFINE L == AsSequences
<1>1. HoldsLists(links, spent, L) /\ L[h] \in Seq(Links)
  BY DEF ListsInv, HoldsLists
<1>2. k \in DOMAIN L[h]
  BY <1>1
<1>3. links' \in {xlist_del(links, L[h][k]), dl_list_del(links, L[h][k])} /\ k \in 1 .. Len(L[h])
  OBVIOUS
<1> HIDE DEF L
<1>4. HoldsLists(links', spent', [L EXCEPT ![h] = RemoveAt(@, k)])
  BY <1>1, <1>3, DelHolds
<1>5. ListsInv' /\ AsSequences' = [L EXCEPT ![h] = RemoveAt(@, k)]
  BY <1>4, CallsStep
<1>6. k \in DOMAIN AsSequences[h] /\ AsSequences' = [AsSequences EXCEPT ![h] = RemoveAt(@, k)]
  BY <1>2, <1>5 DEF L
<1> QED
  BY <1>5, <1>6

\* xlist_cut_position.
LEMMA CutStep ==
  ASSUME ListsInv, NEW list \in Heads, NEW h \in Heads, NEW entry, CutList(list, h, entry)
  PROVE  ListsInv' /\ \E k \in 0 .. Len(AsSequences[h]) : ListsPromise!Cut(list, h, k)
<1> DEFINE L == AsSequences
<1>1. HoldsLists(links, spent, L)
  BY DEF ListsInv
<1>2. NotWalking /\ h \in Heads \ spent /\ list # h
  BY DEF CutList, Usable
<1>3. L[h] = ListOf(h)
  BY <1>2 DEF AsSequences
<1>4. L[list] = <<>>
  <2>1. CASE list \in spent
    BY <2>1 DEF AsSequences
  <2>2. CASE list \notin spent
    <3>1. links.next[list] = list
      BY <2>2 DEF CutList, Usable, xlist_empty
    <3>2. Len(L[list]) = 0 /\ L[list] \in Seq(Links)
      <4>1. L[list] \in Seq(Links)
        BY <1>1 DEF HoldsLists
      <4> HIDE DEF L
      <4> QED
        BY <1>1, <2>2, <3>1, <4>1, ListsRead
    <3> QED
      BY <3>2, EmptySeq
  <2> QED
    BY <2>1, <2>2
<1>5. entry \in {h} \cup ToSet(L[h])
  BY <1>3 DEF CutList
<1> HIDE DEF L
<1>6. /\ links' = xlist_cut_position(links, list, h, entry)
      /\ spent' = IF xlist_empty(links, h) THEN spent ELSE spent \ {list}
  BY DEF CutList
<1>7. PICK k \in 0 .. Len(L[h]) :
        /\ entry = IF k = 0 THEN h ELSE L[h][k]
        /\ HoldsLists(links', spent', [L EXCEPT ![list] = SubSeq(L[h], 1, k), ![h] = SubSeq(@, k + 1, Len(@))])
  BY <1>1, <1>2, <1>4, <1>5, <1>6, CutHolds
<1>8. ListsInv' /\ AsSequences' = [L EXCEPT ![list] = SubSeq(L[h], 1, k), ![h] = SubSeq(@, k + 1, Len(@))]
  BY <1>2, <1>7, CallsStep
<1>9. call' = <<"cut", list, h, IF k = 0 THEN h ELSE L[h][k]>>
  BY <1>7 DEF CutList
<1>10. ListsPromise!Cut(list, h, k)
  BY <1>2, <1>4, <1>8, <1>9 DEF ListsPromise!Cut, L
<1> QED
  BY <1>8, <1>10 DEF L

\* The four functions that splice.
LEMMA SpliceStep ==
  ASSUME ListsInv, NEW list \in Heads, NEW h \in Heads, SpliceList(list, h)
  PROVE  ListsInv' /\ (ListsPromise!Splice(list, h) \/ ListsPromise!SpliceTail(list, h))
<1> DEFINE L == AsSequences
<1>1. HoldsLists(links, spent, L)
  BY DEF ListsInv
<1>2. NotWalking /\ h \in Heads \ spent /\ list \in Heads \ spent /\ list # h
  BY DEF SpliceList, Usable
<1> HIDE DEF L
<1>3. ASSUME NEW joined, HoldsJoined(links', spent', L, list, h, joined)
      PROVE  ListsInv' /\ AsSequences' = [L EXCEPT ![list] = <<>>, ![h] = joined]
  <2>1. HoldsLists(links', spent', [L EXCEPT ![list] = <<>>, ![h] = joined])
    BY <1>3 DEF HoldsJoined
  <2> QED
    BY <1>2, <2>1, CallsStep
<1>4. PICK given : given = IF xlist_empty(links, list) THEN spent ELSE spent \cup {list}
  OBVIOUS
<1>5. /\ links' = xlist_splice(links, list, h) => HoldsJoined(links', given, L, list, h, L[list] \o L[h])
      /\ links' = xlist_splice_tail(links, list, h) => HoldsJoined(links', given, L, list, h, L[h] \o L[list])
      /\ links' = xlist_splice_init(links, list, h) => HoldsJoined(links', spent, L, list, h, L[list] \o L[h])
      /\ links' = xlist_splice_tail_init(links, list, h) => HoldsJoined(links', spent, L, list, h, L[h] \o L[list])
  BY <1>1, <1>2, <1>4, SpliceHolds
<1>6. CASE /\ call' = <<"splice", list, h>>
           /\ \/ links' = xlist_splice(links, list, h) /\ spent' = given
              \/ links' = xlist_splice_init(links, list, h) /\ spent' = spent
  <2>1. HoldsJoined(links', spent', L, list, h, L[list] \o L[h])
    BY <1>5, <1>6
  <2>2. ListsInv' /\ AsSequences' = [L EXCEPT ![list] = <<>>, ![h] = L[list] \o L[h]]
    BY <1>3, <2>1
  <2>3. AsSequences' = [AsSequences EXCEPT ![list] = <<>>, ![h] = AsSequences[list] \o @]
    BY <1>2, <2>2 DEF L
  <2> QED
    BY <1>2, <1>6, <2>2, <2>3 DEF ListsPromise!Splice
<1>7. CASE /\ call' = <<"splice_tail", list, h>>
           /\ \/ links' = xlist_splice_tail(links, list, h) /\ spent' = given
              \/ links' = xlist_splice_tail_init(links, list, h) /\ spent' = spent
  <2>1. HoldsJoined(links', spent', L, list, h, L[h] \o L[list])
    BY <1>5, <1>7
  <2>2. ListsInv' /\ AsSequences' = [L EXCEPT ![list] = <<>>, ![h] = L[h] \o L[list]]
    BY <1>3, <2>1
  <2>3. AsSequences' = [AsSequences EXCEPT ![list] = <<>>, ![h] = @ \o AsSequences[list]]
    BY <1>2, <2>2 DEF L
  <2> QED
    BY <1>2, <1>7, <2>2, <2>3 DEF ListsPromise!SpliceTail
<1> QED
  BY <1>4, <1>6, <1>7 DEF SpliceList, Given

\* xlist_get.
LEMMA GetStep ==
  ASSUME ListsInv, NEW h \in Heads, GetLink(h)
  PROVE  ListsInv' /\ ListsPromise!Get(h)
<1> DEFINE L == AsSequences
<1>1. HoldsLists(links, spent, L) /\ L[h] \in Seq(Links)
  BY DEF ListsInv, HoldsLists
<1>2. NotWalking /\ h \in Heads \ spent /\ spent' = spent
  BY DEF GetLink, Usable
<1> HIDE DEF L
<1>3. /\ links.next[h] = h <=> Len(L[h]) = 0
      /\ links.next[h] = RingAt(L[h], h, 1)
  BY <1>1, <1>2, ListsRead
<1>a. call' = <<"get", h>>
  BY DEF GetLink
<1>4. CASE xlist_empty(links, h)
  <2>1. links' = links
    BY <1>4 DEF GetLink, xlist_get
  <2>2. HoldsLists(links', spent', L)
    BY <1>1, <1>2, <2>1
  <2>3. ListsInv' /\ AsSequences' = L
    BY <1>2, <2>2, CallsStep
  <2>4. L[h] = <<>>
    BY <1>1, <1>3, <1>4, EmptySeq DEF xlist_empty
  <2> QED
    BY <1>a, <2>3, <2>4 DEF ListsPromise!Get, L
<1>5. CASE ~ xlist_empty(links, h)
  <2>1. Len(L[h]) # 0
    BY <1>3, <1>5 DEF xlist_empty
  <2>2. 1 \in 1 .. Len(L[h])
    BY <1>1, <2>1
  <2>3. links.next[h] = L[h][1]
    BY <1>3, <2>2 DEF RingAt
  <2>4. links' = xlist_del(links, L[h][1])
    BY <1>5, <2>3 DEF GetLink, xlist_get
  <2>5. 1 \in 1 .. Len(AsSequences[h]) /\ links' = xlist_del(links, AsSequences[h][1])
    BY <2>2, <2>4 DEF L
  <2>6. ListsInv' /\ AsSequences' = [AsSequences EXCEPT ![h] = RemoveAt(@, 1)]
    BY <1>2, <2>5, DelStep
  <2>7. AsSequences[h] # <<>>
    BY <2>5
  <2> QED
    BY <1>a, <2>6, <2>7 DEF ListsPromise!Get, ListsPromise!RemoveAt, RemoveAt
<1> QED
  BY <1>4, <1>5

\* xlist_del and dl_list_del, wherever the node is.
LEMMA DelLinkStep ==
  ASSUME ListsInv, NEW n \in Links, DelLink(n)
  PROVE  ListsInv' /\ \E h \in Heads : \E k \in DOMAIN AsSequences[h] : ListsPromise!Delete(h, k)
<1>1. PICK h \in Heads : \E k \in 1 .. Len(AsSequences[h]) : AsSequences[h][k] = n
  BY NodeIsSomewhere DEF DelLink
<1>2. PICK k \in 1 .. Len(AsSequences[h]) : AsSequences[h][k] = n
  BY <1>1
<1>3. NotWalking /\ UNCHANGED spent /\ links' \in {xlist_del(links, AsSequences[h][k]), dl_list_del(links, AsSequences[h][k])}
  BY <1>2 DEF DelLink
<1>4. ListsInv' /\ k \in DOMAIN AsSequences[h] /\ AsSequences' = [AsSequences EXCEPT ![h] = RemoveAt(@, k)]
  BY <1>3, DelStep
<1>5. call' = <<"del", AsSequences[h][k]>>
  BY <1>2 DEF DelLink
<1>6. ListsPromise!Delete(h, k)
  BY <1>4, <1>5 DEF ListsPromise!Delete, ListsPromise!RemoveAt, RemoveAt
<1> QED
  BY <1>4, <1>6

\* A head that has given its list away is initialised again.
LEMMA InitStep ==
  ASSUME ListsInv, NEW h \in Heads, InitHead(h)
  PROVE  ListsInv' /\ ListsPromise!Reset(h)
<1>1. NotWalking /\ h \in spent /\ links' = INIT_XLIST_HEAD(links, h) /\ spent' = spent \ {h}
  BY DEF InitHead
<1>2. HoldsLists(links, spent, AsSequences) /\ AsSequences[h] = <<>>
  BY <1>1 DEF ListsInv, AsSequences
<1>3. HoldsLists(links', spent', AsSequences)
  BY <1>1, <1>2, HeadReset
<1>4. ListsInv' /\ AsSequences' = AsSequences
  BY <1>1, <1>3, CallsStep
<1>5. call' = <<"init", h>>
  BY DEF InitHead
<1> QED
  BY <1>2, <1>4, <1>5 DEF ListsPromise!Reset

-----------------------------------------------------------------------------
(* Walks *)

\* While nothing is linked anew, a walk is all that can change.
LEMMA WalkStays ==
  ASSUME ListsInv, UNCHANGED <<links, spent>>, WalkInv'
  PROVE  ListsInv' /\ AsSequences' = AsSequences
<1>1. HoldsLists(links', spent', AsSequences)
  BY DEF ListsInv
<1>2. AsSequences' = AsSequences
  BY <1>1, HeldAre
<1> QED
  BY <1>1, <1>2 DEF ListsInv

\* A walk begins.
LEMMA StartStep ==
  ASSUME ListsInv, NEW h \in Heads, StartWalk(h)
  PROVE  ListsInv' /\ AsSequences' = AsSequences
<1>s. PICK s : s = AsSequences[h]
  OBVIOUS
<1>1. /\ walk' = [head |-> h, item |-> links.next[h], n |-> links.next[links.next[h]]]
      /\ met' = <<links.next[h]>> /\ due' = ListOf(h)
      /\ UNCHANGED <<links, spent>> /\ h \in Heads \ spent /\ links.next[h] # h
  BY DEF StartWalk, Usable
<1>2. HoldsLists(links, spent, AsSequences) /\ s \in Seq(Links) /\ s = ListOf(h)
  BY <1>1, <1>s DEF ListsInv, HoldsLists, AsSequences
<1>3. /\ Len(s) # 0 /\ links.next[h] = RingAt(s, h, 1)
  BY <1>1, <1>2, <1>s, ListsRead
<1>4. IsRing(links, s, h) /\ \A i, j \in 1 .. Len(s) : s[i] = s[j] => i = j
  BY <1>1, <1>2, <1>s DEF HoldsLists, Distinct
<1>5. /\ Len(s) \in Nat /\ Len(s) >= 1 /\ s # <<>> /\ \A i \in 1 .. Len(s) : s[i] \in Links
      /\ 1 \in 0 .. Len(s) /\ 1 \in 1 .. Len(s)
  <2>1. Len(s) \in Nat /\ s # <<>>
    BY <1>2, <1>3, EmptySeq
  <2> QED
    BY <1>2, <1>3, <2>1, ElementOfSeq
<1>6. links.next[h] = s[1] /\ links.next[s[1]] = RingAt(s, h, 2)
  <2>1. RingAt(s, h, 1) = s[1]
    BY <1>5 DEF RingAt
  <2> QED
    BY <1>3, <1>4, <1>5, <2>1 DEF IsRing
<1>7. PICK rest \in Seq(Links) :
      /\ Len(rest) = Len(s) - 1
      /\ \A i \in 1 .. Len(s) - 1 : rest[i] = s[i + 1]
  <2> DEFINE r == Tail(s)
  <2>1. r \in Seq(Links) /\ Len(r) = Len(s) - 1 /\ \A i \in 1 .. Len(r) : r[i] = s[i + 1]
    BY <1>2, <1>5, HeadTailProperties
  <2> HIDE DEF r
  <2> QED
    BY <2>1
<1>8. ListOf(h) = <<s[1]>> \o rest
  <2>1. <<s[1]>> \in Seq(Links) /\ Len(<<s[1]>>) = 1 /\ <<s[1]>>[1] = s[1]
    BY <1>5
  <2>2. /\ <<s[1]>> \o rest \in Seq(Links) /\ Len(<<s[1]>> \o rest) = 1 + Len(rest)
        /\ \A i \in 1 .. 1 + Len(rest) : (<<s[1]>> \o rest)[i] = IF i <= 1 THEN <<s[1]>>[i] ELSE rest[i - 1]
    BY <1>7, <2>1, ConcatProperties
  <2>3. \A i \in 1 .. Len(s) : (<<s[1]>> \o rest)[i] = s[i]
    BY <1>5, <1>7, <2>1, <2>2
  <2>4. Len(<<s[1]>> \o rest) = Len(s)
    BY <1>5, <1>7, <2>2
  <2> QED
    BY <1>2, <2>2, <2>3, <2>4, SeqEqual
<1>9. AsSequences' = AsSequences
  BY <1>1 DEF AsSequences, ListOf
<1>10. EndsWith(s, rest)
  BY <1>5, <1>7 DEF EndsWith
<1>11. walk'.n = IF Len(rest) = 0 THEN h ELSE rest[1]
  <2>1. ASSUME Len(rest) = 0 PROVE RingAt(s, h, 2) = h
    <3>1. Len(s) = 1
      BY <1>5, <1>7, <2>1
    <3>2. ~ (2 \in 1 .. Len(s))
      BY <3>1
    <3> QED
      BY <3>2 DEF RingAt
  <2>2. Len(rest) # 0 => RingAt(s, h, 2) = rest[1]
    BY <1>5, <1>7 DEF RingAt
  <2> QED
    BY <1>1, <1>6, <2>1, <2>2
<1>12. \A i \in 1 .. Len(rest) : rest[i] # s[1]
  BY <1>4, <1>5, <1>7
<1>13. WalksTo(AsSequences, rest)'
  <2>1. walk'.head = h /\ walk'.item = s[1] /\ h \in Usable' /\ s[1] \in Links
    BY <1>1, <1>5, <1>6 DEF Usable
  <2>2. met' \in Seq(Links) /\ due' = met' \o rest
    BY <1>1, <1>5, <1>6, <1>8
  <2>3. AsSequences'[walk'.head] = s
    BY <1>9, <1>s, <2>1
  <2>4. walk' \in [head : Heads, item : Links, n : Cells]
    <3>1. RingAt(s, h, 2) \in Cells
      BY <1>2, RingCells
    <3> QED
      BY <1>1, <1>6, <2>1, <3>1
  <2> QED
    BY <1>7, <1>10, <1>11, <1>12, <2>1, <2>2, <2>3, <2>4 DEF WalksTo
<1>14. walk' # NoWalk
  <2>1. walk'.head # NoLink
    BY <1>1, LinksAssumption
  <2> QED
    BY <2>1 DEF NoWalk
<1> QED
  <2>1. WalkInv'
    BY <1>7, <1>13, <1>14 DEF WalkInv, NoWalk
  <2> QED
    BY <1>1, <2>1, WalkStays

\* The walk comes to its next node, or ends.
LEMMA WalkOnStep ==
  ASSUME ListsInv, WalkOn
  PROVE  ListsInv' /\ AsSequences' = AsSequences
<1>1. walk # NoWalk /\ UNCHANGED <<links, spent, due>>
  BY DEF WalkOn
<1>2. PICK rest \in Seq(Links) : WalksTo(AsSequences, rest)
  BY <1>1 DEF ListsInv, WalkInv
<1>3. PICK h : h = walk.head
  OBVIOUS
<1>4. PICK s : s = AsSequences[h]
  OBVIOUS
<1>5. /\ HoldsLists(links, spent, AsSequences) /\ h \in Heads \ spent /\ s \in Seq(Links)
      /\ IsRing(links, s, h) /\ \A i, j \in 1 .. Len(s) : s[i] = s[j] => i = j
  BY <1>2, <1>3, <1>4 DEF ListsInv, WalksTo, Usable, HoldsLists, Distinct
<1>6. /\ met \in Seq(Links) /\ due = met \o rest /\ EndsWith(s, rest)
      /\ walk.n = IF Len(rest) = 0 THEN h ELSE rest[1]
  BY <1>2, <1>3, <1>4 DEF WalksTo
<1>7. Len(rest) \in Nat /\ Len(s) \in Nat /\ \A i \in 1 .. Len(rest) : rest[i] \in Links
  BY <1>2, <1>5, ElementOfSeq
<1>8. AsSequences' = AsSequences
  BY <1>1 DEF AsSequences, ListOf
<1>9. CASE walk.n = walk.head
  <2>1. Len(rest) = 0
    <3>1. Len(rest) # 0 => 1 \in 1 .. Len(rest)
      BY <1>7
    <3> QED
      BY <1>3, <1>5, <1>6, <1>7, <1>9, <3>1, LinksAssumption
  <2>2. met = due
    <3>1. rest = <<>>
      BY <1>2, <2>1, EmptySeq
    <3> QED
      BY <1>6, <3>1, ConcatEmptySeq
  <2>3. walk' = NoWalk /\ met' = met
    BY <1>9 DEF WalkOn
  <2>4. WalkInv'
    BY <1>1, <2>2, <2>3 DEF WalkInv, NoWalk
  <2> QED
    BY <1>1, <2>4, WalkStays
<1>10. CASE walk.n # walk.head
  <2>1. /\ walk' = [walk EXCEPT !.item = walk.n, !.n = links.next[walk.n]]
        /\ met' = Append(met, walk.n)
    BY <1>10 DEF WalkOn
  <2>2. Len(rest) # 0 /\ 1 \in 1 .. Len(rest) /\ walk.n = rest[1] /\ rest[1] \in Links /\ rest # <<>>
    BY <1>3, <1>6, <1>7, <1>10, EmptySeq
  <2>3. PICK more \in Seq(Links) :
          Len(more) = Len(rest) - 1 /\ \A i \in 1 .. Len(rest) - 1 : more[i] = rest[i + 1]
    <3> DEFINE r == Tail(rest)
    <3>1. r \in Seq(Links) /\ Len(r) = Len(rest) - 1 /\ \A i \in 1 .. Len(r) : r[i] = rest[i + 1]
      BY <2>2, HeadTailProperties
    <3> HIDE DEF r
    <3> QED
      BY <3>1
  <2>4. due = met' \o more
    <3>1. rest = <<rest[1]>> \o more
      <4>1. <<rest[1]>> \in Seq(Links) /\ Len(<<rest[1]>>) = 1 /\ <<rest[1]>>[1] = rest[1]
        BY <2>2
      <4>2. /\ <<rest[1]>> \o more \in Seq(Links) /\ Len(<<rest[1]>> \o more) = 1 + Len(more)
            /\ \A i \in 1 .. 1 + Len(more) :
                 (<<rest[1]>> \o more)[i] = IF i <= 1 THEN <<rest[1]>>[i] ELSE more[i - 1]
        BY <2>3, <4>1, ConcatProperties
      <4>3. \A i \in 1 .. Len(rest) : (<<rest[1]>> \o more)[i] = rest[i]
        BY <1>7, <2>3, <4>1, <4>2
      <4>4. Len(<<rest[1]>> \o more) = Len(rest)
        BY <1>7, <2>3, <4>2
      <4> QED
        BY <4>2, <4>3, <4>4, SeqEqual
    <3>2. met' = met \o <<rest[1]>>
      BY <1>6, <2>1, <2>2, AppendIsConcat
    <3>3. <<rest[1]>> \in Seq(Links)
      BY <2>2
    <3>4. (met \o <<rest[1]>>) \o more = met \o (<<rest[1]>> \o more)
      BY SMTT(40), <1>6, <2>3, <3>3, ConcatAssociative
    <3> QED
      BY <1>6, <3>1, <3>2, <3>4
  <2>5. met' \in Seq(Links)
    BY <1>6, <2>1, <2>2, AppendProperties
  <2>6. EndsWith(s, more)
    <3>1. Len(more) <= Len(s)
      BY <1>6, <1>7, <2>3 DEF EndsWith
    <3>2. ASSUME NEW i \in 1 .. Len(more) PROVE s[(Len(s) - Len(more)) + i] = more[i]
      <4>1. i + 1 \in 1 .. Len(rest) /\ i \in 1 .. Len(rest) - 1 /\ (Len(s) - Len(more)) + i = (Len(s) - Len(rest)) + (i + 1)
        BY <1>7, <2>3
      <4>2. s[(Len(s) - Len(rest)) + (i + 1)] = rest[i + 1]
        BY <1>6, <4>1 DEF EndsWith
      <4> QED
        BY <2>3, <4>1, <4>2
    <3> QED
      BY <3>1, <3>2 DEF EndsWith
  <2>b. Len(more) \in Nat /\ (Len(more) # 0 => more[1] \in Links)
    <3>1. Len(more) # 0 => 1 \in 1 .. Len(more)
      BY <2>3
    <3> QED
      BY <2>3, <3>1, ElementOfSeq
  <2> DEFINE k == (Len(s) - Len(rest)) + 1
  <2>7. k \in 1 .. Len(s) /\ s[k] = rest[1] /\ k \in 0 .. Len(s)
    BY <1>6, <1>7, <2>2 DEF EndsWith
  <2>8. links.next[rest[1]] = RingAt(s, h, k + 1)
    <3>1. RingAt(s, h, k) = rest[1]
      BY <2>7 DEF RingAt
    <3> HIDE DEF k
    <3> QED
      BY <1>5, <2>7, <3>1 DEF IsRing
  <2>9. links.next[rest[1]] = IF Len(more) = 0 THEN h ELSE more[1]
    <3>1. CASE Len(more) = 0
      <4>0. Len(rest) = 1
        BY <1>7, <2>3, <3>1
      <4>1. ~ (k + 1 \in 1 .. Len(s))
        BY <1>7, <4>0
      <4> QED
        BY <2>8, <3>1, <4>1 DEF RingAt
    <3>2. CASE Len(more) # 0
      <4>1. k + 1 \in 1 .. Len(s) /\ 1 \in 1 .. Len(more) /\ k + 1 = (Len(s) - Len(more)) + 1
        BY <1>6, <1>7, <2>3, <3>2 DEF EndsWith
      <4>2. s[k + 1] = more[1]
        BY <2>6, <4>1 DEF EndsWith
      <4> QED
        BY <2>8, <3>2, <4>1, <4>2 DEF RingAt
    <3> QED
      BY <3>1, <3>2
  <2>10. \A i \in 1 .. Len(more) : more[i] # rest[1]
    <3>1. ASSUME NEW i \in 1 .. Len(more) PROVE more[i] # rest[1]
      <4>1. (Len(s) - Len(more)) + i \in 1 .. Len(s) /\ (Len(s) - Len(more)) + i # k
        BY <1>6, <1>7, <2>3 DEF EndsWith
      <4>2. more[i] = s[(Len(s) - Len(more)) + i]
        BY <2>6 DEF EndsWith
      <4> HIDE DEF k
      <4> QED
        BY <1>5, <2>7, <4>1, <4>2
    <3> QED
      BY <3>1
  <2> HIDE DEF k
  <2>11. /\ walk'.head = h /\ walk'.item = rest[1] /\ walk'.n = links.next[rest[1]]
    BY <1>2, <1>3, <2>1, <2>2 DEF WalksTo
  <2>a. walk' \in [head : Heads, item : Links, n : Cells]
    <3>1. links.next[rest[1]] \in Cells
      BY <1>5, <2>9, <2>b DEF Cells
    <3> QED
      BY <1>2, <2>1, <2>2, <3>1 DEF WalksTo
  <2>12. WalksTo(AsSequences, more)'
    <3>1. h \in Usable' /\ AsSequences'[walk'.head] = s /\ due' = due
      BY <1>1, <1>4, <1>5, <1>8, <2>11 DEF Usable
    <3> QED
      BY <2>2, <2>3, <2>4, <2>5, <2>6, <2>9, <2>10, <2>11, <2>a, <3>1 DEF WalksTo
  <2>13. walk' # NoWalk
    BY <1>5, <2>11, LinksAssumption DEF NoWalk
  <2>14. WalkInv'
    BY <2>3, <2>12, <2>13 DEF WalkInv, NoWalk
  <2> QED
    BY <1>1, <2>14, WalkStays
<1> QED
  BY <1>9, <1>10

-----------------------------------------------------------------------------
(* The body of a walk takes its node out, and may link it elsewhere *)

\* A node that the walk need not come to is taken out before the end.
LEMMA EndsStill ==
  ASSUME NEW s \in Seq(Links), NEW rest \in Seq(Links), EndsWith(s, rest),
         NEW k \in 1 .. Len(s), \A i \in 1 .. Len(rest) : rest[i] # s[k]
  PROVE  EndsWith(RemoveAt(s, k), rest)
<1>1. /\ Len(RemoveAt(s, k)) = Len(s) - 1
      /\ \A i \in 1 .. Len(s) - 1 : RemoveAt(s, k)[i] = IF i < k THEN s[i] ELSE s[i + 1]
  BY RemovedAt
<1>2. Len(s) \in Nat /\ Len(rest) \in Nat /\ Len(rest) <= Len(s)
  BY DEF EndsWith
<1>3. k <= Len(s) - Len(rest)
  <2>1. ASSUME ~ (k <= Len(s) - Len(rest)) PROVE FALSE
    <3> DEFINE i == k - (Len(s) - Len(rest))
    <3>1. i \in 1 .. Len(rest) /\ (Len(s) - Len(rest)) + i = k
      BY <1>2, <2>1
    <3> HIDE DEF i
    <3> QED
      BY <3>1 DEF EndsWith
  <2> QED
    BY <2>1
<1>4. Len(rest) <= Len(RemoveAt(s, k))
  BY <1>1, <1>2, <1>3
<1>5. ASSUME NEW i \in 1 .. Len(rest)
      PROVE  RemoveAt(s, k)[(Len(RemoveAt(s, k)) - Len(rest)) + i] = rest[i]
  <2> DEFINE j == ((Len(s) - 1) - Len(rest)) + i
  <2>1. j \in 1 .. Len(s) - 1 /\ ~ (j < k) /\ j + 1 = (Len(s) - Len(rest)) + i
    BY <1>2, <1>3
  <2>2. s[(Len(s) - Len(rest)) + i] = rest[i]
    BY DEF EndsWith
  <2>3. (Len(RemoveAt(s, k)) - Len(rest)) + i = j
    BY <1>1
  <2> HIDE DEF j
  <2> QED
    BY <1>1, <2>1, <2>2, <2>3
<1> QED
  BY <1>4, <1>5 DEF EndsWith

\* The same end remains behind what is put in front.
LEMMA EndsLonger ==
  ASSUME NEW s \in Seq(Links), NEW rest \in Seq(Links), EndsWith(s, rest), NEW n \in Links
  PROVE  EndsWith(<<n>> \o s, rest)
<1>1. <<n>> \in Seq(Links) /\ Len(<<n>>) = 1
  OBVIOUS
<1>2. /\ Len(<<n>> \o s) = 1 + Len(s)
      /\ \A i \in 1 .. 1 + Len(s) : (<<n>> \o s)[i] = IF i <= 1 THEN <<n>>[i] ELSE s[i - 1]
  BY <1>1, ConcatProperties
<1>3. Len(s) \in Nat /\ Len(rest) \in Nat /\ Len(rest) <= Len(s)
  BY DEF EndsWith
<1>4. ASSUME NEW i \in 1 .. Len(rest)
      PROVE  (<<n>> \o s)[(Len(<<n>> \o s) - Len(rest)) + i] = rest[i]
  <2> DEFINE j == ((1 + Len(s)) - Len(rest)) + i
  <2>1. j \in 1 .. 1 + Len(s) /\ ~ (j <= 1) /\ j - 1 = (Len(s) - Len(rest)) + i
    BY <1>3
  <2>2. s[(Len(s) - Len(rest)) + i] = rest[i]
    BY DEF EndsWith
  <2>3. (Len(<<n>> \o s) - Len(rest)) + i = j
    BY <1>2
  <2> HIDE DEF j
  <2> QED
    BY <1>2, <2>1, <2>2, <2>3
<1> QED
  BY <1>2, <1>3, <1>4 DEF EndsWith

\* The body of dl_list_for_each_safe takes the node of the walk out.
LEMMA TakeOutStep ==
  ASSUME ListsInv, TakeOut
  PROVE  /\ ListsInv'
         /\ \E g \in Heads : \E k \in DOMAIN AsSequences[g] :
              \/ ListsPromise!Delete(g, k)
              \/ \E to \in Heads : ListsPromise!Move(g, k, to) \/ ListsPromise!MoveTail(g, k, to)
<1>1. walk # NoWalk /\ UNCHANGED <<spent, walk, met, due>>
  BY DEF TakeOut
<1>2. PICK rest \in Seq(Links) : WalksTo(AsSequences, rest)
  BY <1>1 DEF ListsInv, WalkInv
<1>3. PICK L : L = AsSequences
  OBVIOUS
<1>4. PICK h : h = walk.head
  OBVIOUS
<1>5. PICK n : n = walk.item
  OBVIOUS
<1>6. /\ HoldsLists(links, spent, L) /\ h \in Heads \ spent /\ n \in Links /\ n \notin Loose
      /\ L \in [Heads -> Seq(Links)] /\ EndsWith(L[h], rest) /\ \A i \in 1 .. Len(rest) : rest[i] # n
  BY <1>2, <1>3, <1>4, <1>5 DEF ListsInv, WalksTo, Usable, HoldsLists, TakeOut
<1>7. PICK g \in Heads : \E k \in 1 .. Len(L[g]) : L[g][k] = n
  BY <1>3, <1>6, NodeIsSomewhere
<1>8. PICK k \in 1 .. Len(L[g]) : L[g][k] = n
  BY <1>7
<1>9. PICK W : W = [L EXCEPT ![g] = RemoveAt(@, k)]
  OBVIOUS
<1>10. PICK without : without = dl_list_del(links, n)
  OBVIOUS
<1>11. HoldsLists(without, spent, W) /\ without.next[n] = NoLink
  <2>1. L[g][k] = n /\ without \in {xlist_del(links, L[g][k]), dl_list_del(links, L[g][k])}
    BY <1>8, <1>10
  <2>2. HoldsLists(links, spent, L)
    BY <1>6
  <2>3. HoldsLists(without, spent, [L EXCEPT ![g] = RemoveAt(@, k)])
    BY <2>1, <2>2, DelHolds
  <2>4. without.next[n] = NoLink
    <3>1. IsMemory(links)
      BY <1>6 DEF HoldsLists
    <3> QED
      BY <1>6, <1>10, <3>1 DEF dl_list_del, IsMemory, Cells
  <2> QED
    BY <1>8, <1>9, <2>3, <2>4
<1>12. /\ W \in [Heads -> Seq(Links)] /\ W[g] = RemoveAt(L[g], k) /\ \A l \in Heads \ {g} : W[l] = L[l]
       /\ k \in DOMAIN L[g] /\ L[g][k] = n
  <2>1. L[g] \in Seq(Links) /\ k \in 1 .. Len(L[g])
    BY <1>6
  <2>2. RemoveAt(L[g], k) \in Seq(Links)
    BY <2>1, RemovedAt
  <2> QED
    BY <1>6, <1>8, <1>9, <2>1, <2>2
<1>13. EndsWith(W[h], rest)
  <2>1. CASE g = h
    <3>1. L[h] \in Seq(Links) /\ k \in 1 .. Len(L[h]) /\ L[h][k] = n
      BY <1>6, <1>8, <2>1
    <3> QED
      BY <1>6, <1>12, <2>1, <3>1, EndsStill
  <2>2. CASE g # h
    BY <1>6, <1>12, <2>2
  <2> QED
    BY <2>1, <2>2
\* The body changes the list of the walk at most before what it still comes to.
<1>14. ASSUME NEW M, HoldsLists(links', spent', M), EndsWith(M[h], rest)
       PROVE  ListsInv' /\ AsSequences' = M
  <2>1. AsSequences' = M
    BY <1>14, HeldAre
  <2>2. WalksTo(AsSequences, rest)'
    BY <1>1, <1>2, <1>4, <1>14, <2>1 DEF WalksTo, Usable
  <2>3. WalkInv'
    BY <1>1, <2>2 DEF WalkInv, NoWalk
  <2> QED
    BY <1>14, <2>1, <2>3 DEF ListsInv
<1>w. W = ListsPromise!Without(g, k)
  BY <1>3, <1>9 DEF ListsPromise!Without, ListsPromise!RemoveAt, RemoveAt
<1>15. CASE links' = without /\ call' = <<"del", n>>
  <2>1. HoldsLists(links', spent', W)
    BY <1>1, <1>11, <1>15
  <2>2. ListsInv' /\ AsSequences' = W
    BY <1>13, <1>14, <2>1
  <2>3. ListsPromise!Delete(g, k)
    BY <1>3, <1>12, <1>15, <1>w, <2>2 DEF ListsPromise!Delete, ListsPromise!Without
  <2> QED
    BY <1>3, <1>12, <2>2, <2>3
<1>16. CASE links' = dl_list_add(without, h, n) /\ call' = <<"move", n, h>>
  <2>1. HoldsLists(links', spent', [W EXCEPT ![h] = <<n>> \o @])
    <3>1. HoldsLists(links', spent, [W EXCEPT ![h] = <<n>> \o @])
      BY <1>6, <1>11, <1>16, AddHolds
    <3> QED
      BY <1>1, <3>1
  <2>2. EndsWith([W EXCEPT ![h] = <<n>> \o @][h], rest)
    BY <1>6, <1>12, <1>13, EndsLonger
  <2>3. h \in Heads
    BY <1>6
  <2>4. ListsInv' /\ AsSequences' = [W EXCEPT ![h] = <<n>> \o @]
    BY <1>14, <2>1, <2>2
  <2>5. ListsPromise!Move(g, k, h)
    BY <1>3, <1>12, <1>16, <1>w, <2>4 DEF ListsPromise!Move
  <2> QED
    BY <1>3, <1>12, <2>3, <2>4, <2>5
<1>17. ASSUME NEW to \in Usable \ {h}, links' = dl_list_add_tail(without, to, n), call' = <<"move_tail", n, to>>
       PROVE  ListsInv' /\ \E other \in Heads : ListsPromise!MoveTail(g, k, other)
  <2>1. to \in Heads \ spent /\ to # h
    BY DEF Usable
  <2>2. HoldsLists(links', spent', [W EXCEPT ![to] = Append(@, n)])
    <3>1. HoldsLists(links', spent, [W EXCEPT ![to] = Append(@, n)])
      BY <1>6, <1>11, <1>17, <2>1, AddHolds
    <3> QED
      BY <1>1, <3>1
  <2>3. EndsWith([W EXCEPT ![to] = Append(@, n)][h], rest)
    BY <1>6, <1>12, <1>13, <2>1
  <2>4. ListsInv' /\ AsSequences' = [W EXCEPT ![to] = Append(@, n)]
    BY <1>14, <2>2, <2>3
  <2>5. ListsPromise!MoveTail(g, k, to)
    BY <1>3, <1>12, <1>17, <1>w, <2>4 DEF ListsPromise!MoveTail
  <2> QED
    BY <2>1, <2>4, <2>5
<1> QED
  <2>1. \/ links' = without /\ call' = <<"del", n>>
        \/ links' = dl_list_add(without, h, n) /\ call' = <<"move", n, h>>
        \/ \E to \in Usable \ {h} :
             links' = dl_list_add_tail(without, to, n) /\ call' = <<"move_tail", n, to>>
    BY <1>4, <1>5, <1>10 DEF TakeOut
  <2>2. CASE \E to \in Usable \ {h} :
               links' = dl_list_add_tail(without, to, n) /\ call' = <<"move_tail", n, to>>
    <3>1. ListsInv' /\ \E other \in Heads : ListsPromise!MoveTail(g, k, other)
      BY <1>17, <2>2
    <3> QED
      BY <1>3, <1>12, <3>1
  <2> QED
    BY <1>15, <1>16, <2>1, <2>2

-----------------------------------------------------------------------------
\* Every step keeps the invariant and is what the promise says of its call, or
\* part of a walk, which changes no sequence.
LEMMA ListsStep ==
  ASSUME ListsInv, [ListNext]_listVars
  PROVE  ListsInv' /\ [ListsPromise!Next]_<<AsSequences, call>>
<1>1. CASE UNCHANGED listVars
  <2>1. AsSequences' = AsSequences
    BY <1>1 DEF listVars, AsSequences, ListOf
  <2>2. WalkInv'
    <3>1. CASE walk = NoWalk
      BY <1>1, <3>1 DEF ListsInv, WalkInv, listVars, NoWalk
    <3>2. CASE walk # NoWalk
      <4>1. PICK rest \in Seq(Links) : WalksTo(AsSequences, rest)
        BY <3>2 DEF ListsInv, WalkInv
      <4>2. WalksTo(AsSequences, rest)'
        BY <1>1, <2>1, <4>1 DEF WalksTo, listVars, Usable
      <4> QED
        BY <1>1, <3>2, <4>2 DEF WalkInv, listVars, NoWalk
    <3> QED
      BY <3>1, <3>2
  <2>3. UNCHANGED <<links, spent, call>>
    BY <1>1 DEF listVars
  <2> QED
    BY <2>1, <2>2, <2>3, WalkStays
<1>2. ASSUME NEW h \in Heads, GetLink(h) PROVE ListsInv' /\ ListsPromise!Next
  BY <1>2, GetStep DEF ListsPromise!Next
<1>3. ASSUME NEW h \in Heads, InitHead(h) PROVE ListsInv' /\ ListsPromise!Next
  BY <1>3, InitStep DEF ListsPromise!Next
<1>4. ASSUME NEW h \in Heads, StartWalk(h) PROVE ListsInv' /\ UNCHANGED <<AsSequences, call>>
  BY <1>4, StartStep DEF StartWalk
<1>5. ASSUME NEW h \in Heads, NEW n \in Links, AddLink(h, n) PROVE ListsInv' /\ ListsPromise!Next
  <2>1. ListsInv' /\ (ListsPromise!Add(h, n) \/ ListsPromise!AddTail(h, n))
    BY <1>5, AddStep
  <2> QED
    BY <2>1 DEF ListsPromise!Next
<1>6. ASSUME NEW h \in Heads, NEW list \in Heads, SpliceList(list, h) PROVE ListsInv' /\ ListsPromise!Next
  <2>1. ListsInv' /\ (ListsPromise!Splice(list, h) \/ ListsPromise!SpliceTail(list, h))
    BY <1>6, SpliceStep
  <2> QED
    BY <2>1 DEF ListsPromise!Next
<1>7. ASSUME NEW h \in Heads, NEW list \in Heads, NEW entry \in Cells, CutList(list, h, entry)
      PROVE  ListsInv' /\ ListsPromise!Next
  <2>1. ListsInv' /\ \E k \in 0 .. Len(AsSequences[h]) : ListsPromise!Cut(list, h, k)
    BY <1>7, CutStep
  <2> QED
    BY <2>1 DEF ListsPromise!Next
<1>8. ASSUME NEW n \in Links, DelLink(n) PROVE ListsInv' /\ ListsPromise!Next
  <2>1. ListsInv' /\ \E h \in Heads : \E k \in DOMAIN AsSequences[h] : ListsPromise!Delete(h, k)
    BY <1>8, DelLinkStep
  <2> QED
    BY <2>1 DEF ListsPromise!Next
<1>9. CASE WalkOn
  BY <1>9, WalkOnStep DEF WalkOn
<1>10. CASE TakeOut
  <2>1. /\ ListsInv'
        /\ \E g \in Heads : \E k \in DOMAIN AsSequences[g] :
             \/ ListsPromise!Delete(g, k)
             \/ \E to \in Heads : ListsPromise!Move(g, k, to) \/ ListsPromise!MoveTail(g, k, to)
    BY <1>10, TakeOutStep
  <2> QED
    BY <2>1 DEF ListsPromise!Next
<1> QED
  BY <1>1, <1>2, <1>3, <1>4, <1>5, <1>6, <1>7, <1>8, <1>9, <1>10 DEF ListNext

\* What the invariant says of the lists that a program reads.
LEMMA HeldAreLinked == ListsInv => ListsAreLinked
<1> SUFFICES ASSUME ListsInv PROVE ListsAreLinked
  OBVIOUS
<1>1. HoldsLists(links, spent, AsSequences) /\ WalkInv
  BY DEF ListsInv
<1>2. ASSUME NEW h \in Usable
      PROVE  /\ Round(links.prev, h) = Reverse(ListOf(h))
             /\ xlist_empty(links, h) <=> dl_list_len(h) = 0
             /\ xlist_empty_careful(links, h) <=> xlist_empty(links, h)
             /\ xlist_is_singular(links, h) <=> dl_list_len(h) = 1
  <2>1. h \in Heads \ spent /\ AsSequences[h] = ListOf(h) /\ ListOf(h) \in Seq(Links)
    BY <1>1 DEF Usable, AsSequences, HoldsLists
  <2>2. PICK s : s = AsSequences[h]
    OBVIOUS
  <2>3. /\ Round(links.prev, h) = Reverse(s)
        /\ links.next[h] = h <=> Len(s) = 0
        /\ links.prev[h] = h <=> Len(s) = 0
        /\ Len(s) > 0 => (links.next[h] = links.prev[h] <=> Len(s) = 1)
    BY <1>1, <2>1, <2>2, ListsRead
  <2>4. Len(s) \in Nat /\ dl_list_len(h) = Len(s)
    BY <2>1, <2>2 DEF dl_list_len
  <2>5. xlist_empty(links, h) <=> Len(s) = 0
    BY <2>3 DEF xlist_empty
  <2>6. xlist_empty_careful(links, h) <=> Len(s) = 0
    BY <2>3 DEF xlist_empty_careful
  <2>7. xlist_is_singular(links, h) <=> Len(s) = 1
    BY <2>3, <2>4, <2>5 DEF xlist_is_singular
  <2> QED
    BY <2>1, <2>2, <2>3, <2>4, <2>5, <2>6, <2>7
<1>3. ASSUME NEW n \in Links
      PROVE  /\ n \in Loose <=> links.prev[n] = NoLink
             /\ n \notin Loose => Cardinality({h \in Usable : n \in ToSet(ListOf(h))}) = 1
  <2>1. \A h \in Heads : \A i \in 1 .. Len(AsSequences[h]) :
          /\ links.next[AsSequences[h][i]] # NoLink /\ links.prev[AsSequences[h][i]] # NoLink
          /\ h \notin spent
    BY <1>1, ListsApart
  <2>2. \/ \E h \in Heads : \E i \in 1 .. Len(AsSequences[h]) : AsSequences[h][i] = n
        \/ links.next[n] = NoLink /\ links.prev[n] = NoLink
    BY <1>1 DEF HoldsLists
  <2>3. n \in Loose <=> links.prev[n] = NoLink
    BY <2>1, <2>2 DEF Loose
  <2>4. ASSUME n \notin Loose PROVE Cardinality({h \in Usable : n \in ToSet(ListOf(h))}) = 1
    <3>1. PICK g \in Heads : \E i \in 1 .. Len(AsSequences[g]) : AsSequences[g][i] = n
      BY <2>2, <2>4 DEF Loose
    <3>2. \A h \in Usable : n \in ToSet(ListOf(h)) <=> \E i \in 1 .. Len(AsSequences[h]) : AsSequences[h][i] = n
      <4>1. ASSUME NEW h \in Usable PROVE ListOf(h) = AsSequences[h] /\ AsSequences[h] \in Seq(Links)
        BY <1>1 DEF Usable, AsSequences, HoldsLists
      <4> QED
        BY <4>1 DEF ToSet
    <3>3. \A h \in Heads : (\E i \in 1 .. Len(AsSequences[h]) : AsSequences[h][i] = n) => h = g
      BY <1>1, <3>1 DEF HoldsLists, Distinct
    <3>4. g \in Usable
      BY <2>1, <3>1 DEF Usable
    <3>5. \A h \in Usable : h \in Heads
      BY DEF Usable
    <3>6. {h \in Usable : n \in ToSet(ListOf(h))} = {g}
      BY <3>1, <3>2, <3>3, <3>4, <3>5
    <3> QED
      BY <3>6, FS_Singleton
  <2> QED
    BY <2>3, <2>4
<1>4. IF walk = NoWalk THEN met = due ELSE IsPrefix(met, due)
  <2>1. CASE walk = NoWalk
    BY <1>1, <2>1 DEF WalkInv
  <2>2. CASE walk # NoWalk
    <3>1. PICK rest \in Seq(Links) : WalksTo(AsSequences, rest)
      BY <1>1, <2>2 DEF WalkInv
    <3>2. met \in Seq(Links) /\ due = met \o rest
      BY <3>1 DEF WalksTo
    <3>3. Len(due) = Len(met) + Len(rest) /\ Len(met) \in Nat /\ Len(rest) \in Nat
      BY <3>2, ConcatProperties
    <3>4. SubSeq(due, 1, Len(met)) = SubSeq(met, 1, Len(met))
      BY <3>2, <3>3, SubSeqOfConcat1
    <3> QED
      BY <2>2, <3>3, <3>4 DEF IsPrefix
  <2> QED
    BY <2>1, <2>2
<1> QED
  BY <1>2, <1>3, <1>4 DEF ListsAreLinked

\* Whatever calls link and unlink, every list is one ring in both directions,
\* a node is in one list at most, the tests of a list agree with its length,
\* and a walk that may take nodes out comes to each node once (xlist.h:23-319,
\* list.h:25-87).
THEOREM ListsLinked == ListSpec => []ListsAreLinked
<1>1. ListInit => ListsInv
  BY ListsStart
<1>2. ListsInv /\ [ListNext]_listVars => ListsInv'
  BY ListsStep
<1> QED
  BY <1>1, <1>2, HeldAreLinked, PTL DEF ListSpec

\* Each call does to the sequences of the heads what ListStore says of a call of
\* its name and arguments: a node is put at the front or the end or taken out, a
\* list is joined or cut there, and no other list changes (xlist.h:55-319).
THEOREM ListsAreSequences == ListSpec => ImplementsLists
<1>1. ListInit => ListsInv /\ ListsPromise!Init
  BY ListsStart
<1>2. ListsInv /\ [ListNext]_listVars => ListsInv' /\ [ListsPromise!Next]_<<AsSequences, call>>
  BY ListsStep
<1> QED
  BY <1>1, <1>2, PTL DEF ListSpec, ImplementsLists, ListsPromise!Spec
=============================================================================
