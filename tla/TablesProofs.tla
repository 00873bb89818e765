---------------------------- MODULE TablesProofs ----------------------------
(***************************************************************************)
(* Proofs about the tables that threads share, XHash and AllocTrace, for   *)
(* any number of threads, items, keys, buckets, addresses and sites of the *)
(* program, every size of the hash table and every hash function; and      *)
(* about their composition with the lists of XList.                        *)
(***************************************************************************)
EXTENDS MCTables, XListProofs

-----------------------------------------------------------------------------
(* The hash table: its chains, its count and the owners of its items *)

\* The buckets that are not free.
Allocated == {b \in Buckets : data[b] # NoItem}

\* The chains hold the allocated buckets, each in the chain of its key, once.
ChainsInv ==
  /\ \A i \in Indices : \A m, n \in 1 .. Len(index[i]) : index[i][m] = index[i][n] => m = n
  /\ \A b \in Buckets, i \in Indices :
       Chained(b, i) <=> data[b] # NoItem /\ IndexOf(ItemKey[data[b]]) = i

\* hash.count is the number of allocated buckets.
CountInv == IsFiniteSet(Allocated) /\ hcount = Cardinality(Allocated)

\* No key has two buckets, in whatever state the chains are.
OnePerKey(contents) ==
  \A b, c \in Buckets :
    /\ contents[b] # NoItem /\ contents[c] # NoItem
    /\ ItemKey[contents[b]] = ItemKey[contents[c]]
    => b = c

\* The inductive invariant of the hash table.
HashInv == HashTypeOK /\ ChainsInv /\ CountInv /\ OnePerKey(data) /\ OwnsItsItems

-----------------------------------------------------------------------------
(* Lemmas about the chains *)

LEMMA IndexType == ASSUME NEW k \in Keys PROVE IndexOf(k) \in Indices
BY HashAssumption DEF IndexOf, Indices

\* Looking through one chain finds the key if any bucket has it.
LEMMA PlaceOfKey ==
  ASSUME HashTypeOK, ChainsInv, NEW k \in Keys
  PROVE  /\ Found(k) => /\ Place(k) \in 1 .. Len(index[IndexOf(k)])
                        /\ BucketOf(k) \in Buckets
                        /\ data[BucketOf(k)] \in Items
                        /\ ItemKey[data[BucketOf(k)]] = k
         /\ ~ Found(k) => \A b \in Buckets : data[b] # NoItem => ItemKey[data[b]] # k
<1> DEFINE chain == index[IndexOf(k)]
           I == {n \in 1 .. Len(chain) : ItemKey[data[chain[n]]] = k}
<1>1. chain \in Seq(Buckets) /\ IndexOf(k) \in Indices
  BY IndexType DEF HashTypeOK
<1>2. Place(k) = IF I # {} THEN Min(I) ELSE 0
  BY DEF Place, SelectInSeq
<1>3. I \subseteq Nat /\ I \subseteq 1 .. Len(chain)
  BY <1>1
<1>4. ASSUME Found(k)
      PROVE  /\ Place(k) \in 1 .. Len(chain) /\ BucketOf(k) \in Buckets
             /\ data[BucketOf(k)] \in Items /\ ItemKey[data[BucketOf(k)]] = k
  <2>1. Place(k) \in I
    <3> HIDE DEF I
    <3> QED
      BY <1>2, <1>3, <1>4, LeastElement DEF Found
  <2>2. BucketOf(k) = chain[Place(k)] /\ chain[Place(k)] \in Buckets
    BY <1>1, <2>1, ElementOfSeq DEF BucketOf
  <2>3. Chained(BucketOf(k), IndexOf(k))
    BY <2>1, <2>2 DEF Chained
  <2>4. data[BucketOf(k)] # NoItem
    BY <1>1, <2>2, <2>3 DEF ChainsInv
  <2> QED
    BY <2>1, <2>2, <2>4 DEF HashTypeOK
<1>5. ASSUME ~ Found(k), NEW b \in Buckets, data[b] # NoItem, ItemKey[data[b]] = k
      PROVE  FALSE
  <2>1. Chained(b, IndexOf(k))
    BY <1>1, <1>5 DEF ChainsInv
  <2>2. PICK n \in 1 .. Len(chain) : chain[n] = b
    BY <2>1 DEF Chained
  <2>3. n \in I
    BY <1>5, <2>2
  <2>4. Min(I) \in I
    <3> HIDE DEF I
    <3> QED
      BY <1>3, <2>3, LeastElement
  <2>5. Place(k) # 0
    <3> HIDE DEF I
    <3>1. I # {} /\ Min(I) \in 1 .. Len(chain)
      BY <1>3, <2>3, <2>4
    <3> QED
      BY <1>1, <1>2, <3>1
  <2> QED
    BY <1>5, <2>5 DEF Found
<1> QED
  BY <1>4, <1>5

\* A bucket in front of a chain.
LEMMA InFront ==
  ASSUME NEW s \in Seq(Buckets), NEW b \in Buckets
  PROVE  /\ <<b>> \o s \in Seq(Buckets)
         /\ Len(<<b>> \o s) = Len(s) + 1
         /\ \A n \in 1 .. Len(s) + 1 : (<<b>> \o s)[n] = IF n = 1 THEN b ELSE s[n - 1]
<1>1. <<b>> \in Seq(Buckets) /\ Len(<<b>>) = 1 /\ <<b>>[1] = b
  OBVIOUS
<1> QED
  BY <1>1, ConcatProperties

\* A new bucket, which was free, in front of the chain of its key.
LEMMA LinkChains ==
  ASSUME HashTypeOK, ChainsInv, NEW b \in Buckets, NEW d \in Items,
         data[b] = NoItem, data' = [data EXCEPT ![b] = d],
         index' = [index EXCEPT ![IndexOf(ItemKey[d])] = <<b>> \o @]
  PROVE  ChainsInv' /\ index' \in [Indices -> Seq(Buckets)]
<1> DEFINE j == IndexOf(ItemKey[d])
<1> USE ItemsAssumption
<1>1. j \in Indices /\ d # NoItem
  BY IndexType
<1>2. /\ index' \in [Indices -> Seq(Buckets)]
      /\ index'[j] = <<b>> \o index[j] /\ index[j] \in Seq(Buckets)
      /\ \A i \in Indices \ {j} : index'[i] = index[i]
  BY <1>1, InFront DEF HashTypeOK
<1>3. /\ Len(index'[j]) = Len(index[j]) + 1 /\ Len(index[j]) \in Nat
      /\ index'[j][1] = b
      /\ \A n \in 1 .. Len(index[j]) : index'[j][n + 1] = index[j][n]
      /\ \A n \in 2 .. Len(index[j]) + 1 : index'[j][n] = index[j][n - 1]
  BY <1>2, InFront
<1>4. data'[b] = d /\ \A c \in Buckets \ {b} : data'[c] = data[c]
  BY DEF HashTypeOK
<1>5. \A i \in Indices : \A n \in 1 .. Len(index[i]) : index[i][n] # b
  BY DEF ChainsInv, Chained
<1> HIDE DEF j
<1>6. ASSUME NEW i \in Indices, NEW m \in 1 .. Len(index'[i]), NEW n \in 1 .. Len(index'[i]),
             index'[i][m] = index'[i][n]
      PROVE  m = n
  <2>1. CASE i # j
    BY <1>2, <1>6, <2>1 DEF ChainsInv
  <2>2. CASE i = j
    <3>1. m = 1 \/ m \in 2 .. Len(index[j]) + 1
      BY <1>3, <1>6, <2>2
    <3>2. n = 1 \/ n \in 2 .. Len(index[j]) + 1
      BY <1>3, <1>6, <2>2
    <3>3. CASE m = 1 \/ n = 1
      BY <1>1, <1>3, <1>5, <1>6, <2>2, <3>1, <3>2, <3>3
    <3>4. CASE m # 1 /\ n # 1
      <4>1. index[j][m - 1] = index[j][n - 1]
        BY <1>3, <1>6, <2>2, <3>1, <3>2, <3>4
      <4>2. m - 1 = n - 1
        BY <1>1, <1>3, <3>1, <3>2, <3>4, <4>1 DEF ChainsInv
      <4> QED
        BY <4>2
    <3> QED
      BY <3>3, <3>4
  <2> QED
    BY <2>1, <2>2
<1>7. ASSUME NEW c \in Buckets, NEW i \in Indices
      PROVE  Chained(c, i)' <=> data'[c] # NoItem /\ IndexOf(ItemKey[data'[c]]) = i
  <2>1. CASE i # j
    <3>1. Chained(c, i)' <=> Chained(c, i)
      BY <1>2, <2>1 DEF Chained
    <3> QED
      BY <1>1, <1>4, <1>5, <2>1, <3>1 DEF ChainsInv, Chained, j
  <2>2. CASE i = j
    <3>1. Chained(c, j)' <=> c = b \/ Chained(c, j)
      <4>1. ASSUME NEW n \in 1 .. Len(index[j]), index[j][n] = c
            PROVE  n + 1 \in 1 .. Len(index'[j]) /\ index'[j][n + 1] = c
        BY <1>3, <4>1
      <4>2. ASSUME NEW n \in 1 .. Len(index'[j]), index'[j][n] = c, c # b
            PROVE  n - 1 \in 1 .. Len(index[j]) /\ index[j][n - 1] = c
        <5>1. n \in 2 .. Len(index[j]) + 1
          BY <1>3, <4>2
        <5> QED
          BY <1>3, <4>2, <5>1
      <4>3. 1 \in 1 .. Len(index'[j])
        BY <1>3
      <4> QED
        BY <1>3, <4>1, <4>2, <4>3 DEF Chained
    <3> QED
      BY <1>1, <1>4, <2>2, <3>1 DEF ChainsInv, j
  <2> QED
    BY <2>1, <2>2
<1> QED
  BY <1>2, <1>6, <1>7 DEF ChainsInv

\* The bucket of a key is taken out of its chain, and freed.
LEMMA UnlinkChains ==
  ASSUME HashTypeOK, ChainsInv, NEW k \in Keys, Found(k), Unlink(k)
  PROVE  /\ ChainsInv' /\ index' \in [Indices -> Seq(Buckets)]
         /\ data' = [data EXCEPT ![BucketOf(k)] = NoItem]
<1> DEFINE j == IndexOf(k)
           p == Place(k)
           b == BucketOf(k)
           s == index[j]
<1>1. /\ j \in Indices /\ p \in 1 .. Len(s) /\ b \in Buckets /\ s[p] = b
      /\ ItemKey[data[b]] = k /\ data[b] # NoItem
  BY IndexType, PlaceOfKey, ItemsAssumption DEF BucketOf
<1>2. /\ index' = [index EXCEPT ![j] = RemoveAt(s, p)]
      /\ data' = [data EXCEPT ![b] = NoItem]
  BY DEF Unlink
<1>3. s \in Seq(Buckets) /\ Len(s) \in Nat
  BY <1>1 DEF HashTypeOK
<1> HIDE DEF p, b
<1>4. /\ index' \in [Indices -> Seq(Buckets)]
      /\ Len(index'[j]) = Len(s) - 1
      /\ \A n \in 1 .. Len(s) - 1 : index'[j][n] = s[Shifted(n, p)]
      /\ \A i \in Indices \ {j} : index'[i] = index[i]
  BY ZenonT(60), <1>1, <1>2, <1>3, RemovedAt DEF HashTypeOK, Shifted
<1>5. /\ \A n \in 1 .. Len(s) - 1 : Shifted(n, p) \in 1 .. Len(s) /\ Shifted(n, p) # p
      /\ \A m, n \in 1 .. Len(s) - 1 : Shifted(m, p) = Shifted(n, p) => m = n
      /\ \A n \in 1 .. Len(s) : n # p => \E m \in 1 .. Len(s) - 1 : Shifted(m, p) = n
  <2>1. ASSUME NEW n \in 1 .. Len(s), n # p
        PROVE  \E m \in 1 .. Len(s) - 1 : Shifted(m, p) = n
    <3>1. CASE n < p
      <4>1. n \in 1 .. Len(s) - 1 /\ Shifted(n, p) = n
        BY <1>1, <1>3, <3>1 DEF Shifted
      <4> QED
        BY <4>1
    <3>2. CASE n > p
      <4>1. n - 1 \in 1 .. Len(s) - 1 /\ Shifted(n - 1, p) = n
        BY <1>1, <1>3, <3>2 DEF Shifted
      <4> QED
        BY <4>1
    <3> QED
      BY <1>1, <1>3, <2>1, <3>1, <3>2
  <2> QED
    BY <1>1, <1>3, <2>1 DEF Shifted
<1>6. data'[b] = NoItem /\ \A c \in Buckets \ {b} : data'[c] = data[c]
  BY <1>1, <1>2 DEF HashTypeOK
<1>7. \A m, n \in 1 .. Len(s) : s[m] = s[n] => m = n
  BY <1>1 DEF ChainsInv
<1>8. \A c \in Buckets, i \in Indices :
        Chained(c, i) <=> data[c] # NoItem /\ IndexOf(ItemKey[data[c]]) = i
  BY DEF ChainsInv
<1>9. \A c \in Buckets : Chained(c, j)' <=> Chained(c, j) /\ c # b
  <2>1. ASSUME NEW n \in 1 .. Len(s) - 1
        PROVE  Shifted(n, p) \in 1 .. Len(s) /\ s[Shifted(n, p)] # b
    BY <1>1, <1>5, <1>7
  <2>2. \A n \in 1 .. Len(s) : s[n] # b => n # p
    BY <1>1
  <2>3. ASSUME NEW c \in Buckets, NEW n \in 1 .. Len(index'[j]), index'[j][n] = c
        PROVE  Chained(c, j) /\ c # b
    <3>1. n \in 1 .. Len(s) - 1 /\ s[Shifted(n, p)] = c
      BY <1>4, <2>3
    <3> QED
      BY <2>1, <3>1 DEF Chained
  <2>4. ASSUME NEW c \in Buckets, NEW n \in 1 .. Len(s), s[n] = c, c # b
        PROVE  Chained(c, j)'
    <3>1. PICK m \in 1 .. Len(s) - 1 : Shifted(m, p) = n
      BY <1>5, <2>2, <2>4
    <3>2. m \in 1 .. Len(index'[j]) /\ index'[j][m] = c
      BY <1>4, <2>4, <3>1
    <3> QED
      BY <3>2 DEF Chained
  <2> QED
    BY <2>3, <2>4 DEF Chained
<1>10. j = IndexOf(ItemKey[data[b]])
  BY <1>1
<1> HIDE DEF j, s
<1>11. ASSUME NEW i \in Indices, NEW m \in 1 .. Len(index'[i]), NEW n \in 1 .. Len(index'[i]),
              index'[i][m] = index'[i][n]
       PROVE  m = n
  <2>1. CASE i # j
    BY <1>4, <1>11, <2>1 DEF ChainsInv
  <2>2. CASE i = j
    <3>1. /\ m \in 1 .. Len(s) - 1 /\ n \in 1 .. Len(s) - 1
          /\ s[Shifted(m, p)] = s[Shifted(n, p)]
      BY <1>4, <1>11, <2>2
    <3>2. Shifted(m, p) \in 1 .. Len(s) /\ Shifted(n, p) \in 1 .. Len(s)
      BY <1>5, <3>1
    <3>3. Shifted(m, p) = Shifted(n, p)
      BY <1>7, <3>1, <3>2
    <3> QED
      BY <1>5, <3>1, <3>3
  <2> QED
    BY <2>1, <2>2
<1>12. ASSUME NEW c \in Buckets, NEW i \in Indices
       PROVE  Chained(c, i)' <=> data'[c] # NoItem /\ IndexOf(ItemKey[data'[c]]) = i
  <2>1. CASE i # j
    <3>1. Chained(c, i)' <=> Chained(c, i)
      BY <1>4, <2>1 DEF Chained
    <3> QED
      BY <1>6, <1>8, <1>10, <2>1, <3>1
  <2>2. CASE i = j
    BY <1>1, <1>6, <1>8, <1>9, <2>2
  <2> QED
    BY <2>1, <2>2
<1> QED
  BY <1>2, <1>4, <1>11, <1>12 DEF ChainsInv, b

-----------------------------------------------------------------------------
(* The inductive invariant *)

\* An item that takes the place of one with its key leaves the chains.
LEMMA ReplaceStep ==
  ASSUME HashInv, NEW t \in Threads, NEW d \in Items, SetReplacing(t, d)
  PROVE  /\ HashInv'
         /\ data' = [data EXCEPT ![BucketOf(ItemKey[d])] = d]
         /\ Allocated' = Allocated
<1> USE ItemsAssumption DEF HashInv
<1> DEFINE k == ItemKey[d]
           b == BucketOf(ItemKey[d])
<1>1. k \in Keys /\ b \in Buckets /\ data[b] \in Items /\ ItemKey[data[b]] = k
  BY PlaceOfKey DEF SetReplacing
<1>2. /\ owner[d] # "table"
      /\ owner' = [owner EXCEPT ![d] = "table", ![data[b]] = "allocator"]
      /\ data' = [data EXCEPT ![b] = d]
      /\ answer' = [answer EXCEPT ![t] = d] /\ bucket' = [bucket EXCEPT ![t] = b]
      /\ UNCHANGED <<index, hcount>>
  BY DEF SetReplacing, ReturnFrom, Answer
<1> HIDE DEF b
<1>3. /\ data'[b] = d /\ d # NoItem /\ data[b] # NoItem /\ ItemKey[d] = ItemKey[data[b]]
      /\ \A c \in Buckets \ {b} : data'[c] = data[c]
  BY <1>1, <1>2 DEF HashTypeOK
<1>4. HashTypeOK'
  BY <1>1, <1>2 DEF HashTypeOK
<1>5. Allocated' = Allocated
  BY <1>3 DEF Allocated
<1>6. ChainsInv'
  <2>1. \A c \in Buckets : /\ data'[c] # NoItem <=> data[c] # NoItem
                           /\ ItemKey[data'[c]] = ItemKey[data[c]]
    BY <1>3
  <2> QED
    BY <1>2, <2>1 DEF ChainsInv, Chained, IndexOf
<1>7. CountInv'
  BY <1>2, <1>5 DEF CountInv
<1>8. OnePerKey(data')
  BY <1>3 DEF OnePerKey
<1>9. OwnsItsItems'
  <2>1. owner[data[b]] = "table" /\ \A c \in Buckets : data[c] = data[b] => c = b
    BY <1>1 DEF OwnsItsItems
  <2>2. \A c \in Buckets : data[c] # d
    BY <1>2 DEF OwnsItsItems
  <2>3. /\ owner'[d] = "table" /\ owner'[data[b]] = "allocator"
        /\ \A e \in Items \ {d, data[b]} : owner'[e] = owner[e]
    BY <1>1, <1>2, <2>1 DEF HashTypeOK
  <2>4. ASSUME NEW e \in Items
        PROVE  /\ owner'[e] = "table" <=> \E c \in Buckets : data'[c] = e
               /\ \A c1, c2 \in Buckets : data'[c1] = e /\ data'[c2] = e => c1 = c2
    <3>1. CASE e = d
      BY <1>1, <1>3, <2>2, <2>3, <3>1
    <3>2. CASE e = data[b] /\ e # d
      BY <1>1, <1>3, <2>1, <2>3, <3>2
    <3>3. CASE e \notin {d, data[b]}
      BY <1>1, <1>3, <2>3, <3>3 DEF OwnsItsItems
    <3> QED
      BY <3>1, <3>2, <3>3
  <2> QED
    BY <2>4 DEF OwnsItsItems
<1> QED
  BY <1>2, <1>4, <1>5, <1>6, <1>7, <1>8, <1>9 DEF b

\* A new item goes into a bucket that was free.
LEMMA NewStep ==
  ASSUME HashInv, NEW t \in Threads, NEW d \in Items, SetNew(t, d)
  PROVE  /\ HashInv'
         /\ \E b \in Buckets : data[b] = NoItem /\ data' = [data EXCEPT ![b] = d]
<1> USE ItemsAssumption DEF HashInv
<1> DEFINE k == ItemKey[d]
<1>1. k \in Keys /\ \A c \in Buckets : data[c] # NoItem => ItemKey[data[c]] # k
  BY PlaceOfKey DEF SetNew
<1>2. PICK b \in Buckets :
        /\ data[b] = NoItem
        /\ data' = [data EXCEPT ![b] = d]
        /\ index' = [index EXCEPT ![IndexOf(k)] = <<b>> \o @]
        /\ ReturnFrom(t, b, d)
  BY DEF SetNew
<1>3. owner[d] # "table" /\ owner' = [owner EXCEPT ![d] = "table"] /\ hcount' = hcount + 1
  BY DEF SetNew
<1>4. ChainsInv' /\ index' \in [Indices -> Seq(Buckets)]
  BY <1>2, LinkChains
<1>5. data'[b] = d /\ d # NoItem /\ \A c \in Buckets \ {b} : data'[c] = data[c]
  BY <1>2 DEF HashTypeOK
<1>6. HashTypeOK'
  <2>1. bucket' \in [Threads -> Buckets \cup {NoBucket}]
    BY <1>2 DEF HashTypeOK, ReturnFrom
  <2>2. answer' \in [Threads -> Items \cup {NoItem}]
    BY <1>2 DEF HashTypeOK, ReturnFrom, Answer
  <2>3. data' \in [Buckets -> Items \cup {NoItem}] /\ owner' \in [Items -> {"allocator", "table", "caller"}]
    BY <1>2, <1>3 DEF HashTypeOK
  <2> QED
    BY <1>3, <1>4, <2>1, <2>2, <2>3 DEF HashTypeOK
<1>7. CountInv'
  <2>1. Allocated' = Allocated \cup {b} /\ b \notin Allocated
    BY <1>2, <1>5 DEF Allocated
  <2> QED
    BY <1>3, <2>1, FS_AddElement DEF CountInv
<1>8. OnePerKey(data')
  BY <1>1, <1>5 DEF OnePerKey
<1>9. OwnsItsItems'
  <2>1. \A c \in Buckets : data[c] # d
    BY <1>3 DEF OwnsItsItems
  <2>2. owner'[d] = "table" /\ \A e \in Items \ {d} : owner'[e] = owner[e]
    BY <1>3 DEF HashTypeOK
  <2>3. ASSUME NEW e \in Items
        PROVE  /\ owner'[e] = "table" <=> \E c \in Buckets : data'[c] = e
               /\ \A c1, c2 \in Buckets : data'[c1] = e /\ data'[c2] = e => c1 = c2
    <3>1. CASE e = d
      BY <1>5, <2>1, <2>2, <3>1
    <3>2. CASE e # d
      <4>1. \A c \in Buckets : data'[c] = e <=> data[c] = e
        BY <1>2, <1>5, <3>2
      <4> QED
        BY <2>2, <3>2, <4>1 DEF OwnsItsItems
    <3> QED
      BY <3>1, <3>2
  <2> QED
    BY <2>3 DEF OwnsItsItems
<1> QED
  BY <1>2, <1>4, <1>6, <1>7, <1>8, <1>9

\* An item that is deleted or released leaves its bucket, which is freed.
LEMMA TakeStep ==
  ASSUME HashInv, NEW t \in Threads, NEW k \in Keys, NEW other \in {"allocator", "caller"},
         Idle(t), Found(k), Unlink(k),
         owner' = [owner EXCEPT ![data[BucketOf(k)]] = other],
         ReturnNow(t, data[BucketOf(k)])
  PROVE  HashInv'
<1> USE ItemsAssumption DEF HashInv
<1> DEFINE b == BucketOf(k)
<1>1. b \in Buckets /\ data[b] \in Items /\ data[b] # NoItem
  BY PlaceOfKey
<1>2. ChainsInv' /\ index' \in [Indices -> Seq(Buckets)] /\ data' = [data EXCEPT ![b] = NoItem]
  BY UnlinkChains
<1>3. hcount' = hcount - 1
  BY DEF Unlink
<1> HIDE DEF b
<1>4. data'[b] = NoItem /\ \A c \in Buckets \ {b} : data'[c] = data[c]
  BY <1>1, <1>2 DEF HashTypeOK
<1>5. CountInv'
  <2>1. Allocated' = Allocated \ {b} /\ b \in Allocated
    BY <1>1, <1>4 DEF Allocated
  <2> QED
    BY <1>3, <2>1, FS_RemoveElement DEF CountInv
<1>6. HashTypeOK'
  <2>1. hcount' \in Nat
    BY <1>5, FS_CardinalityType DEF CountInv
  <2>2. data' \in [Buckets -> Items \cup {NoItem}] /\ owner' \in [Items -> {"allocator", "table", "caller"}]
    BY <1>1, <1>2 DEF HashTypeOK, b
  <2>3. bucket' = bucket /\ answer' \in [Threads -> Items \cup {NoItem}]
    BY <1>1 DEF HashTypeOK, ReturnNow, Answer, b
  <2> QED
    BY <1>2, <2>1, <2>2, <2>3 DEF HashTypeOK
<1>7. OnePerKey(data')
  BY <1>4 DEF OnePerKey
<1>8. OwnsItsItems'
  <2>1. /\ owner'[data[b]] # "table"
        /\ \A e \in Items \ {data[b]} : owner'[e] = owner[e]
    BY <1>1 DEF HashTypeOK, b
  <2>2. \A c \in Buckets : data[c] = data[b] => c = b
    BY <1>1 DEF OwnsItsItems
  <2>3. ASSUME NEW e \in Items
        PROVE  /\ owner'[e] = "table" <=> \E c \in Buckets : data'[c] = e
               /\ \A c1, c2 \in Buckets : data'[c1] = e /\ data'[c2] = e => c1 = c2
    <3>1. CASE e = data[b]
      BY <1>1, <1>4, <2>1, <2>2, <3>1
    <3>2. CASE e # data[b]
      <4>1. \A c \in Buckets : data'[c] = e <=> data[c] = e
        BY <1>4, <3>2
      <4> QED
        BY <2>1, <3>2, <4>1 DEF OwnsItsItems
    <3> QED
      BY <3>1, <3>2
  <2> QED
    BY <2>3 DEF OwnsItsItems
<1> QED
  BY <1>2, <1>5, <1>6, <1>7, <1>8

\* All buckets are taken out of all chains, and freed with their items.
LEMMA CleanStep ==
  ASSUME HashInv, NEW t \in Threads, Clean(t)
  PROVE  HashInv' /\ \A b \in Buckets : data'[b] = NoItem
<1> USE ItemsAssumption DEF HashInv
<1> DEFINE chained == UNION {ToSet(index[i]) : i \in Indices}
           freed == {data[b] : b \in chained}
<1>1. /\ data' = [b \in Buckets |-> IF b \in chained THEN NoItem ELSE data[b]]
      /\ owner' = [d \in Items |-> IF d \in freed THEN "allocator" ELSE owner[d]]
      /\ hcount' = hcount - Cardinality(chained)
      /\ index' = [i \in Indices |-> <<>>]
      /\ UNCHANGED <<bucket, answer>>
  BY DEF Clean
<1>2. chained = Allocated
  <2>1. ASSUME NEW i \in Indices, NEW c
        PROVE  c \in ToSet(index[i]) <=> c \in Buckets /\ Chained(c, i)
    <3>1. index[i] \in Seq(Buckets) /\ DOMAIN index[i] = 1 .. Len(index[i])
      BY DEF HashTypeOK
    <3>2. \A n \in 1 .. Len(index[i]) : index[i][n] \in Buckets
      BY <3>1, ElementOfSeq
    <3> QED
      BY <3>1, <3>2 DEF ToSet, Chained
  <2>2. ASSUME NEW c \in Buckets, data[c] # NoItem
        PROVE  \E i \in Indices : Chained(c, i)
    <3>1. IndexOf(ItemKey[data[c]]) \in Indices
      BY <2>2, IndexType DEF HashTypeOK
    <3> QED
      BY <2>2, <3>1 DEF ChainsInv
  <2>3. \A c \in Buckets, i \in Indices : Chained(c, i) => data[c] # NoItem
    BY DEF ChainsInv
  <2> QED
    BY <2>1, <2>2, <2>3 DEF Allocated
<1> HIDE DEF chained
<1>3. \A c \in Buckets : data'[c] = NoItem
  BY <1>1, <1>2 DEF Allocated
<1>4. hcount' = 0
  BY <1>1, <1>2, FS_CardinalityType DEF CountInv
<1>5. CountInv'
  <2>1. Allocated' = {}
    BY <1>3 DEF Allocated
  <2> QED
    BY <1>4, <2>1, FS_EmptySet DEF CountInv
<1>6. HashTypeOK'
  BY <1>1, <1>4 DEF HashTypeOK
<1>7. ChainsInv'
  <2>1. \A i \in Indices : index'[i] = <<>> /\ Len(index'[i]) = 0
    BY <1>1
  <2> QED
    BY <1>3, <2>1 DEF ChainsInv, Chained
<1>8. OnePerKey(data')
  BY <1>3 DEF OnePerKey
<1>9. OwnsItsItems'
  <2>1. ASSUME NEW e \in Items PROVE owner'[e] # "table"
    <3>1. CASE owner[e] = "table"
      <4>1. PICK c \in Buckets : data[c] = e
        BY <3>1 DEF OwnsItsItems
      <4>2. e \in freed
        BY <1>2, <4>1 DEF Allocated
      <4> QED
        BY <1>1, <4>2
    <3>2. CASE owner[e] # "table"
      BY <1>1, <3>2
    <3> QED
      BY <3>1, <3>2
  <2> QED
    BY <1>3, <2>1 DEF OwnsItsItems
<1> QED
  BY <1>3, <1>5, <1>6, <1>7, <1>8, <1>9

\* What leaves the chains, the buckets and what the table owns as they are.
LEMMA QuietStep ==
  ASSUME HashInv, HashTypeOK', UNCHANGED <<index, data, hcount>>,
         \A d \in Items : owner'[d] = "table" <=> owner[d] = "table"
  PROVE  HashInv'
BY DEF HashInv, ChainsInv, Chained, IndexOf, CountInv, Allocated, OnePerKey, OwnsItsItems

\* Every step keeps the invariant.
LEMMA HashInvStep ==
  ASSUME HashInv, [HashNext]_hashVars
  PROVE  HashInv'
<1> USE ItemsAssumption
<1>1. ASSUME NEW t \in Threads, NEW k \in Keys, GetFound(t, k) \/ GetNothing(t, k)
      PROVE  HashInv'
  <2>1. Found(k) => BucketOf(k) \in Buckets /\ data[BucketOf(k)] \in Items
    BY PlaceOfKey DEF HashInv
  <2>2. HashTypeOK'
    BY <1>1, <2>1 DEF HashInv, HashTypeOK, GetFound, GetNothing, ReturnFrom, ReturnNow, Answer
  <2> QED
    BY <1>1, <2>2, QuietStep DEF GetFound, GetNothing
<1>2. ASSUME NEW t \in Threads, NEW k \in Keys, Delete(t, k)
      PROVE  HashInv'
  BY <1>2, TakeStep DEF Delete
<1>3. ASSUME NEW t \in Threads, NEW k \in Keys, Release(t, k)
      PROVE  HashInv'
  BY <1>3, TakeStep DEF Release
<1>4. ASSUME NEW t \in Threads, NEW d \in Items, SetSame(t, d)
      PROVE  HashInv'
  <2>1. BucketOf(ItemKey[d]) \in Buckets /\ data[BucketOf(ItemKey[d])] \in Items
    BY <1>4, PlaceOfKey DEF HashInv, SetSame
  <2>2. HashTypeOK'
    BY <1>4, <2>1 DEF HashInv, HashTypeOK, SetSame, ReturnFrom, Answer
  <2>3. \A e \in Items : owner'[e] = "table" <=> owner[e] = "table"
    BY <1>4 DEF HashInv, HashTypeOK, SetSame
  <2> QED
    BY <1>4, <2>2, <2>3, QuietStep DEF SetSame
<1>5. ASSUME NEW t \in Threads, NEW d \in Items, SetReplacing(t, d) \/ SetNew(t, d)
      PROVE  HashInv'
  BY <1>5, ReplaceStep, NewStep
<1>6. ASSUME NEW t \in Threads, ReadData(t)
      PROVE  HashInv'
  <2>1. HashTypeOK'
    BY <1>6 DEF HashInv, HashTypeOK, ReadData
  <2> QED
    BY <1>6, <2>1, QuietStep DEF ReadData
<1>7. ASSUME NEW t \in Threads, Clean(t)
      PROVE  HashInv'
  BY <1>7, CleanStep
<1>8. ASSUME NEW d \in Items, FreeReleased(d)
      PROVE  HashInv'
  <2>1. HashTypeOK'
    BY <1>8 DEF HashInv, HashTypeOK, FreeReleased
  <2>2. \A e \in Items : owner'[e] = "table" <=> owner[e] = "table"
    BY <1>8 DEF HashInv, HashTypeOK, FreeReleased
  <2> QED
    BY <1>8, <2>1, <2>2, QuietStep DEF FreeReleased
<1>9. CASE UNCHANGED hashVars
  BY <1>9, QuietStep DEF hashVars, HashInv, HashTypeOK
<1> QED
  BY <1>1, <1>2, <1>3, <1>4, <1>5, <1>6, <1>7, <1>8, <1>9 DEF HashNext, HashStep

LEMMA InitHash == HashInit => HashInv
<1> SUFFICES ASSUME HashInit PROVE HashInv
  OBVIOUS
<1>1. \A b \in Buckets : data[b] = NoItem
  BY DEF HashInit
<1>2. \A i \in Indices : index[i] = <<>> /\ Len(index[i]) = 0
  BY DEF HashInit
<1>3. HashTypeOK
  BY DEF HashInit, HashTypeOK
<1>4. ChainsInv
  BY <1>1, <1>2 DEF ChainsInv, Chained
<1>5. CountInv
  <2>1. Allocated = {}
    BY <1>1 DEF Allocated
  <2> QED
    BY <2>1, FS_EmptySet DEF CountInv, HashInit
<1>6. OnePerKey(data) /\ OwnsItsItems
  BY <1>1, ItemsAssumption DEF OnePerKey, OwnsItsItems, HashInit
<1> QED
  BY <1>3, <1>4, <1>5, <1>6 DEF HashInv

\* The table is sound and owns its items whatever threads do with it, for
\* every hash function and every size: a bucket is in the chain of its key and
\* only there, and an item is neither leaked nor freed twice.
THEOREM TableIsSound == HashSpec => [](HashTypeOK /\ ChainsAreSound /\ OwnsItsItems)
<1>1. HashInv /\ [HashNext]_hashVars => HashInv'
  BY HashInvStep
<1>2. HashInv => HashTypeOK /\ ChainsAreSound /\ OwnsItsItems
  BY DEF HashInv, ChainsInv, CountInv, Allocated, ChainsAreSound
<1> QED
  BY InitHash, <1>1, <1>2, PTL DEF HashSpec

\* No item leaks, and none is freed twice or while a bucket holds it, whatever
\* replaces, deletes or releases it (xhash.c:102-261).
THEOREM TableOwnsItsItems == HashSpec => []OwnsItsItems
BY TableIsSound, PTL

-----------------------------------------------------------------------------
(* The table implements the store of KeyedStore *)

\* The store that the contents of the buckets make up.
HeldFor(contents, k) ==
  {contents[b] : b \in {c \in Buckets : contents[c] # NoItem /\ ItemKey[contents[c]] = k}}
StoreOf(contents) ==
  [k \in Keys |-> IF HeldFor(contents, k) = {} THEN NoItem
                  ELSE CHOOSE d \in HeldFor(contents, k) : TRUE]

\* As no key has two buckets, it is the store with the item of each bucket.
LEMMA StoreIs ==
  ASSUME NEW contents, OnePerKey(contents), NEW k \in Keys
  PROVE  /\ \A b \in Buckets : contents[b] # NoItem /\ ItemKey[contents[b]] = k
                                 => StoreOf(contents)[k] = contents[b]
         /\ (\A b \in Buckets : contents[b] # NoItem => ItemKey[contents[b]] # k)
              => StoreOf(contents)[k] = NoItem
<1>1. ASSUME NEW b \in Buckets, contents[b] # NoItem, ItemKey[contents[b]] = k
      PROVE  StoreOf(contents)[k] = contents[b]
  <2>1. HeldFor(contents, k) = {contents[b]}
    BY <1>1 DEF HeldFor, OnePerKey
  <2> QED
    BY <2>1 DEF StoreOf
<1>2. ASSUME \A b \in Buckets : contents[b] # NoItem => ItemKey[contents[b]] # k
      PROVE  StoreOf(contents)[k] = NoItem
  <2>1. HeldFor(contents, k) = {}
    BY <1>2 DEF HeldFor
  <2> QED
    BY <2>1 DEF StoreOf
<1> QED
  BY <1>1, <1>2

\* A step that changes the contents for one key only changes the store there.
LEMMA StoreChanges ==
  ASSUME NEW before, OnePerKey(before), NEW after, OnePerKey(after), NEW k \in Keys,
         \A b \in Buckets :
           \/ after[b] = before[b]
           \/ /\ before[b] # NoItem => ItemKey[before[b]] = k
              /\ after[b] # NoItem => ItemKey[after[b]] = k
  PROVE  StoreOf(after) = [StoreOf(before) EXCEPT ![k] = StoreOf(after)[k]]
<1>1. ASSUME NEW j \in Keys, j # k
      PROVE  StoreOf(after)[j] = StoreOf(before)[j]
  <2>1. CASE \E b \in Buckets : before[b] # NoItem /\ ItemKey[before[b]] = j
    <3>1. PICK b \in Buckets : before[b] # NoItem /\ ItemKey[before[b]] = j
      BY <2>1
    <3>2. after[b] = before[b]
      BY <1>1, <3>1
    <3> QED
      BY <3>1, <3>2, StoreIs
  <2>2. CASE \A b \in Buckets : before[b] # NoItem => ItemKey[before[b]] # j
    <3>1. \A b \in Buckets : after[b] # NoItem => ItemKey[after[b]] # j
      BY <1>1, <2>2
    <3> QED
      BY <2>2, <3>1, StoreIs
  <2> QED
    BY <2>1, <2>2
<1> DEFINE f == StoreOf(before)
           g == StoreOf(after)
<1>2. f = [j \in Keys |-> f[j]] /\ g = [j \in Keys |-> g[j]]
  BY DEF StoreOf
<1> HIDE DEF f, g
<1>3. \A j \in Keys \ {k} : g[j] = f[j]
  BY <1>1 DEF f, g
<1>4. g = [f EXCEPT ![k] = g[k]]
  BY <1>2, <1>3
<1> QED
  BY <1>4 DEF f, g

\* The abstract operations, in terms of StoreOf.
LEMMA PromiseIs ==
  /\ Promise!Init <=> StoreOf(data) = [k \in Keys |-> NoItem] /\ answer = [t \in Threads |-> NoItem]
  /\ \A t, k : Promise!Get(t, k) <=>
       Answer(t, StoreOf(data)[k]) /\ StoreOf(data)' = StoreOf(data)
  /\ \A t, d : Promise!Put(t, d) <=>
       LET was == StoreOf(data)[ItemKey[d]]
           taken == IF was # NoItem /\ ItemOther[was] = ItemOther[d] THEN was ELSE d
       IN  /\ StoreOf(data)' = [StoreOf(data) EXCEPT ![ItemKey[d]] = taken]
           /\ Answer(t, taken)
  /\ \A t, k : Promise!Remove(t, k) <=>
       /\ StoreOf(data)' = [StoreOf(data) EXCEPT ![k] = NoItem]
       /\ Answer(t, StoreOf(data)[k])
  /\ Promise!Clean <=> StoreOf(data)' = [k \in Keys |-> NoItem] /\ UNCHANGED answer
  /\ UNCHANGED Promise!storeVars <=> UNCHANGED <<StoreOf(data), answer>>
BY DEF Promise!Init, Promise!Get, Promise!Put, Promise!Remove, Promise!Clean, Promise!Answer,
       Promise!storeVars, Answer, StoreOf, HeldFor, Stored

LEMMA GetIsGet ==
  ASSUME HashInv, NEW t \in Threads, NEW k \in Keys, GetFound(t, k) \/ GetNothing(t, k)
  PROVE  Promise!Get(t, k)
<1> USE ItemsAssumption DEF HashInv
<1>1. UNCHANGED data
  BY DEF GetFound, GetNothing
<1>2. CASE GetFound(t, k)
  <2>1. StoreOf(data)[k] = data[BucketOf(k)]
    BY <1>2, PlaceOfKey, StoreIs DEF GetFound
  <2> QED
    BY <1>1, <1>2, <2>1, PromiseIs DEF GetFound, ReturnFrom
<1>3. CASE GetNothing(t, k)
  <2>1. StoreOf(data)[k] = NoItem
    BY <1>3, PlaceOfKey, StoreIs DEF GetNothing
  <2> QED
    BY <1>1, <1>3, <2>1, PromiseIs DEF GetNothing, ReturnNow
<1> QED
  BY <1>2, <1>3

LEMMA SetIsPut ==
  ASSUME HashInv, HashInv', NEW t \in Threads, NEW d \in Items,
         SetSame(t, d) \/ SetReplacing(t, d) \/ SetNew(t, d)
  PROVE  Promise!Put(t, d)
<1> USE ItemsAssumption DEF HashInv
<1> DEFINE k == ItemKey[d]
<1>1. k \in Keys /\ d # NoItem
  OBVIOUS
<1>2. CASE SetSame(t, d)
  <2>1. data[BucketOf(k)] # NoItem /\ StoreOf(data)[k] = data[BucketOf(k)]
    BY <1>2, PlaceOfKey, StoreIs DEF SetSame
  <2>2. data' = data /\ ItemOther[data[BucketOf(k)]] = ItemOther[d] /\ Answer(t, data[BucketOf(k)])
    BY <1>2 DEF SetSame, ReturnFrom
  <2>3. StoreOf(data) = [StoreOf(data) EXCEPT ![k] = data[BucketOf(k)]]
    <3> DEFINE f == StoreOf(data)
    <3>1. f = [j \in Keys |-> f[j]]
      BY DEF StoreOf
    <3> HIDE DEF f
    <3>2. f = [f EXCEPT ![k] = f[k]]
      BY <3>1
    <3> QED
      BY <2>1, <3>2 DEF f
  <2> HIDE DEF k
  <2> QED
    BY <2>1, <2>2, <2>3, PromiseIs DEF k
<1>3. CASE SetReplacing(t, d)
  <2>1. /\ BucketOf(k) \in Buckets
        /\ data[BucketOf(k)] # NoItem /\ ItemKey[data[BucketOf(k)]] = k
        /\ StoreOf(data)[k] = data[BucketOf(k)]
    BY <1>3, PlaceOfKey, StoreIs DEF SetReplacing
  <2>2. /\ data' = [data EXCEPT ![BucketOf(k)] = d] /\ Answer(t, d)
        /\ ItemOther[data[BucketOf(k)]] # ItemOther[d]
    BY <1>3 DEF SetReplacing, ReturnFrom
  <2>3. data'[BucketOf(k)] = d /\ \A b \in Buckets : b # BucketOf(k) => data'[b] = data[b]
    BY <2>1, <2>2 DEF HashTypeOK
  <2>4. StoreOf(data')[k] = d
    BY <1>1, <2>1, <2>3, StoreIs
  <2>5. StoreOf(data') = [StoreOf(data) EXCEPT ![k] = StoreOf(data')[k]]
    BY <1>1, <2>1, <2>3, StoreChanges
  <2> QED
    BY <2>1, <2>2, <2>4, <2>5, PromiseIs
<1>4. CASE SetNew(t, d)
  <2>1. StoreOf(data)[k] = NoItem
    BY <1>4, PlaceOfKey, StoreIs DEF SetNew
  <2>2. PICK b \in Buckets : data[b] = NoItem /\ data' = [data EXCEPT ![b] = d] /\ Answer(t, d)
    BY <1>4 DEF SetNew, ReturnFrom
  <2>3. data'[b] = d /\ \A c \in Buckets : c # b => data'[c] = data[c]
    BY <2>2 DEF HashTypeOK
  <2>4. StoreOf(data')[k] = d
    BY <1>1, <2>3, StoreIs
  <2>5. \A c \in Buckets : \/ data'[c] = data[c]
                           \/ /\ data[c] # NoItem => ItemKey[data[c]] = k
                              /\ data'[c] # NoItem => ItemKey[data'[c]] = k
    BY <2>2, <2>3
  <2>6. StoreOf(data') = [StoreOf(data) EXCEPT ![k] = StoreOf(data')[k]]
    <3> HIDE DEF k
    <3> QED
      BY <1>1, <2>5, StoreChanges
  <2> QED
    BY <2>1, <2>2, <2>4, <2>6, PromiseIs
<1> QED
  BY <1>2, <1>3, <1>4

LEMMA TakeIsRemove ==
  ASSUME HashInv, HashInv', NEW t \in Threads, NEW k \in Keys, Delete(t, k) \/ Release(t, k)
  PROVE  Promise!Remove(t, k)
<1> USE ItemsAssumption DEF HashInv
<1>1. /\ BucketOf(k) \in Buckets
      /\ data[BucketOf(k)] # NoItem /\ ItemKey[data[BucketOf(k)]] = k
      /\ StoreOf(data)[k] = data[BucketOf(k)]
  BY PlaceOfKey, StoreIs DEF Delete, Release
<1>2. data' = [data EXCEPT ![BucketOf(k)] = NoItem] /\ Answer(t, data[BucketOf(k)])
  BY DEF Delete, Release, Unlink, ReturnNow
<1>3. data'[BucketOf(k)] = NoItem /\ \A b \in Buckets : b # BucketOf(k) => data'[b] = data[b]
  BY <1>1, <1>2 DEF HashTypeOK
<1>4. StoreOf(data')[k] = NoItem
  <2>1. \A b \in Buckets : data'[b] # NoItem => ItemKey[data'[b]] # k
    BY <1>1, <1>3 DEF OnePerKey
  <2> QED
    BY <2>1, StoreIs
<1>5. StoreOf(data') = [StoreOf(data) EXCEPT ![k] = StoreOf(data')[k]]
  BY <1>1, <1>3, StoreChanges
<1> QED
  BY <1>1, <1>2, <1>4, <1>5, PromiseIs

\* Every step of the table is one of the store, or changes nothing of it.
LEMMA StoreStep ==
  ASSUME HashInv, HashInv', [HashNext]_hashVars
  PROVE  [Promise!Next]_(Promise!storeVars)
<1>1. ASSUME NEW t \in Threads, NEW k \in Keys, GetFound(t, k) \/ GetNothing(t, k)
      PROVE  Promise!Next
  BY <1>1, GetIsGet DEF Promise!Next
<1>2. ASSUME NEW t \in Threads, NEW k \in Keys, Delete(t, k) \/ Release(t, k)
      PROVE  Promise!Next
  BY <1>2, TakeIsRemove DEF Promise!Next
<1>3. ASSUME NEW t \in Threads, NEW d \in Items,
             SetSame(t, d) \/ SetReplacing(t, d) \/ SetNew(t, d)
      PROVE  Promise!Next
  BY <1>3, SetIsPut DEF Promise!Next
<1>4. ASSUME NEW t \in Threads, Clean(t)
      PROVE  Promise!Next
  <2>1. \A b \in Buckets : data'[b] = NoItem
    BY <1>4, CleanStep
  <2>2. StoreOf(data') = [k \in Keys |-> NoItem]
    BY <2>1 DEF StoreOf, HeldFor
  <2>3. UNCHANGED answer
    BY <1>4 DEF Clean
  <2> QED
    BY <2>2, <2>3, PromiseIs DEF Promise!Next
<1>5. ASSUME UNCHANGED <<data, answer>> PROVE UNCHANGED Promise!storeVars
  BY <1>5, PromiseIs
<1>6. ASSUME NEW t \in Threads, ReadData(t)
      PROVE  UNCHANGED Promise!storeVars
  BY <1>5, <1>6 DEF ReadData
<1>7. ASSUME NEW d \in Items, FreeReleased(d)
      PROVE  UNCHANGED Promise!storeVars
  BY <1>5, <1>7 DEF FreeReleased
<1>8. CASE UNCHANGED hashVars
  BY <1>5, <1>8 DEF hashVars
<1> QED
  BY <1>1, <1>2, <1>3, <1>4, <1>6, <1>7, <1>8 DEF HashNext, HashStep

\* Whatever threads do with the table, and however keys collide, it is the
\* store of one item per key: each operation has the effect and the answer
\* that KeyedStore gives it.
THEOREM TableIsStore == HashSpec => ImplementsStore
<1>1. HashInit => Promise!Init
  <2> SUFFICES ASSUME HashInit PROVE Promise!Init
    OBVIOUS
  <2>1. \A b \in Buckets : data[b] = NoItem
    BY DEF HashInit
  <2>2. StoreOf(data) = [k \in Keys |-> NoItem]
    BY <2>1 DEF StoreOf, HeldFor
  <2> QED
    BY <2>2, PromiseIs DEF HashInit
<1>2. HashInv /\ [HashNext]_hashVars => HashInv'
  BY HashInvStep
<1>3. HashInv /\ HashInv' /\ [HashNext]_hashVars => [Promise!Next]_(Promise!storeVars)
  BY StoreStep
<1> QED
  BY InitHash, <1>1, <1>2, <1>3, PTL DEF HashSpec, ImplementsStore, Promise!Spec

-----------------------------------------------------------------------------
(* The blocks of the heap and their records *)

\* The places of an address in a table of nodes.
RecordsIn(recs, a) ==
  {r \in Sites \X Nat : /\ recs[r[1]] # NoNode
                        /\ r[2] \in 1 .. Len(recs[r[1]])
                        /\ recs[r[1]][r[2]] = a}

\* A table of nodes: each node has a block.
IsTable(recs) ==
  /\ DOMAIN recs = Sites
  /\ \A s \in Sites : recs[s] # NoNode => recs[s] \in Seq(Addrs) /\ recs[s] # <<>>

\* A block is recorded as often as it is live, once more for each thread that
\* is to forget it, once less while a thread is to record it.
Balanced(a) ==
  /\ IsFiniteSet(RecordsIn(nodes, a))
  /\ IsFiniteSet(Recording(a))
  /\ IsFiniteSet(Forgetting(a))
  /\ Cardinality(RecordsIn(nodes, a)) + Cardinality(Recording(a)) =
       Cardinality(Forgetting(a)) + (IF heap[a] = Free THEN 0 ELSE 1)

\* A block that is to be recorded is live, and one thread's only.
RecordingInv ==
  /\ \A t \in Callers : new[t] # None => heap[new[t]] # Free /\ site[t] \in Sites
  /\ \A t, u \in Callers : new[t] # None /\ new[t] = new[u] => t = u

\* The inductive invariant of the records.
AllocInv == AllocTypeOK /\ RecordingInv /\ \A a \in Addrs : Balanced(a)

-----------------------------------------------------------------------------
(* Lemmas about the nodes *)

LEMMA RecordsAre ==
  /\ \A a : AllocTypeOK => RecordsOf(a) = RecordsIn(nodes, a)
  /\ \A a : AllocTypeOK => (Recorded(a) # {} <=> RecordsIn(nodes, a) # {})
<1> SUFFICES ASSUME NEW a, AllocTypeOK
             PROVE  /\ RecordsOf(a) = RecordsIn(nodes, a)
                    /\ Recorded(a) # {} <=> RecordsIn(nodes, a) # {}
  OBVIOUS
<1>1. \A s \in Sites : nodes[s] # NoNode => Len(nodes[s]) \in Nat /\ DOMAIN nodes[s] = 1 .. Len(nodes[s])
  BY DEF AllocTypeOK
<1>2. \A s : s \in Recorded(a) <=>
        s \in Sites /\ nodes[s] # NoNode /\ \E n \in 1 .. Len(nodes[s]) : nodes[s][n] = a
  BY <1>1 DEF Recorded, ToSet
<1>3. \A r : r \in RecordsOf(a) <=>
        \E s \in Recorded(a) : \E n \in 1 .. Len(nodes[s]) : nodes[s][n] = a /\ r = <<s, n>>
  BY DEF RecordsOf
<1>4. \A r : r \in RecordsIn(nodes, a) <=>
        \E s \in Sites : /\ nodes[s] # NoNode
                         /\ \E n \in 1 .. Len(nodes[s]) : nodes[s][n] = a /\ r = <<s, n>>
  <2>1. \A s \in Sites : nodes[s] # NoNode => 1 .. Len(nodes[s]) \subseteq Nat
    BY <1>1
  <2> QED
    BY <2>1 DEF RecordsIn
<1> QED
  BY ZenonT(30), <1>2, <1>3, <1>4

\* Sets of records with the same elements.
LEMMA SameRecords ==
  ASSUME NEW R, R \subseteq Sites \X Nat, NEW Q, Q \subseteq Sites \X Nat,
         \A s \in Sites, n \in Nat : <<s, n>> \in R <=> <<s, n>> \in Q
  PROVE  R = Q
<1>1. \A r \in Sites \X Nat : \E s \in Sites, n \in Nat : r = <<s, n>>
  OBVIOUS
<1> QED
  BY <1>1

\* What alloc_hash_insert does to the records of all addresses.
LEMMA InsertRecords ==
  ASSUME IsTable(nodes), NEW a \in Addrs, NEW s \in Sites, InsertNode(a, s)
  PROVE  /\ IsTable(nodes')
         /\ \E r : r \notin RecordsIn(nodes, a) /\ RecordsIn(nodes', a) = RecordsIn(nodes, a) \cup {r}
         /\ \A b \in Addrs \ {a} : RecordsIn(nodes', b) = RecordsIn(nodes, b)
<1> USE DEF IsTable
<1> DEFINE before == IF nodes[s] = NoNode THEN <<>> ELSE nodes[s]
<1>1. /\ DOMAIN nodes' = Sites
      /\ nodes'[s] = Append(before, a)
      /\ \A u \in Sites \ {s} : nodes'[u] = nodes[u]
  <2>1. Append(<<>>, a) = <<a>>
    OBVIOUS
  <2> QED
    BY <2>1 DEF InsertNode
<1>2. before \in Seq(Addrs) /\ Len(before) \in Nat
  OBVIOUS
<1>3. /\ nodes'[s] \in Seq(Addrs) /\ nodes'[s] # <<>> /\ Len(nodes'[s]) = Len(before) + 1
      /\ nodes'[s][Len(before) + 1] = a
      /\ \A n \in 1 .. Len(before) : nodes'[s][n] = before[n]
  <2> HIDE DEF before
  <2> QED
    BY <1>1, <1>2
<1>4. nodes'[s] # NoNode
  BY <1>3, NodesAssumption
<1>5. \A n \in Nat : \A b : <<s, n>> \in RecordsIn(nodes, b) <=> n \in 1 .. Len(before) /\ before[n] = b
  BY DEF RecordsIn
<1> HIDE DEF before
<1> DEFINE r == <<s, Len(before) + 1>>
<1>6. \A n \in Nat : \A b : <<s, n>> \in RecordsIn(nodes', b) <=>
                          <<s, n>> \in RecordsIn(nodes, b) \/ (<<s, n>> = r /\ b = a)
  <2>1. \A n \in Nat : \A b : <<s, n>> \in RecordsIn(nodes', b) <=>
                            n \in 1 .. Len(before) + 1 /\ nodes'[s][n] = b
    BY <1>3, <1>4 DEF RecordsIn
  <2>2. \A n \in Nat : <<s, n>> = r <=> n = Len(before) + 1
    OBVIOUS
  <2> QED
    BY <1>2, <1>3, <1>5, <2>1, <2>2
<1>7. \A u \in Sites \ {s}, n \in Nat : \A b :
        <<u, n>> \in RecordsIn(nodes', b) <=> <<u, n>> \in RecordsIn(nodes, b)
  BY <1>1 DEF RecordsIn
<1>8. r \notin RecordsIn(nodes, a) /\ r \in Sites \X Nat
  BY <1>2, <1>5
<1>9. \A b : RecordsIn(nodes, b) \subseteq Sites \X Nat /\ RecordsIn(nodes', b) \subseteq Sites \X Nat
  BY DEF RecordsIn
<1>10. \A b : RecordsIn(nodes', b) = RecordsIn(nodes, b) \cup (IF b = a THEN {r} ELSE {})
  BY <1>2, <1>6, <1>7, <1>8, <1>9
<1>11. IsTable(nodes')
  BY <1>1, <1>3
<1> HIDE DEF r
<1> QED
  BY <1>8, <1>10, <1>11

\* What Without makes of the array of a node: the last address has moved to
\* the place of one that is dropped.
LEMMA WithoutIs ==
  ASSUME NEW addrs \in Seq(Addrs), NEW a, \E n \in 1 .. Len(addrs) : addrs[n] = a
  PROVE  \E k \in 1 .. Len(addrs) :
           /\ addrs[k] = a
           /\ Without(addrs, a) \in Seq(Addrs)
           /\ Len(Without(addrs, a)) = Len(addrs) - 1
           /\ \A n \in 1 .. Len(addrs) - 1 :
                Without(addrs, a)[n] = IF n = k THEN addrs[Len(addrs)] ELSE addrs[n]
<1> DEFINE I == {n \in 1 .. Len(addrs) : addrs[n] = a}
           k == SelectInSeq(addrs, LAMBDA b : b = a)
           moved == [addrs EXCEPT ![k] = Last(addrs)]
<1>1. I # {} /\ I \subseteq Nat /\ I \subseteq 1 .. Len(addrs) /\ Len(addrs) \in Nat \ {0}
  OBVIOUS
<1>2. k = IF I # {} THEN Min(I) ELSE 0
  BY DEF SelectInSeq
<1>3. k \in I
  <2> HIDE DEF I, k
  <2> QED
    BY <1>1, <1>2, LeastElement
<1>4. k \in 1 .. Len(addrs) /\ addrs[k] = a
  BY <1>3
<1>5. Without(addrs, a) = Front(moved)
  BY DEF Without
<1> HIDE DEF k, I
<1>6. Last(addrs) = addrs[Len(addrs)] /\ addrs[Len(addrs)] \in Addrs
  BY <1>1, ElementOfSeq DEF Last
<1>7. moved \in Seq(Addrs) /\ Len(moved) = Len(addrs)
  BY <1>1, <1>4, <1>6
<1>8. \A n \in 1 .. Len(addrs) : moved[n] = IF n = k THEN addrs[Len(addrs)] ELSE addrs[n]
  BY <1>1, <1>4, <1>6
<1> HIDE DEF moved
<1>9. /\ Front(moved) \in Seq(Addrs) /\ Len(Front(moved)) = Len(addrs) - 1
      /\ \A n \in 1 .. Len(addrs) - 1 : Front(moved)[n] = moved[n]
  <2>1. Front(moved) = SubSeq(moved, 1, Len(moved) - 1)
    BY DEF Front
  <2> QED
    BY <1>1, <1>7, <2>1
<1> QED
  BY <1>1, <1>4, <1>5, <1>8, <1>9

\* What alloc_hash_remove does to the records: one of the address is dropped,
\* and one of another address may have moved.
LEMMA RemoveRecords ==
  ASSUME IsTable(nodes), NEW a, NEW s \in Recorded(a), RemoveNode(a, s)
  PROVE  /\ IsTable(nodes')
         /\ \E r \in RecordsIn(nodes, a) : RecordsIn(nodes', a) = RecordsIn(nodes, a) \ {r}
         /\ \A b \in Addrs \ {a} :
              \/ RecordsIn(nodes', b) = RecordsIn(nodes, b)
              \/ \E r \in RecordsIn(nodes, b) : \E q :
                   /\ q \notin RecordsIn(nodes, b)
                   /\ RecordsIn(nodes', b) = (RecordsIn(nodes, b) \ {r}) \cup {q}
<1> USE DEF IsTable
<1> DEFINE addrs == nodes[s]
           N == Len(nodes[s])
<1>1. /\ s \in Sites /\ addrs # NoNode /\ addrs \in Seq(Addrs) /\ N \in Nat \ {0}
      /\ \E n \in 1 .. N : addrs[n] = a
  BY DEF Recorded, ToSet
<1>2. /\ DOMAIN nodes' = Sites
      /\ nodes'[s] = IF N = 1 THEN NoNode ELSE Without(addrs, a)
      /\ \A u \in Sites \ {s} : nodes'[u] = nodes[u]
  BY <1>1 DEF RemoveNode
<1>3. PICK k \in 1 .. N :
        /\ addrs[k] = a
        /\ Without(addrs, a) \in Seq(Addrs)
        /\ Len(Without(addrs, a)) = N - 1
        /\ \A n \in 1 .. N - 1 : Without(addrs, a)[n] = IF n = k THEN addrs[N] ELSE addrs[n]
  BY <1>1, WithoutIs
<1>4. \A n \in Nat : \A b : <<s, n>> \in RecordsIn(nodes, b) <=> n \in 1 .. N /\ addrs[n] = b
  BY <1>1 DEF RecordsIn
<1>5. \A n \in Nat : \A b : <<s, n>> \in RecordsIn(nodes', b) <=>
                          n \in 1 .. N - 1 /\ b = IF n = k THEN addrs[N] ELSE addrs[n]
  <2>1. CASE N = 1
    BY <1>1, <1>2, <2>1 DEF RecordsIn
  <2>2. CASE N # 1
    <3>1. nodes'[s] = Without(addrs, a) /\ nodes'[s] # NoNode
      BY <1>2, <1>3, <2>2, NodesAssumption
    <3> QED
      BY <1>1, <1>3, <3>1 DEF RecordsIn
  <2> QED
    BY <2>1, <2>2
<1>6. \A u \in Sites \ {s}, n \in Nat : \A b :
        <<u, n>> \in RecordsIn(nodes', b) <=> <<u, n>> \in RecordsIn(nodes, b)
  BY <1>2 DEF RecordsIn
<1>7. \A b : RecordsIn(nodes, b) \subseteq Sites \X Nat /\ RecordsIn(nodes', b) \subseteq Sites \X Nat
  BY DEF RecordsIn
<1>8. IsTable(nodes')
  <2>1. CASE N = 1
    BY <1>2, <2>1
  <2>2. CASE N # 1
    <3>1. nodes'[s] \in Seq(Addrs) /\ nodes'[s] # <<>>
      BY <1>1, <1>2, <1>3, <2>2
    <3> QED
      BY <1>2, <3>1
  <2> QED
    BY <2>1, <2>2
<1> HIDE DEF addrs, N
<1> DEFINE last == IF addrs[N] = a THEN N ELSE k
<1>9. /\ <<s, last>> \in RecordsIn(nodes, a)
      /\ RecordsIn(nodes', a) = RecordsIn(nodes, a) \ {<<s, last>>}
  <2>1. last \in 1 .. N /\ addrs[last] = a
    BY <1>1, <1>3
  <2>2. \A n \in Nat : <<s, n>> \in RecordsIn(nodes', a) <=>
                         <<s, n>> \in RecordsIn(nodes, a) /\ n # last
    BY <1>1, <1>3, <1>4, <1>5
  <2>3. last \in Nat
    BY <1>1, <2>1
  <2> HIDE DEF last
  <2> QED
    BY <1>1, <1>4, <1>6, <1>7, <2>1, <2>2, <2>3
<1>10. ASSUME NEW b \in Addrs \ {a}
       PROVE  \/ RecordsIn(nodes', b) = RecordsIn(nodes, b)
              \/ \E r \in RecordsIn(nodes, b) : \E q :
                   /\ q \notin RecordsIn(nodes, b)
                   /\ RecordsIn(nodes', b) = (RecordsIn(nodes, b) \ {r}) \cup {q}
  <2>1. CASE addrs[N] # b
    <3>1. \A n \in Nat : <<s, n>> \in RecordsIn(nodes', b) <=> <<s, n>> \in RecordsIn(nodes, b)
      BY <1>1, <1>3, <1>4, <1>5, <1>10, <2>1
    <3>2. RecordsIn(nodes', b) = RecordsIn(nodes, b)
      <4>1. \A u \in Sites, n \in Nat :
              <<u, n>> \in RecordsIn(nodes', b) <=> <<u, n>> \in RecordsIn(nodes, b)
        BY <1>6, <3>1
      <4>2. RecordsIn(nodes', b) \subseteq Sites \X Nat /\ RecordsIn(nodes, b) \subseteq Sites \X Nat
        BY <1>7
      <4> QED
        BY <4>1, <4>2, SameRecords
    <3> QED
      BY <3>2
  <2>2. CASE addrs[N] = b
    <3>1. k # N /\ k \in Nat /\ N \in Nat
      BY <1>1, <1>3, <1>10, <2>2
    <3>2. \A n \in Nat : <<s, n>> \in RecordsIn(nodes', b) <=>
                           (<<s, n>> \in RecordsIn(nodes, b) /\ n # N) \/ n = k
      BY SMTT(40), <1>1, <1>3, <1>4, <1>5, <1>10, <2>2, <3>1
    <3>3. <<s, N>> \in RecordsIn(nodes, b) /\ <<s, k>> \notin RecordsIn(nodes, b)
      BY <1>1, <1>3, <1>4, <1>10, <2>2, <3>1
    <3>4. RecordsIn(nodes', b) = (RecordsIn(nodes, b) \ {<<s, N>>}) \cup {<<s, k>>}
      BY <1>1, <1>6, <1>7, <3>1, <3>2, <3>3
    <3> QED
      BY <3>3, <3>4
  <2> QED
    BY <2>1, <2>2
<1> QED
  BY <1>8, <1>9, <1>10

-----------------------------------------------------------------------------
(* The balance *)

\* Moving a record to another place keeps their number.
LEMMA MovedRecord ==
  ASSUME NEW R, IsFiniteSet(R), NEW r \in R, NEW q, q \notin R
  PROVE  IsFiniteSet((R \ {r}) \cup {q}) /\ Cardinality((R \ {r}) \cup {q}) = Cardinality(R)
<1>1. IsFiniteSet(R \ {r}) /\ Cardinality(R \ {r}) = Cardinality(R) - 1
  BY FS_RemoveElement
<1>2. /\ IsFiniteSet((R \ {r}) \cup {q})
      /\ Cardinality((R \ {r}) \cup {q}) = Cardinality(R \ {r}) + 1
  BY <1>1, FS_AddElement
<1> QED
  BY <1>1, <1>2, FS_CardinalityType

\* What a live block counts.
Live(block) == IF block = Free THEN 0 ELSE 1

\* What a thread counts of an address.
One(x, a) == IF x = a THEN 1 ELSE 0

\* The threads that have an address.
ThreadsWith(f, a) == {u \in Callers : f[u] = a}

\* How the numbers of an address change with a thread that is added or taken.
LEMMA ThreadsChange ==
  ASSUME NEW f \in [Callers -> Addrs \cup {None, Null}], NEW t \in Callers, NEW x,
         NEW g, g = [f EXCEPT ![t] = x],
         NEW a \in Addrs, IsFiniteSet(ThreadsWith(f, a))
  PROVE  /\ IsFiniteSet(ThreadsWith(g, a))
         /\ Cardinality(ThreadsWith(g, a)) =
              Cardinality(ThreadsWith(f, a)) + One(x, a) - One(f[t], a)
<1> DEFINE before == ThreadsWith(f, a)
           rest == before \ {t}
           after == ThreadsWith(g, a)
<1>1. /\ t \in before <=> f[t] = a
      /\ x = a => after = rest \cup {t}
      /\ x # a => after = rest
      /\ t \notin rest
  BY DEF ThreadsWith
<1> HIDE DEF after, before
<1>2. /\ IsFiniteSet(rest)
      /\ Cardinality(rest) = IF t \in before THEN Cardinality(before) - 1
                                             ELSE Cardinality(before)
  BY FS_RemoveElement DEF before
<1> HIDE DEF rest
<1>3. IsFiniteSet(rest \cup {t}) /\ Cardinality(rest \cup {t}) = Cardinality(rest) + 1
  BY <1>1, <1>2, FS_AddElement
<1>4. Cardinality(before) \in Nat /\ Cardinality(rest) \in Nat
  BY <1>2, FS_CardinalityType DEF before
<1>5. Cardinality(rest) = Cardinality(before) - One(f[t], a)
  BY <1>1, <1>2, <1>4 DEF One
<1>6. IsFiniteSet(after) /\ Cardinality(after) = Cardinality(rest) + One(x, a)
  BY <1>1, <1>2, <1>3, <1>4 DEF One
<1>7. One(x, a) \in Nat /\ One(f[t], a) \in Nat
  BY DEF One
<1>8. Cardinality(after) = Cardinality(before) + One(x, a) - One(f[t], a)
  BY <1>4, <1>5, <1>6, <1>7
<1> QED
  BY <1>6, <1>8 DEF after, before

\* The address a thread is to forget has changed, or that it is to record.
LEMMA ForgettingChange ==
  ASSUME AllocTypeOK, NEW t \in Callers, NEW x, old' = [old EXCEPT ![t] = x],
         NEW a \in Addrs, IsFiniteSet(Forgetting(a))
  PROVE  /\ IsFiniteSet(Forgetting(a)')
         /\ Cardinality(Forgetting(a)') = Cardinality(Forgetting(a)) + One(x, a) - One(old[t], a)
<1>1. old \in [Callers -> Addrs \cup {None, Null}]
  BY DEF AllocTypeOK
<1>2. Forgetting(a) = ThreadsWith(old, a) /\ Forgetting(a)' = ThreadsWith(old', a)
  BY DEF Forgetting, ThreadsWith
<1>3. IsFiniteSet(ThreadsWith(old, a))
  BY <1>2
<1>4. /\ IsFiniteSet(ThreadsWith(old', a))
      /\ Cardinality(ThreadsWith(old', a)) =
           Cardinality(ThreadsWith(old, a)) + One(x, a) - One(old[t], a)
  BY ZenonT(30), <1>1, <1>3, ThreadsChange
<1> QED
  BY <1>2, <1>4

LEMMA RecordingChange ==
  ASSUME AllocTypeOK, NEW t \in Callers, NEW x, new' = [new EXCEPT ![t] = x],
         NEW a \in Addrs, IsFiniteSet(Recording(a))
  PROVE  /\ IsFiniteSet(Recording(a)')
         /\ Cardinality(Recording(a)') = Cardinality(Recording(a)) + One(x, a) - One(new[t], a)
<1>1. new \in [Callers -> Addrs \cup {None, Null}]
  BY DEF AllocTypeOK
<1>2. Recording(a) = ThreadsWith(new, a) /\ Recording(a)' = ThreadsWith(new', a)
  BY DEF Recording, ThreadsWith
<1>3. IsFiniteSet(ThreadsWith(new, a))
  BY <1>2
<1>4. /\ IsFiniteSet(ThreadsWith(new', a))
      /\ Cardinality(ThreadsWith(new', a)) =
           Cardinality(ThreadsWith(new, a)) + One(x, a) - One(new[t], a)
  BY ZenonT(30), <1>1, <1>3, ThreadsChange
<1> QED
  BY <1>2, <1>4

\* One thread at most is to record an address, and only if that is live: a
\* block that is to be forgotten has a record.
LEMMA ForgetsARecord ==
  ASSUME AllocInv, NEW t \in Callers, old[t] \in Addrs
  PROVE  Recorded(old[t]) # {}
<1> DEFINE a == old[t]
           F == Cardinality(Forgetting(a))
           M == Cardinality(Recording(a))
           R == Cardinality(RecordsIn(nodes, a))
<1>1. /\ IsFiniteSet(Forgetting(a)) /\ IsFiniteSet(Recording(a)) /\ IsFiniteSet(RecordsIn(nodes, a))
      /\ R + M = F + Live(heap[a])
  BY DEF AllocInv, Balanced, Live
<1>2. F \in Nat /\ M \in Nat /\ R \in Nat
  BY <1>1, FS_CardinalityType
<1>3. F # 0
  <2>1. t \in Forgetting(a)
    BY DEF Forgetting
  <2> QED
    BY <1>1, <2>1, FS_EmptySet
<1>4. M <= Live(heap[a])
  <2>1. CASE Recording(a) = {}
    BY <2>1, FS_EmptySet DEF Live
  <2>2. CASE Recording(a) # {}
    <3>1. PICK u \in Callers : new[u] = a
      BY <2>2 DEF Recording
    <3>2. a # None
      BY AllocAssumption
    <3>3. Recording(a) = {u}
      BY <3>1, <3>2 DEF Recording, AllocInv, RecordingInv
    <3>4. heap[a] # Free
      BY <3>1, <3>2 DEF AllocInv, RecordingInv
    <3> QED
      BY <3>3, <3>4, FS_Singleton DEF Live
  <2> QED
    BY <2>1, <2>2
<1>5. R # 0
  <2> HIDE DEF R, F, M
  <2> QED
    BY <1>1, <1>2, <1>3, <1>4 DEF Live
<1>6. RecordsIn(nodes, a) # {}
  BY <1>5, FS_EmptySet
<1> QED
  BY <1>6, RecordsAre DEF AllocInv

\* A step that leaves the nodes changes the balance of an address by what it
\* does to the two fields of one thread and to the heap.
LEMMA BalanceKept ==
  ASSUME AllocInv, NEW t \in Callers, nodes' = nodes,
         NEW x, old' = [old EXCEPT ![t] = x],
         NEW y, new' = [new EXCEPT ![t] = y],
         NEW a \in Addrs,
         One(y, a) - One(new[t], a) =
           (One(x, a) - One(old[t], a)) + (Live(heap'[a]) - Live(heap[a]))
  PROVE  Balanced(a)'
<1> DEFINE F == Cardinality(Forgetting(a))
           M == Cardinality(Recording(a))
           R == Cardinality(RecordsIn(nodes, a))
<1>1. /\ IsFiniteSet(Forgetting(a)) /\ IsFiniteSet(Recording(a)) /\ IsFiniteSet(RecordsIn(nodes, a))
      /\ R + M = F + Live(heap[a])
  BY DEF AllocInv, Balanced, Live
<1>2. F \in Nat /\ M \in Nat /\ R \in Nat
  BY <1>1, FS_CardinalityType
<1>3. /\ IsFiniteSet(Forgetting(a)')
      /\ Cardinality(Forgetting(a)') = F + One(x, a) - One(old[t], a)
  BY <1>1, ForgettingChange DEF AllocInv
<1>4. /\ IsFiniteSet(Recording(a)')
      /\ Cardinality(Recording(a)') = M + One(y, a) - One(new[t], a)
  BY <1>1, RecordingChange DEF AllocInv
<1>5. /\ One(x, a) \in Int /\ One(old[t], a) \in Int /\ One(y, a) \in Int /\ One(new[t], a) \in Int
      /\ Live(heap'[a]) \in Int /\ Live(heap[a]) \in Int
  BY DEF One, Live
<1>6. R + (M + One(y, a) - One(new[t], a)) = (F + One(x, a) - One(old[t], a)) + Live(heap'[a])
  <2> DEFINE y1 == One(y, a)
             y0 == One(new[t], a)
             x1 == One(x, a)
             x0 == One(old[t], a)
             l1 == Live(heap'[a])
             l0 == Live(heap[a])
  <2>1. y1 - y0 = (x1 - x0) + (l1 - l0) /\ R + M = F + l0
    BY <1>1
  <2>2. /\ y1 \in Int /\ y0 \in Int /\ x1 \in Int /\ x0 \in Int /\ l1 \in Int /\ l0 \in Int
        /\ F \in Int /\ M \in Int /\ R \in Int
    BY <1>2, <1>5
  <2> HIDE DEF F, M, R, y1, y0, x1, x0, l1, l0
  <2>3. R + (M + y1 - y0) = (F + x1 - x0) + l1
    BY <2>1, <2>2
  <2> QED
    BY <2>3 DEF F, M, R, y1, y0, x1, x0, l1, l0
<1> QED
  BY <1>1, <1>3, <1>4, <1>6 DEF Balanced, Live

LEMMA MallocStep ==
  ASSUME AllocInv, NEW t \in Callers, NEW s \in Sites, Malloc(t, s)
  PROVE  AllocInv'
<1> USE AllocAssumption DEF AllocInv
<1>1. PICK b \in Addrs :
        heap[b] = Free /\ heap' = [heap EXCEPT ![b] = s] /\ new' = [new EXCEPT ![t] = b]
  BY DEF Malloc
<1>2. old[t] = None /\ new[t] = None /\ site' = [site EXCEPT ![t] = s] /\ UNCHANGED <<nodes, old>>
  BY DEF Malloc, Resting
<1>3. AllocTypeOK'
  BY <1>1, <1>2 DEF AllocTypeOK
<1>4. RecordingInv'
  <2>1. /\ new'[t] = b /\ site'[t] = s /\ heap'[b] = s
        /\ \A u \in Callers \ {t} : new'[u] = new[u] /\ site'[u] = site[u]
        /\ \A a \in Addrs \ {b} : heap'[a] = heap[a]
    BY <1>1, <1>2 DEF AllocTypeOK
  <2>2. \A u \in Callers : new[u] # b
    BY <1>1 DEF RecordingInv
  <2>3. \A u \in Callers : new[u] # None => new[u] \in Addrs
    BY DEF AllocTypeOK
  <2> QED
    BY <2>1, <2>2, <2>3 DEF RecordingInv
<1>5. ASSUME NEW a \in Addrs PROVE Balanced(a)'
  <2>1. old' = [old EXCEPT ![t] = None]
    BY <1>2 DEF AllocTypeOK
  <2>2. Live(heap'[a]) - Live(heap[a]) = One(b, a)
    BY <1>1 DEF Live, One, AllocTypeOK
  <2>3. One(new[t], a) = 0 /\ One(old[t], a) = 0 /\ One(None, a) = 0 /\ One(b, a) \in Int
    BY <1>2 DEF One
  <2>4. One(b, a) - One(new[t], a) =
          (One(None, a) - One(old[t], a)) + (Live(heap'[a]) - Live(heap[a]))
    BY <2>2, <2>3
  <2> QED
    BY <1>1, <1>2, <2>1, <2>4, BalanceKept
<1> QED
  BY <1>3, <1>4, <1>5

LEMMA FreeStep ==
  ASSUME AllocInv, NEW t \in Callers, NEW b \in Addrs, FreeBlock(t, b)
  PROVE  AllocInv'
<1> USE AllocAssumption DEF AllocInv
<1>1. /\ old[t] = None /\ new[t] = None /\ heap[b] # Free /\ \A u \in Callers : new[u] # b
      /\ heap' = [heap EXCEPT ![b] = Free] /\ old' = [old EXCEPT ![t] = b]
      /\ UNCHANGED <<nodes, new, site>>
  BY DEF FreeBlock, Resting, Returned
<1>2. AllocTypeOK'
  BY <1>1 DEF AllocTypeOK
<1>3. RecordingInv'
  BY <1>1 DEF RecordingInv, AllocTypeOK
<1>4. ASSUME NEW a \in Addrs PROVE Balanced(a)'
  <2>1. new' = [new EXCEPT ![t] = None]
    BY <1>1 DEF AllocTypeOK
  <2>2. Live(heap'[a]) - Live(heap[a]) = -One(b, a)
    BY <1>1 DEF Live, One, AllocTypeOK
  <2>3. One(new[t], a) = 0 /\ One(old[t], a) = 0 /\ One(None, a) = 0 /\ One(b, a) \in Int
    BY <1>1 DEF One
  <2>4. One(None, a) - One(new[t], a) =
          (One(b, a) - One(old[t], a)) + (Live(heap'[a]) - Live(heap[a]))
    BY <2>2, <2>3
  <2> QED
    BY <1>1, <2>1, <2>4, BalanceKept
<1> QED
  BY <1>2, <1>3, <1>4

LEMMA ReallocStep ==
  ASSUME AllocInv, NEW t \in Callers, NEW b \in Addrs, NEW s \in Sites, Realloc(t, b, s)
  PROVE  AllocInv'
<1> USE AllocAssumption DEF AllocInv
<1>1. PICK c \in Addrs :
        /\ c = b \/ heap[c] = Free
        /\ heap' = [heap EXCEPT ![b] = Free, ![c] = s]
        /\ new' = [new EXCEPT ![t] = c]
  BY DEF Realloc
<1>2. /\ old[t] = None /\ new[t] = None /\ heap[b] # Free /\ \A u \in Callers : new[u] # b
      /\ old' = [old EXCEPT ![t] = b] /\ site' = [site EXCEPT ![t] = s] /\ nodes' = nodes
  BY DEF Realloc, Resting, Returned
<1>3. AllocTypeOK'
  BY <1>1, <1>2 DEF AllocTypeOK
<1>4. /\ heap'[c] = s /\ (b # c => heap'[b] = Free)
      /\ \A a \in Addrs \ {b, c} : heap'[a] = heap[a]
  BY <1>1 DEF AllocTypeOK
<1>5. RecordingInv'
  <2>1. /\ new'[t] = c /\ site'[t] = s
        /\ \A u \in Callers \ {t} : new'[u] = new[u] /\ site'[u] = site[u]
    BY <1>1, <1>2 DEF AllocTypeOK
  <2>2. \A u \in Callers : new[u] # c
    BY <1>1, <1>2 DEF RecordingInv
  <2>3. \A u \in Callers : new[u] # None => new[u] \in Addrs
    BY DEF AllocTypeOK
  <2> QED
    BY <1>2, <1>4, <2>1, <2>2, <2>3 DEF RecordingInv
<1>6. ASSUME NEW a \in Addrs PROVE Balanced(a)'
  <2>1. Live(heap'[a]) - Live(heap[a]) = One(c, a) - One(b, a)
    <3>1. s # Free
      OBVIOUS
    <3>2. CASE b = c
      BY <1>2, <1>4, <3>1, <3>2 DEF Live, One
    <3>3. CASE b # c /\ a = b
      BY <1>2, <1>4, <3>3 DEF Live, One
    <3>4. CASE b # c /\ a = c
      BY <1>1, <1>4, <3>1, <3>4 DEF Live, One
    <3>5. CASE a # b /\ a # c
      BY <1>4, <3>5 DEF Live, One
    <3> QED
      BY <3>2, <3>3, <3>4, <3>5
  <2>2. /\ One(new[t], a) = 0 /\ One(old[t], a) = 0
        /\ One(b, a) \in Int /\ One(c, a) \in Int
    BY <1>2 DEF One
  <2>3. One(c, a) - One(new[t], a) =
          (One(b, a) - One(old[t], a)) + (Live(heap'[a]) - Live(heap[a]))
    BY <2>1, <2>2
  <2> QED
    BY <1>1, <1>2, <2>3, BalanceKept
<1> QED
  BY <1>3, <1>5, <1>6

\* A thread that is to forget nothing else than before, and to record nothing
\* else, leaves the balance; so does one that is to forget NULL.
LEMMA NothingChanges ==
  ASSUME AllocInv, NEW t \in Callers, NEW x \in {None, Null},
         old[t] \in {None, Null}, old' = [old EXCEPT ![t] = x],
         UNCHANGED <<heap, nodes, new, site>>
  PROVE  AllocInv'
<1> USE AllocAssumption DEF AllocInv
<1>1. AllocTypeOK'
  BY DEF AllocTypeOK
<1>2. RecordingInv'
  BY DEF RecordingInv
<1>3. ASSUME NEW a \in Addrs PROVE Balanced(a)'
  <2>1. new' = [new EXCEPT ![t] = new[t]]
    BY DEF AllocTypeOK
  <2>2. One(x, a) = 0 /\ One(old[t], a) = 0
    BY DEF One
  <2>3. One(new[t], a) \in Int /\ Live(heap[a]) \in Int
    BY DEF One, Live
  <2>4. One(new[t], a) - One(new[t], a) =
          (One(x, a) - One(old[t], a)) + (Live(heap'[a]) - Live(heap[a]))
    BY <2>2, <2>3
  <2> QED
    BY <2>1, <2>4, BalanceKept
<1> QED
  BY <1>1, <1>2, <1>3

LEMMA FreeNullStep ==
  ASSUME AllocInv, NEW t \in Callers, FreeNull(t)
  PROVE  AllocInv'
BY NothingChanges DEF FreeNull, Resting

\* "shouldn't happen" is only met after the free of NULL.
LEMMA RemoveHookFailsStep ==
  ASSUME AllocInv, NEW t \in Callers, RemoveHookFails(t)
  PROVE  AllocInv'
<1>1. old[t] = Null
  <2>1. old[t] \notin Addrs
    BY ForgetsARecord DEF RemoveHookFails
  <2> QED
    BY <2>1 DEF RemoveHookFails, AllocInv, AllocTypeOK
<1> QED
  BY <1>1, NothingChanges DEF RemoveHookFails

LEMMA InsertHookStep ==
  ASSUME AllocInv, NEW t \in Callers, InsertHook(t)
  PROVE  AllocInv'
<1> USE AllocAssumption DEF AllocInv
<1> DEFINE b == new[t]
<1>1. /\ b # None /\ InsertNode(b, site[t]) /\ new' = [new EXCEPT ![t] = None]
      /\ site' = [site EXCEPT ![t] = Free] /\ UNCHANGED <<heap, old>>
  BY DEF InsertHook
<1>2. b \in Addrs /\ site[t] \in Sites
  BY <1>1 DEF AllocTypeOK, RecordingInv
<1>3. IsTable(nodes)
  BY DEF AllocTypeOK, IsTable
<1>4. /\ IsTable(nodes')
      /\ \E r : r \notin RecordsIn(nodes, b) /\ RecordsIn(nodes', b) = RecordsIn(nodes, b) \cup {r}
      /\ \A a \in Addrs \ {b} : RecordsIn(nodes', a) = RecordsIn(nodes, a)
  BY <1>1, <1>2, <1>3, InsertRecords
<1>5. AllocTypeOK'
  BY <1>1, <1>4 DEF AllocTypeOK, IsTable
<1>6. RecordingInv'
  BY <1>1 DEF RecordingInv, AllocTypeOK
<1>7. ASSUME NEW a \in Addrs PROVE Balanced(a)'
  <2> DEFINE F == Cardinality(Forgetting(a))
             M == Cardinality(Recording(a))
             R == Cardinality(RecordsIn(nodes, a))
             l == Live(heap[a])
             o == One(b, a)
  <2>1. /\ IsFiniteSet(Forgetting(a)) /\ IsFiniteSet(Recording(a)) /\ IsFiniteSet(RecordsIn(nodes, a))
        /\ R + M = F + l
    BY DEF Balanced, Live
  <2>2. F \in Nat /\ M \in Nat /\ R \in Nat /\ l \in Nat /\ o \in Nat
    BY <2>1, FS_CardinalityType DEF Live, One
  <2>3. IsFiniteSet(Recording(a)') /\ Cardinality(Recording(a)') = M - o
    <3>1. /\ IsFiniteSet(Recording(a)')
          /\ Cardinality(Recording(a)') = M + One(None, a) - o
      BY <1>1, <2>1, RecordingChange
    <3>2. One(None, a) = 0
      BY DEF One
    <3> HIDE DEF M, o
    <3> QED
      BY <2>2, <3>1, <3>2
  <2>4. IsFiniteSet(RecordsIn(nodes', a)) /\ Cardinality(RecordsIn(nodes', a)) = R + o
    <3>1. CASE a = b
      <4>1. PICK r : r \notin RecordsIn(nodes, a) /\ RecordsIn(nodes', a) = RecordsIn(nodes, a) \cup {r}
        BY <1>4, <3>1
      <4>2. o = 1
        BY <3>1 DEF One
      <4> QED
        BY <2>1, <4>1, <4>2, FS_AddElement
    <3>2. CASE a # b
      <4>1. o = 0
        BY <3>2 DEF One
      <4> QED
        BY <1>4, <2>1, <2>2, <3>2, <4>1
    <3> QED
      BY <3>1, <3>2
  <2>5. Forgetting(a)' = Forgetting(a) /\ heap'[a] = heap[a]
    BY <1>1 DEF Forgetting
  <2>6. (R + o) + (M - o) = F + l
    <3> HIDE DEF F, M, R, l, o
    <3> QED
      BY <2>1, <2>2
  <2> QED
    BY <2>1, <2>3, <2>4, <2>5, <2>6 DEF Balanced, Live
<1> QED
  BY <1>5, <1>6, <1>7

LEMMA RemoveHookStep ==
  ASSUME AllocInv, NEW t \in Callers, RemoveHook(t)
  PROVE  AllocInv'
<1> USE AllocAssumption DEF AllocInv
<1> DEFINE b == old[t]
<1>1. PICK s \in Recorded(b) : RemoveNode(b, s)
  BY DEF RemoveHook
<1>2. old' = [old EXCEPT ![t] = None] /\ UNCHANGED <<heap, new, site>>
  BY DEF RemoveHook
<1>3. b \in Addrs
  BY <1>1 DEF Recorded, ToSet, AllocTypeOK
<1>4. IsTable(nodes)
  BY DEF AllocTypeOK, IsTable
<1>5. /\ IsTable(nodes')
      /\ \E r \in RecordsIn(nodes, b) : RecordsIn(nodes', b) = RecordsIn(nodes, b) \ {r}
      /\ \A a \in Addrs \ {b} :
           \/ RecordsIn(nodes', a) = RecordsIn(nodes, a)
           \/ \E r \in RecordsIn(nodes, a) : \E q :
                /\ q \notin RecordsIn(nodes, a)
                /\ RecordsIn(nodes', a) = (RecordsIn(nodes, a) \ {r}) \cup {q}
  BY <1>1, <1>4, RemoveRecords
<1>6. AllocTypeOK'
  BY <1>2, <1>5 DEF AllocTypeOK, IsTable
<1>7. RecordingInv'
  BY <1>2 DEF RecordingInv
<1>8. ASSUME NEW a \in Addrs PROVE Balanced(a)'
  <2> DEFINE F == Cardinality(Forgetting(a))
             M == Cardinality(Recording(a))
             R == Cardinality(RecordsIn(nodes, a))
             l == Live(heap[a])
             o == One(b, a)
  <2>1. /\ IsFiniteSet(Forgetting(a)) /\ IsFiniteSet(Recording(a)) /\ IsFiniteSet(RecordsIn(nodes, a))
        /\ R + M = F + l
    BY DEF Balanced, Live
  <2>2. F \in Nat /\ M \in Nat /\ R \in Nat /\ l \in Nat /\ o \in Nat
    BY <2>1, FS_CardinalityType DEF Live, One
  <2>3. IsFiniteSet(Forgetting(a)') /\ Cardinality(Forgetting(a)') = F - o
    <3>1. /\ IsFiniteSet(Forgetting(a)')
          /\ Cardinality(Forgetting(a)') = F + One(None, a) - o
      BY <1>2, <2>1, ForgettingChange
    <3>2. One(None, a) = 0
      BY DEF One
    <3> HIDE DEF F, o
    <3> QED
      BY <2>2, <3>1, <3>2
  <2>4. IsFiniteSet(RecordsIn(nodes', a)) /\ Cardinality(RecordsIn(nodes', a)) = R - o
    <3>1. CASE a = b
      <4>1. PICK r \in RecordsIn(nodes, a) : RecordsIn(nodes', a) = RecordsIn(nodes, a) \ {r}
        BY <1>5, <3>1
      <4>2. o = 1
        BY <3>1 DEF One
      <4> QED
        BY <2>1, <4>1, <4>2, FS_RemoveElement
    <3>2. CASE a # b
      <4>1. o = 0
        BY <3>2 DEF One
      <4>2. CASE RecordsIn(nodes', a) = RecordsIn(nodes, a)
        BY <2>1, <2>2, <4>1, <4>2
      <4>3. CASE RecordsIn(nodes', a) # RecordsIn(nodes, a)
        <5>1. PICK r \in RecordsIn(nodes, a) : \E q :
                /\ q \notin RecordsIn(nodes, a)
                /\ RecordsIn(nodes', a) = (RecordsIn(nodes, a) \ {r}) \cup {q}
          BY <1>5, <3>2, <4>3
        <5>2. PICK q :
                /\ q \notin RecordsIn(nodes, a)
                /\ RecordsIn(nodes', a) = (RecordsIn(nodes, a) \ {r}) \cup {q}
          BY <5>1
        <5>3. /\ IsFiniteSet((RecordsIn(nodes, a) \ {r}) \cup {q})
              /\ Cardinality((RecordsIn(nodes, a) \ {r}) \cup {q}) = R
          BY <2>1, <5>2, MovedRecord
        <5> QED
          BY <2>2, <4>1, <5>2, <5>3
      <4> QED
        BY <4>2, <4>3
    <3> QED
      BY <3>1, <3>2
  <2>5. Recording(a)' = Recording(a) /\ heap'[a] = heap[a]
    BY <1>2 DEF Recording
  <2>6. (R - o) + M = (F - o) + l
    <3> HIDE DEF F, M, R, l, o
    <3> QED
      BY <2>1, <2>2
  <2> QED
    BY <2>1, <2>3, <2>4, <2>5, <2>6 DEF Balanced, Live
<1> QED
  BY <1>6, <1>7, <1>8

-----------------------------------------------------------------------------
(* The theorem about the records *)

LEMMA InitAlloc == AllocInit => AllocInv
<1> SUFFICES ASSUME AllocInit PROVE AllocInv
  OBVIOUS
<1> USE AllocAssumption DEF AllocInit
<1>1. AllocTypeOK
  BY DEF AllocTypeOK
<1>2. RecordingInv
  BY DEF RecordingInv
<1>3. ASSUME NEW a \in Addrs PROVE Balanced(a)
  <2>1. RecordsIn(nodes, a) = {} /\ Recording(a) = {} /\ Forgetting(a) = {}
    BY DEF RecordsIn, Recording, Forgetting
  <2> QED
    BY <2>1, FS_EmptySet DEF Balanced
<1> QED
  BY <1>1, <1>2, <1>3 DEF AllocInv

LEMMA AllocStep == AllocInv /\ [AllocNext]_allocVars => AllocInv'
<1> SUFFICES ASSUME AllocInv, [AllocNext]_allocVars PROVE AllocInv'
  OBVIOUS
<1>1. ASSUME NEW t \in Callers, NEW s \in Sites, Malloc(t, s) PROVE AllocInv'
  BY <1>1, MallocStep
<1>2. ASSUME NEW t \in Callers, NEW a \in Addrs, FreeBlock(t, a) PROVE AllocInv'
  BY <1>2, FreeStep
<1>3. ASSUME NEW t \in Callers, NEW a \in Addrs, NEW s \in Sites, Realloc(t, a, s) PROVE AllocInv'
  BY <1>3, ReallocStep
<1>4. ASSUME NEW t \in Callers, FreeNull(t) PROVE AllocInv'
  BY <1>4, FreeNullStep
<1>5. ASSUME NEW t \in Callers, InsertHook(t) PROVE AllocInv'
  BY <1>5, InsertHookStep
<1>6. ASSUME NEW t \in Callers, RemoveHook(t) PROVE AllocInv'
  BY <1>6, RemoveHookStep
<1>7. ASSUME NEW t \in Callers, RemoveHookFails(t) PROVE AllocInv'
  BY <1>7, RemoveHookFailsStep
<1>8. CASE UNCHANGED allocVars
  BY ZenonT(60), <1>8 DEF allocVars, AllocInv, AllocTypeOK, RecordingInv, Balanced, RecordsIn,
              Recording, Forgetting
<1> QED
  BY <1>1, <1>2, <1>3, <1>4, <1>5, <1>6, <1>7, <1>8 DEF AllocNext

LEMMA AllocInvImplies == AllocInv => AllocTypeOK /\ BlocksAreRecorded
<1> SUFFICES ASSUME AllocInv PROVE AllocTypeOK /\ BlocksAreRecorded
  OBVIOUS
<1>1. AllocTypeOK
  BY DEF AllocInv
<1>2. RecordsBalance
  <2> SUFFICES ASSUME NEW a \in Addrs
               PROVE  Cardinality(RecordsOf(a)) + Cardinality(Recording(a)) =
                        Cardinality(Forgetting(a)) + (IF heap[a] = Free THEN 0 ELSE 1)
    BY DEF RecordsBalance
  <2>1. RecordsOf(a) = RecordsIn(nodes, a)
    BY <1>1, RecordsAre
  <2> QED
    BY <2>1 DEF AllocInv, Balanced
<1>3. FreesAreFound
  BY ForgetsARecord DEF FreesAreFound
<1> QED
  BY <1>1, <1>2, <1>3 DEF BlocksAreRecorded

\* The table of blocks is the heap at any moment but for the threads that are
\* between the C library and the hook, and no block is freed without being
\* found, whatever threads reuse its address meanwhile (xtrace2.c).
THEOREM BlocksRecorded == AllocSpec => [](AllocTypeOK /\ BlocksAreRecorded)
BY InitAlloc, AllocStep, AllocInvImplies, PTL DEF AllocSpec

-----------------------------------------------------------------------------
(* The tables and the lists together *)

\* They have no variable in common: a step of one is none of the others.
LEMMA TablesStep ==
  ASSUME [TablesNext]_vars
  PROVE  [HashNext]_hashVars /\ [AllocNext]_allocVars /\ [ListNext]_listVars /\ UNCHANGED table
<1>1. CASE HashPart /\ UNCHANGED table
  BY <1>1 DEF HashPart, allocVars, listVars
<1>2. CASE AllocPart /\ UNCHANGED table
  BY <1>2 DEF AllocPart, hashVars, listVars
<1>3. CASE ListPart /\ UNCHANGED table
  BY <1>3 DEF ListPart, hashVars, allocVars
<1>4. CASE UNCHANGED vars
  BY <1>4 DEF vars, hashVars, allocVars, listVars
<1> QED
  BY <1>1, <1>2, <1>3, <1>4 DEF TablesNext

LEMMA TablesCompose == TablesSpec => HashSpec /\ AllocSpec /\ ListSpec
<1>1. TablesInit => HashInit /\ AllocInit /\ ListInit
  BY DEF TablesInit
<1>2. [TablesNext]_vars => [HashNext]_hashVars /\ [AllocNext]_allocVars /\ [ListNext]_listVars
  BY TablesStep
<1> QED
  BY <1>1, <1>2, PTL DEF TablesSpec, HashSpec, AllocSpec, ListSpec

\* Both tables keep the types of their fields (xhash.h:23-42, xtrace2.c:28-60).
THEOREM TablesKeepTheirTypes == TablesSpec => []TablesTypeOK
<1>1. HashTypeOK /\ AllocTypeOK => TablesTypeOK
  BY DEF TablesTypeOK
<1> QED
  BY <1>1, TablesCompose, TableIsSound, BlocksRecorded, PTL

\* The lists stay linked when they are one part of the program among others
\* (xlist.h:23-319, list.h:25-87).
THEOREM TablesListsHold == TablesSpec => []ListsHold
<1>1. ListsAreLinked => ListsHold
  BY DEF ListsHold
<1> QED
  BY <1>1, TablesCompose, ListsLinked, PTL

\* And each step of theirs is a call that changes the sequences as its name
\* says, or changes none (xlist.h:55-319).
THEOREM TablesCallsChange == TablesSpec => CallsChangeSequences
<1>1. [ListsPromise!Next]_<<AsSequences, call>> =>
        [table = "lists" => ListsPromise!Next \/ UNCHANGED <<AsSequences, call>>]_vars
  OBVIOUS
<1> QED
  BY <1>1, TablesCompose, ListsAreSequences, PTL DEF ImplementsLists, ListsPromise!Spec, CallsChangeSequences
=============================================================================
