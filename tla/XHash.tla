-------------------------------- MODULE XHash --------------------------------
(***************************************************************************)
(* src/src/xhash.c: a hash table with chains, used by several threads.  An *)
(* operation is one critical section of hash_rwlock, but for the last      *)
(* statement of those that return an item: they read bucket->data when     *)
(* they have unlocked already.                                             *)
(*                                                                         *)
(* The functions the user supplies are total and pure: hash_key and        *)
(* hash_cmp_key depend on the key of an item only, hash_cmp_other on the   *)
(* rest of it.  malloc does not fail (hash_set does not test it).          *)
(***************************************************************************)
EXTENDS Integers, Sequences, FiniteSets, SequencesExt

CONSTANTS
  Threads,      \* the threads that share the table
  Items,        \* what is stored: blocks of the callers
  Keys,         \* the keys of items
  ItemKey,      \* the key of every item
  ItemOther,    \* the rest of it
  HashKey,      \* the unsigned number of every key (not injective)
  HashSize,     \* hash.size
  Buckets,      \* the blocks that malloc can return for a bucket
  NoItem, NoBucket

ASSUME ItemsAssumption ==
  /\ ItemKey \in [Items -> Keys]
  /\ DOMAIN ItemOther = Items
  /\ NoItem \notin Items
ASSUME HashAssumption ==
  /\ HashSize \in Nat \ {0}
  /\ HashKey \in [Keys -> Nat]
  /\ NoBucket \notin Buckets

VARIABLES
  index,   \* hash.index: the chain of every index, first bucket first
  data,    \* the data field of every bucket, NoItem if it is not allocated
  hcount,  \* hash.count
  owner,   \* of an item: the allocator, the table, or a caller it was released to
  bucket,  \* a thread's local variable while it is to read bucket->data
  answer   \* what its last call has found or stored under the lock (a ghost)

hashVars == <<index, data, hcount, owner, bucket, answer>>

Indices == 0 .. HashSize - 1

HashInit ==
  /\ index = [i \in Indices |-> <<>>]
  /\ data = [b \in Buckets |-> NoItem]
  /\ hcount = 0
  /\ owner = [d \in Items |-> "allocator"]
  /\ bucket = [t \in Threads |-> NoBucket]
  /\ answer = [t \in Threads |-> NoItem]

Idle(t) == bucket[t] = NoBucket

IndexOf(k) == HashKey[k] % HashSize

\* Mutant: without the comparison of the keys themselves.
PlaceByHash(k) ==
  SelectInSeq(index[IndexOf(k)], LAMBDA b : HashKey[ItemKey[data[b]]] = HashKey[k])

\* The place of a key in its chain, 0 if it is not there.  Every operation
\* looks through one chain only.
Place(k) == SelectInSeq(index[IndexOf(k)], LAMBDA b : ItemKey[data[b]] = k)

BucketOf(k) == index[IndexOf(k)][Place(k)]
Found(k) == Place(k) # 0

Answer(t, d) == answer' = [answer EXCEPT ![t] = d]
\* The call returns what it has in a local variable.
ReturnNow(t, d) == Answer(t, d) /\ UNCHANGED bucket
\* The call has unlocked and is going to read b->data.
ReturnFrom(t, b, d) == Answer(t, d) /\ bucket' = [bucket EXCEPT ![t] = b]

-----------------------------------------------------------------------------
(* hash_get, hash_lookup *)

GetFound(t, k) ==
  /\ Idle(t) /\ Found(k)
  /\ ReturnFrom(t, BucketOf(k), data[BucketOf(k)])
  /\ UNCHANGED <<index, data, hcount, owner>>

GetNothing(t, k) ==
  /\ Idle(t) /\ ~ Found(k)
  /\ ReturnNow(t, NoItem)
  /\ UNCHANGED <<index, data, hcount, owner>>

-----------------------------------------------------------------------------
(* hash_set.  The item is a block that its caller has just allocated, or   *)
(* one that was released to it.                                            *)

\* There is one of the key that is the same: the new one is freed.
SetSame(t, d) ==
  LET b == BucketOf(ItemKey[d])
  IN  /\ Idle(t) /\ Found(ItemKey[d])
      /\ owner[d] # "table"
      /\ ItemOther[data[b]] = ItemOther[d]
      /\ owner' = [owner EXCEPT ![d] = "allocator"]
      /\ ReturnFrom(t, b, data[b])
      /\ UNCHANGED <<index, data, hcount>>

\* Mutant: the old item is not freed.
SetReplacingLeaks(t, d) ==
  LET b == BucketOf(ItemKey[d])
  IN  /\ Idle(t) /\ Found(ItemKey[d])
      /\ owner[d] # "table"
      /\ ItemOther[data[b]] # ItemOther[d]
      /\ owner' = [owner EXCEPT ![d] = "table"]
      /\ data' = [data EXCEPT ![b] = d]
      /\ ReturnFrom(t, b, d)
      /\ UNCHANGED <<index, hcount>>

\* There is one of the key that is different: the old one is freed.
SetReplacing(t, d) ==
  LET b == BucketOf(ItemKey[d])
  IN  /\ Idle(t) /\ Found(ItemKey[d])
      /\ owner[d] # "table"
      /\ ItemOther[data[b]] # ItemOther[d]
      /\ owner' = [owner EXCEPT ![d] = "table", ![data[b]] = "allocator"]
      /\ data' = [data EXCEPT ![b] = d]
      /\ ReturnFrom(t, b, d)
      /\ UNCHANGED <<index, hcount>>

SetNew(t, d) ==
  /\ Idle(t) /\ ~ Found(ItemKey[d])
  /\ owner[d] # "table"
  /\ \E b \in Buckets :
       /\ data[b] = NoItem
       /\ data' = [data EXCEPT ![b] = d]
       /\ index' = [index EXCEPT ![IndexOf(ItemKey[d])] = <<b>> \o @]
       /\ ReturnFrom(t, b, d)
  /\ hcount' = hcount + 1
  /\ owner' = [owner EXCEPT ![d] = "table"]

\* return bucket->data, when others may have had the lock.
ReadData(t) ==
  /\ bucket[t] # NoBucket
  /\ bucket' = [bucket EXCEPT ![t] = NoBucket]
  /\ UNCHANGED <<index, data, hcount, owner, answer>>

-----------------------------------------------------------------------------
(* hash_delete, hash_release, hash_clean *)

\* Mutant: prev is not advanced, and the buckets before this one are lost.
UnlinkFromHead(k) ==
  /\ index' = [index EXCEPT ![IndexOf(k)] =
                 IF Place(k) = 1 THEN Tail(@)
                                 ELSE <<Head(@)>> \o SubSeq(@, Place(k) + 1, Len(@))]
  /\ data' = [data EXCEPT ![BucketOf(k)] = NoItem]
  /\ hcount' = hcount - 1

\* The bucket is unlinked and freed.
Unlink(k) ==
  /\ index' = [index EXCEPT ![IndexOf(k)] = RemoveAt(@, Place(k))]
  /\ data' = [data EXCEPT ![BucketOf(k)] = NoItem]
  /\ hcount' = hcount - 1

\* hash_delete returns a status: the answer is whose item it has freed.
Delete(t, k) ==
  /\ Idle(t) /\ Found(k)
  /\ Unlink(k)
  /\ owner' = [owner EXCEPT ![data[BucketOf(k)]] = "allocator"]
  /\ ReturnNow(t, data[BucketOf(k)])

Release(t, k) ==
  /\ Idle(t) /\ Found(k)
  /\ Unlink(k)
  /\ owner' = [owner EXCEPT ![data[BucketOf(k)]] = "caller"]
  /\ ReturnNow(t, data[BucketOf(k)])

\* A caller frees what was released to it.
FreeReleased(d) ==
  /\ owner[d] = "caller"
  /\ owner' = [owner EXCEPT ![d] = "allocator"]
  /\ UNCHANGED <<index, data, hcount, bucket, answer>>

Clean(t) ==
  /\ Idle(t)
  /\ LET chained == UNION {ToSet(index[i]) : i \in Indices}
         freed   == {data[b] : b \in chained}
     IN  /\ data' = [b \in Buckets |-> IF b \in chained THEN NoItem ELSE data[b]]
         /\ owner' = [d \in Items |-> IF d \in freed THEN "allocator" ELSE owner[d]]
         /\ hcount' = hcount - Cardinality(chained)
  /\ index' = [i \in Indices |-> <<>>]
  /\ UNCHANGED <<bucket, answer>>

HashStep(t) ==
  \/ \E k \in Keys :
       \/ GetFound(t, k)
       \/ GetNothing(t, k)
       \/ Delete(t, k)
       \/ Release(t, k)
  \/ \E d \in Items :
       \/ SetSame(t, d)
       \/ SetReplacing(t, d)
       \/ SetNew(t, d)
  \/ ReadData(t)
  \/ Clean(t)

HashNext == (\E t \in Threads : HashStep(t)) \/ (\E d \in Items : FreeReleased(d))

HashSpec == HashInit /\ [][HashNext]_hashVars

-----------------------------------------------------------------------------
(* Properties *)

Chained(b, i) == \E n \in 1 .. Len(index[i]) : index[i][n] = b

\* Every field keeps its type.
HashTypeOK ==
  /\ index \in [Indices -> Seq(Buckets)]
  /\ data \in [Buckets -> Items \cup {NoItem}]
  /\ hcount \in Nat
  /\ owner \in [Items -> {"allocator", "table", "caller"}]
  /\ bucket \in [Threads -> Buckets \cup {NoBucket}]
  /\ answer \in [Threads -> Items \cup {NoItem}]

\* A bucket that is allocated is in the chain of its key and only there, once;
\* one that is not is in no chain; and hash.count is their number.
ChainsAreSound ==
  /\ \A i \in Indices : \A m, n \in 1 .. Len(index[i]) : index[i][m] = index[i][n] => m = n
  /\ \A b \in Buckets, i \in Indices :
       Chained(b, i) <=> data[b] # NoItem /\ IndexOf(ItemKey[data[b]]) = i
  /\ hcount = Cardinality({b \in Buckets : data[b] # NoItem})

\* "the data must be malloced and not be free any more" (xhash.c, hash_set):
\* the table owns exactly what is in a bucket, in one bucket only.  It neither
\* leaks nor frees twice, whether it keeps an item, replaces one or declines it.
OwnsItsItems ==
  \A d \in Items :
    /\ owner[d] = "table" <=> \E b \in Buckets : data[b] = d
    /\ \A b, c \in Buckets : data[b] = d /\ data[c] = d => b = c

\* The table as a store with one item per key, found in any chain.
Stored(k) == {data[b] : b \in {c \in Buckets : data[c] # NoItem /\ ItemKey[data[c]] = k}}
Promise == INSTANCE KeyedStore WITH
  Callers   <- Threads,
  KeyOf     <- LAMBDA d : ItemKey[d],
  SameOther <- LAMBDA c, d : ItemOther[c] = ItemOther[d],
  store     <- [k \in Keys |-> IF Stored(k) = {} THEN NoItem ELSE CHOOSE d \in Stored(k) : TRUE]

\* The table is one, also with several keys of one hash value and of one
\* chain: every operation has the effect and the answer of the store's.
ImplementsStore == Promise!Spec

\* "lock for hash read and write" (xhash.h): the bucket that a call reads its
\* return value from still holds what the call has found or stored.
ReadsItsAnswer == [][\A t \in Threads : ReadData(t) => data[bucket[t]] = answer[t]]_hashVars
=============================================================================
