------------------------------ MODULE XBitmap ------------------------------
(* The bitmaps of src/xbitmap.c.  A word is the set of its bits that are    *)
(* one; a text of a bitmap is the sequence of its words in hexadecimal, the *)
(* last one first.  BITS_PER_LONG is 32 in the header; what a long has in   *)
(* the build is LongBits.                                                   *)
EXTENDS Integers, Sequences, FiniteSets, FiniteSetsExt, SequencesExt

CONSTANTS BITS_PER_LONG, LongBits, MaxBits
ASSUME BitmapBits ==
  /\ {BITS_PER_LONG, LongBits, MaxBits} \subseteq Nat \ {0}
  /\ LongBits >= BITS_PER_LONG

VARIABLES
  nbits, \* the length of the bitmaps
  bitmap, \* two bitmaps, each its words
  bits    \* history: the offsets that the calls have made one
bitmapVars == <<nbits, bitmap, bits>>

Long == 0 .. LongBits - 1
BITS_TO_LONGS(n) == (n + LongBits - 1) \div LongBits
Words == 0 .. BITS_TO_LONGS(nbits) - 1

\* Mutant: a last word that is full gets the mask of an empty one.
LastWordMaskEmpty(n) == 0 .. (n % BITS_PER_LONG) - 1

LastWordMask(n) ==
  IF n % BITS_PER_LONG # 0 THEN 0 .. (n % BITS_PER_LONG) - 1 ELSE Long

Zeroed(map) == IF nbits <= BITS_PER_LONG THEN [map EXCEPT ![0] = {}] ELSE [w \in Words |-> {}]
Filled(map) ==
  LET last == BITS_TO_LONGS(nbits) - 1
  IN [w \in Words |-> IF w < last THEN Long ELSE LastWordMask(nbits)]
CopiedTo(map, source) ==
  IF nbits <= BITS_PER_LONG THEN [map EXCEPT ![0] = source[0]] ELSE source
With(map, offset) == [map EXCEPT ![offset \div BITS_PER_LONG] = @ \cup {offset % BITS_PER_LONG}]
Without(map, offset) == [map EXCEPT ![offset \div BITS_PER_LONG] = @ \ {offset % BITS_PER_LONG}]

bitmap_get(map, offset) == offset % BITS_PER_LONG \in map[offset \div BITS_PER_LONG]

\* Whole words are compared, then what the mask leaves of the last.
bitmap_empty(map) ==
  IF nbits <= BITS_PER_LONG THEN map[0] \cap LastWordMask(nbits) = {}
  ELSE /\ \A k \in 0 .. (nbits \div BITS_PER_LONG) - 1 : map[k] = {}
       /\ nbits % BITS_PER_LONG # 0 => map[nbits \div BITS_PER_LONG] \cap LastWordMask(nbits) = {}
bitmap_full(map) ==
  IF nbits <= BITS_PER_LONG THEN (Long \ map[0]) \cap LastWordMask(nbits) = {}
  ELSE /\ \A k \in 0 .. (nbits \div BITS_PER_LONG) - 1 : map[k] = Long
       /\ nbits % BITS_PER_LONG # 0 => LastWordMask(nbits) \subseteq map[nbits \div BITS_PER_LONG]

\* The first word that is not all ones is looked at bit by bit.
bitmap_find_empty(map) ==
  LET open == {w \in Words : map[w] # Long}
      w    == Min(open)
      at   == {j \in 0 .. BITS_PER_LONG - 1 : j \notin map[w]}
      offset == w * BITS_PER_LONG + Min(at)
  IN IF open = {} \/ at = {} \/ offset >= nbits THEN -1 ELSE offset

bitmap_map2str(map) ==
  IF nbits <= BITS_PER_LONG THEN <<map[0]>>
  ELSE [i \in 1..BITS_TO_LONGS(nbits) |-> map[BITS_TO_LONGS(nbits) - i]]
\* A text of another length is refused.
bitmap_str2map(map, str) ==
  IF Len(str) # BITS_TO_LONGS(nbits) THEN map ELSE [w \in Words |-> str[BITS_TO_LONGS(nbits) - w]]

-----------------------------------------------------------------------------
BitmapInit ==
  /\ nbits \in 1..MaxBits
  /\ bitmap = [m \in 1..2 |-> Zeroed([w \in Words |-> Long])]
  /\ bits = [m \in 1..2 |-> {}]

Put(m, map, ones) ==
  /\ bitmap' = [bitmap EXCEPT ![m] = map]
  /\ bits' = [bits EXCEPT ![m] = ones]
  /\ UNCHANGED nbits

bitmap_zero(m) == Put(m, Zeroed(bitmap[m]), {})
bitmap_fill(m) == Put(m, Filled(bitmap[m]), 0 .. nbits - 1)
bitmap_set(m, offset) == Put(m, With(bitmap[m], offset), bits[m] \cup {offset})
bitmap_unset(m, offset) == Put(m, Without(bitmap[m], offset), bits[m] \ {offset})
bitmap_copy(m) == Put(m, CopiedTo(bitmap[m], bitmap[3 - m]), bits[3 - m])
Restore(m) == Put(m, bitmap_str2map(bitmap[m], bitmap_map2str(bitmap[3 - m])), bits[3 - m])

BitmapNext ==
  \E m \in 1..2 :
    \/ bitmap_zero(m) \/ bitmap_fill(m) \/ bitmap_copy(m) \/ Restore(m)
    \/ \E offset \in 0 .. nbits - 1 : bitmap_set(m, offset) \/ bitmap_unset(m, offset)

BitmapSpec == BitmapInit /\ [][BitmapNext]_bitmapVars

-----------------------------------------------------------------------------
\* A bitmap is the set of offsets that its calls have made one, at every
\* length below, at and above a word: for reading, for the tests of none and
\* of all, and for the first that is free (xbitmap.c:26-223).
BitmapsAreSets ==
  \A m \in 1..2 :
    /\ \A offset \in 0 .. nbits - 1 : bitmap_get(bitmap[m], offset) <=> offset \in bits[m]
    /\ bitmap_empty(bitmap[m]) <=> bits[m] = {}
    /\ bitmap_full(bitmap[m]) <=> bits[m] = 0 .. nbits - 1
    /\ bitmap_find_empty(bitmap[m]) =
         (IF bits[m] = 0 .. nbits - 1 THEN -1 ELSE Min((0 .. nbits - 1) \ bits[m]))
=============================================================================
