------------------------------- MODULE XSha1 -------------------------------
(* The digest of src/xsha1.c: a context that is fed in pieces, the keyed    *)
(* digests built on it, the pseudo-random function, and the digest of a     *)
(* stream whose reads may be short.                                         *)
(*                                                                          *)
(* The compression of a block is kept as a term: `state' is the sequence of *)
(* the blocks it was applied to, so two digests are equal exactly if they   *)
(* come from the same blocks.  A byte of data is <<n>>, one of a key under  *)
(* a pad is <<pad, byte>>, one of a digest is <<state, index, 0>>.          *)
EXTENDS Integers, Sequences, SequencesExt

CONSTANTS
  BlockLen,     \* 64, the bytes of a block
  WordValues,   \* 2^32, the values of a word of the counter of bits
  SHA1_MAC_LEN, \* 20, the bytes of a digest
  BLOCKSIZE,    \* 32768, the bytes that sha1_stream digests at once
  KeyLens,      \* lengths of keys
  MaxFed,       \* bound: bytes that are fed
  FileLen       \* bytes of the stream

ASSUME Sha1Sizes ==
  /\ BlockLen \in Nat \ {0, 1, 2} /\ SHA1_MAC_LEN \in Nat \ {0}
  /\ WordValues % (8 * BlockLen) = 0 /\ WordValues > 8 * BlockLen
  /\ BLOCKSIZE % BlockLen = 0 /\ BLOCKSIZE > 0

VARIABLES
  context, \* SHA1_CTX
  fed,     \* history: the bytes since the context was made
  keyLen,  \* the length of the key, -1 for a digest without one
  reader   \* the loop of sha1_stream: bytes read and digested, flags, result
sha1Vars == <<context, fed, keyLen, reader>>

Bytes(from, n) == [i \in 1..n |-> <<from + i>>]
Zeros(n) == [i \in 1..n |-> <<0>>]

SHA1Init == [state |-> <<>>, count |-> <<0, 0>>, buffer |-> Zeros(BlockLen)]

\* memcpy(&buffer[j], data, Len(data))
Copied(buffer, j, data) ==
  [i \in 1..BlockLen |-> IF i \in j + 1 .. j + Len(data) THEN data[i - j] ELSE buffer[i]]

\* Mutant: the carry into the second word is forgotten.
CountedLow(count, len) ==
  <<(count[1] + 8 * len) % WordValues, (count[2] + len \div (WordValues \div 8)) % WordValues>>

\* The bits are counted in two words, the low one first.
Counted(count, len) ==
  LET bits == (8 * len) % WordValues
      low  == (count[1] + bits) % WordValues
  IN <<low, (count[2] + (IF low < bits THEN 1 ELSE 0) + len \div (WordValues \div 8)) % WordValues>>

SHA1Update(ctx, data) ==
  LET j      == (ctx.count[1] \div 8) % BlockLen
      i      == BlockLen - j
      len    == Len(data)
      blocks == (len - i) \div BlockLen
      first  == Copied(ctx.buffer, j, SubSeq(data, 1, i))
      next(k) == SubSeq(data, i + (k - 1) * BlockLen + 1, i + k * BlockLen)
      count  == Counted(ctx.count, len)
  IN IF j + len > BlockLen - 1
     THEN [state  |-> ctx.state \o <<first>> \o [k \in 1..blocks |-> next(k)],
           count  |-> count,
           buffer |-> Copied(first, 0, SubSeq(data, i + blocks * BlockLen + 1, len))]
     ELSE [ctx EXCEPT !.count = count, !.buffer = Copied(ctx.buffer, j, data)]

\* One zero at a time until only the counter is missing in the block.
PaddedFrom(ctx) ==
  LET zeros == CHOOSE n \in 0 .. BlockLen - 1 :
                 (ctx.count[1] \div 8 + n) % BlockLen = BlockLen - 2
  IN FoldLeft(LAMBDA c, zero : SHA1Update(c, <<zero>>), ctx, Zeros(zeros))

DigestOf(state) == [i \in 1..SHA1_MAC_LEN |-> <<state, i, 0>>]

SHA1Final(ctx) ==
  LET finalcount == <<<<ctx.count[2]>>, <<ctx.count[1]>>>>
  IN DigestOf(SHA1Update(PaddedFrom(SHA1Update(ctx, <<<<128>>>>)), finalcount).state)

xsha1buf(data) == SHA1Final(SHA1Update(SHA1Init, data))

\* What is stored of a key, and its bytes under a pad of a block.
ShortKey(key) == IF Len(key) > BlockLen THEN xsha1buf(key) ELSE key
KeyPad(key, pad) == [i \in 1..BlockLen |-> <<pad, (key \o Zeros(BlockLen))[i]>>]

HMACInit(key) == SHA1Update(SHA1Init, KeyPad(ShortKey(key), 54))
HMACFinal(key, ctx) ==
  SHA1Final(SHA1Update(SHA1Update(SHA1Init, KeyPad(ShortKey(key), 92)), SHA1Final(ctx)))

\* addr is a sequence of areas of data.
hmac_sha1_vector(key, addr) ==
  LET inner == SHA1Final(FoldLeft(SHA1Update, SHA1Update(SHA1Init, KeyPad(ShortKey(key), 54)), addr))
  IN SHA1Final(SHA1Update(SHA1Update(SHA1Init, KeyPad(ShortKey(key), 92)), inner))

\* The label goes in with the zero that ends it.
sha1_prf(key, label, data, buf_len) ==
  LET hash(counter) == hmac_sha1_vector(key, <<label \o Zeros(1), data, <<<<counter>>>>>>)
      from[pos \in Nat] ==
        LET plen == buf_len - pos
            here == hash((pos \div SHA1_MAC_LEN) % 256)
        IN IF pos >= buf_len THEN <<>>
           ELSE IF plen >= SHA1_MAC_LEN THEN here \o from[pos + SHA1_MAC_LEN]
           ELSE SubSeq(here, 1, plen)
  IN from[0]

-----------------------------------------------------------------------------
Key == Bytes(100, keyLen)
File == Bytes(200, FileLen)
NoStream == [read |-> 0, sum |-> 0, ctx |-> SHA1Init, eof |-> FALSE, error |-> FALSE, result |-> "reading", digest |-> <<>>]

Sha1Init ==
  /\ fed = <<>>
  /\ keyLen \in KeyLens \cup {-1}
  /\ context = IF keyLen = -1 THEN SHA1Init ELSE HMACInit(Key)
  /\ reader = NoStream

\* SHA1Update or HMACUpdate with a piece of any length, of none too.
Feed(n) ==
  /\ Len(fed) + n <= MaxFed
  /\ fed' = fed \o Bytes(Len(fed), n)
  /\ context' = SHA1Update(context, Bytes(Len(fed), n))
  /\ UNCHANGED <<keyLen, reader>>

Room == BLOCKSIZE - reader.sum
Left == FileLen - reader.read
Sha1Ended(ctx, sum, read) ==
  SHA1Final(IF sum > 0 THEN SHA1Update(ctx, SubSeq(File, read - sum + 1, read)) ELSE ctx)

\* What the loop does with n bytes more: it digests a full buffer, ends with
\* the stream, or reads again.
Got(n, eof, error) ==
  LET sum  == reader.sum + n
      read == reader.read + n
  IN reader' =
       IF sum = BLOCKSIZE
       THEN [reader EXCEPT !.read = read, !.sum = 0, !.eof = eof, !.error = error,
                           !.ctx = SHA1Update(reader.ctx, SubSeq(File, read - sum + 1, read))]
       ELSE IF n = 0 /\ error THEN [reader EXCEPT !.error = TRUE, !.result = "failed"]
       ELSE IF n = 0 \/ eof
       THEN [reader EXCEPT !.read = read, !.sum = sum, !.result = "digested",
                                !.digest = Sha1Ended(reader.ctx, sum, read)]
       ELSE [reader EXCEPT !.read = read, !.sum = sum, !.error = error]

\* fread gives all there is room for, or less at the end or with an error.
\* The two flags of a stream stay.
Fread ==
  /\ reader.result = "reading"
  /\ \/ Left >= Room /\ Got(Room, FALSE, reader.error)
     \/ Left < Room /\ Got(Left, TRUE, reader.error)
     \/ \E n \in 0 .. Room - 1 : n <= Left /\ Got(n, FALSE, TRUE)
  /\ UNCHANGED <<context, fed, keyLen>>

Sha1Next == (\E n \in 0..MaxFed : Feed(n)) \/ (keyLen = -1 /\ fed = <<>> /\ Fread)

-----------------------------------------------------------------------------
\* The standard: the message, a bit, zeros up to the counter, the counter.
Standard(message) ==
  LET n     == Len(message)
      zeros == CHOOSE k \in 0 .. BlockLen - 1 : (n + 1 + k + 2) % BlockLen = 0
      text  == message \o <<<<128>>>> \o Zeros(zeros)
                 \o <<<<(8 * n) \div WordValues>>, <<(8 * n) % WordValues>>>>
  IN DigestOf([k \in 1 .. Len(text) \div BlockLen |-> SubSeq(text, (k - 1) * BlockLen + 1, k * BlockLen)])

StandardHmac(key, message) ==
  LET k == IF Len(key) > BlockLen THEN Standard(key) ELSE key
  IN Standard(KeyPad(k, 92) \o Standard(KeyPad(k, 54) \o message))

\* However a message is cut, with a counter of bits that overflows on the
\* way, with keys shorter than a block, as long and longer, the digest is the
\* standard one: of the context, of the areas of a vector, and of a stream
\* that breaks off (xsha1.c:217-266, 270-396, 481-552).
DigestsAreStandard ==
  /\ keyLen = -1 => SHA1Final(context) = Standard(fed)
  /\ keyLen # -1 =>
       LET mac == StandardHmac(Key, fed)
       IN /\ HMACFinal(Key, context) = mac
          /\ \A cut \in 0..Len(fed) :
               hmac_sha1_vector(Key, <<SubSeq(fed, 1, cut), SubSeq(fed, cut + 1, Len(fed))>>) = mac
          /\ sha1_prf(Key, <<>>, fed, Len(fed)) =
               [i \in 1..Len(fed) |->
                  StandardHmac(Key, Zeros(1) \o fed \o <<<<(i - 1) \div SHA1_MAC_LEN>>>>)
                    [((i - 1) % SHA1_MAC_LEN) + 1]]
  /\ reader.result = "digested" => reader.digest = Standard(File)
=============================================================================
