------------------------------ MODULE XRandom ------------------------------
(* The generators of src/xrandom.c: each has positions of its own in one    *)
(* box, which the first call of any of them fills.                          *)
EXTENDS Integers, Sequences, FiniteSets

CONSTANTS
  BoxLen,   \* 256, entries of the box and values of a byte
  RoundLen, \* 4, bytes of a number and of a round
  Seeds,    \* what the box may be filled with
  MaxDraws  \* bound: calls

ASSUME RandomSizes ==
  /\ BoxLen \in Nat \ {0} /\ RoundLen \in Nat \ {0}
  /\ Seeds \subseteq [0 .. BoxLen - 1 -> 0 .. BoxLen - 1]

VARIABLES
  rc4_sbox,
  rc4_seedflag,
  positions, \* the static i and j of every generator
  drawn,     \* the bytes that the last call has stored from its result on
  wrecked,   \* the program has done what C leaves undefined, and came to harm
  seed,      \* history: what the box was filled with
  draws      \* history: calls
randomVars == <<rc4_sbox, rc4_seedflag, positions, drawn, wrecked, seed, draws>>

Generators == {"xrand_rc4", "xrand_rc42", "xrand_rc43", "xrand_rc44",
               "xrand_rc45", "xrand_rc46", "xrand_rc47", "xrand_rc48"}

RandomInit ==
  /\ rc4_sbox = [n \in 0 .. BoxLen - 1 |-> 0] /\ rc4_seedflag = 0 /\ draws = 0
  /\ positions = [g \in Generators |-> [i |-> 0, j |-> 0]]
  /\ drawn = <<>> /\ wrecked = FALSE /\ seed = rc4_sbox

\* Mutant: the second place gets what has just been stored in the first.
StirredOver(s) ==
  LET i  == (s.i + 1) % BoxLen
      si == s.box[i]
      j  == (s.j + si) % BoxLen
      sj == s.box[j]
      box == [s.box EXCEPT ![i] = sj]
  IN [i |-> i, j |-> j, box |-> box, bytes |-> Append(s.bytes, box[(si + sj) % BoxLen])]

\* One byte: i goes on by one, j by what it finds there, and the two change
\* places.
Stirred(s) ==
  LET i  == (s.i + 1) % BoxLen
      si == s.box[i]
      j  == (s.j + si) % BoxLen
      sj == s.box[j]
      box == [s.box EXCEPT ![i] = sj, ![j] = si]
  IN [i |-> i, j |-> j, box |-> box, bytes |-> Append(s.bytes, box[(si + sj) % BoxLen])]

\* After n bytes.
StirredTimes(start, n) ==
  LET after[k \in 0 .. n] == IF k = 0 THEN start ELSE Stirred(after[k - 1])
  IN after[n]

\* Device and clock together may fill the box with anything.
xrand_rc4_fill(box) == IF rc4_seedflag = 0 THEN box \in Seeds ELSE box = rc4_sbox

Draw(g, rounds) ==
  \E box \in Seeds \cup {rc4_sbox} :
    LET start == [i |-> positions[g].i, j |-> positions[g].j, box |-> box, bytes |-> <<>>]
        s == StirredTimes(start, rounds * RoundLen)
    IN /\ ~ wrecked /\ draws < MaxDraws /\ draws' = draws + 1
       /\ xrand_rc4_fill(box)
       /\ seed' = IF rc4_seedflag = 0 THEN box ELSE seed
       /\ rc4_seedflag' = 1
       /\ rc4_sbox' = s.box
       /\ positions' = [positions EXCEPT ![g] = [i |-> s.i, j |-> s.j]]
       /\ drawn' = s.bytes

xrand_rc4 == Draw("xrand_rc4", 1) /\ UNCHANGED wrecked
xrand_rc41 == xrand_rc4
xrand_rc42 == Draw("xrand_rc42", 1) /\ UNCHANGED wrecked
xrand_rc43 == Draw("xrand_rc43", 1) /\ UNCHANGED wrecked

\* Seven rounds, of which all but the first store on the stack beyond the
\* result: over what is not used any more, or over what the program needs.
DrawBeyond(g) == Draw(g, 7) /\ wrecked' \in BOOLEAN
xrand_rc44 == DrawBeyond("xrand_rc44")
xrand_rc45 == DrawBeyond("xrand_rc45")
xrand_rc46 == DrawBeyond("xrand_rc46")
xrand_rc47 == DrawBeyond("xrand_rc47")
xrand_rc48 == DrawBeyond("xrand_rc48")

\* The number in the first bytes, and a value of a range from a number.
UIntValues ==
  LET power[n \in 0 .. RoundLen] == IF n = 0 THEN 1 ELSE BoxLen * power[n - 1]
  IN power[RoundLen]
WordOf(bytes) ==
  LET above[n \in 0 .. RoundLen] ==
        IF n = 0 THEN 0 ELSE bytes[RoundLen + 1 - n] + BoxLen * above[n - 1]
  IN above[RoundLen]
ValuesIn(min, max) == (((max - min) % UIntValues) + 1) % UIntValues
RangeValue(min, max, r) == (min + (r % ValuesIn(min, max))) % UIntValues

\* A number is drawn, and RangeValue of it returned; for the range of all
\* numbers that divides by zero.
xrand_range(min, max) == Draw("xrand_rc4", 1) /\ wrecked' = (ValuesIn(min, max) = 0)

RandomNext ==
  \/ xrand_rc41 \/ xrand_rc42 \/ xrand_rc43
  \/ xrand_rc44 \/ xrand_rc45 \/ xrand_rc46 \/ xrand_rc47 \/ xrand_rc48
  \/ \E min, max \in 0 .. UIntValues - 1 : xrand_range(min, max)

RandomSpec == RandomInit /\ [][RandomNext]_randomVars

-----------------------------------------------------------------------------
\* However the generators take turns, each at its own places, the box stays
\* an arrangement of what it was filled with and no value of it is lost; a
\* number drawn gives a value of any range but that of all numbers, although
\* :635 promises it for that one, too (xrandom.c:48-642).  Of a program that
\* has come to harm nothing is said.
BoxKeepsItsValues ==
  ~ wrecked =>
    /\ \A v \in 0 .. BoxLen - 1 :
         Cardinality({n \in DOMAIN rc4_sbox : rc4_sbox[n] = v}) = Cardinality({n \in DOMAIN seed : seed[n] = v})
    /\ drawn # <<>> =>
         \A min \in 0 .. UIntValues - 1 : \A max \in min .. UIntValues - 1 :
           max - min # UIntValues - 1 => RangeValue(min, max, WordOf(drawn)) \in min .. max
=============================================================================
