------------------------------- MODULE XCodes -------------------------------
(* Conversions between bytes and texts: src/base64.c, src/xurl.c and        *)
(* src/xmac.c.  A byte has 4 * Unit bits, a digit of base64 3 * Unit, one   *)
(* of base 16 2 * Unit.  A character is a number: a digit stands for        *)
(* itself, Percent is one of the bytes, Pad, Space and Colon are no bytes.  *)
EXTENDS Integers, Sequences, SequencesExt

CONSTANTS
  Unit,     \* 2
  MacLen,   \* 6
  Keyboard, \* the characters of the texts
  MaxTyped, \* bound: length of the texts
  MaxMoves  \* bound: calls that count a MAC up or down

ASSUME CodeSizes == Unit \in Nat \ {0} /\ MacLen \in Nat \ {0, 1}

VARIABLES
  typed, \* a text, or the bytes to convert
  mac,   \* a MAC address
  moves  \* history: additions minus subtractions
codeVars == <<typed, mac, moves>>

Bits(n) == 2 ^ (n * Unit)
ByteMax == Bits(4) - 1
Percent == ByteMax
Pad == -1
Space == -2
Colon == -3
Refused == <<-9>>

(* base64.c *)
\* Three bytes make four digits.
Digits64(b) == <<b[1] \div Bits(1),
                 (b[1] % Bits(1)) * Bits(2) + b[2] \div Bits(2),
                 (b[2] % Bits(2)) * Bits(1) + b[3] \div Bits(3),
                 b[3] % Bits(3)>>

base64_enclen(orig_len) == (orig_len \div 3 + (IF orig_len % 3 # 0 THEN 1 ELSE 0)) * 4
base64_declen(orig_len) == (orig_len * 3) \div 4

\* What does not fit is refused; the zero at the end needs its byte, too.
base64_encode(src, targsize) ==
  LET whole == Len(src) \div 3
      rest  == Len(src) % 3
      group(k) == Digits64([i \in 1..3 |-> (src \o <<0, 0>>)[3 * k + i]])
      last  == IF rest = 0 THEN <<>>
               ELSE SubSeq(group(whole), 1, rest + 1) \o [i \in 1 .. 3 - rest |-> Pad]
      text  == FlattenSeq([k \in 1..whole |-> group(k - 1)]) \o last
  IN IF Len(text) >= targsize THEN Refused ELSE text

\* One character: target is all that is written, targsize -1 stands for no
\* target.  s.ended is set by a padding character, s.bad by an error.
Decoded(s, ch, targsize) ==
  LET at(i) == IF i < Len(s.target) THEN s.target[i + 1] ELSE 0
      put(here, next) == IF next = -1 THEN SubSeq(s.target, 1, s.tarindex) \o <<here>>
                         ELSE SubSeq(s.target, 1, s.tarindex) \o <<here, next>>
      last == IF s.state \in {1, 2} THEN s.tarindex + 1 ELSE s.tarindex
      written == CASE s.state = 0 -> put(ch * Bits(1), -1)
                   [] s.state = 1 -> put(at(s.tarindex) + ch \div Bits(2), (ch % Bits(2)) * Bits(2))
                   [] s.state = 2 -> put(at(s.tarindex) + ch \div Bits(1), (ch % Bits(1)) * Bits(3))
                   [] OTHER       -> put(at(s.tarindex) + ch, -1)
  IN IF s.bad \/ s.ended \/ ch = Space THEN s
     ELSE IF ch = Pad THEN [s EXCEPT !.ended = TRUE]
     ELSE IF ch \notin 0 .. Bits(3) - 1 \/ (targsize # -1 /\ last >= targsize) THEN [s EXCEPT !.bad = TRUE]
     ELSE [s EXCEPT !.target = IF targsize = -1 THEN @ ELSE written,
                    !.tarindex = @ + (IF s.state = 0 THEN 0 ELSE 1), !.state = (@ + 1) % 4]

\* After the digits: as many padding characters as are missing, then nothing
\* but spaces, and no bits in the byte that was begun.
base64_decode(src, targsize) ==
  LET s == FoldLeft(LAMBDA t, ch : Decoded(t, ch, targsize),
                    [state |-> 0, tarindex |-> 0, target |-> <<>>, ended |-> FALSE, bad |-> FALSE], src)
      tail == SelectSeq(SubSeq(src, SelectInSeq(src, LAMBDA ch : ch = Pad) + 1, Len(src)), LAMBDA ch : ch # Space)
      good == IF s.ended
              THEN /\ \/ s.state = 2 /\ tail = <<Pad>>
                      \/ s.state = 3 /\ tail = <<>>
                   /\ targsize # -1 => s.target[s.tarindex + 1] = 0
              ELSE s.state = 0
  IN IF s.bad \/ ~good THEN Refused
     ELSE IF targsize = -1 THEN [i \in 1..s.tarindex |-> 0]
     ELSE SubSeq(s.target, 1, s.tarindex)

(* xurl.c *)
url_is_unreserved(in) == in \in 0 .. Bits(3) - 1
Hex(byte) == <<byte \div Bits(2), byte % Bits(2)>>

\* Mutant: the length that has grown is not kept for the next escape.
EscapedOnce(e, in) ==
  IF url_is_unreserved(in)
  THEN [e EXCEPT !.ns = Append(@, in), !.needed = Len(e.ns) + 1]
  ELSE [e EXCEPT !.ns = @ \o <<Percent>> \o Hex(in), !.needed = Len(e.ns) + 4,
                 !.alloc = IF e.newlen + 2 > @ THEN 2 * @ ELSE @]

\* The text, the room that was allocated for it, and the most that a write
\* has needed of it: snprintf ends what it writes with a zero.
Escaped(e, in) ==
  IF url_is_unreserved(in)
  THEN [e EXCEPT !.ns = Append(@, in), !.needed = Len(e.ns) + 1]
  ELSE LET newlen == e.newlen + 2
       IN [e EXCEPT !.ns = @ \o <<Percent>> \o Hex(in), !.newlen = newlen, !.needed = Len(e.ns) + 4,
                    !.alloc = IF newlen > @ THEN 2 * @ ELSE @]

Escapes(input) ==
  LET start == [ns |-> <<>>, alloc |-> Len(input) + 1, newlen |-> Len(input) + 1, needed |-> 0]
      after[n \in 0 .. Len(input)] == IF n = 0 THEN start ELSE Escaped(after[n - 1], input[n])
  IN after
xurl_escape(input) == Escapes(input)[Len(input)].ns

\* A character that is no digit ends the number; an escape is complete.
xurl_unescape(input) ==
  LET hex == 0 .. Bits(2) - 1
      value(a, b) == IF a \notin hex THEN 0 ELSE IF b \notin hex THEN a ELSE a * Bits(2) + b
      from[i \in Nat] ==
        IF i > Len(input) THEN <<>>
        ELSE IF input[i] = Percent THEN <<value(input[i + 1], input[i + 2])>> \o from[i + 3]
        ELSE <<input[i]>> \o from[i + 1]
  IN from[1]

(* xmac.c *)
isxdigit(ch) == ch \in 0 .. Bits(2) - 1
MacOf(str, step) == [i \in 1..MacLen |-> str[(i - 1) * step + 1] * Bits(2) + str[(i - 1) * step + 2]]

\* What is not a MAC leaves the array as it was; what follows one is ignored.
xstr2mac1(str) ==
  IF /\ Len(str) >= 3 * MacLen - 1
     /\ \A i \in 1 .. 3 * MacLen - 1 : IF i % 3 = 0 THEN str[i] = Colon ELSE isxdigit(str[i])
  THEN MacOf(str, 3) ELSE Refused
xstr2mac2(str) ==
  IF Len(str) >= 2 * MacLen /\ \A i \in 1 .. 2 * MacLen : isxdigit(str[i])
  THEN MacOf(str, 2) ELSE Refused
xstr2mac(str) == IF xstr2mac1(str) # Refused THEN xstr2mac1(str) ELSE xstr2mac2(str)

xmac2str(m) == Hex(m[1]) \o FlattenSeq([i \in 1 .. MacLen - 1 |-> <<Colon>> \o Hex(m[i + 1])])
xmac2str2(m) == FlattenSeq([i \in 1..MacLen |-> Hex(m[i])])

\* The bytes from the last one on, up to the first that needs no carry.
xmac_add1(m) ==
  [i \in 1..MacLen |-> IF \E k \in i + 1 .. MacLen : m[k] # ByteMax THEN m[i]
                       ELSE IF m[i] # ByteMax THEN m[i] + 1 ELSE 0]
xmac_sub1(m) ==
  [i \in 1..MacLen |-> IF \E k \in i + 1 .. MacLen : m[k] > 0 THEN m[i]
                       ELSE IF m[i] > 0 THEN m[i] - 1 ELSE ByteMax]
xmac2type(m) ==
  IF m[1] % 2 = 0 THEN "UNICAST_MAC"
  ELSE IF \A i \in 1..MacLen : m[i] = ByteMax THEN "BROADCAST_MAC" ELSE "MULTICAST_MAC"

-----------------------------------------------------------------------------
CodesInit == typed = <<>> /\ mac = [i \in 1..MacLen |-> 0] /\ moves = 0

Type(ch) ==
  /\ moves = 0 /\ Len(typed) < MaxTyped
  /\ typed' = Append(typed, ch)
  /\ UNCHANGED <<mac, moves>>
Add ==
  /\ typed = <<>> /\ moves < MaxMoves
  /\ mac' = xmac_add1(mac) /\ moves' = moves + 1
  /\ UNCHANGED typed
Subtract ==
  /\ typed = <<>> /\ moves > -MaxMoves
  /\ mac' = xmac_sub1(mac) /\ moves' = moves - 1
  /\ UNCHANGED typed
CodesNext == (\E ch \in Keyboard : Type(ch)) \/ Add \/ Subtract

-----------------------------------------------------------------------------
IsBytes(text) == \A i \in 1..Len(text) : text[i] \in 0..ByteMax

\* The bytes of a base64 text by its bits, if the standard admits the text;
\* strict also about the bits that no byte needs.
Standard64(text, strict) ==
  LET plain  == SelectSeq(text, LAMBDA ch : ch # Space)
      digits == SelectSeq(plain, LAMBDA ch : ch # Pad)
      n      == Len(digits)
      bits   == 3 * Unit
      value  == FoldLeft(LAMBDA v, d : v * Bits(3) + d, 0, digits)
      spare  == 2 ^ ((bits * n) % (4 * Unit))
      count  == (bits * n) \div (4 * Unit)
  IN IF /\ \A i \in 1..n : digits[i] \in 0 .. Bits(3) - 1
        /\ plain = digits \o [i \in 1 .. (4 - (n % 4)) % 4 |-> Pad]
        /\ n % 4 # 1 /\ (strict => value % spare = 0)
     THEN [i \in 1..count |-> ((value \div spare) \div (2 ^ (4 * Unit * (count - i)))) % (ByteMax + 1)]
     ELSE Refused

Number(m) == FoldLeft(LAMBDA v, b : v * (ByteMax + 1) + b, 0, m)

\* Every text decodes to what the standard says or is refused, whatever its
\* spaces and padding and however tight the target (a text that is padded
\* needs one byte more than its bytes); what is encoded decodes to itself and
\* has the length that was announced; an escaped text fits its room at every
\* write and unescapes to itself; a MAC is read from both its forms and from
\* nothing else, and counts modulo its width
\* (base64.c:120-330, xurl.c:52-139, xmac.c:13-161).
CodesInvert ==
  /\ base64_decode(typed, -1) =
       LET bytes == Standard64(typed, FALSE)
       IN IF bytes = Refused THEN Refused ELSE [i \in 1..Len(bytes) |-> 0]
  /\ LET bytes == Standard64(typed, TRUE)
         needs == Len(bytes) + (IF Len(bytes) % 3 = 0 THEN 0 ELSE 1)
     IN \A targsize \in 0 .. base64_declen(Len(typed)) + 1 :
          base64_decode(typed, targsize) = (IF needs > targsize THEN Refused ELSE bytes)
  /\ IsBytes(typed) =>
       LET n == base64_enclen(Len(typed))
       IN /\ base64_encode(typed, n) = Refused
          /\ Len(base64_encode(typed, n + 1)) = n
          /\ base64_decode(base64_encode(typed, n + 1), Len(typed) + 1) = typed
          /\ \A i \in 0..Len(typed) : Escapes(typed)[i].needed <= Escapes(typed)[i].alloc
          /\ Len(xurl_escape(typed)) < Escapes(typed)[Len(typed)].alloc
          /\ xurl_unescape(xurl_escape(typed)) = typed
  /\ xstr2mac(typed) # Refused =>
       \E form \in {xmac2str(xstr2mac(typed)), xmac2str2(xstr2mac(typed))} : IsPrefix(form, typed)
  /\ xstr2mac(xmac2str(mac)) = mac /\ xstr2mac(xmac2str2(mac)) = mac
  /\ Number(mac) = moves % ((ByteMax + 1) ^ MacLen)
  /\ xmac2type(mac) = "BROADCAST_MAC" <=> Number(mac) + 1 = (ByteMax + 1) ^ MacLen
=============================================================================
