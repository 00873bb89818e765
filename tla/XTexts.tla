------------------------------- MODULE XTexts -------------------------------
(* Texts: the strings of src/xcharstr.c, their arrays (src/xarray.c), the   *)
(* options of src/xfcfg/xfcfg.c, and the buffers that all of them fill.  A  *)
(* string is the sequence of its characters before the zero.                *)
EXTENDS Integers, Sequences, FiniteSets, FiniteSetsExt, SequencesExt

CONSTANTS
  TextKeys,   \* the characters of the texts
  MaxText,    \* bound: length of a text
  CharValues, \* 256; the upper half of the characters are negative numbers
  Options,    \* the options of a program: name, kind, default
  OtherLine,  \* a line that stands before or after the text in a file
  LineRoom,   \* 1024, what fgets reads at once, with the zero
  XFCFG_DEFAULT_MAX_LEN,
  StrRoom,    \* 256, the room xarray2str starts with
  XMALLOC_STEP

ASSUME TextSizes == LineRoom > 1 /\ XFCFG_DEFAULT_MAX_LEN > 0 /\ StrRoom > 1 /\ XMALLOC_STEP > 0

VARIABLE text \* what has been typed
textVars == <<text>>

Digit == 1
UnitK == 2
Blank == 3
Equals == 4
Comment == 5
Newline == 6
NULL == <<-1>>

isspace(ch) == ch \in {Blank, Newline}
Prefix(s, n) == SubSeq(s, 1, IF n < Len(s) THEN n ELSE Len(s))
Before(s, ch) == IF Contains(s, ch) THEN SubSeq(s, 1, SelectInSeq(s, LAMBDA c : c = ch) - 1) ELSE s
After(s, ch) == SubSeq(s, Len(Before(s, ch)) + 2, Len(s))

(* xcharstr.c *)
\* In one memory, which may overlap: what is read is what has been written by
\* then.  A copy that meets no zero leaves the memory.
xstrcpy(mem, d, s) ==
  LET after[n \in Nat] == IF n = 0 THEN mem ELSE [after[n - 1] EXCEPT ![d + n - 1] = after[n - 1][s + n - 1]]
      room == Len(mem) - (IF d > s THEN d ELSE s)
      ends == {n \in 0..room : after[n][s + n] = 0}
  IN IF ends = {} THEN NULL ELSE after[Min(ends) + 1]

xstrncat(dst, src, siz) ==
  LET dlen == Len(Prefix(dst, siz))
  IN [dst |-> IF siz = dlen THEN dst ELSE dst \o Prefix(src, siz - dlen - 1),
      len |-> dlen + Len(src)]

\* Mutant: a text that is as long as the room is not cut.
xstrncpyUncut(dst, src, size) ==
  IF size = 0 THEN [dst |-> dst, len |-> 0]
  ELSE LET len == IF Len(src) > size THEN size - 1 ELSE Len(src) IN [dst |-> Prefix(src, len), len |-> len]

xstrncpy(dst, src, size) ==
  IF size = 0 THEN [dst |-> dst, len |-> 0]
  ELSE LET len == IF Len(src) >= size THEN size - 1 ELSE Len(src) IN [dst |-> Prefix(src, len), len |-> len]

os_strlcpy(dest, src, siz) ==
  [dst |-> IF siz = 0 THEN dest ELSE Prefix(src, siz - 1), len |-> Len(src)]

tolower(ch) == IF ch = UnitK THEN Digit ELSE ch
toupper(ch) == IF ch = Digit THEN UnitK ELSE ch
xstrlower(s) == [i \in 1..Len(s) |-> tolower(s[i])]
xstrupper(s) == [i \in 1..Len(s) |-> toupper(s[i])]

Sign(n) == IF n > 0 THEN 1 ELSE IF n < 0 THEN -1 ELSE 0
At(s, i) == IF i > Len(s) THEN 0 ELSE s[i]
strcmp(a, b) ==
  LET differ == {i \in 1 .. Len(a) + Len(b) + 1 : At(a, i) # At(b, i)}
  IN IF differ = {} THEN 0 ELSE Sign(At(a, Min(differ)) - At(b, Min(differ)))
\* The first character as a char, not as strcmp takes it.
First(s) == Sign(IF At(s, 1) >= CharValues \div 2 THEN At(s, 1) - CharValues ELSE At(s, 1))
Compared(a, b, result) ==
  IF a = NULL THEN (IF b = NULL THEN 0 ELSE -First(b))
  ELSE IF b = NULL THEN First(a) ELSE result
xstrcmp(a, b) == Compared(a, b, strcmp(a, b))
xstrcasecmp(a, b) == Compared(a, b, strcmp(xstrlower(a), xstrlower(b)))
xstrncmp(a, b, len) == Compared(a, b, strcmp(Prefix(a, len), Prefix(b, len)))
xstrncasecmp(a, b, len) ==
  Compared(a, b, strcmp(Prefix(xstrlower(a), len), Prefix(xstrlower(b), len)))
xstrlen(s) == IF s = NULL THEN 0 ELSE Len(s)
xindex(s, ch) == IF s = NULL \/ ~Contains(s, ch) THEN 0 ELSE Min({i \in 1..Len(s) : s[i] = ch})
xrindex(s, ch) == IF s = NULL \/ ~Contains(s, ch) THEN 0 ELSE Max({i \in 1..Len(s) : s[i] = ch})

xstrstrip(s) ==
  LET kept == {i \in 1..Len(s) : ~isspace(s[i])}
  IN IF kept = {} THEN <<>> ELSE SubSeq(s, Min(kept), Max(kept))
xstrspace(s) == SelectSeq(s, LAMBDA ch : ~isspace(ch))

\* The call ends with the separator after the last token there is room for.
xstrtok(seps, s, nptrs) ==
  FoldLeft(LAMBDA t, ch :
             IF t.full THEN t
             ELSE IF ch \in seps THEN [t EXCEPT !.full = t.inside /\ Len(t.tptrs) = nptrs, !.inside = FALSE]
             ELSE [t EXCEPT !.inside = TRUE,
                            !.tptrs = IF t.inside THEN [@ EXCEPT ![Len(@)] = Append(@, ch)] ELSE Append(@, <<ch>>)],
           [tptrs |-> <<>>, inside |-> FALSE, full |-> FALSE], s).tptrs

\* Both ends move inward, and the byte of the lower one is kept.
xu8_reverse(memory) ==
  FoldLeft(LAMBDA m, lower : [m EXCEPT ![lower] = m[Len(m) + 1 - lower], ![Len(m) + 1 - lower] = m[lower]],
           memory, [lower \in 1 .. (Len(memory) + 1) \div 2 |-> lower])

(* xarray.c *)
xstr2array(instr, split) ==
  IF instr = <<>> THEN <<>>
  ELSE FoldLeft(LAMBDA array, ch : IF ch \in split THEN Append(array, <<>>)
                                   ELSE [array EXCEPT ![Len(array)] = Append(@, ch)], <<<<>>>>, instr)

\* over is what is missing, at worst, of the room for a word, its separator
\* and the zero: sprintf writes them none the less.
xarray2str(array, split) ==
  FoldLeft(LAMBDA a, word :
             LET len  == Len(word)
                 size == IF a.size - a.offset > len - 1 THEN a.size
                         ELSE IF a.size <= len - 1 THEN a.size + len + 1 ELSE a.size * 2
                 over == a.offset + len + 2 - size
             IN IF len = 0 THEN a
                ELSE [size |-> size, offset |-> a.offset + len + 1, str |-> a.str \o word \o <<split>>,
                      over |-> IF over > a.over THEN over ELSE a.over],
           [size |-> StrRoom, offset |-> 0, str |-> <<>>, over |-> 0], array)

(* xhash.c *)
\* Room for one step more is made when an item does not fit; over says that it
\* did not fit then either.  With nothing stored, free gets the address of the
\* caller's variable, which is wild, and the caller no buffer.
hash_buffer(items) ==
  LET stored ==
        FoldLeft(LAMBDA b, tmp :
                   LET empty == IF Len(tmp) > b.empty THEN b.empty + XMALLOC_STEP ELSE b.empty
                   IN [data |-> b.data \o tmp, empty |-> empty - Len(tmp), over |-> b.over \/ Len(tmp) > empty],
                 [data |-> <<>>, empty |-> XMALLOC_STEP, over |-> FALSE], items)
  IN [data |-> stored.data, over |-> stored.over, wild |-> stored.data = <<>>]

(* xfcfg.c *)
\* A value is a sequence: of the number, or of the characters.
LeadingNumber(s) == CHOOSE n \in 0..Len(s) : (\A i \in 1..n : s[i] = Digit) /\ (n < Len(s) => s[n + 1] # Digit)
xfcfg_parse_bool(s, old) ==
  CASE s = <<Digit>> -> <<1>>
    [] s = <<UnitK>> -> <<0>>
    [] OTHER -> old
xfcfg_parse_str(s, old) == xstrncpy(old, s, XFCFG_DEFAULT_MAX_LEN).dst
\* A text that is no number is none the less a value.
xfcfg_parse_int(s, old) == <<LeadingNumber(s)>>
xfcfg_parse_size(s, old) == <<LeadingNumber(s) * (IF s[Len(s)] = UnitK THEN 1024 ELSE 1)>>
Parsed(kind, s, old) ==
  CASE kind = "bool" -> xfcfg_parse_bool(s, old)
    [] kind = "str" -> xfcfg_parse_str(s, old)
    [] kind = "int" -> xfcfg_parse_int(s, old)
    [] kind = "size" -> xfcfg_parse_size(s, old)

\* fgets: up to the end of the line, or as much as there is room for.
Reads(file) ==
  LET from[i \in Nat] ==
        LET here == Prefix(SubSeq(file, i, Len(file)), LineRoom - 1)
            line == IF Contains(here, Newline) THEN Append(Before(here, Newline), Newline) ELSE here
        IN IF i > Len(file) THEN <<>> ELSE <<line>> \o from[i + Len(line)]
  IN from[1]

WithDefaults ==
  [o \in 1..Len(Options) |->
     IF Options[o].def = <<>> THEN <<>> ELSE Parsed(Options[o].kind, Options[o].def, <<>>)]

WithLine(values, read_buf) ==
  LET line == xstrstrip(Before(read_buf, Comment))
      name == xstrstrip(Before(line, Equals))
      val  == xstrstrip(After(line, Equals))
      named == {o \in 1..Len(Options) : Options[o].name = name}
  IN IF read_buf[1] = Comment \/ ~Contains(line, Equals) \/ val = <<>> \/ named = {} THEN values
     ELSE [values EXCEPT ![Min(named)] = Parsed(Options[Min(named)].kind, val, @)]

OptionsFrom(file) == FoldLeft(WithLine, WithDefaults, Reads(file))

-----------------------------------------------------------------------------
TextsInit == text = <<>>
TypeText(ch) == Len(text) < MaxText /\ text' = Append(text, ch)
TextsNext == \E ch \in TextKeys : TypeText(ch)

-----------------------------------------------------------------------------
Cuts == {[dst |-> SubSeq(text, 1, n), src |-> SubSeq(text, n + 1, Len(text))] : n \in 0..Len(text)}

\* Within its room a copy is all of the text or its beginning, and its result
\* tells which; in one memory a text arrives whole if it goes towards the
\* front, or to a place behind it (xcharstr.c:21-97, os_unix.c:472-494).
CopiesAreCut ==
  /\ \A c \in Cuts : \A siz \in 0 .. MaxText + 1 :
       LET cat == xstrncat(c.dst, c.src, siz)
           cpy == xstrncpy(c.dst, c.src, siz)
           lcpy == os_strlcpy(c.dst, c.src, siz)
       IN /\ Len(c.dst) < siz =>
               /\ Len(cat.dst) < siz /\ IsPrefix(cat.dst, text) /\ IsPrefix(c.dst, cat.dst)
               /\ cat.len < siz <=> cat.dst = text
          /\ siz > 0 => Len(cpy.dst) < siz /\ IsPrefix(cpy.dst, c.src) /\ cpy.len = Len(cpy.dst)
          /\ siz > 0 => lcpy.dst = cpy.dst /\ (lcpy.len < siz <=> lcpy.dst = c.src)
  /\ LET whole == Append(text, 0)
         mem == whole \o [n \in 1..Len(whole) |-> Digit]
     IN \A s \in 1..Len(whole) : \A d \in 1..s \cup {Len(whole) + 1} :
          SubSeq(xstrcpy(mem, d, s), d, d + Len(whole) - s) = SubSeq(whole, s, Len(whole))

\* The order of strings has NULL below every text of characters that are not
\* negative, and turns round when its operands do; words are the same for the
\* three functions that take a text apart, and what was joined comes apart
\* again if nothing was written beyond its room; nothing is when it fits the
\* first room with its separators and zero; a reversal is undone by another
\* (xcharstr.c:148-385, xarray.c:490-624).  The items of a hash are all in its
\* buffer if there are any and none is longer than a step (xhash.c:352-406).
WordsAreKept ==
  LET words == SelectSeq(xstr2array(text, {Blank, Newline}), LAMBDA w : w # <<>>)
      joined == xarray2str(words, Blank)
      buffer == hash_buffer(words)
  IN /\ \A c \in Cuts : \A a \in {c.dst, NULL} :
          /\ xstrcmp(a, c.src) = -xstrcmp(c.src, a)
          /\ xstrcasecmp(a, c.src) = 0 <=> xstrcasecmp(xstrupper(c.src), a) = 0
          /\ \A n \in 1 .. Len(text) : xstrncmp(a, c.src, n) = 0 => xstrncasecmp(a, c.src, n) = 0
          /\ xstrlen(c.src) = 0 => xstrcmp(NULL, c.src) = 0
     /\ (text # <<>> /\ text[1] < CharValues \div 2) => xstrcmp(NULL, text) = -1
     /\ \A ch \in TextKeys :
          xindex(text, ch) = (IF xrindex(text, ch) = 0 THEN 0 ELSE Len(text) + 1 - xrindex(xu8_reverse(text), ch))
     /\ xu8_reverse(xu8_reverse(text)) = text
     /\ xstrspace(xstrstrip(text)) = FlattenSeq(words)
     /\ \A nptrs \in 1 .. MaxText : xstrtok({Blank, Newline}, text, nptrs) = Prefix(words, nptrs)
     /\ (words # <<>> /\ joined.over = 0) => xstr2array(SubSeq(joined.str, 1, joined.offset - 1), {Blank}) = words
     /\ joined.offset + 1 <= StrRoom => joined.over = 0
     /\ (words # <<>> /\ \A i \in 1..Len(words) : Len(words[i]) <= XMALLOC_STEP) =>
          ~buffer.over /\ ~buffer.wild /\ buffer.data = FlattenSeq(words)

\* The lines of a file, in their order, without their ends.
LinesOf(file) ==
  LET ends == <<0>> \o SelectSeq([i \in 1..Len(file) |-> i], LAMBDA i : file[i] = Newline) \o <<Len(file) + 1>>
  IN [k \in 1 .. Len(ends) - 1 |-> SubSeq(file, ends[k] + 1, ends[k + 1] - 1)]

\* A line gives an option a value if both stand, with nothing but spaces
\* around them, on the sides of its first equals sign, before any comment.
GivesOption(line, name, val) ==
  \E e \in 1..Len(line) :
    /\ line[e] = Equals /\ \A i \in 1 .. e - 1 : line[i] \notin {Equals, Comment}
    /\ val # <<>> /\ xstrstrip(SubSeq(line, 1, e - 1)) = name
    /\ xstrstrip(Before(SubSeq(line, e + 1, Len(line)), Comment)) = val

\* An option has the value of the last line that gives it one it can have, or
\* its default, in a file whose lines fit the buffer (xfcfg.c:16-193).
OptionsAreLast ==
  \A file \in {text, OtherLine \o text, text \o <<Newline>> \o OtherLine} :
    LET lines == LinesOf(file)
        values == OptionsFrom(file)
        vals == {SubSeq(file, i, j) : i, j \in 1..Len(file)}
    IN (\A k \in 1..Len(lines) : Len(lines[k]) < LineRoom - 1) =>
       \A o \in 1..Len(Options) :
         LET can(val) == Options[o].kind = "bool" => val \in {<<Digit>>, <<UnitK>>}
             given == {k \in 1..Len(lines) : \E v \in vals : can(v) /\ GivesOption(lines[k], Options[o].name, v)}
         IN values[o] = IF given = {} THEN WithDefaults[o]
                        ELSE Parsed(Options[o].kind,
                               CHOOSE v \in vals : GivesOption(lines[Max(given)], Options[o].name, v), <<>>)

TextsAreKept == CopiesAreCut /\ WordsAreKept /\ OptionsAreLast
=============================================================================
