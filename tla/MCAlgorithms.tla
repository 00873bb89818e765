---------------------------- MODULE MCAlgorithms ----------------------------
(* Instances for TLC of the algorithms and of the wrappers of system calls. *)
(* They have no variable in common: each behaviour uses one of them.        *)
EXTENDS XSha1, XCrc, XCalls, XTransfer, XBitmap, XCodes, XTexts, XRandom

CONSTANT Chosen \* the parts that the run is about
VARIABLE part

MCCrcFile == <<9, 3, 15, 0, 12, 7, 1>>

\* The characters of the codes: digits, the escape, padding, a space, a colon.
MCKeyboard == {0, 3, 4, 15, -1, -2, -3}

\* "1 = 1" for a program with an option of every kind.
MCOtherLine == <<1, 4, 1, 6>>
MCOptions ==
  <<[name |-> <<1>>, kind |-> "bool", def |-> <<2>>],
    [name |-> <<2>>, kind |-> "size", def |-> <<>>],
    [name |-> <<1, 1>>, kind |-> "int", def |-> <<1>>],
    [name |-> <<2, 1>>, kind |-> "str", def |-> <<2, 2>>]>>

\* Boxes with all values and with some of them twice.
MCSeeds == {[n \in 0..3 |-> s[n + 1]] : s \in {<<0, 1, 2, 3>>, <<2, 0, 3, 1>>, <<3, 3, 1, 1>>}}

AlgorithmsInit ==
  /\ Sha1Init /\ CrcInit /\ CallsInit /\ TransferInit /\ BitmapInit /\ CodesInit /\ TextsInit /\ RandomInit
  /\ part \in Chosen
  /\ part # "sha1" => keyLen = -1
  /\ part # "calls" => called = "xsocket"
  /\ part # "transfer" => mode = "xread"
  /\ part # "bitmap" => nbits = 1

Sha1Part == part = "sha1" /\ Sha1Next
  /\ UNCHANGED <<crcVars, callVars, transferVars, bitmapVars, codeVars, textVars, randomVars>>
CrcPart == part = "crc" /\ CrcNext
  /\ UNCHANGED <<sha1Vars, callVars, transferVars, bitmapVars, codeVars, textVars, randomVars>>
CallsPart == part = "calls" /\ CallsNext
  /\ UNCHANGED <<sha1Vars, crcVars, transferVars, bitmapVars, codeVars, textVars, randomVars>>
TransferPart == part = "transfer" /\ TransferNext
  /\ UNCHANGED <<sha1Vars, crcVars, callVars, bitmapVars, codeVars, textVars, randomVars>>
BitmapPart == part = "bitmap" /\ BitmapNext
  /\ UNCHANGED <<sha1Vars, crcVars, callVars, transferVars, codeVars, textVars, randomVars>>
CodesPart == part = "codes" /\ CodesNext
  /\ UNCHANGED <<sha1Vars, crcVars, callVars, transferVars, bitmapVars, textVars, randomVars>>
TextsPart == part = "texts" /\ TextsNext
  /\ UNCHANGED <<sha1Vars, crcVars, callVars, transferVars, bitmapVars, codeVars, randomVars>>
RandomPart == part = "random" /\ RandomNext
  /\ UNCHANGED <<sha1Vars, crcVars, callVars, transferVars, bitmapVars, codeVars, textVars>>

AlgorithmsNext ==
  \/ Sha1Part \/ CrcPart \/ CallsPart \/ TransferPart
  \/ BitmapPart \/ CodesPart \/ TextsPart \/ RandomPart

algorithmVars ==
  <<sha1Vars, crcVars, callVars, transferVars, bitmapVars, codeVars, textVars, randomVars>>

\* The sums of a message, of a stream and of a file are the ones the standards
\* give, in whatever pieces they come (xsha1.c, xcrc32.c, xcrc8.c).  (Here and
\* below: a part that is not used stays as it was made.)
SumsAreStandard == part \in {"sha1", "crc"} => DigestsAreStandard /\ CodeOfTheFile

\* Base64, escapes and MACs convert both ways (base64.c, xurl.c, xmac.c).
CodesAreInverse == part = "codes" => CodesInvert

\* Copies, words and options of a text (xcharstr.c, xarray.c, xfcfg.c).
TextsKeepTheirWords == part = "texts" => TextsAreKept
=============================================================================
