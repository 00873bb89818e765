-------------------------------- MODULE XCrc --------------------------------
(* The cyclic codes of src/xcrc32.c and src/xcrc8.c, which go through a     *)
(* table byte by byte, and the code of a file that is read in pieces.       *)
EXTENDS Integers, Sequences, SequencesExt, Bitwise

CONSTANTS
  ByteBits,    \* 8
  CrcBits,     \* 32, the bits of crc32_buf
  Poly32,      \* 0xEDB88320, the polynomial of crcTable, its low bit first
  Poly8,       \* 0x07, the polynomial of u8CRC8Table
  CrcFile,     \* the bytes of the file
  CRC_BUFFER_SIZE

ASSUME CrcSizes == ByteBits \in Nat \ {0} /\ CrcBits >= ByteBits /\ CRC_BUFFER_SIZE > 0

VARIABLE crcFile \* the loop of crc32_file: bytes read, *outcrc32, the result
crcVars == <<crcFile>>

ByteValues == 2 ^ ByteBits
Ones == (2 ^ CrcBits) - 1

\* A register after `bits' shifts, to the low end and to the high end.
ShiftedLow(value, bits) ==
  LET after[n \in Nat] ==
        IF n = 0 THEN value
        ELSE LET c == after[n - 1] IN IF c % 2 = 1 THEN (c \div 2) ^^ Poly32 ELSE c \div 2
  IN after[bits]
ShiftedHigh(value, bits) ==
  LET after[n \in Nat] ==
        IF n = 0 THEN value
        ELSE LET c == 2 * after[n - 1]
             IN IF c >= ByteValues THEN (c - ByteValues) ^^ Poly8 ELSE c
  IN after[bits]

crcTable == [i \in 0 .. ByteValues - 1 |-> ShiftedLow(i, ByteBits)]
u8CRC8Table == [i \in 0 .. ByteValues - 1 |-> ShiftedHigh(i, ByteBits)]

crc32_buf(incrc32, buf) ==
  FoldLeft(LAMBDA crc, byte : (crc \div ByteValues) ^^ crcTable[(crc ^^ byte) % ByteValues],
           incrc32 ^^ Ones, buf) ^^ Ones

crc8_buf(data) == FoldLeft(LAMBDA crc, byte : u8CRC8Table[crc ^^ byte], 0, data)

CrcInit == crcFile = [read |-> 0, out |-> 0, error |-> FALSE, result |-> 1]

\* One round of the loop: fread gives a full buffer, less at the end or with
\* an error, whose flag stays.  Only a read of nothing looks at the flag.
CrcRound(n, failing) ==
  LET error == crcFile.error \/ failing
  IN /\ crcFile.result = 1
     /\ crcFile' =
          IF n = 0 THEN [crcFile EXCEPT !.error = error, !.result = IF error THEN -1 ELSE 0]
          ELSE [crcFile EXCEPT !.read = @ + n, !.error = error,
                  !.out = crc32_buf(@, SubSeq(CrcFile, crcFile.read + 1, crcFile.read + n))]
CrcNext ==
  LET left == Len(CrcFile) - crcFile.read
      full == IF left < CRC_BUFFER_SIZE THEN left ELSE CRC_BUFFER_SIZE
  IN CrcRound(full, FALSE) \/ \E n \in 0..full : CrcRound(n, TRUE)

-----------------------------------------------------------------------------
\* The remainder of the division by the polynomial, bit by bit.
Remainder(data) ==
  FoldLeft(LAMBDA crc, byte : ShiftedLow(crc ^^ byte, ByteBits), Ones, data) ^^ Ones
Remainder8(data) == FoldLeft(LAMBDA crc, byte : ShiftedHigh(crc ^^ byte, ByteBits), 0, data)

\* In whatever pieces a file comes, a result is the code of all of it, and a
\* read that fails is reported (xcrc32.c:39-63, 83-137; xcrc8.c:38-84).
CodeOfTheFile ==
  /\ crcFile.out = Remainder(SubSeq(CrcFile, 1, crcFile.read))
  /\ crcFile.result = 0 => crcFile.read = Len(CrcFile) /\ ~crcFile.error
  /\ crc8_buf(SubSeq(CrcFile, 1, crcFile.read)) = Remainder8(SubSeq(CrcFile, 1, crcFile.read))
=============================================================================
