----------------------------- MODULE XTransfer -----------------------------
(* xread, xwrite and xfile_read of src/xfile.c over a kernel that moves as  *)
(* much as it likes, is interrupted, or fails.  The program calls xread or  *)
(* xwrite again and again, each time for what it has not moved yet; byte i  *)
(* of the data is the number i.                                             *)
EXTENDS Integers, Sequences, SequencesExt

CONSTANTS
  DataLen,    \* bytes of the file that is read, and of the data to write
  CallLens,   \* lengths the program asks for
  ReadChunk,  \* 256, what xfile_read reads at once
  MaxErrors   \* bound: reads and writes that fail

ASSUME TransferAssumption ==
  DataLen \in Nat /\ CallLens \subseteq Nat /\ ReadChunk \in Nat /\ MaxErrors \in Nat

VARIABLES
  mode,   \* "xread", "xwrite" or "xfile_read"
  pos,    \* bytes the kernel has given out or taken
  memory, \* what the calls that have returned have put into the program's
          \* memory, or what has arrived where the program writes
  told,  \* bytes moved according to the calls that have returned
  transfer,   \* the call that runs: len left, total, what it has moved; its result
  failures
transferVars == <<mode, pos, memory, told, transfer, failures>>

Idle == [runs |-> FALSE, len |-> 0, total |-> 0, buf |-> <<>>, result |-> 0]
Piece(from, n) == [i \in 1..n |-> from + i]

TransferInit ==
  /\ mode \in {"xread", "xwrite", "xfile_read"}
  /\ pos = 0 /\ memory = <<>> /\ told = 0 /\ transfer = Idle /\ failures = 0

Start ==
  /\ mode # "xfile_read" /\ ~transfer.runs
  /\ \E len \in CallLens :
       /\ mode = "xwrite" => told + len <= DataLen
       /\ transfer' = [Idle EXCEPT !.runs = TRUE, !.len = len]
  /\ UNCHANGED <<mode, pos, memory, told, failures>>

\* The program takes what it is told for what was moved.
Returned(result) ==
  /\ transfer' = [transfer EXCEPT !.runs = FALSE, !.result = result]
  /\ memory' = IF mode = "xread" /\ result > 0 THEN memory \o SubSeq(transfer.buf, 1, result) ELSE memory
  /\ told' = IF result > 0 THEN told + result ELSE told

\* All that was asked for has been moved.
Finish ==
  /\ mode # "xfile_read" /\ transfer.runs /\ transfer.len = 0
  /\ Returned(transfer.total)
  /\ UNCHANGED <<mode, pos, failures>>

\* Mutant: the error is returned though bytes have been moved.
AfterErrorAtOnce(total) == -1

\* A read or a write that an interrupt ends is repeated (no change here); one
\* that fails ends the call, with what it has moved before if that is any.
AfterError(total) == IF total # 0 THEN total ELSE -1

Fail ==
  /\ mode # "xfile_read" /\ transfer.runs /\ transfer.len > 0 /\ failures < MaxErrors
  /\ Returned(AfterError(transfer.total))
  /\ failures' = failures + 1
  /\ UNCHANGED <<mode, pos>>

\* At the end of the file xread returns what it has.
ReadSome ==
  /\ mode = "xread" /\ transfer.runs /\ transfer.len > 0
  /\ \/ /\ pos = DataLen
        /\ Returned(transfer.total)
        /\ UNCHANGED pos
     \/ \E cc \in 1..transfer.len :
          /\ pos + cc <= DataLen
          /\ pos' = pos + cc
          /\ transfer' = [transfer EXCEPT !.buf = @ \o Piece(pos, cc), !.total = @ + cc, !.len = @ - cc]
          /\ UNCHANGED <<memory, told>>
  /\ UNCHANGED <<mode, failures>>

\* What is written starts where the call began, after what it has moved.
WriteSome ==
  /\ mode = "xwrite" /\ transfer.runs /\ transfer.len > 0
  /\ \E cc \in 1..transfer.len :
       /\ memory' = memory \o Piece(told + transfer.total, cc)
       /\ pos' = pos + cc
       /\ transfer' = [transfer EXCEPT !.total = @ + cc, !.len = @ - cc]
  /\ UNCHANGED <<mode, told, failures>>

\* One round of xfile_read, from the second on with a result to extend.  A read
\* that fails, also if only interrupted, is a length of 2^64 - 1 here: the
\* program crashes in the copy.
ReadFile ==
  /\ mode = "xfile_read" /\ transfer.result = 0
  /\ \/ /\ pos = DataLen
        /\ transfer' = [transfer EXCEPT !.result = 1]
        /\ UNCHANGED <<pos, memory, failures>>
     \/ \E len \in 1..ReadChunk :
          /\ pos + len <= DataLen
          /\ pos' = pos + len
          /\ \/ /\ memory' = memory \o Piece(pos, len)
                /\ transfer' = [transfer EXCEPT !.total = @ + len]
                /\ UNCHANGED failures
             \/ /\ failures < MaxErrors /\ failures' = failures + 1
                /\ memory' = <<>>
                /\ transfer' = [transfer EXCEPT !.total = 0, !.result = 2]
     \/ /\ failures < MaxErrors /\ failures' = failures + 1
        /\ transfer' = [transfer EXCEPT !.result = -1]
        /\ UNCHANGED <<pos, memory>>
  /\ UNCHANGED <<mode, told>>

TransferNext == Start \/ Finish \/ Fail \/ ReadSome \/ WriteSome \/ ReadFile

TransferSpec == TransferInit /\ [][TransferNext]_transferVars

-----------------------------------------------------------------------------
\* Whatever is interrupted, cut short or fails, no byte is lost or moved twice:
\* the program has what the kernel gave out, in its order, once; where it
\* writes arrives what it has been told of; and the result of xfile_read is
\* the file and its length (xfile.c:102-196, 347-382).
TransfersAreWhole ==
  /\ mode = "xread" => memory \o (IF transfer.runs THEN transfer.buf ELSE <<>>) = Piece(0, pos)
  /\ mode = "xwrite" =>
       /\ memory = Piece(0, pos)
       /\ pos = told + (IF transfer.runs THEN transfer.total ELSE 0)
  /\ mode = "xfile_read" /\ transfer.result = 1 =>
       memory = Piece(0, DataLen) /\ transfer.total = DataLen
=============================================================================
